----------------------------- MODULE Accountable -----------------------------
(***************************************************************************)
(* What the assistant promises of one request after another, whatever the  *)
(* entry, the adapters and the failures: a request is decided once, its    *)
(* audit row says what was decided and is written before anybody outside   *)
(* is asked to review it, it is handed over once at most, and every        *)
(* request ends.  An answer does not end without having been handed over,  *)
(* whatever became of its row; whether an artifact is handed over is left  *)
(* open here (the API says so of a blocked one: ToldRoutedIsRouted).  The  *)
(* row and the review may be lost, never replaced by others.               *)
(***************************************************************************)
EXTENDS Naturals

CONSTANTS Kinds,     \* what can be asked for
          Reviewed   \* the kinds whose results do not end without a hand-off

VARIABLES
  open,     \* a request is being served
  kind,     \* what it asks for
  outcome,  \* what was decided of it, "none" before
  row,      \* the decision its audit row states, "none" without a row
  routing   \* what became of the hand-off

vars == <<open, kind, outcome, row, routing>>

Decided   == {"answered", "blocked", "refused"}
Routed    == {"routed", "failed", "off"}
Artifacts == Kinds \ Reviewed

States(o, k) == CASE o = "answered" /\ k \in Reviewed  -> "allowed"
                  [] o = "answered" /\ k \in Artifacts -> "escalated"
                  [] o = "blocked"                     -> "blocked"
                  [] o = "refused"                     -> "escalated"

Init == ~open /\ kind \in Kinds /\ outcome = "none" /\ row = "none" /\ routing = "not_required"

Open == /\ ~open
        /\ open' = TRUE
        /\ kind' \in Kinds
        /\ UNCHANGED <<outcome, row, routing>>

Decide(o) == /\ open /\ outcome = "none"
             /\ outcome' = o
             /\ row' \in {States(o, kind), "none"}
             /\ UNCHANGED <<open, kind, routing>>

\* The request ends with an exception, and leaves no row.
Break == /\ open /\ outcome = "none"
         /\ outcome' = "failed"
         /\ UNCHANGED <<open, kind, row, routing>>

\* A refusal has been raised, and is not handed over.
Reviewable == outcome \in {"answered", "blocked"} /\ routing = "not_required"
Due        == Reviewable /\ kind \in Reviewed

HandOver == /\ open /\ Reviewable
            /\ routing' \in Routed
            /\ UNCHANGED <<open, kind, outcome, row>>

Close == /\ open /\ outcome # "none" /\ ~Due
         /\ open' = FALSE
         /\ kind' \in Kinds
         /\ outcome' = "none" /\ row' = "none" /\ routing' = "not_required"

Settle == Break \/ (\E o \in Decided : Decide(o)) \/ HandOver \/ Close

Next == Open \/ Settle

Spec == Init /\ [][Next]_vars /\ WF_vars(Settle)
=============================================================================
