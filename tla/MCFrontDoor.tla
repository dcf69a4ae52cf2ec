----------------------------- MODULE MCFrontDoor -----------------------------
(***************************************************************************)
(* FrontDoor for TLC.  Every profile is started in an environment in which *)
(* all of its controls work, and in each environment that differs from it  *)
(* in one variable.                                                        *)
(***************************************************************************)
EXTENDS FrontDoor

CONSTANTS Variations   \* how far an environment may be from the working one

\* The identifiers and the names of users, and what a guardrail blocks; a model may
\* repeat an identifier.
Asked   == {{}, {"identifier", "name"}, {"attack"}}
Written == {{}, {"identifier"}, {"attack"}, {"leak"}}
Tenths  == {3, 8}

Relaxed == [floor |-> 0, reviewAll |-> TRUE, always |-> {"checklist"}]

Working(process, profile) ==
  [process |-> process, profile |-> profile,
   guardrail |-> "unset", redaction |-> "unset", routing |-> "unset", grounding |-> "unset",
   template |-> TRUE, console |-> "set", bearer |-> "client", audience |-> "set",
   tenants |-> "set", origins |-> "unset", frames |-> "unset", demo |-> FALSE,
   policy |-> ReferencePolicy]

\* The values one variable may be given instead.
Other(f) ==
  CASE f \in {"guardrail", "redaction", "routing", "grounding"} -> Words
    [] f = "profile"  -> {"unset", "emptied", "unknown"}
    [] f = "template" -> BOOLEAN
    [] f = "console"  -> {"unset", "emptied"}
    [] f = "bearer"   -> {"unset", "emptied", "backend"}
    [] f = "audience" -> {"unset", "emptied"}
    [] f = "tenants"  -> {"unset", "emptied", "malformed"}
    [] f = "origins"  -> {"listed", "wildcard"}
    [] f = "frames"   -> {"emptied", "listed", "wildcard"}
    [] f = "demo"     -> {TRUE}
    [] f = "policy"   -> {Relaxed, [Relaxed EXCEPT !.reviewAll = FALSE],
                          [Relaxed EXCEPT !.always = {}], [Relaxed EXCEPT !.floor = 11]}

\* What only the API reads is varied for the API only.
ApiOnly == {"audience", "tenants", "origins", "frames", "demo"}

Varied(e) == IF e.process = "api" THEN Variations ELSE Variations \ ApiOnly

Near(e) == {e} \union UNION {{[e EXCEPT ![f] = v] : v \in Other(f)} : f \in Varied(e)}

StartedIn == UNION {Near(Working(process, profile)) :
                      process \in {"api", "mcp", "cli", "agent"}, profile \in Profiles}
=============================================================================
