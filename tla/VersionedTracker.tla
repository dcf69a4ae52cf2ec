--------------------------- MODULE VersionedTracker ---------------------------
(***************************************************************************)
(* A table of tracked changes whose rows are read and written by calls of  *)
(* their own, without transactions.  Every write is one of three atomic    *)
(* operations on one version of the row: never a mixture of two versions,  *)
(* never a row without a cause.  A write whose version is not the present  *)
(* one marks its change as raced, so that the history of every other       *)
(* change is a sequence of atomic operations.                              *)
(***************************************************************************)
CONSTANTS
    Changes, Tenants, Verdicts, Statuses, Controls,
    Officers,      \* who decides on a change
    TenantOf,      \* the tenant of each officer
    FirstStatus,   \* the status that each verdict opens a change with
    Scanner,       \* the author of a row on which nobody has decided
    Absent         \* no row

VARIABLES
    row,        \* the present row of each change
    versions,   \* the rows an operation may start from: the present one, those
                \* that operations have read, and none, for a read that failed
    raced       \* changes of which a write replaced another version than its own

vars == <<row, versions, raced>>

Init ==
    /\ row = [c \in Changes |-> Absent]
    /\ versions = [c \in Changes |-> {Absent}]
    /\ raced = {}

\* Versions are forgotten with the operations that read them; none comes back.
Remember ==
    /\ DOMAIN versions' = Changes
    /\ \A c \in Changes :
          /\ {Absent, row'[c]} \subseteq versions'[c]
          /\ versions'[c] \subseteq versions[c] \cup {row'[c]}

Write(c, old, new) ==
    /\ row' = [row EXCEPT ![c] = new]
    /\ old \in versions[c]
    /\ raced' = IF row[c] = old THEN raced ELSE raced \cup {c}
    /\ Remember

\* A tenant's scan opens a change that it believes nobody tracks.
Open(c, tenant, verdict) ==
    Write(c, Absent,
          [tenant |-> tenant, status |-> FirstStatus[verdict], verdict |-> verdict,
           controls |-> {}, updatedBy |-> Scanner])

\* A later scan brings the policy's fields up to date, and nothing else.
Reassess(c, old, verdict) ==
    /\ old # Absent
    /\ Write(c, old, [old EXCEPT !.verdict = verdict])

\* An officer of the row's tenant decides, and may link controls.
Decide(c, old, officer, status, controls) ==
    /\ old # Absent
    /\ TenantOf[officer] = old.tenant
    /\ Write(c, old,
             [old EXCEPT !.status = status, !.updatedBy = officer,
                         !.controls = IF controls = {} THEN @ ELSE controls])

\* An operation ends without a write.
GiveUp ==
    /\ UNCHANGED <<row, raced>>
    /\ Remember

Next ==
    \/ GiveUp
    \/ \E c \in Changes :
          \/ \E tenant \in Tenants, verdict \in Verdicts : Open(c, tenant, verdict)
          \/ \E old \in versions[c], verdict \in Verdicts : Reassess(c, old, verdict)
          \/ \E old \in versions[c], officer \in Officers, status \in Statuses,
                controls \in SUBSET Controls : Decide(c, old, officer, status, controls)

Spec == Init /\ [][Next]_vars
===============================================================================
