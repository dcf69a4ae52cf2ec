-------------------------- MODULE MCHorizonTracking --------------------------
(***************************************************************************)
(* HorizonTracking for TLC: two officers of two tenants and the tenants    *)
(* they are verified for.                                                  *)
(***************************************************************************)
EXTENDS HorizonTracking, FiniteSets, TLC

CONSTANTS alice, bob, aBank, bBank

TwoTenants == [officer \in {alice, bob} |-> IF officer = alice THEN aBank ELSE bBank]

\* Scans in flight are interchangeable, and so are updates (safety runs only).
Alike == Permutations(Scans) \cup Permutations(Requests)

\* At most so many scans and updates are in flight at once; two updates only with
\* each other once a call has failed.  A scan that has nothing to track touches no
\* row and is left to the liveness run.
CONSTANT MaxInFlight
InFlight ==
    {p \in Scans : scan[p].pc # "idle"} \cup {r \in Requests : request[r].pc # "idle"}
FewInFlight ==
    /\ Cardinality(InFlight) <= MaxInFlight
    /\ Requests \subseteq InFlight /\ faults < MaxFaults => InFlight = Requests
    /\ \A p \in Scans : scan[p].pc # "idle" => scan[p].verdicts # NothingAssessed

\* No step and no safety property but TypeOK reads what the console was handed.
WithoutConsole ==
    <<tracker, scan, request, trail, faults, word, overtaken, unrecorded>>
===============================================================================
