---------------------------- MODULE HorizonSystem ----------------------------
(***************************************************************************)
(* The corpus pipeline and the horizon scan that reads its ledger: from a  *)
(* publication to a tracked regulatory change.                             *)
(*                                                                         *)
(* A scan takes one snapshot of the ledger (ledger.all), diffs, scores and *)
(* narrates it, which takes seconds, and then opens an item per change in  *)
(* source order, while refreshes go on writing the ledger.  A tracked item *)
(* is its change id here: races for its fields, tenants and failing calls  *)
(* after the narration are the subject of HorizonTracking.                 *)
(***************************************************************************)
EXTENDS CorpusPipeline

CONSTANT MaxDeaths      \* bound: how many scans die in one behaviour

ASSUME DeathsAssumption == MaxDeaths \in Nat

VARIABLES
    scan,       \* the scan in progress: the changes it has yet to track
    tracked,    \* the change ids the tracker has an item for
    deaths      \* how many more scans may die

horizon == <<scan, tracked, deaths>>
systemVars == <<vars, horizon>>

\* The ids detect_changes can come up with.
Changes == Registered \X (ChangeKind \ {"unchanged"}) \X (Checksums \cup {NoChecksum})

SystemTypeOK ==
    /\ scan \in [pc : {"idle", "track"}, todo : SUBSET Changes]
    /\ tracked \subseteq Changes
    /\ deaths \in 0..MaxDeaths

IdleScan == [pc |-> "idle", todo |-> {}]

SystemInit ==
    /\ Init
    /\ scan = IdleScan
    /\ tracked = {}
    /\ deaths = MaxDeaths

-------------------------------------------------------------------------------
(* HorizonScanService.scan. *)

\* The snapshot and the diff.  A scan of an empty ledger is refused (422).
StartScan ==
    /\ scan.pc = "idle"
    /\ \E s \in Sources : ledger[s] # NoRecord
    /\ scan' = [pc |-> "track", todo |-> DetectChanges(ledger, Registered)]
    /\ UNCHANGED <<vars, tracked, deaths>>

\* The item of a change, opened or refreshed; changes come in source order.
Track(change) ==
    /\ change \in scan.todo
    /\ \A other \in scan.todo : change[1] <= other[1]
    /\ tracked' = tracked \cup {change}
    /\ scan' = [scan EXCEPT !.todo = @ \ {change}]
    /\ UNCHANGED <<vars, deaths>>

FinishScan ==
    /\ scan.pc = "track"
    /\ scan.todo = {}
    /\ scan' = IdleScan
    /\ UNCHANGED <<vars, tracked, deaths>>

\* The process that scans dies; what it had not tracked yet waits for a later scan.
CrashScan ==
    /\ scan.pc = "track"
    /\ deaths > 0
    /\ deaths' = deaths - 1
    /\ scan' = IdleScan
    /\ UNCHANGED <<vars, tracked>>

ScanStep == FinishScan \/ \E change \in Changes : Track(change)

SystemNext ==
    \/ Next /\ UNCHANGED horizon
    \/ StartScan
    \/ ScanStep
    \/ CrashScan

SystemSpec == SystemInit /\ [][SystemNext]_systemVars

\* A scan follows each scheduled refresh (docs/runbook.md:150), so one is started
\* again and again, and the platform keeps it running.
FairSystemSpec ==
    /\ SystemSpec
    /\ \A w \in Workers : WF_systemVars(Proceed(w) /\ UNCHANGED horizon)
    /\ \A w \in Jobs :
           WF_systemVars((StartExpired(w) \/ StartFull(w)) /\ UNCHANGED horizon)
    /\ SF_systemVars(Tick /\ UNCHANGED horizon)
    /\ WF_systemVars(StartScan)
    /\ WF_systemVars(ScanStep)

-------------------------------------------------------------------------------
(* Properties. *)

(***************************************************************************)
(* From the publisher to the tracker: when a publisher settles on a        *)
(* content, a change that names it is tracked in the end, although         *)
(* downloads, the index, the ledger, refresh runs and scans may fail or    *)
(* die on the way, rows may be re-fetched before anyone scans them, and    *)
(* a scan tracks a snapshot that is out of date.  A refused ingest is not  *)
(* among the failures: it breaks this (RealChangeStaysVisible).            *)
(***************************************************************************)
PublicationIsTracked ==
    \A s \in Registered, c \in Checksums :
        <>[](published[s] = c) =>
            <>(\E kind \in ChangeKind \ {"withdrawn"} : <<s, kind, c>> \in tracked)

(***************************************************************************)
(* A change other than a withdrawal names a content its source really      *)
(* served, whatever failed during the refreshes, whatever the ledger's     *)
(* history lost, and however old the snapshot is that a scan tracks.       *)
(***************************************************************************)
TrackedContentWasServed ==
    \A change \in tracked :
        change[2] # "withdrawn" => change[3] \in editions[change[1]]

(***************************************************************************)
(* "CONTENT_REVISED: checksum moved: the instrument was republished"       *)
(* (domain/horizon/models.py:74): a revision is tracked only of a source   *)
(* that served more than one content.                                      *)
(***************************************************************************)
RevisionMeansRepublished ==
    \A change \in tracked :
        change[2] = "content_revised" => editions[change[1]] # {change[3]}
===============================================================================
