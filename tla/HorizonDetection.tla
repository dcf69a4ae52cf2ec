--------------------------- MODULE HorizonDetection ---------------------------
(***************************************************************************)
(* The pure change detection of domain/horizon/detection.py over one row   *)
(* of the corpus freshness ledger (FreshnessRecord in domain/kernel.py).   *)
(*                                                                         *)
(* Abstractions.  A checksum and a version label are members of small sets *)
(* and the empty string is a sentinel of each (NoChecksum, NoVersion).     *)
(* The row's fetched_at/expires_at pair is one number, `left`: how many    *)
(* ticks remain until expires_at, 0 once it is reached.  previous_         *)
(* fetched_at, the url and the citation are carried by the code and read   *)
(* by no decision, so they are left out.  A change id keeps the checksum   *)
(* whole where the code keeps its first 12 hex digits.                     *)
(***************************************************************************)
EXTENDS Integers

CONSTANTS
    NoChecksum,    \* checksum "": nothing was downloaded
    NoVersion,     \* version "": no superseded generation
    NoRecord       \* the ledger has no row for the source

\* kernel.FreshnessStatus.  Only FRESH and FAILED are ever written by the code.
Status == {"fresh", "expired", "missing", "failed"}
NoStatus == "none"      \* previous_status is None

ChangeKind ==
    {"new_source", "content_revised", "version_bump", "withdrawn", "unchanged"}

FreshnessRecord(Versions, Checksums, Left) ==
    [version : Versions,
     checksum : Checksums \cup {NoChecksum},
     status : Status,
     left : Left,
     prevVersion : Versions \cup {NoVersion},
     prevChecksum : Checksums \cup {NoChecksum},
     prevStatus : Status \cup {NoStatus}]

\* A row with no superseded generation, as FreshnessRecord(...) builds it.
NewRecord(version, checksum, status, left) ==
    [version |-> version, checksum |-> checksum, status |-> status,
     left |-> left, prevVersion |-> NoVersion, prevChecksum |-> NoChecksum,
     prevStatus |-> NoStatus]

IsFresh(record) == record.status = "fresh" /\ record.left > 0

HasHistory(record) ==
    record.prevChecksum # NoChecksum \/ record.prevVersion # NoVersion

-------------------------------------------------------------------------------
(* carry_forward: attach the superseded generation to the row to be upserted. *)

Moved(previous, new) ==
    \/ previous.checksum # new.checksum
    \/ previous.version # new.version
    \/ previous.status # new.status

Supersede(previous, new) ==
    [new EXCEPT !.prevVersion = previous.version,
                !.prevChecksum = previous.checksum,
                !.prevStatus = previous.status]

KeepDiffBase(previous, new) ==
    [new EXCEPT !.prevVersion = previous.prevVersion,
                !.prevChecksum = previous.prevChecksum,
                !.prevStatus = previous.prevStatus]

\* Mutant: the diff base advances on every re-fetch, moved or not.
AlwaysAdvance(previous, new) ==
    IF previous = NoRecord THEN new ELSE Supersede(previous, new)

CarryForward(previous, new) ==
    IF previous = NoRecord THEN new
    ELSE IF Moved(previous, new) THEN Supersede(previous, new)
    ELSE KeepDiffBase(previous, new)

-------------------------------------------------------------------------------
(* classify and detect_change. *)

Classify(record) ==
    IF record.status \in {"failed", "missing"} THEN "withdrawn"
    ELSE IF ~HasHistory(record) THEN "new_source"
    ELSE IF record.checksum # record.prevChecksum THEN "content_revised"
    ELSE IF record.version # record.prevVersion THEN "version_bump"
    ELSE "unchanged"

ChangeId(source, record) == <<source, Classify(record), record.checksum>>

\* The changes a whole-ledger diff reports: rows that moved, of sources the
\* registry still describes.
DetectChanges(ledger, registered) ==
    {ChangeId(s, ledger[s]) :
        s \in {t \in DOMAIN ledger \cap registered :
                  ledger[t] # NoRecord /\ Classify(ledger[t]) # "unchanged"}}
===============================================================================
