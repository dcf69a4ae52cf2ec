---------------------------- MODULE CorpusPipeline ----------------------------
(***************************************************************************)
(* The corpus pipeline (pipelines/ingest.py): jobs refresh the registry's  *)
(* sources into the retrieval index and keep the freshness ledger, while   *)
(* API callers upload documents and re-ingest single stale sources.        *)
(*                                                                         *)
(* An ingest writes two stores one after the other, the index and the      *)
(* ledger, and reads the ledger in between; nothing makes the three calls  *)
(* atomic and any of them can raise.  Each call is an action here, so that *)
(* the steps of several workers interleave and a worker can die between    *)
(* any two.  A call that raises may have been applied all the same (a      *)
(* timeout after the write), which is what `applied` stands for.           *)
(***************************************************************************)
EXTENDS HorizonDetection, FiniteSetsExt

CONSTANTS
    Registered,    \* source ids of the registry, numbers: a job sorts them
    Uploads,       \* source ids of uploaded documents ("upload-<slug>")
    Jobs,          \* refresh runs: the scheduled job and the corpus CLI
    Callers,       \* API workers: uploads
    ReadPath,      \* the callers that ensure_fresh before they answer; nothing
                   \* in the repository does, so {} is the shipped system
    Checksums,     \* contents a publisher or an uploader may serve
    Versions,      \* version labels the registry may carry
    TTL,           \* corpus.ttl_days, in ticks
    Faults,        \* which calls may raise, a subset of FaultKinds
    MaxFaults      \* bound: how many of them raise in one behaviour

FaultKinds == {"fetch", "refuse", "index", "read", "write", "crash"}

Sources == Registered \cup Uploads
Workers == Jobs \cup Callers

ASSUME SourcesAssumption ==
    /\ Registered \cup Uploads \subseteq Nat
    /\ Registered \cap Uploads = {}
ASSUME WorkersAssumption ==
    /\ Jobs \cap Callers = {}
    /\ ReadPath \subseteq Callers
ASSUME SentinelAssumption ==
    /\ NoChecksum \notin Checksums
    /\ NoVersion \notin Versions
    /\ NoRecord \notin FreshnessRecord(Versions, Checksums, Nat)
ASSUME BoundsAssumption ==
    /\ TTL \in Nat \ {0}
    /\ Faults \subseteq FaultKinds
    /\ MaxFaults \in Nat

VARIABLES
    published,   \* what each publisher serves now
    registry,    \* the version label each registry entry carries now
    index,       \* the content the retrieval index holds for each source
    ledger,      \* the freshness ledger
    pc,          \* where each worker is
    todo,        \* target ids the worker still has to ingest
    labels,      \* the registry as the worker loaded it
    doc,         \* the document the worker is ingesting
    previous,    \* the ledger row the worker read for carry_forward
    faults,      \* how many more calls may raise
    editions,    \* history: every content ever served for a source
    lastFresh,   \* history: the content of the last FRESH row of each source
    disturbed    \* history: the sources two ingests of which overlapped, or one
                 \* of which ended without a ledger write

ports == <<index, ledger>>
world == <<published, registry, editions, lastFresh>>
local == <<pc, todo, labels, doc, previous>>
history == <<editions, lastFresh, disturbed>>
vars == <<published, registry, ports, local, faults, history>>

-------------------------------------------------------------------------------
(* Documents, rows and states. *)

\* No document is in hand.
NoDoc == [src |-> -1, version |-> NoVersion, checksum |-> NoChecksum, left |-> 0]

Document ==
    [src : Sources, version : Versions, checksum : Checksums \cup {NoChecksum},
     left : 0..TTL]

\* The worker has loaded no registry.
NoLabels == [s \in Registered |-> NoVersion]

PC == {"idle", "expire", "pick", "index", "roll", "write", "failroll", "failwrite"}

Record == FreshnessRecord(Versions, Checksums, 0..TTL)

TypeOK ==
    /\ published \in [Registered -> Checksums]
    /\ registry \in [Registered -> Versions]
    /\ index \in [Sources -> Checksums \cup {NoChecksum}]
    /\ ledger \in [Sources -> Record \cup {NoRecord}]
    /\ pc \in [Workers -> PC]
    /\ todo \in [Workers -> SUBSET Registered]
    /\ labels \in [Workers -> [Registered -> Versions \cup {NoVersion}]]
    /\ doc \in [Workers -> Document \cup {NoDoc}]
    /\ previous \in [Workers -> Record \cup {NoRecord}]
    /\ faults \in 0..MaxFaults
    /\ editions \in [Sources -> SUBSET Checksums]
    /\ lastFresh \in [Sources -> Checksums \cup {NoChecksum}]
    /\ disturbed \subseteq Sources

Init ==
    /\ published \in [Registered -> Checksums]
    /\ registry \in [Registered -> Versions]
    /\ index = [s \in Sources |-> NoChecksum]
    /\ ledger = [s \in Sources |-> NoRecord]
    /\ pc = [w \in Workers |-> "idle"]
    /\ todo = [w \in Workers |-> {}]
    /\ labels = [w \in Workers |-> NoLabels]
    /\ doc = [w \in Workers |-> NoDoc]
    /\ previous = [w \in Workers |-> NoRecord]
    /\ faults = MaxFaults
    /\ editions = [s \in Sources |->
                      IF s \in Registered THEN {published[s]} ELSE {}]
    /\ lastFresh = [s \in Sources |-> NoChecksum]
    /\ disturbed = {}

\* One more call of this kind raises.
Raises(kind) ==
    /\ kind \in Faults
    /\ faults > 0
    /\ faults' = faults - 1

\* Mutant: a row that expires at this very instant is not listed yet.
StrictlyPast(record) == record.left < 0

\* A row CorpusLedgerPort.list_expired returns: expires_at <= now.
Expired(record) == record.left <= 0

\* FreshnessPolicy.is_stale: no row, or one that is not fresh.
IsStale(s) == ledger[s] # NoRecord => ~IsFresh(ledger[s])

\* Mutant: a source that never got a row is not a target of the job.
NothingMissing == {}

\* The sources of the registry the ledger has no row for.
MissingIds == {s \in Registered : ledger[s] = NoRecord}

\* What refresh_expired re-ingests, were it to look now.
DueForRefresh(s) == s \notin MissingIds => Expired(ledger[s])

-------------------------------------------------------------------------------
(* How a run starts and ends. *)

Begin(w, targets) ==
    /\ pc[w] = "idle"
    /\ todo' = [todo EXCEPT ![w] = targets]
    /\ labels' = [labels EXCEPT ![w] = registry]
    /\ UNCHANGED <<world, ports, doc, previous, faults, disturbed>>

\* refresh_expired loads the registry and reads the known ids ...
StartExpired(w) ==
    /\ w \in Jobs
    /\ Begin(w, MissingIds)
    /\ pc' = [pc EXCEPT ![w] = "expire"]

\* Mutant: an expired row is re-fetched whether or not the registry has it.
RefetchUnlisted(w) ==
    /\ pc[w] = "expire"
    /\ todo' = [todo EXCEPT ![w] = @ \cup
                   {s \in Sources : ledger[s] # NoRecord /\ Expired(ledger[s])}]
    /\ pc' = [pc EXCEPT ![w] = "pick"]
    /\ UNCHANGED <<world, ports, labels, doc, previous, faults, disturbed>>

\* ... and then the expired rows.  A row whose source left the registry, or was
\* uploaded, has nothing to re-fetch and is skipped.
ListExpired(w) ==
    /\ pc[w] = "expire"
    /\ todo' = [todo EXCEPT ![w] = @ \cup
                   {s \in Registered : ledger[s] # NoRecord /\ Expired(ledger[s])}]
    /\ pc' = [pc EXCEPT ![w] = "pick"]
    /\ UNCHANGED <<world, ports, labels, doc, previous, faults, disturbed>>

\* refresh_all: every source of the registry.
StartFull(w) ==
    /\ w \in Jobs
    /\ Begin(w, Registered)
    /\ pc' = [pc EXCEPT ![w] = "pick"]

\* ensure_fresh: one source, if its row is missing or stale.
EnsureFresh(w, s) ==
    /\ w \in ReadPath
    /\ IsStale(s)
    /\ Begin(w, {s})
    /\ pc' = [pc EXCEPT ![w] = "pick"]

\* History: the ingest of s that w starts overlaps another one.
MarkOverlap(w, s) ==
    disturbed' = IF \E u \in Workers \ {w} : doc[u].src = s
                 THEN disturbed \cup {s} ELSE disturbed

\* POST /corpus/documents: the document is already in hand.
Upload(w, s, c, v) ==
    /\ w \in Callers
    /\ pc[w] = "idle"
    /\ todo' = [todo EXCEPT ![w] = {}]
    /\ doc' = [doc EXCEPT ![w] =
                  [src |-> s, version |-> v, checksum |-> c, left |-> TTL]]
    /\ editions' = [editions EXCEPT ![s] = @ \cup {c}]
    /\ pc' = [pc EXCEPT ![w] = "index"]
    /\ MarkOverlap(w, s)
    /\ UNCHANGED <<published, registry, lastFresh, ports, labels, previous, faults>>

Finish(w) ==
    /\ pc[w] = "pick"
    /\ todo[w] = {}
    /\ pc' = [pc EXCEPT ![w] = "idle"]
    /\ labels' = [labels EXCEPT ![w] = NoLabels]
    /\ UNCHANGED <<world, ports, todo, doc, previous, faults, disturbed>>

-------------------------------------------------------------------------------
(* ingest_source and ingest_fetched, one action per call. *)

\* fetch_source: the next target, in id order, with the bytes served now.
Fetch(w) ==
    /\ pc[w] = "pick"
    /\ todo[w] # {}
    /\ LET s == Min(todo[w]) IN
         /\ todo' = [todo EXCEPT ![w] = @ \ {s}]
         /\ doc' = [doc EXCEPT ![w] =
                       [src |-> s, version |-> labels[w][s],
                        checksum |-> published[s], left |-> TTL]]
         /\ MarkOverlap(w, s)
    /\ pc' = [pc EXCEPT ![w] = "index"]
    /\ UNCHANGED <<world, ports, labels, previous, faults>>

\* The document is lost and the failure path begins, with the checksum the
\* caller passes to _record_failure.
GiveUp(w, d, checksum) ==
    /\ doc' = [doc EXCEPT ![w] = [d EXCEPT !.checksum = checksum, !.left = 0]]
    /\ pc' = [pc EXCEPT ![w] = "failroll"]

\* fetch_source raises: publisher down, not 2xx, or HTML in place of the PDF.
FetchFails(w) ==
    /\ pc[w] = "pick"
    /\ todo[w] # {}
    /\ Raises("fetch")
    /\ LET s == Min(todo[w]) IN
         /\ todo' = [todo EXCEPT ![w] = @ \ {s}]
         /\ GiveUp(w, [src |-> s, version |-> labels[w][s],
                       checksum |-> NoChecksum, left |-> 0], NoChecksum)
         /\ MarkOverlap(w, s)
    /\ UNCHANGED <<world, ports, labels, previous>>

\* Extraction, redaction and ingestion.ingest: the index now serves the document.
Index(w) ==
    /\ pc[w] = "index"
    /\ index' = [index EXCEPT ![doc[w].src] = doc[w].checksum]
    /\ pc' = [pc EXCEPT ![w] = "roll"]
    /\ UNCHANGED <<world, ledger, todo, labels, doc, previous, faults, disturbed>>

\* Mutant: the result of ingestion.ingest is not looked at.
IgnoreRefusal(w) ==
    /\ pc[w] = "index"
    /\ Raises("refuse")
    /\ pc' = [pc EXCEPT ![w] = "roll"]
    /\ UNCHANGED <<world, ports, todo, labels, doc, previous, disturbed>>

\* ingestion.ingest answers ok=False: recorded as FAILED with the checksum.
IndexRefused(w) ==
    /\ pc[w] = "index"
    /\ Raises("refuse")
    /\ \E applied \in BOOLEAN :
          index' = IF applied
                   THEN [index EXCEPT ![doc[w].src] = doc[w].checksum]
                   ELSE index
    /\ GiveUp(w, doc[w], doc[w].checksum)
    /\ UNCHANGED <<world, ledger, todo, labels, previous, disturbed>>

\* Extraction, redaction or ingestion.ingest raises.  The local store has by then
\* kept, dropped or replaced the rows of the source.
IndexRaises(w) ==
    /\ pc[w] = "index"
    /\ Raises("index")
    /\ \E held \in {index[doc[w].src], NoChecksum, doc[w].checksum} :
          index' = [index EXCEPT ![doc[w].src] = held]
    /\ GiveUp(w, doc[w], NoChecksum)
    /\ UNCHANGED <<world, ledger, todo, labels, previous, disturbed>>

\* _current_record: the row to be superseded ...
RollForward(w) ==
    /\ pc[w] \in {"roll", "failroll"}
    /\ previous' = [previous EXCEPT ![w] = ledger[doc[w].src]]
    /\ pc' = [pc EXCEPT ![w] = IF @ = "roll" THEN "write" ELSE "failwrite"]
    /\ UNCHANGED <<world, ports, todo, labels, doc, faults, disturbed>>

\* ... or none, when the ledger cannot be read.
RollBlind(w) ==
    /\ pc[w] \in {"roll", "failroll"}
    /\ Raises("read")
    /\ previous' = [previous EXCEPT ![w] = NoRecord]
    /\ pc' = [pc EXCEPT ![w] = IF @ = "roll" THEN "write" ELSE "failwrite"]
    /\ UNCHANGED <<world, ports, todo, labels, doc, disturbed>>

FreshRow(d) == NewRecord(d.version, d.checksum, "fresh", d.left)

\* Mutant: a failed attempt is recorded as if it had succeeded.
FailedAsFresh(d) == NewRecord(d.version, d.checksum, "fresh", 0)

\* Mutant: a failed row is given a whole TTL to live.
FailedForAWhile(d) == NewRecord(d.version, d.checksum, "failed", TTL)

\* _record_failure: already expired, so that the next pass retries it.
FailedRow(d) == NewRecord(d.version, d.checksum, "failed", 0)

\* The row the worker is about to upsert, with the diff base rolled into it.
RolledRow(w) ==
    CarryForward(previous[w],
                 IF pc[w] = "write" THEN FreshRow(doc[w]) ELSE FailedRow(doc[w]))

Upserted(w) == [ledger EXCEPT ![doc[w].src] = RolledRow(w)]

\* The source is done with, one way or the other.
Conclude(w) ==
    /\ doc' = [doc EXCEPT ![w] = NoDoc]
    /\ previous' = [previous EXCEPT ![w] = NoRecord]
    /\ pc' = [pc EXCEPT ![w] = "pick"]
    /\ UNCHANGED <<published, registry, editions, index, todo, labels>>

\* ledger.upsert of the FRESH row.
Write(w) ==
    /\ pc[w] = "write"
    /\ ledger' = Upserted(w)
    /\ lastFresh' = [lastFresh EXCEPT ![doc[w].src] = doc[w].checksum]
    /\ Conclude(w)
    /\ UNCHANGED <<faults, disturbed>>

\* It raises, and the except clause records a failure without the checksum.
WriteRaises(w) ==
    /\ pc[w] = "write"
    /\ Raises("write")
    /\ \/ UNCHANGED <<ledger, lastFresh>>
       \/ /\ ledger' = Upserted(w)
          /\ lastFresh' = [lastFresh EXCEPT ![doc[w].src] = doc[w].checksum]
    /\ GiveUp(w, doc[w], NoChecksum)
    /\ previous' = [previous EXCEPT ![w] = NoRecord]
    /\ UNCHANGED <<published, registry, editions, index, todo, labels, disturbed>>

\* ledger.upsert of the FAILED row.
WriteFailed(w) ==
    /\ pc[w] = "failwrite"
    /\ ledger' = Upserted(w)
    /\ Conclude(w)
    /\ UNCHANGED <<lastFresh, faults, disturbed>>

\* It raises too: logged and swallowed.
WriteFailedRaises(w) ==
    /\ pc[w] = "failwrite"
    /\ Raises("write")
    /\ ledger' \in {ledger, Upserted(w)}
    /\ Conclude(w)
    /\ disturbed' = disturbed \cup {doc[w].src}
    /\ UNCHANGED lastFresh

-------------------------------------------------------------------------------
(* The world around the pipeline. *)

\* The worker's process dies; what it held in memory is gone.
Crash(w) ==
    /\ pc[w] # "idle"
    /\ Raises("crash")
    /\ pc' = [pc EXCEPT ![w] = "idle"]
    /\ todo' = [todo EXCEPT ![w] = {}]
    /\ labels' = [labels EXCEPT ![w] = NoLabels]
    /\ doc' = [doc EXCEPT ![w] = NoDoc]
    /\ previous' = [previous EXCEPT ![w] = NoRecord]
    /\ disturbed' = disturbed \cup ({doc[w].src} \cap Sources)
    /\ UNCHANGED <<world, ports>>

Older(n) == IF n > 0 THEN n - 1 ELSE 0

\* A tick of the clock brings every expiry one tick closer.  An ingest takes less
\* than the TTL: no tick expires a document between its download and its upsert.
Tick ==
    /\ \A w \in Workers : doc[w].left # 1
    /\ ledger' = [s \in Sources |->
                     IF ledger[s] = NoRecord THEN NoRecord
                     ELSE [ledger[s] EXCEPT !.left = Older(@)]]
    /\ doc' = [w \in Workers |-> [doc[w] EXCEPT !.left = Older(@)]]
    /\ UNCHANGED <<world, index, pc, todo, labels, previous, faults, disturbed>>

\* A publisher serves other content.
Republish(s, c) ==
    /\ published[s] # c
    /\ published' = [published EXCEPT ![s] = c]
    /\ editions' = [editions EXCEPT ![s] = @ \cup {c}]
    /\ UNCHANGED <<registry, lastFresh, ports, local, faults, disturbed>>

\* A deployment ships a registry with another version label.
Relabel(s, v) ==
    /\ registry[s] # v
    /\ registry' = [registry EXCEPT ![s] = v]
    /\ UNCHANGED <<published, ports, local, faults, history>>

\* One step of the code in a worker that has started.
Proceed(w) ==
    \/ ListExpired(w)
    \/ Finish(w)
    \/ Fetch(w)
    \/ Index(w)
    \/ RollForward(w)
    \/ Write(w)
    \/ WriteFailed(w)

Fault(w) ==
    \/ FetchFails(w)
    \/ IndexRefused(w)
    \/ IndexRaises(w)
    \/ RollBlind(w)
    \/ WriteRaises(w)
    \/ WriteFailedRaises(w)
    \/ Crash(w)

Start(w) ==
    \/ StartExpired(w)
    \/ StartFull(w)
    \/ \E s \in Registered : EnsureFresh(w, s)
    \/ \E s \in Uploads, c \in Checksums, v \in Versions : Upload(w, s, c, v)

Environment ==
    \/ Tick
    \/ \E s \in Registered, c \in Checksums : Republish(s, c)
    \/ \E s \in Registered, v \in Versions : Relabel(s, v)

Next ==
    \/ \E w \in Workers : Start(w) \/ Proceed(w) \/ Fault(w)
    \/ Environment

Spec == Init /\ [][Next]_vars

\* The platform keeps a started worker running, the scheduler starts a job once
\* it is idle, and the clock ticks for ever: uploads that follow one another
\* without a pause do not stop it.  Nothing obliges a call to fail, a caller to
\* call or a publisher to publish.
FairSpec ==
    /\ Spec
    /\ \A w \in Workers : WF_vars(Proceed(w))
    /\ \A w \in Jobs : WF_vars(StartExpired(w) \/ StartFull(w))
    /\ SF_vars(Tick)

-------------------------------------------------------------------------------
(* Properties. *)

(***************************************************************************)
(* The two notions of staleness in the code agree on every registered      *)
(* source at every instant: what ensure_fresh would refuse to serve        *)
(* (is_stale: no row, not FRESH, or now >= expires_at) is what the next    *)
(* refresh_expired pass re-ingests (no row, or expires_at <= now).  A      *)
(* source on neither side would be served stale, or never be retried.      *)
(***************************************************************************)
StaleIffDue == \A s \in Registered : IsStale(s) <=> DueForRefresh(s)

(***************************************************************************)
(* A row reports UNCHANGED, and so drops out of the horizon, only when it  *)
(* supersedes a failed attempt.  As long as every ingest of a source       *)
(* succeeds its last movement stays detectable, however often identical    *)
(* bytes are re-fetched and whoever else writes the row meanwhile.         *)
(***************************************************************************)
HiddenOnlyAfterFailure ==
    \A s \in Sources :
        ledger[s] # NoRecord /\ Classify(ledger[s]) = "unchanged"
            => ledger[s].prevStatus = "failed"

(***************************************************************************)
(* A CONTENT_REVISED that supersedes a FRESH row is a republication: both  *)
(* checksums were really served for that source, whatever failed on the    *)
(* way and however the workers interleaved.                                *)
(***************************************************************************)
RevisionIsGenuine ==
    \A s \in Sources :
        (/\ ledger[s] # NoRecord
         /\ Classify(ledger[s]) = "content_revised"
         /\ ledger[s].prevStatus = "fresh")
        => {ledger[s].checksum, ledger[s].prevChecksum} \subseteq editions[s]

\* The ledger vouches for bytes the index does not hold.
Drift(s) ==
    /\ ledger[s] # NoRecord
    /\ ledger[s].status = "fresh"
    /\ index[s] # ledger[s].checksum

(***************************************************************************)
(* Between two ingests of a source a FRESH row carries the checksum of     *)
(* what the index serves, whatever was refused, raised or could not be     *)
(* read, unless two ingests of that source overlapped or one ended         *)
(* without a ledger write.  So an "ingested" outcome (the 201 of an        *)
(* upload) can be believed, and a refused ingest never passes for one.     *)
(* Of a source that was disturbed once it says no more: that the two meet  *)
(* again is DriftHeals.                                                    *)
(***************************************************************************)
DriftHasACause ==
    \A s \in Sources :
        Drift(s) => s \in disturbed \/ \E w \in Workers : doc[w].src = s

(***************************************************************************)
(* A change of content stays visible: the ingest that puts a source's row  *)
(* back to FRESH with other bytes than its last FRESH row had (or with its *)
(* first) leaves a row that the horizon scan reports.  ingest.py:183-186   *)
(* promises it: "A byte-identical re-fetch leaves the diff base untouched, *)
(* so a real change stays visible until it is scanned".                    *)
(***************************************************************************)
RealChangeStaysVisible ==
    [][\A s \in Sources :
          lastFresh'[s] # lastFresh[s] => Classify(ledger'[s]) # "unchanged"]_vars

(***************************************************************************)
(* Every source of the registry that is stale is fresh again eventually,   *)
(* although downloads, the index, the ledger and whole runs may fail on    *)
(* the way: a failed row is already expired, so every later pass retries,  *)
(* and a source that never got a row is a target like an expired one.      *)
(***************************************************************************)
StaleIsRefreshed == \A s \in Registered : IsStale(s) ~> ~IsStale(s)

(***************************************************************************)
(* A run that dies, or loses its ledger write, between the index and the   *)
(* ledger leaves the two apart.  For a source of the registry it does not  *)
(* last: the row expires and the next pass writes both again.  This is for *)
(* one refresh run at a time and ReadPath = {}: two that overlap at every  *)
(* expiry could keep them apart.                                           *)
(***************************************************************************)
DriftHeals == \A s \in Registered : Drift(s) ~> ~Drift(s)
===============================================================================
