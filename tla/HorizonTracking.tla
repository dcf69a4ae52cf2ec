--------------------------- MODULE HorizonTracking ---------------------------
(***************************************************************************)
(* Tracking regulatory changes to closure: horizon scans (domain/horizon/  *)
(* scan_service.py) open or refresh one tracked item per assessed change   *)
(* while officers move the items on (domain/horizon/tracking_service.py).  *)
(*                                                                         *)
(* Both read a row of the shared tracker, compute, and write the whole row *)
(* back; the store (a SQLite table or Firestore) serialises single calls   *)
(* only.  So the read and the write are actions of their own here, and so  *)
(* is every later call: the audit record, and each hand-off to the review  *)
(* console.  Everything before the first tracker call of a scan (ledger    *)
(* diff, policy, control-gap lookup, narration) reads other components and *)
(* ends in a verdict per assessed change, chosen when the scan starts.     *)
(* The audit rows of scans (one each, ESCALATED, best effort, also for a   *)
(* scan refused because the corpus ledger is empty) are not kept.          *)
(***************************************************************************)
EXTENDS Integers, FiniteSetsExt

CONSTANTS
    Principals,       \* verified principals: they start scans
    Officers,         \* the principals that update items as well
    Tenants,
    TenantOf,         \* the verified tenant of each principal
    Changes,          \* change ids, numbers: a scan handles them in order
    Bands,            \* materiality bands
    Controls,         \* control ids a closure may link
    Requestable,      \* statuses that requests ask for
    Scans, Requests,  \* requests in flight: POST /horizon/scan and .../status
    NoItem, NotAssessed, NoPrincipal, NoWord,
    Faults,           \* which calls may raise, a subset of FaultKinds
    MaxFaults         \* bound: how many of them raise in one behaviour

FaultKinds == {"get", "put", "audit", "route", "crash"}

\* ImplementationStatus, and the two statuses no human sets unilaterally.
Status ==
    {"not_started", "in_progress", "implemented", "accepted_risk", "not_applicable"}
ReviewableStatuses == {"implemented", "accepted_risk"}

\* updated_by of a row no officer has touched.
HorizonScan == "horizon-scan"

\* The policy's word on a change: the band of an applicable one, which then has
\* an owner and an SLA, or that it does not apply.
NotApplicable == "not_applicable"
Verdict == Bands \cup {NotApplicable}

ASSUME PrincipalsAssumption ==
    /\ Officers \subseteq Principals
    /\ TenantOf \in [Principals -> Tenants]
    /\ HorizonScan \notin Principals
    /\ NoPrincipal \notin Principals
ASSUME ChangesAssumption == Changes \subseteq Nat
ASSUME VerdictsAssumption ==
    /\ NotApplicable \notin Bands
    /\ NotAssessed \notin Verdict
ASSUME TrackingBoundsAssumption ==
    /\ Requestable \subseteq Status
    /\ Faults \subseteq FaultKinds
    /\ MaxFaults \in Nat

\* ImplementationItem.  `verdict` stands for the policy-derived fields (band,
\* owner, due days); `controls` for all that an officer adds (controls, note).
Item ==
    [tenant : Tenants, status : Status, verdict : Verdict,
     controls : SUBSET Controls, updatedBy : Principals \cup {HorizonScan}]

ASSUME ItemSentinelAssumption == NoItem \notin Item

VARIABLES
    tracker,      \* the tracking store, one row per change id
    scan,         \* the scans in progress
    request,      \* the status updates in progress
    trail,        \* horizon_update_status rows of the audit log
    console,      \* what the human-review console was handed
    faults,       \* how many more calls may raise
    word,         \* history: the last officer's update the store took
    overtaken,    \* history: changes written over a row the writer had not read
    unrecorded    \* history: updates stored whose audit record was lost

stores == <<tracker, trail, console>>
history == <<word, overtaken, unrecorded>>
vars == <<tracker, scan, request, trail, console, faults, word,
          overtaken, unrecorded>>

-------------------------------------------------------------------------------
(* States. *)

Verdicts == [Changes -> Verdict \cup {NotAssessed}]
NothingAssessed == [c \in Changes |-> NotAssessed]

ScanState ==
    [pc : {"idle", "get", "put", "route"},
     actor : Principals \cup {NoPrincipal},
     verdicts : Verdicts,
     todo : SUBSET Changes,
     existing : Item \cup {NoItem}]

IdleScan ==
    [pc |-> "idle", actor |-> NoPrincipal, verdicts |-> NothingAssessed,
     todo |-> {}, existing |-> NoItem]

\* An update asks for a status of a change, and may link controls to it.
Update == [change : Changes, status : Status, actor : Principals]

RequestState ==
    [pc : {"idle", "get", "put", "audit", "route"},
     update : Update \cup {NoWord},
     controls : SUBSET Controls,
     current : Item \cup {NoItem}]

IdleRequest ==
    [pc |-> "idle", update |-> NoWord, controls |-> {}, current |-> NoItem]

ASSUME WordSentinelAssumption == NoWord \notin Update

Review == [change : Changes, tenant : Tenants, maker : Principals,
           about : Status \cup {"assess"}]

TypeOK ==
    /\ tracker \in [Changes -> Item \cup {NoItem}]
    /\ scan \in [Scans -> ScanState]
    /\ request \in [Requests -> RequestState]
    /\ trail \subseteq Update
    /\ console \subseteq Review
    /\ faults \in 0..MaxFaults
    /\ word \in [Changes -> Update \cup {NoWord}]
    /\ overtaken \subseteq Changes
    /\ unrecorded \subseteq Update

Init ==
    /\ tracker = [c \in Changes |-> NoItem]
    /\ scan = [p \in Scans |-> IdleScan]
    /\ request = [r \in Requests |-> IdleRequest]
    /\ trail = {}
    /\ console = {}
    /\ faults = MaxFaults
    /\ word = [c \in Changes |-> NoWord]
    /\ overtaken = {}
    /\ unrecorded = {}

\* One more call of this kind raises.
Raises(kind) ==
    /\ kind \in Faults
    /\ faults > 0
    /\ faults' = faults - 1

\* History: the row written is not the row that was read.
MarkOvertaken(c, seen) ==
    overtaken' = IF tracker[c] # seen THEN overtaken \cup {c} ELSE overtaken

-------------------------------------------------------------------------------
(* HorizonScanService.scan. *)

\* A scan has decided its assessments and turns to the tracker.
StartScan(p, actor, verdicts) ==
    /\ scan[p].pc = "idle"
    /\ scan' = [scan EXCEPT ![p] =
                   [pc |-> "get", actor |-> actor, verdicts |-> verdicts,
                    todo |-> {c \in Changes : verdicts[c] # NotAssessed},
                    existing |-> NoItem]]
    /\ UNCHANGED <<request, stores, faults, history>>

\* _track takes the assessed changes one by one.
Current(p) == Min(scan[p].todo)

\* Mutant: the caller hands its actor over where the tenant belongs.
ActorForTenant(p) == scan[p].actor

TrackedTenant(p) == TenantOf[scan[p].actor]

\* Mutant: the tenant of the row found is not compared.
NobodyForeign(p) == FALSE

Foreign(p) ==
    /\ tracker[Current(p)] # NoItem
    /\ tracker[Current(p)].tenant # TrackedTenant(p)

\* The tracker has the change for another tenant: leave it alone.
SkipForeign(p) ==
    /\ scan[p].pc = "get"
    /\ scan[p].todo # {}
    /\ Foreign(p)
    /\ scan' = [scan EXCEPT ![p].todo = @ \ {Current(p)}]
    /\ UNCHANGED <<request, stores, faults, history>>

GetItem(p) ==
    /\ scan[p].pc = "get"
    /\ scan[p].todo # {}
    /\ ~Foreign(p)
    /\ scan' = [scan EXCEPT ![p].pc = "put",
                            ![p].existing = tracker[Current(p)]]
    /\ UNCHANGED <<request, stores, faults, history>>

\* Mutant: a change whose row cannot be read is left for another scan.
GiveUpOnItem(p) ==
    /\ scan[p].pc = "get"
    /\ scan[p].todo # {}
    /\ Raises("get")
    /\ scan' = [scan EXCEPT ![p].todo = @ \ {Current(p)}]
    /\ UNCHANGED <<request, stores, history>>

\* tracker.get raises: the change is treated as one nobody tracks.
GetItemRaises(p) ==
    /\ scan[p].pc = "get"
    /\ scan[p].todo # {}
    /\ Raises("get")
    /\ scan' = [scan EXCEPT ![p].pc = "put", ![p].existing = NoItem]
    /\ UNCHANGED <<request, stores, history>>

InitialStatus(verdict) ==
    IF verdict = NotApplicable THEN "not_applicable" ELSE "not_started"

\* Mutant: a re-scan starts the item over.
StartOver(p) ==
    [tenant |-> TrackedTenant(p),
     status |-> InitialStatus(scan[p].verdicts[Current(p)]),
     verdict |-> scan[p].verdicts[Current(p)], controls |-> {},
     updatedBy |-> HorizonScan]

\* Mutant: a re-scan keeps the status and signs it.
SignedByScan(p) ==
    LET item == [tenant |-> TrackedTenant(p), verdict |-> scan[p].verdicts[Current(p)],
                 status |-> InitialStatus(scan[p].verdicts[Current(p)]),
                 controls |-> {}, updatedBy |-> HorizonScan]
    IN  IF scan[p].existing = NoItem THEN item
        ELSE [item EXCEPT !.status = scan[p].existing.status,
                          !.controls = scan[p].existing.controls]

\* The item a scan upserts: the policy's fields anew, an officer's kept.
ScannedItem(p) ==
    LET verdict == scan[p].verdicts[Current(p)]
        existing == scan[p].existing
    IN  IF existing = NoItem
        THEN [tenant |-> TrackedTenant(p), status |-> InitialStatus(verdict),
              verdict |-> verdict, controls |-> {}, updatedBy |-> HorizonScan]
        ELSE [existing EXCEPT !.tenant = TrackedTenant(p), !.verdict = verdict]

\* On to the next change, whether or not the upsert went through.
NextChange(p) ==
    scan' = [scan EXCEPT ![p].pc = "get", ![p].existing = NoItem,
                         ![p].todo = @ \ {Current(p)}]

PutItem(p) ==
    /\ scan[p].pc = "put"
    /\ tracker' = [tracker EXCEPT ![Current(p)] = ScannedItem(p)]
    /\ MarkOvertaken(Current(p), scan[p].existing)
    /\ NextChange(p)
    /\ UNCHANGED <<request, trail, console, faults, word, unrecorded>>

\* tracker.upsert raises and was not applied: suppressed.  (Raised after it was
\* applied, it is PutItem.)
PutItemRaises(p) ==
    /\ scan[p].pc = "put"
    /\ Raises("put")
    /\ NextChange(p)
    /\ UNCHANGED <<request, stores, history>>

\* policy.requires_review: routed to an owner, as every applicable change is.
Reviewable(p) == {c \in Changes : scan[p].verdicts[c] \in Bands}

\* All changes were tracked, and audit.record has had its turn.
Audited(p) ==
    /\ scan[p].pc = "get"
    /\ scan[p].todo = {}
    /\ scan' = [scan EXCEPT ![p].pc = "route", ![p].todo = Reviewable(p)]
    /\ UNCHANGED <<request, stores, history>>

AuditScan(p) ==
    /\ Audited(p)
    /\ UNCHANGED faults

\* Mutant: a scan that cannot be audited ends there.
AuditScanAborts(p) ==
    /\ scan[p].pc = "get"
    /\ scan[p].todo = {}
    /\ Raises("audit")
    /\ scan' = [scan EXCEPT ![p] = IdleScan]
    /\ UNCHANGED <<request, stores, history>>

\* audit.record raises: suppressed.
AuditScanRaises(p) ==
    /\ Audited(p)
    /\ Raises("audit")

\* One hand-off to the review console per escalated assessment.
RouteScan(p) ==
    /\ scan[p].pc = "route"
    /\ scan[p].todo # {}
    /\ console' = console \cup
           {[change |-> Current(p), tenant |-> TrackedTenant(p),
             maker |-> scan[p].actor, about |-> "assess"]}
    /\ scan' = [scan EXCEPT ![p].todo = @ \ {Current(p)}]
    /\ UNCHANGED <<tracker, request, trail, faults, history>>

\* review_router.route raises: suppressed, on to the next.
RouteScanRaises(p) ==
    /\ scan[p].pc = "route"
    /\ scan[p].todo # {}
    /\ Raises("route")
    /\ scan' = [scan EXCEPT ![p].todo = @ \ {Current(p)}]
    /\ UNCHANGED <<request, stores, history>>

\* The scan answers its caller.
FinishScan(p) ==
    /\ scan[p].pc = "route"
    /\ scan[p].todo = {}
    /\ scan' = [scan EXCEPT ![p] = IdleScan]
    /\ UNCHANGED <<request, stores, faults, history>>

CrashScan(p) ==
    /\ scan[p].pc # "idle"
    /\ Raises("crash")
    /\ scan' = [scan EXCEPT ![p] = IdleScan]
    /\ UNCHANGED <<request, stores, history>>

-------------------------------------------------------------------------------
(* ImplementationTrackingService.update_status. *)

Submit(r, update, controls) ==
    /\ request[r].pc = "idle"
    /\ request' = [request EXCEPT ![r] =
           [pc |-> "get", update |-> update, controls |-> controls,
            current |-> NoItem]]
    /\ UNCHANGED <<scan, stores, faults, history>>

Answer(r) == request' = [request EXCEPT ![r] = IdleRequest]

\* Mutant: any item that exists may be updated.
Exists(r) == tracker[request[r].update.change] # NoItem

\* get_item: the row exists and belongs to the officer's tenant.
Permitted(r) ==
    /\ tracker[request[r].update.change] # NoItem
    /\ tracker[request[r].update.change].tenant =
           TenantOf[request[r].update.actor]

\* 404, or 403 for another tenant's item.
Deny(r) ==
    /\ request[r].pc = "get"
    /\ ~Permitted(r)
    /\ Answer(r)
    /\ UNCHANGED <<scan, stores, faults, history>>

Load(r) ==
    /\ request[r].pc = "get"
    /\ Permitted(r)
    /\ request' = [request EXCEPT ![r].pc = "put",
                       ![r].current = tracker[request[r].update.change]]
    /\ UNCHANGED <<scan, stores, faults, history>>

\* tracker.get raises: a 500, and nothing happened.
LoadRaises(r) ==
    /\ request[r].pc = "get"
    /\ Raises("get")
    /\ Answer(r)
    /\ UNCHANGED <<scan, stores, history>>

UpdatedItem(r) ==
    [request[r].current EXCEPT
        !.status = request[r].update.status,
        !.updatedBy = request[r].update.actor,
        !.controls = IF request[r].controls # {} THEN request[r].controls ELSE @]

\* The store takes the row, and the officer's word with it.
Save(r) ==
    LET update == request[r].update IN
    /\ tracker' = [tracker EXCEPT ![update.change] = UpdatedItem(r)]
    /\ word' = [word EXCEPT ![update.change] = update]
    /\ MarkOvertaken(update.change, request[r].current)

PutUpdate(r) ==
    /\ request[r].pc = "put"
    /\ Save(r)
    /\ request' = [request EXCEPT ![r].pc = "audit", ![r].current = NoItem]
    /\ UNCHANGED <<scan, trail, console, faults, unrecorded>>

\* tracker.upsert raises, applied or not: a 500, with no audit row either way.
PutUpdateRaises(r) ==
    /\ request[r].pc = "put"
    /\ Raises("put")
    /\ \/ Save(r) /\ unrecorded' = unrecorded \cup {request[r].update}
       \/ UNCHANGED <<tracker, history>>
    /\ Answer(r)
    /\ UNCHANGED <<scan, trail, console>>

\* After the audit record: a hand-off if the status is reviewable, else done.
Escalate(r) ==
    IF request[r].update.status \in ReviewableStatuses
    THEN request' = [request EXCEPT ![r].pc = "route"]
    ELSE Answer(r)

\* Mutant: what goes to the console is not audited here as well.
AuditUnlessReviewed(r) ==
    /\ request[r].pc = "audit"
    /\ trail' = IF request[r].update.status \in ReviewableStatuses
                THEN trail ELSE trail \cup {request[r].update}
    /\ Escalate(r)
    /\ UNCHANGED <<tracker, scan, console, faults, history>>

\* The audit row: ESCALATED for a reviewable status, else ALLOWED.
AuditUpdate(r) ==
    /\ request[r].pc = "audit"
    /\ trail' = trail \cup {request[r].update}
    /\ Escalate(r)
    /\ UNCHANGED <<tracker, scan, console, faults, history>>

\* audit.record raises: suppressed.
AuditUpdateRaises(r) ==
    /\ request[r].pc = "audit"
    /\ Raises("audit")
    /\ unrecorded' = unrecorded \cup {request[r].update}
    /\ Escalate(r)
    /\ UNCHANGED <<scan, stores, word, overtaken>>

RouteUpdate(r) ==
    /\ request[r].pc = "route"
    /\ console' = console \cup
           {[change |-> request[r].update.change,
             tenant |-> TenantOf[request[r].update.actor],
             maker |-> request[r].update.actor,
             about |-> request[r].update.status]}
    /\ Answer(r)
    /\ UNCHANGED <<tracker, scan, trail, faults, history>>

\* review_router.route raises: suppressed.
RouteUpdateRaises(r) ==
    /\ request[r].pc = "route"
    /\ Raises("route")
    /\ Answer(r)
    /\ UNCHANGED <<scan, stores, history>>

CrashRequest(r) ==
    /\ request[r].pc # "idle"
    /\ Raises("crash")
    /\ unrecorded' = IF request[r].pc = "audit"
                     THEN unrecorded \cup {request[r].update} ELSE unrecorded
    /\ Answer(r)
    /\ UNCHANGED <<scan, stores, word, overtaken>>

-------------------------------------------------------------------------------

ScanStep(p) ==
    \/ SkipForeign(p) \/ GetItem(p) \/ PutItem(p) \/ AuditScan(p)
    \/ RouteScan(p) \/ FinishScan(p)

ScanFault(p) ==
    \/ GetItemRaises(p) \/ PutItemRaises(p) \/ AuditScanRaises(p)
    \/ RouteScanRaises(p) \/ CrashScan(p)

RequestStep(r) ==
    Deny(r) \/ Load(r) \/ PutUpdate(r) \/ AuditUpdate(r) \/ RouteUpdate(r)

RequestFault(r) ==
    \/ LoadRaises(r) \/ PutUpdateRaises(r) \/ AuditUpdateRaises(r)
    \/ RouteUpdateRaises(r) \/ CrashRequest(r)

Arrive ==
    \/ \E p \in Scans, actor \in Principals, verdicts \in Verdicts :
           StartScan(p, actor, verdicts)
    \/ \E r \in Requests, update \in Update, controls \in SUBSET Controls :
           /\ update.actor \in Officers
           /\ update.status \in Requestable
           /\ Submit(r, update, controls)

Next ==
    \/ Arrive
    \/ \E p \in Scans : ScanStep(p) \/ ScanFault(p)
    \/ \E r \in Requests : RequestStep(r) \/ RequestFault(r)

Spec == Init /\ [][Next]_vars

\* The platform keeps running what it has started; nobody has to start anything.
FairSpec ==
    /\ Spec
    /\ \A p \in Scans : WF_vars(ScanStep(p))
    /\ \A r \in Requests : WF_vars(RequestStep(r))

-------------------------------------------------------------------------------
(* Properties. *)

(***************************************************************************)
(* An officer's name is only ever on rows of the officer's own tenant,     *)
(* however scans and updates of several tenants interleave and whatever    *)
(* fails: the 403 check of get_item and the skip of foreign rows in _track *)
(* suffice for that, although both are made on a copy of the row.          *)
(***************************************************************************)
OfficersStayInTheirTenant ==
    \A c \in Changes :
        tracker[c] # NoItem /\ tracker[c].updatedBy \in Principals
            => TenantOf[tracker[c].updatedBy] = tracker[c].tenant

(***************************************************************************)
(* What the last officer decided is what the row says, after any number of *)
(* re-scans, unless someone wrote over a row they had not read (a race, or *)
(* a read that failed).  This is what is left of "a human-set status is    *)
(* never overwritten by a re-scan" (scan_service.py:247).                  *)
(***************************************************************************)
LastWordStands ==
    \A c \in Changes \ overtaken :
        word[c] # NoWord =>
            /\ tracker[c] # NoItem
            /\ tracker[c].status = word[c].status
            /\ tracker[c].updatedBy = word[c].actor

(***************************************************************************)
(* An item is closed (implemented, accepted_risk) only in the name of an   *)
(* officer whose ESCALATED audit row says so, is about to be written, or   *)
(* was lost to an outage or a crash.  In particular no scan closes an item *)
(* and no race carries a closure over to someone else's name.              *)
(***************************************************************************)
ClosureLeavesTrail ==
    \A c \in Changes :
        tracker[c] # NoItem /\ tracker[c].status \in ReviewableStatuses =>
            LET closure == [change |-> c, status |-> tracker[c].status,
                            actor |-> tracker[c].updatedBy]
            IN  \/ closure \in trail \cup unrecorded
                \/ \E r \in Requests :
                       request[r].pc = "audit" /\ request[r].update = closure

(***************************************************************************)
(* A tracked change passes to another tenant only in a step that writes    *)
(* over a row its writer had not read: a scan whose copy of the row is not *)
(* the row it replaces, or an officer's update of such a copy.             *)
(***************************************************************************)
OwnershipMovesOnlyByRace ==
    [][\A c \in Changes :
          tracker[c] # NoItem
              => \/ tracker'[c] # NoItem /\ tracker'[c].tenant = tracker[c].tenant
                 \/ \E p \in Scans :
                        /\ scan[p].pc = "put" /\ scan'[p].pc # "put"
                        /\ Current(p) = c
                        /\ scan[p].existing # tracker[c]
                 \/ \E r \in Requests :
                        /\ request[r].pc = "put" /\ request'[r].pc # "put"
                        /\ request[r].update.change = c
                        /\ request[r].current # tracker[c]]_vars

\* The versions of a row that some process has read and may write back.
Held(c) ==
    {scan[p].existing : p \in {q \in Scans : scan[q].pc = "put" /\ Current(q) = c}}
    \cup {request[r].current : r \in
             {q \in Requests : request[q].pc = "put" /\ request[q].update.change = c}}

Table == INSTANCE VersionedTracker WITH
    row <- tracker, raced <- overtaken,
    versions <- [c \in Changes |-> {NoItem, tracker[c]} \cup Held(c)],
    Verdicts <- Verdict, Statuses <- Status,
    FirstStatus <- [verdict \in Verdict |-> InitialStatus(verdict)],
    Scanner <- HorizonScan, Absent <- NoItem

(***************************************************************************)
(* The upserts of _track and update_status write whole rows: each is an    *)
(* assessment or a decision made on one version of the row.  However       *)
(* scans, updates and failed reads interleave, no row mixes the fields of  *)
(* two versions, no officer decides on a row of another tenant, and the    *)
(* table differs from one with transactions by lost updates only.          *)
(***************************************************************************)
RowsAreVersions == Table!Spec

(***************************************************************************)
(* "A human-set status is never overwritten by a re-scan" (scan_service.py *)
(* :247), and "A tracked change is owned by exactly one tenant.  Never     *)
(* overwrite another tenant's row" (:263-264).  Each of the two says more  *)
(* than this: no scan's write takes from a row that an officer has decided *)
(* on both the status and the tenant.                                      *)
(***************************************************************************)
ScansSpareDecidedRows ==
    [][\A c \in Changes :
          tracker[c] # NoItem /\ tracker[c].updatedBy \in Principals
              /\ UNCHANGED request
              => \/ tracker'[c].status = tracker[c].status
                 \/ tracker'[c].tenant = tracker[c].tenant]_vars

(***************************************************************************)
(* "Every assessed change opens a tracked item" (tracking_service.py:3),   *)
(* although the tracker cannot always be read and the audit sink and the   *)
(* console fail.                                                           *)
(***************************************************************************)
AssessedIsTracked ==
    \A p \in Scans, c \in Changes :
        (scan[p].verdicts[c] # NotAssessed) ~> (tracker[c] # NoItem)

(***************************************************************************)
(* Every applicable change a scan assessed reaches the review console in   *)
(* the name of the scan's actor, although the tracker and the audit sink   *)
(* fail on the way: escalation does not depend on either (rule R8).        *)
(***************************************************************************)
EscalationReachesConsole ==
    \A p \in Scans, c \in Changes, actor \in Principals :
        (scan[p].actor = actor /\ scan[p].verdicts[c] \in Bands) ~>
            (\E review \in console :
                /\ review.change = c
                /\ review.maker = actor
                /\ review.about = "assess")
===============================================================================
