------------------------ MODULE HorizonTracking_proofs ------------------------
(***************************************************************************)
(* Proofs about HorizonTracking, for every set of principals, tenants,     *)
(* changes, scans and requests and every number of faults.                 *)
(*                                                                         *)
(* The hard part of each property is what a process holds between its read *)
(* of a row and its write: SnapshotInv says what is still true of that     *)
(* copy although the row itself may have changed hands in between.         *)
(***************************************************************************)
EXTENDS HorizonTracking, LeastElement

\* What a process in a given place has in hand.
InHand ==
    /\ \A p \in Scans :
          /\ scan[p].pc # "idle" => scan[p].actor \in Principals
          /\ scan[p].pc = "put" => scan[p].todo # {}
          /\ scan[p].pc \in {"get", "put"} =>
                \A c \in scan[p].todo : scan[p].verdicts[c] # NotAssessed
    /\ \A r \in Requests :
          /\ request[r].pc # "idle" => request[r].update \in Update
          /\ request[r].pc = "put" => request[r].current \in Item

TypeInv == TypeOK /\ InHand

\* The assumptions of HorizonTracking, by one name.
LEMMA Constants ==
    /\ TenantOf \in [Principals -> Tenants]
    /\ Officers \subseteq Principals
    /\ HorizonScan \notin Principals
    /\ NoPrincipal \notin Principals
    /\ Changes \subseteq Nat
    /\ NotApplicable \notin Bands
    /\ NotAssessed \notin Verdict
    /\ Requestable \subseteq Status
    /\ MaxFaults \in Nat
    /\ NoItem \notin Item
    /\ NoWord \notin Update
  BY PrincipalsAssumption, ChangesAssumption, VerdictsAssumption,
     TrackingBoundsAssumption, ItemSentinelAssumption, WordSentinelAssumption

\* A scan that has changes left works on one of them.
LEMMA CurrentIsLeft ==
    ASSUME TypeOK, NEW p \in Scans, scan[p].todo # {}
    PROVE  Current(p) \in scan[p].todo /\ Current(p) \in Changes
<1>1. scan[p] \in ScanState
  BY DEF TypeOK
<1>2. scan[p].todo \in SUBSET Nat
  BY <1>1, ChangesAssumption DEF ScanState
<1>3. Current(p) \in scan[p].todo
  BY <1>2, MinIsLeast DEF Current
<1> QED
  BY <1>1, <1>3 DEF ScanState

LEMMA ScannedItemType ==
    ASSUME TypeInv, NEW p \in Scans, scan[p].pc = "put"
    PROVE  ScannedItem(p) \in Item
<1>1. scan[p] \in ScanState /\ scan[p].actor \in Principals
  BY DEF TypeInv, TypeOK, InHand
<1>0. scan[p].verdicts[Current(p)] \in Verdict
  BY <1>1, CurrentIsLeft DEF TypeInv, InHand, ScanState, Verdicts
<1>2. TrackedTenant(p) \in Tenants
  BY <1>1, Constants DEF TrackedTenant
<1>3. InitialStatus(scan[p].verdicts[Current(p)]) \in Status
  BY DEF InitialStatus, Status
<1>4. CASE scan[p].existing = NoItem
  BY <1>0, <1>2, <1>3, <1>4 DEF ScannedItem, Item
<1>5. CASE scan[p].existing # NoItem
  <2>1. scan[p].existing \in Item
    BY <1>1, <1>5 DEF ScanState
  <2> QED
    BY <2>1, <1>0, <1>2, <1>5 DEF ScannedItem, Item
<1> QED
  BY <1>4, <1>5

LEMMA UpdatedItemType ==
    ASSUME TypeInv, NEW r \in Requests, request[r].pc = "put"
    PROVE  UpdatedItem(r) \in Item
<1>1. request[r] \in RequestState /\ request[r].update \in Update
      /\ request[r].current \in Item
  BY DEF TypeInv, TypeOK, InHand
<1> QED
  BY <1>1 DEF UpdatedItem, Item, RequestState, Update

\* A scan moves on and nothing else does.
LEMMA ScanMoves ==
    ASSUME TypeInv, NEW p \in Scans, NEW state \in ScanState,
           scan' = [scan EXCEPT ![p] = state],
           UNCHANGED request,
           state.pc # "idle" => state.actor \in Principals,
           state.pc = "put" => state.todo # {},
           state.pc \in {"get", "put"} =>
               \A c \in state.todo : state.verdicts[c] # NotAssessed
    PROVE  scan' \in [Scans -> ScanState] /\ InHand'
BY DEF TypeInv, TypeOK, InHand

\* A request moves on and nothing else does.
LEMMA RequestMoves ==
    ASSUME TypeInv, NEW r \in Requests, NEW state \in RequestState,
           request' = [request EXCEPT ![r] = state],
           UNCHANGED scan,
           state.pc # "idle" => state.update \in Update,
           state.pc = "put" => state.current \in Item
    PROVE  request' \in [Requests -> RequestState] /\ InHand'
BY DEF TypeInv, TypeOK, InHand

LEMMA IdleTypes ==
    /\ IdleScan \in ScanState /\ IdleScan.pc = "idle"
    /\ IdleRequest \in RequestState /\ IdleRequest.pc = "idle"
BY DEF IdleScan, ScanState, IdleRequest, RequestState, Verdicts, NothingAssessed

LEMMA RaisesType == ASSUME TypeOK, NEW kind, Raises(kind) PROVE faults' \in 0..MaxFaults
BY Constants DEF TypeOK, Raises

LEMMA ScanTypes ==
    ASSUME TypeInv, NEW p \in Scans, ScanStep(p) \/ ScanFault(p)
    PROVE  TypeInv'
<1> USE DEF TypeInv, stores, history
<1>0. /\ scan[p] \in ScanState
      /\ scan[p].pc # "idle" => scan[p].actor \in Principals
      /\ scan[p].pc \in {"get", "put"} =>
             \A c \in scan[p].todo : scan[p].verdicts[c] # NotAssessed
  BY DEF TypeOK, InHand
<1>1. CASE SkipForeign(p)
  <2> DEFINE state == [scan[p] EXCEPT !.todo = @ \ {Current(p)}]
  <2>1. state \in ScanState /\ scan' = [scan EXCEPT ![p] = state]
    BY <1>0, <1>1 DEF SkipForeign, ScanState, TypeOK
  <2>2. scan' \in [Scans -> ScanState] /\ InHand'
    BY <2>1, <1>0, <1>1, ScanMoves DEF SkipForeign, ScanState
  <2> QED
    BY <2>2, <1>1 DEF SkipForeign, TypeOK
<1>2. CASE GetItem(p)
  <2> DEFINE state == [scan[p] EXCEPT !.pc = "put", !.existing = tracker[Current(p)]]
  <2>1. state \in ScanState /\ scan' = [scan EXCEPT ![p] = state]
    BY <1>0, <1>2, CurrentIsLeft DEF GetItem, ScanState, TypeOK
  <2>2. scan' \in [Scans -> ScanState] /\ InHand'
    BY <2>1, <1>0, <1>2, ScanMoves DEF GetItem, ScanState
  <2> QED
    BY <2>2, <1>2 DEF GetItem, TypeOK
<1>3. CASE PutItem(p)
  <2> DEFINE state == [scan[p] EXCEPT !.pc = "get", !.existing = NoItem,
                                     !.todo = @ \ {Current(p)}]
  <2>1. state \in ScanState /\ scan' = [scan EXCEPT ![p] = state]
    BY <1>0, <1>3 DEF PutItem, NextChange, ScanState, TypeOK
  <2>2. /\ state.pc = "get" /\ state.actor = scan[p].actor
        /\ state.todo \subseteq scan[p].todo /\ state.verdicts = scan[p].verdicts
    BY <1>0 DEF ScanState
  <2>3. scan[p].pc = "put" /\ UNCHANGED request
    BY <1>3 DEF PutItem
  <2> HIDE DEF state
  <2>4. scan' \in [Scans -> ScanState] /\ InHand'
    BY <2>1, <2>2, <2>3, <1>0, ScanMoves
  <2>5. scan[p].todo # {} /\ ScannedItem(p) \in Item
    BY <1>3, ScannedItemType DEF PutItem, InHand
  <2> QED
    BY <2>4, <2>5, <1>3, CurrentIsLeft DEF PutItem, MarkOvertaken, TypeOK
<1>4. CASE AuditScan(p)
  <2> DEFINE state == [scan[p] EXCEPT !.pc = "route", !.todo = Reviewable(p)]
  <2>1. state \in ScanState /\ scan' = [scan EXCEPT ![p] = state]
    BY <1>0, <1>4 DEF AuditScan, Audited, Reviewable, ScanState, TypeOK
  <2>2. scan' \in [Scans -> ScanState] /\ InHand'
    BY <2>1, <1>0, <1>4, ScanMoves DEF AuditScan, Audited, Reviewable, ScanState
  <2> QED
    BY <2>2, <1>4 DEF AuditScan, Audited, Reviewable, TypeOK
<1>5. CASE RouteScan(p)
  <2> DEFINE state == [scan[p] EXCEPT !.todo = @ \ {Current(p)}]
  <2>1. state \in ScanState /\ scan' = [scan EXCEPT ![p] = state]
    BY <1>0, <1>5 DEF RouteScan, ScanState, TypeOK
  <2>2. scan' \in [Scans -> ScanState] /\ InHand'
    BY <2>1, <1>0, <1>5, ScanMoves DEF RouteScan, ScanState
  <2>3. Current(p) \in Changes /\ TrackedTenant(p) \in Tenants
    BY <1>0, <1>5, CurrentIsLeft, Constants DEF RouteScan, TrackedTenant
  <2>4. console' \subseteq Review
    BY <1>0, <1>5, <2>3 DEF RouteScan, Review, TypeOK
  <2> QED
    BY <2>2, <2>4, <1>5 DEF RouteScan, TypeOK
<1>6. CASE FinishScan(p)
  <2>1. scan' \in [Scans -> ScanState] /\ InHand'
    BY <1>6, IdleTypes, ScanMoves DEF FinishScan
  <2> QED
    BY <2>1, <1>6 DEF FinishScan, TypeOK
<1>7. CASE GetItemRaises(p)
  <2> DEFINE state == [scan[p] EXCEPT !.pc = "put", !.existing = NoItem]
  <2>1. state \in ScanState /\ scan' = [scan EXCEPT ![p] = state]
    BY <1>0, <1>7 DEF GetItemRaises, ScanState, TypeOK
  <2>2. scan' \in [Scans -> ScanState] /\ InHand'
    BY <2>1, <1>0, <1>7, ScanMoves DEF GetItemRaises, ScanState
  <2> QED
    BY <2>2, <1>7, RaisesType DEF GetItemRaises, TypeOK
<1>8. CASE PutItemRaises(p)
  <2> DEFINE state == [scan[p] EXCEPT !.pc = "get", !.existing = NoItem,
                                     !.todo = @ \ {Current(p)}]
  <2>1. state \in ScanState /\ scan' = [scan EXCEPT ![p] = state]
    BY <1>0, <1>8 DEF PutItemRaises, NextChange, ScanState, TypeOK
  <2>2. /\ state.pc = "get" /\ state.actor = scan[p].actor
        /\ state.todo \subseteq scan[p].todo /\ state.verdicts = scan[p].verdicts
    BY <1>0 DEF ScanState
  <2>3. scan[p].pc = "put" /\ UNCHANGED request
    BY <1>8 DEF PutItemRaises
  <2> HIDE DEF state
  <2>4. scan' \in [Scans -> ScanState] /\ InHand'
    BY <2>1, <2>2, <2>3, <1>0, ScanMoves
  <2> QED
    BY <2>4, <1>8, RaisesType DEF PutItemRaises, TypeOK
<1>9. CASE AuditScanRaises(p)
  <2> DEFINE state == [scan[p] EXCEPT !.pc = "route", !.todo = Reviewable(p)]
  <2>1. state \in ScanState /\ scan' = [scan EXCEPT ![p] = state]
    BY <1>0, <1>9 DEF AuditScanRaises, Audited, Reviewable, ScanState, TypeOK
  <2>2. scan' \in [Scans -> ScanState] /\ InHand'
    BY <2>1, <1>0, <1>9, ScanMoves DEF AuditScanRaises, Audited, Reviewable, ScanState
  <2> QED
    BY <2>2, <1>9, RaisesType DEF AuditScanRaises, Audited, Reviewable, TypeOK
<1>10. CASE RouteScanRaises(p)
  <2> DEFINE state == [scan[p] EXCEPT !.todo = @ \ {Current(p)}]
  <2>1. state \in ScanState /\ scan' = [scan EXCEPT ![p] = state]
    BY <1>0, <1>10 DEF RouteScanRaises, ScanState, TypeOK
  <2>2. scan' \in [Scans -> ScanState] /\ InHand'
    BY <2>1, <1>0, <1>10, ScanMoves DEF RouteScanRaises, ScanState
  <2> QED
    BY <2>2, <1>10, RaisesType DEF RouteScanRaises, TypeOK
<1>11. CASE CrashScan(p)
  <2>1. scan' \in [Scans -> ScanState] /\ InHand'
    BY <1>11, IdleTypes, ScanMoves DEF CrashScan
  <2> QED
    BY <2>1, <1>11, RaisesType DEF CrashScan, TypeOK
<1> QED
  BY <1>1, <1>2, <1>3, <1>4, <1>5, <1>6, <1>7, <1>8, <1>9, <1>10, <1>11
     DEF ScanStep, ScanFault

\* Where an update goes after its audit record.
LEMMA EscalateTypes ==
    ASSUME TypeInv, NEW r \in Requests, request[r].pc = "audit", Escalate(r),
           UNCHANGED scan
    PROVE  request' \in [Requests -> RequestState] /\ InHand'
<1>0. request[r] \in RequestState /\ request[r].update \in Update
  BY DEF TypeInv, TypeOK, InHand
<1>1. CASE request[r].update.status \in ReviewableStatuses
  <2> DEFINE state == [request[r] EXCEPT !.pc = "route"]
  <2>1. state \in RequestState /\ request' = [request EXCEPT ![r] = state]
    BY <1>0, <1>1 DEF Escalate, RequestState, TypeInv, TypeOK
  <2> QED
    BY <2>1, <1>0, RequestMoves DEF RequestState
<1>2. CASE request[r].update.status \notin ReviewableStatuses
  BY <1>2, IdleTypes, RequestMoves DEF Escalate, Answer
<1> QED
  BY <1>1, <1>2

\* What saving an update does to the store and the histories.
LEMMA SaveTypes ==
    ASSUME TypeInv, NEW r \in Requests, request[r].pc = "put", Save(r)
    PROVE  /\ tracker' \in [Changes -> Item \cup {NoItem}]
           /\ word' \in [Changes -> Update \cup {NoWord}]
           /\ overtaken' \subseteq Changes
<1>1. request[r].update \in Update /\ UpdatedItem(r) \in Item
  BY UpdatedItemType DEF TypeInv, InHand
<1>2. request[r].update.change \in Changes
  BY <1>1 DEF Update
<1> QED
  BY <1>1, <1>2 DEF Save, MarkOvertaken, TypeInv, TypeOK

LEMMA RequestTypes ==
    ASSUME TypeInv, NEW r \in Requests, RequestStep(r) \/ RequestFault(r)
    PROVE  TypeInv'
<1> USE DEF TypeInv, stores, history
<1>0. /\ request[r] \in RequestState
      /\ request[r].pc # "idle" =>
             request[r].update \in Update /\ request[r].update.change \in Changes
  BY DEF TypeOK, InHand, Update
<1>1. CASE Deny(r)
  <2>1. request' \in [Requests -> RequestState] /\ InHand'
    BY <1>1, IdleTypes, RequestMoves DEF Deny, Answer
  <2> QED
    BY <2>1, <1>1 DEF Deny, TypeOK
<1>2. CASE Load(r)
  <2> DEFINE current == tracker[request[r].update.change]
             state == [request[r] EXCEPT !.pc = "put", !.current = current]
  <2>1. current \in Item
    BY <1>0, <1>2 DEF Load, Permitted, TypeOK
  <2>2. state \in RequestState /\ request' = [request EXCEPT ![r] = state]
    BY <1>0, <1>2, <2>1 DEF Load, RequestState, TypeOK
  <2>3. request' \in [Requests -> RequestState] /\ InHand'
    BY <2>1, <2>2, <1>0, <1>2, RequestMoves DEF Load, RequestState
  <2> QED
    BY <2>3, <1>2 DEF Load, TypeOK
<1>3. CASE PutUpdate(r)
  <2> DEFINE state == [request[r] EXCEPT !.pc = "audit", !.current = NoItem]
  <2>1. state \in RequestState /\ request' = [request EXCEPT ![r] = state]
    BY <1>0, <1>3 DEF PutUpdate, RequestState, TypeOK
  <2>2. request' \in [Requests -> RequestState] /\ InHand'
    BY <2>1, <1>0, <1>3, RequestMoves DEF PutUpdate, RequestState
  <2> QED
    BY <2>2, <1>3, SaveTypes DEF PutUpdate, TypeOK
<1>4. CASE AuditUpdate(r)
  <2>1. request' \in [Requests -> RequestState] /\ InHand'
    BY <1>4, EscalateTypes DEF AuditUpdate
  <2> QED
    BY <2>1, <1>0, <1>4 DEF AuditUpdate, TypeOK
<1>5. CASE RouteUpdate(r)
  <2>1. request' \in [Requests -> RequestState] /\ InHand'
    BY <1>5, IdleTypes, RequestMoves DEF RouteUpdate, Answer
  <2>2. console' \subseteq Review
    BY <1>0, <1>5, Constants DEF RouteUpdate, Review, Update, TypeOK
  <2> QED
    BY <2>1, <2>2, <1>5 DEF RouteUpdate, TypeOK
<1>6. CASE LoadRaises(r)
  <2>1. request' \in [Requests -> RequestState] /\ InHand'
    BY <1>6, IdleTypes, RequestMoves DEF LoadRaises, Answer
  <2> QED
    BY <2>1, <1>6, RaisesType DEF LoadRaises, TypeOK
<1>7. CASE PutUpdateRaises(r)
  <2>1. request' \in [Requests -> RequestState] /\ InHand'
    BY <1>7, IdleTypes, RequestMoves DEF PutUpdateRaises, Answer
  <2>2. CASE Save(r) /\ unrecorded' = unrecorded \cup {request[r].update}
    BY <2>1, <2>2, <1>0, <1>7, SaveTypes, RaisesType DEF PutUpdateRaises, TypeOK
  <2>3. CASE UNCHANGED <<tracker, history>>
    BY <2>1, <2>3, <1>7, RaisesType DEF PutUpdateRaises, TypeOK
  <2> QED
    BY <2>2, <2>3, <1>7 DEF PutUpdateRaises
<1>8. CASE AuditUpdateRaises(r)
  <2>1. request' \in [Requests -> RequestState] /\ InHand'
    BY <1>8, EscalateTypes DEF AuditUpdateRaises
  <2> QED
    BY <2>1, <1>0, <1>8, RaisesType DEF AuditUpdateRaises, TypeOK
<1>9. CASE RouteUpdateRaises(r)
  <2>1. request' \in [Requests -> RequestState] /\ InHand'
    BY <1>9, IdleTypes, RequestMoves DEF RouteUpdateRaises, Answer
  <2> QED
    BY <2>1, <1>9, RaisesType DEF RouteUpdateRaises, TypeOK
<1>10. CASE CrashRequest(r)
  <2>1. request' \in [Requests -> RequestState] /\ InHand'
    BY <1>10, IdleTypes, RequestMoves DEF CrashRequest, Answer
  <2> QED
    BY <2>1, <1>10, <1>0, RaisesType DEF CrashRequest, TypeOK
<1> QED
  BY <1>1, <1>2, <1>3, <1>4, <1>5, <1>6, <1>7, <1>8, <1>9, <1>10
     DEF RequestStep, RequestFault

LEMMA ArriveTypes == ASSUME TypeInv, Arrive PROVE TypeInv'
<1> USE DEF TypeInv, stores, history
<1>1. ASSUME NEW p \in Scans, NEW actor \in Principals, NEW verdicts \in Verdicts,
             StartScan(p, actor, verdicts)
      PROVE  TypeInv'
  <2> DEFINE state == [pc |-> "get", actor |-> actor, verdicts |-> verdicts,
                       todo |-> {c \in Changes : verdicts[c] # NotAssessed},
                       existing |-> NoItem]
  <2>1. state \in ScanState
    BY DEF ScanState
  <2>2. scan' \in [Scans -> ScanState] /\ InHand'
    BY <2>1, <1>1, ScanMoves DEF StartScan
  <2> QED
    BY <2>2, <1>1 DEF StartScan, TypeOK
<1>2. ASSUME NEW r \in Requests, NEW update \in Update,
             NEW controls \in SUBSET Controls, Submit(r, update, controls)
      PROVE  TypeInv'
  <2> DEFINE state == [pc |-> "get", update |-> update, controls |-> controls,
                       current |-> NoItem]
  <2>1. state \in RequestState
    BY DEF RequestState
  <2>2. request' \in [Requests -> RequestState] /\ InHand'
    BY <2>1, <1>2, RequestMoves DEF Submit
  <2> QED
    BY <2>2, <1>2 DEF Submit, TypeOK
<1> QED
  BY <1>1, <1>2 DEF Arrive

LEMMA TypeInvInitially == ASSUME Init PROVE TypeInv
BY IdleTypes, Constants DEF Init, TypeInv, TypeOK, InHand

LEMMA TypeInvStep == ASSUME TypeInv, [Next]_vars PROVE TypeInv'
<1>1. CASE UNCHANGED vars
  BY <1>1 DEF vars, TypeInv, TypeOK, InHand
<1> QED
  BY <1>1, ArriveTypes, ScanTypes, RequestTypes DEF Next

LEMMA TypesHold == Spec => []TypeInv
<1>1. Init => TypeInv
  BY TypeInvInitially
<1>2. TypeInv /\ [Next]_vars => TypeInv'
  BY TypeInvStep
<1> QED
  BY <1>1, <1>2, PTL DEF Spec

(***************************************************************************)
(* Type correctness: every row, process and record is what the models of   *)
(* domain/horizon/models.py say it is.                                     *)
(***************************************************************************)
THEOREM TypeCorrect == Spec => []TypeOK
<1>1. TypeInv => TypeOK
  BY DEF TypeInv
<1> QED
  BY <1>1, TypesHold, PTL

-------------------------------------------------------------------------------
(* Tenants. *)

\* An officer named on the item belongs to the item's tenant.
OwnOfficer(item) ==
    item.updatedBy \in Principals => TenantOf[item.updatedBy] = item.tenant

\* What still holds of the copy of a row between its read and its write.
SnapshotInv ==
    /\ \A p \in Scans : scan[p].pc = "put" /\ scan[p].existing # NoItem =>
          /\ scan[p].existing.tenant = TenantOf[scan[p].actor]
          /\ OwnOfficer(scan[p].existing)
    /\ \A r \in Requests : request[r].pc = "put" =>
          request[r].current.tenant = TenantOf[request[r].update.actor]

TenantInv == OfficersStayInTheirTenant /\ SnapshotInv

\* Of the scan's steps only GetItem takes a copy, and only PutItem writes.
LEMMA ScanTenants ==
    ASSUME TypeInv, TenantInv, NEW p \in Scans, ScanStep(p) \/ ScanFault(p)
    PROVE  TenantInv'
<1> USE DEF TypeInv, TenantInv, stores
<1>0. scan \in [Scans -> ScanState] /\ scan[p] \in ScanState
  BY DEF TypeOK
<1>1. CASE GetItem(p)
  <2>1. CASE tracker[Current(p)] = NoItem
    BY <1>0, <1>1, <2>1 DEF GetItem, SnapshotInv, OfficersStayInTheirTenant, ScanState
  <2>2. CASE tracker[Current(p)] # NoItem
    <3>1. Current(p) \in Changes
      BY <1>1, CurrentIsLeft DEF GetItem
    <3>2. /\ OwnOfficer(tracker[Current(p)])
          /\ tracker[Current(p)].tenant = TenantOf[scan[p].actor]
      BY <1>1, <2>2, <3>1
         DEF GetItem, Foreign, TrackedTenant, OwnOfficer, OfficersStayInTheirTenant
    <3> QED
      BY <1>0, <1>1, <3>2 DEF GetItem, SnapshotInv, OfficersStayInTheirTenant, ScanState
  <2> QED
    BY <2>1, <2>2
<1>2. CASE PutItem(p)
  <2>1. SnapshotInv'
    BY <1>0, <1>2 DEF PutItem, NextChange, SnapshotInv, ScanState
  <2>2. OwnOfficer(ScannedItem(p))
    <3>1. CASE scan[p].existing = NoItem
      BY <3>1, Constants DEF ScannedItem, OwnOfficer
    <3>2. CASE scan[p].existing # NoItem
      <4>1. scan[p].existing \in Item
        BY <1>0, <3>2 DEF ScanState
      <4>2. /\ ScannedItem(p).updatedBy = scan[p].existing.updatedBy
            /\ ScannedItem(p).tenant = TenantOf[scan[p].actor]
        BY <3>2, <4>1 DEF ScannedItem, TrackedTenant, Item
      <4> QED
        BY <1>2, <3>2, <4>2 DEF PutItem, SnapshotInv, OwnOfficer
    <3> QED
      BY <3>1, <3>2
  <2>3. OfficersStayInTheirTenant'
    BY <1>2, <2>2 DEF PutItem, OfficersStayInTheirTenant, OwnOfficer, TypeOK
  <2> QED
    BY <2>1, <2>3
<1>3. CASE SkipForeign(p)
  BY <1>0, <1>3 DEF SkipForeign, SnapshotInv, OfficersStayInTheirTenant, ScanState
<1>4. CASE AuditScan(p)
  BY <1>0, <1>4 DEF AuditScan, Audited, SnapshotInv, OfficersStayInTheirTenant, ScanState
<1>5. CASE RouteScan(p)
  BY <1>0, <1>5 DEF RouteScan, SnapshotInv, OfficersStayInTheirTenant, ScanState
<1>6. CASE FinishScan(p)
  BY <1>0, <1>6 DEF FinishScan, IdleScan, SnapshotInv, OfficersStayInTheirTenant, ScanState
<1>7. CASE GetItemRaises(p)
  BY <1>0, <1>7 DEF GetItemRaises, SnapshotInv, OfficersStayInTheirTenant, ScanState
<1>8. CASE PutItemRaises(p)
  BY <1>0, <1>8 DEF PutItemRaises, NextChange, SnapshotInv, OfficersStayInTheirTenant, ScanState
<1>9. CASE AuditScanRaises(p)
  BY <1>0, <1>9 DEF AuditScanRaises, Audited, SnapshotInv, OfficersStayInTheirTenant, ScanState
<1>10. CASE RouteScanRaises(p)
  BY <1>0, <1>10 DEF RouteScanRaises, SnapshotInv, OfficersStayInTheirTenant, ScanState
<1>11. CASE CrashScan(p)
  BY <1>0, <1>11 DEF CrashScan, IdleScan, SnapshotInv, OfficersStayInTheirTenant, ScanState
<1> QED
  BY <1>1, <1>2, <1>3, <1>4, <1>5, <1>6, <1>7,
     <1>8, <1>9, <1>10, <1>11 DEF ScanStep, ScanFault

\* Of the request's steps only Load takes a copy, and only Save writes.
LEMMA RequestTenants ==
    ASSUME TypeInv, TenantInv, NEW r \in Requests, RequestStep(r) \/ RequestFault(r)
    PROVE  TenantInv'
<1> USE DEF TypeInv, TenantInv, stores
<1>0. request \in [Requests -> RequestState] /\ request[r] \in RequestState
  BY DEF TypeOK
<1>1. ASSUME request[r].pc = "put", Save(r), UNCHANGED scan,
             \/ request' = [request EXCEPT ![r] = IdleRequest]
             \/ request' = [request EXCEPT ![r].pc = "audit", ![r].current = NoItem]
      PROVE  TenantInv'
  <2>1. request[r].update \in Update /\ request[r].current \in Item
    BY <1>1 DEF InHand
  <2>2. /\ UpdatedItem(r).updatedBy = request[r].update.actor
        /\ UpdatedItem(r).tenant = request[r].current.tenant
    BY <2>1 DEF UpdatedItem, Item, Update
  <2>3. OwnOfficer(UpdatedItem(r))
    BY <1>1, <2>2 DEF OwnOfficer, SnapshotInv
  <2>4. OfficersStayInTheirTenant'
    BY <1>1, <2>3 DEF Save, OfficersStayInTheirTenant, OwnOfficer, TypeOK
  <2>5. SnapshotInv'
    BY <1>0, <1>1 DEF SnapshotInv, RequestState, IdleRequest
  <2> QED
    BY <2>4, <2>5
<1>2. CASE PutUpdate(r)
  BY <1>1, <1>2 DEF PutUpdate
<1>3. CASE PutUpdateRaises(r)
  <2>1. CASE Save(r)
    BY <1>1, <1>3, <2>1 DEF PutUpdateRaises, Answer
  <2>2. CASE UNCHANGED tracker
    BY <1>0, <1>3, <2>2 DEF PutUpdateRaises, Answer, IdleRequest, RequestState,
                            SnapshotInv, OfficersStayInTheirTenant
  <2> QED
    BY <1>3, <2>1, <2>2 DEF PutUpdateRaises
<1>4. CASE Load(r)
  <2>1. request[r].update.change \in Changes
    BY <1>4 DEF Load, InHand, Update
  <2> QED
    BY <1>0, <1>4, <2>1 DEF Load, Permitted, RequestState, SnapshotInv,
                            OfficersStayInTheirTenant
<1>5. CASE Deny(r)
  BY <1>0, <1>5 DEF Deny, Answer, IdleRequest, RequestState,
                  SnapshotInv, OfficersStayInTheirTenant
<1>6. CASE AuditUpdate(r)
  BY <1>0, <1>6 DEF AuditUpdate, Escalate, Answer, IdleRequest, RequestState,
                  SnapshotInv, OfficersStayInTheirTenant
<1>7. CASE RouteUpdate(r)
  BY <1>0, <1>7 DEF RouteUpdate, Answer, IdleRequest, RequestState,
                  SnapshotInv, OfficersStayInTheirTenant
<1>8. CASE LoadRaises(r)
  BY <1>0, <1>8 DEF LoadRaises, Answer, IdleRequest, RequestState,
                  SnapshotInv, OfficersStayInTheirTenant
<1>9. CASE AuditUpdateRaises(r)
  BY <1>0, <1>9 DEF AuditUpdateRaises, Escalate, Answer, IdleRequest, RequestState,
                  SnapshotInv, OfficersStayInTheirTenant
<1>10. CASE RouteUpdateRaises(r)
  BY <1>0, <1>10 DEF RouteUpdateRaises, Answer, IdleRequest, RequestState,
                  SnapshotInv, OfficersStayInTheirTenant
<1>11. CASE CrashRequest(r)
  BY <1>0, <1>11 DEF CrashRequest, Answer, IdleRequest, RequestState,
                  SnapshotInv, OfficersStayInTheirTenant
<1> QED
  BY <1>2, <1>3, <1>4, <1>5, <1>6, <1>7, <1>8, <1>9, <1>10, <1>11
     DEF RequestStep, RequestFault

LEMMA ArriveTenants == ASSUME TypeInv, TenantInv, Arrive PROVE TenantInv'
BY DEF Arrive, StartScan, Submit, stores, TypeInv, TypeOK, TenantInv, SnapshotInv,
       OfficersStayInTheirTenant, ScanState, RequestState

LEMMA TenantsHold == Spec => [](TypeInv /\ TenantInv)
<1>1. Init => TypeInv /\ TenantInv
  BY TypeInvInitially DEF Init, TenantInv, SnapshotInv, OfficersStayInTheirTenant,
                          IdleScan, IdleRequest
<1>2. TypeInv /\ TenantInv /\ [Next]_vars => (TypeInv /\ TenantInv)'
  <2> SUFFICES ASSUME TypeInv, TenantInv, [Next]_vars PROVE (TypeInv /\ TenantInv)'
    OBVIOUS
  <2>1. CASE UNCHANGED vars
    BY <2>1, TypeInvStep DEF vars, TenantInv, SnapshotInv, OfficersStayInTheirTenant
  <2> QED
    BY <2>1, TypeInvStep, ArriveTenants, ScanTenants, RequestTenants DEF Next
<1> QED
  BY <1>1, <1>2, PTL DEF Spec

(***************************************************************************)
(* Tenant isolation of the tracker: an officer's name is only ever on rows *)
(* of the officer's own tenant (scan_service.py:262-267, the 403 check of  *)
(* tracking_service.py:82-85).                                             *)
(***************************************************************************)
THEOREM TenantIsolation == Spec => []OfficersStayInTheirTenant
<1>1. TenantInv => OfficersStayInTheirTenant
  BY DEF TenantInv
<1> QED
  BY <1>1, TenantsHold, PTL

-------------------------------------------------------------------------------
(* What a write does to the row it goes to. *)

\* An unraced scan keeps the officer's fields and the owner of the row.
LEMMA UnracedScan ==
    ASSUME TypeInv, TenantInv, NEW p \in Scans, PutItem(p),
           tracker[Current(p)] # NoItem, tracker[Current(p)] = scan[p].existing
    PROVE  LET c == Current(p) IN
           /\ tracker'[c] # NoItem
           /\ tracker'[c].status = tracker[c].status
           /\ tracker'[c].updatedBy = tracker[c].updatedBy
           /\ tracker'[c].tenant = tracker[c].tenant
<1>1. Current(p) \in Changes /\ ScannedItem(p) \in Item
  BY CurrentIsLeft, ScannedItemType DEF PutItem, TypeInv, InHand
<1>3. scan[p].existing \in Item
  BY <1>1 DEF TypeInv, TypeOK
<1>4. /\ ScannedItem(p).status = scan[p].existing.status
      /\ ScannedItem(p).updatedBy = scan[p].existing.updatedBy
      /\ ScannedItem(p).tenant = TenantOf[scan[p].actor]
  BY <1>3, Constants DEF ScannedItem, TrackedTenant, Item
<1>5. scan[p].existing.tenant = TenantOf[scan[p].actor]
  BY DEF PutItem, TenantInv, SnapshotInv
<1>6. tracker'[Current(p)] = ScannedItem(p)
  BY <1>1 DEF PutItem, TypeInv, TypeOK
<1>7. ScannedItem(p) # NoItem
  BY <1>1, Constants
<1> QED
  BY <1>4, <1>5, <1>6, <1>7

\* Every other row is as it was.
LEMMA ScanWritesOneRow ==
    ASSUME TypeInv, NEW p \in Scans, PutItem(p)
    PROVE  /\ \A c \in Changes \ {Current(p)} : tracker'[c] = tracker[c]
           /\ overtaken \subseteq overtaken'
BY DEF PutItem, MarkOvertaken, TypeInv, TypeOK

LEMMA SaveWritesOneRow ==
    ASSUME TypeInv, NEW r \in Requests, request[r].pc = "put", Save(r)
    PROVE  LET u == request[r].update IN
           /\ u.change \in Changes
           /\ tracker'[u.change] = UpdatedItem(r) /\ UpdatedItem(r) # NoItem
           /\ UpdatedItem(r).status = u.status
           /\ UpdatedItem(r).updatedBy = u.actor
           /\ UpdatedItem(r).tenant = request[r].current.tenant
           /\ word'[u.change] = u
           /\ \A c \in Changes \ {u.change} :
                  tracker'[c] = tracker[c] /\ word'[c] = word[c]
           /\ overtaken \subseteq overtaken'
<1>1. /\ request[r].update \in Update /\ request[r].update.change \in Changes
      /\ request[r].current \in Item
  BY DEF TypeInv, InHand, Update
<1>2. UpdatedItem(r) \in Item
  BY UpdatedItemType
<1>3. /\ UpdatedItem(r).status = request[r].update.status
      /\ UpdatedItem(r).updatedBy = request[r].update.actor
      /\ UpdatedItem(r).tenant = request[r].current.tenant
  BY <1>1 DEF UpdatedItem, Item, Update
<1> QED
  BY <1>1, <1>2, <1>3, Constants DEF Save, MarkOvertaken, TypeInv, TypeOK

\* Only two kinds of step write a row.
LEMMA WhoWrites ==
    ASSUME TypeInv, [Next]_vars
    PROVE  \/ UNCHANGED <<tracker, word, overtaken>>
           \/ \E p \in Scans : PutItem(p) /\ UNCHANGED word
           \/ \E r \in Requests :
                  request[r].pc = "put" /\ Save(r) /\ request'[r].pc # "put"
<1> USE DEF stores, history
<1>1. CASE UNCHANGED vars
  BY <1>1 DEF vars
<1>2. CASE Arrive
  BY <1>2 DEF Arrive, StartScan, Submit
<1>3. ASSUME NEW p \in Scans, ScanStep(p) \/ ScanFault(p)
      PROVE  \/ UNCHANGED <<tracker, word, overtaken>>
             \/ PutItem(p) /\ UNCHANGED word
  <2>1. CASE PutItem(p)
    BY <2>1 DEF PutItem
  <2>2. CASE SkipForeign(p) \/ GetItem(p) \/ AuditScan(p) \/ RouteScan(p) \/ FinishScan(p)
    BY <2>2 DEF SkipForeign, GetItem, AuditScan, Audited, RouteScan, FinishScan
  <2>3. CASE ScanFault(p)
    BY <2>3 DEF ScanFault, GetItemRaises, PutItemRaises, AuditScanRaises, Audited,
                RouteScanRaises, CrashScan
  <2> QED
    BY <1>3, <2>1, <2>2, <2>3 DEF ScanStep
<1>4. ASSUME NEW r \in Requests, RequestStep(r) \/ RequestFault(r)
      PROVE  \/ UNCHANGED <<tracker, word, overtaken>>
             \/ request[r].pc = "put" /\ Save(r) /\ request'[r].pc # "put"
  <2>1. CASE PutUpdate(r) \/ PutUpdateRaises(r)
    <3>1. request'[r].pc # "put"
      BY <2>1 DEF PutUpdate, PutUpdateRaises, Answer, IdleRequest, TypeInv, TypeOK,
                  RequestState
    <3> QED
      BY <2>1, <3>1 DEF PutUpdate, PutUpdateRaises
  <2>2. CASE Deny(r) \/ Load(r) \/ AuditUpdate(r) \/ RouteUpdate(r)
    BY <2>2 DEF Deny, Load, AuditUpdate, RouteUpdate
  <2>3. CASE LoadRaises(r) \/ AuditUpdateRaises(r) \/ RouteUpdateRaises(r)
             \/ CrashRequest(r)
    BY <2>3 DEF LoadRaises, AuditUpdateRaises, RouteUpdateRaises, CrashRequest
  <2> QED
    BY <1>4, <2>1, <2>2, <2>3 DEF RequestStep, RequestFault
<1> QED
  BY <1>1, <1>2, <1>3, <1>4 DEF Next

LEMMA LastWordStep ==
    ASSUME TypeInv, TenantInv, LastWordStands, [Next]_vars
    PROVE  LastWordStands'
<1>1. CASE UNCHANGED <<tracker, word, overtaken>>
  BY <1>1 DEF LastWordStands
<1>2. ASSUME NEW p \in Scans, PutItem(p), UNCHANGED word
      PROVE  LastWordStands'
  <2>1. Current(p) \notin overtaken' => tracker[Current(p)] = scan[p].existing
    BY <1>2 DEF PutItem, MarkOvertaken
  <2> QED
    BY <1>2, <2>1, UnracedScan, ScanWritesOneRow DEF LastWordStands
<1>3. ASSUME NEW r \in Requests, request[r].pc = "put", Save(r)
      PROVE  LastWordStands'
  BY <1>3, SaveWritesOneRow DEF LastWordStands
<1> QED
  BY <1>1, <1>2, <1>3, WhoWrites

(***************************************************************************)
(* An officer's decision outlives every re-scan that wrote the row it had  *)
(* read: the promise of scan_service.py:247-249, with the one exception    *)
(* the code leaves open.                                                   *)
(***************************************************************************)
THEOREM OfficersHaveTheLastWord == Spec => []LastWordStands
<1>1. Init => LastWordStands
  BY DEF Init, LastWordStands
<1>2. (TypeInv /\ TenantInv) /\ LastWordStands /\ [Next]_vars => LastWordStands'
  BY LastWordStep
<1> QED
  BY <1>1, <1>2, TenantsHold, PTL DEF Spec

(***************************************************************************)
(* A row changes tenants only in a step whose writer had read another row: *)
(* the skip of foreign rows protects all that it can see.                  *)
(***************************************************************************)
THEOREM OwnersKeepTheirChanges == Spec => OwnershipMovesOnlyByRace
<1> DEFINE Kept ==
        \A c \in Changes :
          tracker[c] # NoItem
              => \/ tracker'[c] # NoItem /\ tracker'[c].tenant = tracker[c].tenant
                 \/ \E p \in Scans :
                        /\ scan[p].pc = "put" /\ scan'[p].pc # "put"
                        /\ Current(p) = c
                        /\ scan[p].existing # tracker[c]
                 \/ \E r \in Requests :
                        /\ request[r].pc = "put" /\ request'[r].pc # "put"
                        /\ request[r].update.change = c
                        /\ request[r].current # tracker[c]
<1>1. TypeInv /\ TenantInv /\ [Next]_vars => [Kept]_vars
  <2> SUFFICES ASSUME TypeInv, TenantInv, [Next]_vars PROVE Kept
    OBVIOUS
  <2>1. CASE UNCHANGED <<tracker, word, overtaken>>
    BY <2>1
  <2>2. ASSUME NEW p \in Scans, PutItem(p) PROVE Kept
    <3>1. scan[p].pc = "put" /\ scan'[p].pc # "put"
      BY <2>2 DEF PutItem, NextChange, TypeInv, TypeOK, ScanState
    <3>2. \A c \in Changes \ {Current(p)} : tracker'[c] = tracker[c]
      BY <2>2, ScanWritesOneRow
    <3>3. tracker[Current(p)] # NoItem /\ scan[p].existing = tracker[Current(p)] =>
              /\ tracker'[Current(p)] # NoItem
              /\ tracker'[Current(p)].tenant = tracker[Current(p)].tenant
      BY <2>2, UnracedScan
    <3> QED
      BY <3>1, <3>2, <3>3
  <2>3. ASSUME NEW r \in Requests, request[r].pc = "put", Save(r), request'[r].pc # "put"
        PROVE  Kept
    BY <2>3, SaveWritesOneRow
  <2> QED
    BY <2>1, <2>2, <2>3, WhoWrites
<1> QED
  BY <1>1, TenantsHold, PTL DEF Spec, OwnershipMovesOnlyByRace

-------------------------------------------------------------------------------
(* Closures. *)

Closure(c, item) ==
    [change |-> c, status |-> item.status, actor |-> item.updatedBy]

\* The audit log has the closure, is about to have it, or lost it.
Recorded(closure) ==
    \/ closure \in trail \cup unrecorded
    \/ \E r \in Requests : request[r].pc = "audit" /\ request[r].update = closure

\* Of a row, and of the copy a scan will write back.
Accounted(c, item) ==
    item.status \in ReviewableStatuses => Recorded(Closure(c, item))

ClosureInv ==
    /\ \A c \in Changes : tracker[c] # NoItem => Accounted(c, tracker[c])
    /\ \A p \in Scans : scan[p].pc = "put" /\ scan[p].existing # NoItem =>
          Accounted(Current(p), scan[p].existing)

\* What is recorded stays recorded: the step that takes an update out of the
\* audit state puts it in the log or among the lost.
LEMMA RecordedIsStable ==
    ASSUME TypeInv, [Next]_vars, NEW closure, Recorded(closure)
    PROVE  Recorded(closure)'
<1> USE DEF stores, history
<1>0. trail \subseteq trail' /\ unrecorded \subseteq unrecorded'
  <2>1. CASE UNCHANGED vars
    BY <2>1 DEF vars
  <2>2. CASE Arrive
    BY <2>2 DEF Arrive, StartScan, Submit
  <2>3. ASSUME NEW p \in Scans, ScanStep(p) \/ ScanFault(p)
        PROVE  UNCHANGED <<trail, unrecorded>>
    BY <2>3 DEF ScanStep, ScanFault, SkipForeign, GetItem, PutItem, AuditScan, Audited,
                RouteScan, FinishScan, GetItemRaises, PutItemRaises, AuditScanRaises,
                RouteScanRaises, CrashScan
  <2>4. ASSUME NEW r \in Requests, RequestStep(r) \/ RequestFault(r)
        PROVE  trail \subseteq trail' /\ unrecorded \subseteq unrecorded'
    BY <2>4 DEF RequestStep, RequestFault, Deny, Load, PutUpdate, AuditUpdate,
                RouteUpdate, LoadRaises, PutUpdateRaises, AuditUpdateRaises,
                RouteUpdateRaises, CrashRequest
  <2> QED
    BY <2>1, <2>2, <2>3, <2>4 DEF Next
<1>1. CASE closure \in trail \cup unrecorded
  BY <1>0, <1>1 DEF Recorded
<1>2. ASSUME NEW r \in Requests, request[r].pc = "audit", request[r].update = closure
      PROVE  Recorded(closure)'
  <2>0. request \in [Requests -> RequestState]
    BY DEF TypeInv, TypeOK
  <2>1. CASE request'[r] = request[r]
    BY <1>2, <2>1 DEF Recorded
  <2>2. CASE AuditUpdate(r) \/ AuditUpdateRaises(r) \/ CrashRequest(r)
    BY <1>2, <2>2 DEF Recorded, AuditUpdate, AuditUpdateRaises, CrashRequest
  <2>3. ASSUME NEW q \in Requests, q # r, RequestStep(q) \/ RequestFault(q)
        PROVE  request'[r] = request[r]
    BY <2>0, <2>3 DEF RequestStep, RequestFault, Deny, Load, PutUpdate, AuditUpdate,
                RouteUpdate, LoadRaises, PutUpdateRaises, AuditUpdateRaises,
                RouteUpdateRaises, CrashRequest, Answer, Escalate
  <2>4. ASSUME RequestStep(r) \/ RequestFault(r)
        PROVE  AuditUpdate(r) \/ AuditUpdateRaises(r) \/ CrashRequest(r)
    BY <1>2, <2>4 DEF RequestStep, RequestFault, Deny, Load, PutUpdate, RouteUpdate,
                LoadRaises, PutUpdateRaises, RouteUpdateRaises
  <2>5. ASSUME NEW p \in Scans, ScanStep(p) \/ ScanFault(p)
        PROVE  UNCHANGED request
    BY <2>5 DEF ScanStep, ScanFault, SkipForeign, GetItem, PutItem, AuditScan, Audited,
                RouteScan, FinishScan, GetItemRaises, PutItemRaises, AuditScanRaises,
                RouteScanRaises, CrashScan
  <2>6. ASSUME Arrive PROVE request'[r] = request[r]
    BY <1>2, <2>0, <2>6 DEF Arrive, StartScan, Submit
  <2> QED
    BY <2>1, <2>2, <2>3, <2>4, <2>5, <2>6 DEF Next, vars
<1> QED
  BY <1>1, <1>2 DEF Recorded

\* An update that is saved is recorded, or about to be, or lost for good.
LEMMA SavedIsRecorded ==
    ASSUME TypeInv, NEW r \in Requests, NEW update, update = request[r].update,
           PutUpdate(r) \/ PutUpdateRaises(r)
    PROVE  \/ request[r].pc = "put" /\ Save(r) /\ Recorded(update)'
           \/ UNCHANGED tracker
<1>0. request \in [Requests -> RequestState] /\ request[r] \in RequestState
  BY DEF TypeInv, TypeOK
<1>1. CASE PutUpdate(r)
  <2>1. request'[r].pc = "audit" /\ request'[r].update = update
    BY <1>0, <1>1 DEF PutUpdate, RequestState
  <2> QED
    BY <1>1, <2>1 DEF PutUpdate, Recorded
<1>2. CASE PutUpdateRaises(r)
  BY <1>2 DEF PutUpdateRaises, Recorded
<1> QED
  BY <1>1, <1>2

\* The copy a scan holds is the one it held before, or the row it just read.
LEMMA WhatAScanHolds ==
    ASSUME TypeInv, [Next]_vars, NEW p \in Scans,
           scan'[p].pc = "put", scan'[p].existing # NoItem
    PROVE  \/ scan'[p] = scan[p]
           \/ /\ Current(p) \in Changes /\ Current(p)' = Current(p)
              /\ tracker[Current(p)] # NoItem
              /\ scan'[p].existing = tracker[Current(p)]
<1>0. scan \in [Scans -> ScanState] /\ scan[p] \in ScanState
  BY DEF TypeInv, TypeOK
<1>1. CASE UNCHANGED scan
  BY <1>1
<1>2. CASE Arrive
  BY <1>0, <1>2 DEF Arrive, StartScan, Submit
<1>3. ASSUME NEW q \in Scans, q # p, ScanStep(q) \/ ScanFault(q)
      PROVE  scan'[p] = scan[p]
  BY <1>0, <1>3 DEF ScanStep, ScanFault, SkipForeign, GetItem, PutItem, AuditScan,
     Audited, RouteScan, FinishScan, GetItemRaises, PutItemRaises, AuditScanRaises,
     RouteScanRaises, CrashScan, NextChange
<1>4. CASE GetItem(p)
  <2>1. /\ scan'[p].existing = tracker[Current(p)]
        /\ scan'[p].todo = scan[p].todo
    BY <1>0, <1>4 DEF GetItem, ScanState
  <2> QED
    BY <2>1, <1>4, CurrentIsLeft DEF GetItem, Current, TypeInv
<1>5. CASE ScanFault(p)
  BY <1>0, <1>5 DEF ScanFault, GetItemRaises, PutItemRaises, AuditScanRaises,
     Audited, RouteScanRaises, CrashScan, NextChange, IdleScan, ScanState
<1>6. CASE SkipForeign(p) \/ PutItem(p) \/ AuditScan(p) \/ RouteScan(p) \/ FinishScan(p)
  BY <1>0, <1>6 DEF SkipForeign, PutItem, AuditScan, Audited, RouteScan, FinishScan,
     NextChange, IdleScan, ScanState
<1>7. ASSUME NEW r \in Requests, RequestStep(r) \/ RequestFault(r)
      PROVE  UNCHANGED scan
  BY <1>7 DEF RequestStep, RequestFault, Deny, Load, PutUpdate, AuditUpdate,
     RouteUpdate, LoadRaises, PutUpdateRaises, AuditUpdateRaises,
     RouteUpdateRaises, CrashRequest
<1> QED
  BY <1>1, <1>2, <1>3, <1>4, <1>5, <1>6, <1>7 DEF Next, ScanStep, vars

\* Only two kinds of step write a row, seen from the audit log.
LEMMA WhoWritesForTheRecord ==
    ASSUME TypeInv, [Next]_vars
    PROVE  \/ UNCHANGED tracker
           \/ \E p \in Scans : PutItem(p)
           \/ \E r \in Requests :
                 /\ request[r].pc = "put" /\ Save(r)
                 /\ \E update : update = request[r].update /\ Recorded(update)'
<1> USE DEF stores, history
<1>1. CASE UNCHANGED vars
  BY <1>1 DEF vars
<1>2. CASE Arrive
  BY <1>2 DEF Arrive, StartScan, Submit
<1>3. ASSUME NEW p \in Scans, ScanStep(p) \/ ScanFault(p)
      PROVE  UNCHANGED tracker \/ PutItem(p)
  BY <1>3 DEF ScanStep, ScanFault, SkipForeign, GetItem, AuditScan, Audited, RouteScan,
     FinishScan, GetItemRaises, PutItemRaises, AuditScanRaises, RouteScanRaises, CrashScan
<1>4. ASSUME NEW r \in Requests, PutUpdate(r) \/ PutUpdateRaises(r)
      PROVE  \/ UNCHANGED tracker
             \/ /\ request[r].pc = "put" /\ Save(r)
                /\ \E update : update = request[r].update /\ Recorded(update)'
  <2>1. PICK update : update = request[r].update
    OBVIOUS
  <2> QED
    BY <1>4, <2>1, SavedIsRecorded
<1>5. ASSUME NEW r \in Requests, RequestStep(r) \/ RequestFault(r)
      PROVE  UNCHANGED tracker \/ PutUpdate(r) \/ PutUpdateRaises(r)
  BY <1>5 DEF RequestStep, RequestFault, Deny, Load, AuditUpdate, RouteUpdate,
     LoadRaises, AuditUpdateRaises, RouteUpdateRaises, CrashRequest
<1> QED
  BY <1>1, <1>2, <1>3, <1>4, <1>5 DEF Next

LEMMA ClosureStep ==
    ASSUME TypeInv, ClosureInv, [Next]_vars
    PROVE  ClosureInv'
<1>0. \A closure : Recorded(closure) => Recorded(closure)'
  BY RecordedIsStable
<1>1. ASSUME NEW c \in Changes, tracker'[c] # NoItem,
             tracker'[c].status \in ReviewableStatuses
      PROVE  \E closure : closure = Closure(c, tracker'[c]) /\ Recorded(closure)'
  <2>1. CASE tracker'[c] = tracker[c]
    <3>1. PICK closure : closure = Closure(c, tracker[c])
      OBVIOUS
    <3>2. Recorded(closure)
      BY <1>1, <2>1, <3>1 DEF ClosureInv, Accounted
    <3> QED
      BY <1>0, <2>1, <3>1, <3>2
  <2>2. ASSUME NEW p \in Scans, PutItem(p), c = Current(p)
        PROVE  \E closure : closure = Closure(c, tracker'[c]) /\ Recorded(closure)'
    <3>1. tracker'[c] = ScannedItem(p)
      BY <1>1, <2>2 DEF PutItem, TypeInv, TypeOK
    <3>2. CASE scan[p].existing = NoItem
      BY <1>1, <3>1, <3>2 DEF ScannedItem, InitialStatus, ReviewableStatuses
    <3>3. CASE scan[p].existing # NoItem
      <4>1. scan[p].existing \in Item
        BY <3>3 DEF TypeInv, TypeOK, ScanState
      <4>2. /\ ScannedItem(p).status = scan[p].existing.status
            /\ ScannedItem(p).updatedBy = scan[p].existing.updatedBy
        BY <3>3, <4>1 DEF ScannedItem, Item
      <4>3. PICK closure : closure = Closure(c, scan[p].existing)
        OBVIOUS
      <4>4. Recorded(closure)
        BY <1>1, <2>2, <3>1, <3>3, <4>2, <4>3 DEF ClosureInv, Accounted, PutItem
      <4>5. closure = Closure(c, tracker'[c])
        BY <3>1, <4>2, <4>3 DEF Closure
      <4> QED
        BY <1>0, <4>4, <4>5
    <3> QED
      BY <3>2, <3>3
  <2>3. ASSUME NEW r \in Requests, request[r].pc = "put", Save(r), NEW update,
               update = request[r].update, Recorded(update)', c = update.change
        PROVE  \E closure : closure = Closure(c, tracker'[c]) /\ Recorded(closure)'
    <3>1. /\ tracker'[c].status = update.status
          /\ tracker'[c].updatedBy = update.actor
      BY <2>3, SaveWritesOneRow
    <3>2. update \in Update
      BY <2>3 DEF TypeInv, InHand
    <3>3. Closure(c, tracker'[c]) = update
      BY <2>3, <3>1, <3>2 DEF Closure, Update
    <3> QED
      BY <2>3, <3>3
  <2> QED
    BY <2>1, <2>2, <2>3, WhoWritesForTheRecord, ScanWritesOneRow, SaveWritesOneRow
<1>2. ASSUME NEW p \in Scans, scan'[p].pc = "put", scan'[p].existing # NoItem,
             scan'[p].existing.status \in ReviewableStatuses
      PROVE  \E closure : /\ closure = Closure(Current(p)', scan'[p].existing)
                          /\ Recorded(closure)'
  <2>1. CASE scan'[p] = scan[p]
    <3>1. PICK closure : closure = Closure(Current(p), scan[p].existing)
      OBVIOUS
    <3>2. Recorded(closure)
      BY <1>2, <2>1, <3>1 DEF ClosureInv, Accounted
    <3>3. Current(p)' = Current(p)
      BY <2>1 DEF Current
    <3> QED
      BY <1>0, <2>1, <3>1, <3>2, <3>3
  <2>2. CASE /\ Current(p) \in Changes /\ Current(p)' = Current(p)
             /\ tracker[Current(p)] # NoItem
             /\ scan'[p].existing = tracker[Current(p)]
    <3>1. PICK closure : closure = Closure(Current(p), tracker[Current(p)])
      OBVIOUS
    <3>2. Recorded(closure)
      BY <1>2, <2>2, <3>1 DEF ClosureInv, Accounted
    <3> QED
      BY <1>0, <2>2, <3>1, <3>2
  <2> QED
    BY <1>2, <2>1, <2>2, WhatAScanHolds
<1> QED
  BY <1>1, <1>2 DEF ClosureInv, Accounted, Closure

(***************************************************************************)
(* No closed item without its audit row, short of an outage of the audit   *)
(* sink or a crash: rule R8's trail behind update_status                   *)
(* (tracking_service.py:119-123), through every race with re-scans.        *)
(***************************************************************************)
THEOREM ClosuresLeaveATrail == Spec => []ClosureLeavesTrail
<1>1. Init => ClosureInv
  BY DEF Init, ClosureInv, IdleScan
<1>2. TypeInv /\ ClosureInv /\ [Next]_vars => ClosureInv'
  BY ClosureStep
<1>3. ClosureInv => ClosureLeavesTrail
  BY DEF ClosureInv, Accounted, Closure, Recorded, ClosureLeavesTrail
<1> QED
  BY <1>1, <1>2, <1>3, TypesHold, PTL DEF Spec

-------------------------------------------------------------------------------
(* The table as atomic operations on versions. *)

\* Who asks for an update is an officer, and goes on being the one who asked.
OfficerInv == \A r \in Requests : request[r].pc # "idle" => request[r].update.actor \in Officers

\* The request a process works on is the one it had, and its copy is the one it
\* had or the row it just read.
LEMMA WhatARequestHolds ==
    ASSUME TypeInv, [Next]_vars, NEW r \in Requests, request'[r].pc # "idle"
    PROVE  \/ request'[r] = request[r]
           \/ request[r].pc = "idle" /\ request'[r].update.actor \in Officers
              /\ request'[r].pc # "put"
           \/ /\ request[r].pc # "idle" /\ request'[r].update = request[r].update
              /\ request'[r].pc = "put" =>
                     request'[r].current = tracker[request[r].update.change]
<1>0. request \in [Requests -> RequestState] /\ request[r] \in RequestState
  BY DEF TypeInv, TypeOK
<1>1. CASE UNCHANGED request
  BY <1>1
<1>2. CASE Arrive
  BY <1>0, <1>2 DEF Arrive, StartScan, Submit
<1>3. ASSUME NEW q \in Requests, q # r, RequestStep(q) \/ RequestFault(q)
      PROVE  request'[r] = request[r]
  BY <1>0, <1>3 DEF RequestStep, RequestFault, Deny, Load, PutUpdate, AuditUpdate,
     RouteUpdate, LoadRaises, PutUpdateRaises, AuditUpdateRaises, RouteUpdateRaises,
     CrashRequest, Answer, Escalate
<1>4. CASE Load(r)
  BY <1>0, <1>4 DEF Load, RequestState
<1>5. CASE PutUpdate(r)
  BY <1>0, <1>5 DEF PutUpdate, RequestState
<1>6. CASE AuditUpdate(r) \/ AuditUpdateRaises(r)
  BY <1>0, <1>6 DEF AuditUpdate, AuditUpdateRaises, Escalate, Answer, IdleRequest, RequestState
<1>7. CASE \/ Deny(r) \/ RouteUpdate(r) \/ LoadRaises(r) \/ PutUpdateRaises(r)
           \/ RouteUpdateRaises(r) \/ CrashRequest(r)
  BY <1>0, <1>7 DEF Deny, RouteUpdate, LoadRaises, PutUpdateRaises, RouteUpdateRaises,
     CrashRequest, Answer, IdleRequest
<1>8. ASSUME NEW p \in Scans, ScanStep(p) \/ ScanFault(p)
      PROVE  UNCHANGED request
  BY <1>8 DEF ScanStep, ScanFault, SkipForeign, GetItem, PutItem, AuditScan, Audited,
     RouteScan, FinishScan, GetItemRaises, PutItemRaises, AuditScanRaises,
     RouteScanRaises, CrashScan
<1> QED
  BY <1>1, <1>2, <1>3, <1>4, <1>5, <1>6, <1>7, <1>8
     DEF Next, RequestStep, RequestFault, vars

LEMMA OfficerStep == ASSUME TypeInv, OfficerInv, [Next]_vars PROVE OfficerInv'
<1>1. ASSUME NEW r \in Requests, request'[r].pc # "idle"
      PROVE  request'[r].update.actor \in Officers
  BY <1>1, WhatARequestHolds DEF OfficerInv
<1> QED
  BY <1>1 DEF OfficerInv

\* The rows that operations may start from, as Table sees them.
Versions == [c \in Changes |-> {NoItem, tracker[c]} \cup Held(c)]

\* What a process holds after a step, it held before or read from the table.
LEMMA NothingComesBack == ASSUME TypeInv, [Next]_vars PROVE Table!Remember
<1>1. ASSUME NEW c \in Changes, NEW p \in Scans, scan'[p].pc = "put", Current(p)' = c
      PROVE  scan'[p].existing \in {NoItem, tracker[c]} \cup Held(c)
  <2>1. CASE scan'[p].existing = NoItem
    BY <2>1
  <2>2. CASE scan'[p].existing # NoItem /\ scan'[p] = scan[p]
    <3>1. Current(p)' = Current(p)
      BY <2>2 DEF Current
    <3> QED
      BY <1>1, <2>2, <3>1 DEF Held
  <2>3. CASE scan'[p].existing # NoItem /\ scan'[p] # scan[p]
    BY <1>1, <2>3, WhatAScanHolds
  <2> QED
    BY <2>1, <2>2, <2>3
<1>2. ASSUME NEW c \in Changes, NEW r \in Requests,
             request'[r].pc = "put", request'[r].update.change = c
      PROVE  request'[r].current \in {NoItem, tracker[c]} \cup Held(c)
  BY <1>2, WhatARequestHolds DEF Held
<1>3. \A c \in Changes : Versions'[c] \subseteq Versions[c] \cup {tracker'[c]}
  BY <1>1, <1>2 DEF Versions, Held
<1>4. /\ DOMAIN Versions' = Changes
      /\ \A c \in Changes : {NoItem, tracker'[c]} \subseteq Versions'[c]
  BY DEF Versions
<1> QED
  BY <1>3, <1>4 DEF Table!Remember, Versions

\* The write of a scan: an assessment of the version it read.
LEMMA ScanIsAtomic ==
    ASSUME TypeInv, TenantInv, [Next]_vars, NEW p \in Scans, PutItem(p)
    PROVE  Table!Next
<1> DEFINE c == Current(p)
           old == scan[p].existing
           verdict == scan[p].verdicts[c]
<1>1. /\ c \in Changes /\ scan[p] \in ScanState /\ verdict \in Verdict
      /\ TrackedTenant(p) \in Tenants
  <2>1. scan[p] \in ScanState /\ scan[p].actor \in Principals /\ scan[p].pc = "put"
    BY DEF PutItem, TypeInv, TypeOK, InHand
  <2>2. c \in scan[p].todo /\ c \in Changes
    BY <2>1, CurrentIsLeft DEF TypeInv, InHand
  <2>3. verdict \in Verdict
    BY <2>1, <2>2 DEF TypeInv, InHand, ScanState, Verdicts
  <2> QED
    BY <2>1, <2>2, <2>3, Constants DEF TrackedTenant
<1>2. old \in Versions[c]
  BY <1>1 DEF Versions, Held, PutItem
<1>3. /\ tracker' = [tracker EXCEPT ![c] = ScannedItem(p)]
      /\ overtaken' = IF tracker[c] = old THEN overtaken ELSE overtaken \cup {c}
  BY DEF PutItem, MarkOvertaken
<1>4. Table!Write(c, old, ScannedItem(p))
  BY <1>2, <1>3, NothingComesBack DEF Table!Write, Versions
<1>5. CASE old = NoItem
  <2>1. ScannedItem(p) = [tenant |-> TrackedTenant(p), status |-> InitialStatus(verdict),
                          verdict |-> verdict, controls |-> {}, updatedBy |-> HorizonScan]
    BY <1>5 DEF ScannedItem
  <2>2. Table!Open(c, TrackedTenant(p), verdict)
    BY <1>1, <1>4, <1>5, <2>1 DEF Table!Open
  <2> QED
    BY <1>1, <2>2 DEF Table!Next
<1>6. CASE old # NoItem
  <2>1. old \in Item /\ old.tenant = TrackedTenant(p)
    BY <1>1, <1>6 DEF ScanState, TenantInv, SnapshotInv, PutItem, TrackedTenant
  <2>2. ScannedItem(p) = [old EXCEPT !.verdict = verdict]
    BY <1>6, <2>1 DEF ScannedItem, Item
  <2>3. Table!Reassess(c, old, verdict)
    BY <1>4, <1>6, <2>2 DEF Table!Reassess
  <2> QED
    BY <1>1, <1>2, <2>3 DEF Table!Next, Versions
<1> QED
  BY <1>5, <1>6

\* The write of an update: a decision on the version it read.
LEMMA SaveIsAtomic ==
    ASSUME TypeInv, TenantInv, OfficerInv, [Next]_vars,
           NEW r \in Requests, request[r].pc = "put", Save(r)
    PROVE  Table!Next
<1> DEFINE u == request[r].update
           old == request[r].current
<1>1. /\ u \in Update /\ old \in Item /\ u.actor \in Officers
      /\ request[r].controls \in SUBSET Controls /\ u.change \in Changes /\ u.status \in Status
  BY DEF TypeInv, TypeOK, InHand, OfficerInv, RequestState, Update
<1>2. old \in Versions[u.change]
  BY <1>1 DEF Versions, Held
<1>3. Table!Write(u.change, old, UpdatedItem(r))
  BY <1>2, NothingComesBack DEF Table!Write, Versions, Save, MarkOvertaken
<1>4. old # NoItem /\ TenantOf[u.actor] = old.tenant
  BY <1>1, Constants DEF TenantInv, SnapshotInv
<1>5. UpdatedItem(r) = [old EXCEPT !.status = u.status, !.updatedBy = u.actor,
                 !.controls = IF request[r].controls = {} THEN @ ELSE request[r].controls]
  BY <1>1 DEF UpdatedItem, Item
<1>6. Table!Decide(u.change, old, u.actor, u.status, request[r].controls)
  BY <1>3, <1>4, <1>5 DEF Table!Decide
<1> QED
  BY <1>1, <1>2, <1>6 DEF Table!Next, Versions

LEMMA StepIsAtomic ==
    ASSUME TypeInv, TenantInv, OfficerInv, [Next]_vars
    PROVE  [Table!Next]_(Table!vars)
<1>1. CASE UNCHANGED <<tracker, word, overtaken>>
  BY <1>1, NothingComesBack DEF Table!GiveUp, Table!Next
<1> QED
  BY <1>1, WhoWrites, ScanIsAtomic, SaveIsAtomic

(***************************************************************************)
(* The tracker, with any number of scans, updates, tenants and faults, is  *)
(* a table of atomic operations on versions: what its races and its failed *)
(* reads can do is lose updates (scan_service.py:247-267,                  *)
(* tracking_service.py:82-110), never corrupt a row.                       *)
(***************************************************************************)
THEOREM TrackerImplementsTable == Spec => RowsAreVersions
<1>1. Init => Table!Init
  <2>1. ASSUME Init, NEW c \in Changes PROVE {NoItem, tracker[c]} \cup Held(c) = {NoItem}
    BY <2>1 DEF Init, Held, IdleScan, IdleRequest
  <2> QED
    BY <2>1 DEF Init, Table!Init
<1>2. Init => OfficerInv
  BY DEF Init, OfficerInv, IdleRequest
<1>3. (TypeInv /\ TenantInv) /\ OfficerInv /\ [Next]_vars => OfficerInv'
  BY OfficerStep
<1>4. (TypeInv /\ TenantInv) /\ OfficerInv /\ [Next]_vars => [Table!Next]_(Table!vars)
  BY StepIsAtomic
<1> QED
  BY <1>1, <1>2, <1>3, <1>4, TenantsHold, PTL DEF Spec, RowsAreVersions, Table!Spec
===============================================================================
