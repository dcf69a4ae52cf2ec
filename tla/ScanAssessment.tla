---------------------------- MODULE ScanAssessment ----------------------------
(***************************************************************************)
(* The link between the two journeys: a horizon scan runs a gap analysis   *)
(* for its scope, counts the open gaps of each regulator and assesses the  *)
(* detected changes with them.  The analysis is best effort: if it raises, *)
(* every count is zero.  What the scan does with its assessments is the    *)
(* subject of HorizonTracking, and what it detects of HorizonSystem.       *)
(***************************************************************************)
EXTENDS ControlMapping, HorizonPolicy

VARIABLE scan   \* the scan in progress: its changes, then its assessments

vars == <<mappingVars, scan>>

NoScan == [open |-> FALSE, changes |-> {}, assessments |-> {}]

ScanInit == MappingInit /\ scan = NoScan

Request(kind, wanted) ==
  /\ pc = "idle"
  /\ Begin(kind, wanted)
  /\ UNCHANGED scan

\* The regulator of the request narrows the changes and the analysis alike.
BeginScan(wanted, detected) ==
  /\ pc = "idle"
  /\ Begin("gaps", wanted)
  /\ scan' = [NoScan EXCEPT !.open = TRUE,
                            !.changes = {c \in detected : wanted \in {AnyRegulator, c.regulator}}]

OpenGaps(regulator) ==
  IF work.outcome = "returned"
    THEN Cardinality({g \in work.gaps : RegulatorOf[g.requirement] = regulator}) ELSE 0

\* Mutant: the exception of the analysis is the scan's.
LookupFailsTheScan(w) == scan.open /\ w.outcome = "returned"

ForAScan(w) == scan.open

Assess ==
  /\ pc = "done"
  /\ ForAScan(work)
  /\ pc' = "assessed"
  /\ scan' = [scan EXCEPT !.assessments = {Assessment(c, OpenGaps(c.regulator)) : c \in scan.changes}]
  /\ UNCHANGED <<work, trail, reviews, faults>>

Return ==
  /\ pc = "assessed" \/ (pc = "done" /\ ~ForAScan(work))
  /\ pc' = "idle"
  /\ work' = NoWork
  /\ trail' = <<>>
  /\ reviews' = {}
  /\ faults' = 0
  /\ scan' = NoScan

Mapping == ServeMapping /\ UNCHANGED scan

Progress == Mapping \/ Assess \/ Return

Next ==
  \/ Progress
  \/ \E kind \in {"map", "gaps", "pack"}, wanted \in Regulators \union {AnyRegulator} :
       Request(kind, wanted)
  \/ \E wanted \in Regulators \union {AnyRegulator}, detected \in Detections :
       BeginScan(wanted, detected)

Spec == ScanInit /\ [][Next]_vars /\ WF_vars(Progress)

-----------------------------------------------------------------------------
Steps == {"idle", "fetch", "observe", "refuse", "generate", "audit_map", "derive", "audit_gaps",
          "audit_pack", "route", "done", "assessed"}

\* Every variable is what it is declared to be; what is mapped was fetched.
TypeOK ==
  /\ pc \in Steps
  /\ work.outcome \in {"none", "returned", "refused", "failed"}
  /\ \A m \in work.mappings : /\ m.requirement \in work.requirements
                              /\ m.controls \subseteq Controls
                              /\ m.coverage \in Coverage
  /\ \A g \in work.gaps : g.requirement \in work.requirements /\ g.severity \in Severity
  /\ \A a \in scan.assessments : a.score \in 0..100 /\ a.band \in Band
  /\ Len(trail) <= 2 /\ Cardinality(reviews) <= 1 /\ faults \in 0..MaxFaults

\* compute_coverage against the model's hint: as soon as one mapped control was
\* observed, full coverage is claimed only if every mapped control was seen enabled.
CoverageIsEvidenced ==
  \A m \in work.mappings :
    m.coverage = "full" /\ Observed(m.controls, work.posture) =>
      \A c \in m.controls : Satisfied(work.posture, c)

\* gap_service.py computes the missing families and mapping_service.py the coverage,
\* each on its own: what is uncovered has a gap, a gap is of something uncovered, and
\* unless no control is mapped at all it names a family that is missing.
GapsNameWhatIsMissing ==
  pc \in {"audit_gaps", "audit_pack", "route", "assessed"} /\ work.outcome # "failed" =>
    /\ {g.requirement : g \in work.gaps} = {m.requirement : m \in Uncovered(work)}
    /\ \A g \in work.gaps : g.missing = {} =>
         \E m \in Uncovered(work) : m.requirement = g.requirement /\ m.controls = {}

\* _review_payload.py, where the severity of a gap is the model's: a pack that says of a
\* requirement that nothing covers it is never released by one reviewer, however
\* mild the model finds the gap, and neither is one with a grave gap.
UncoveredNeedsTwo ==
  \A r \in reviews : r.approvals = 1 =>
    /\ \A m \in r.mappings : m.coverage # "none"
    /\ \A g \in r.gaps : g.severity < Grave

\* _audit_mappings, _audit_gaps, _audit_pack: the log never allows a mapping with a
\* hole, what a caller or the console gets has its rows unless the sink raised, and
\* they name every requirement in it.  Of a request that a port failed there is at most
\* the row of what was mapped until then (kept, unless the sink failed as well), and
\* nothing of it is handed to a reviewer.
RowsTellTheWork ==
  /\ \A i \in DOMAIN trail : trail[i].decision = "allowed" =>
       \A m \in work.mappings : m.coverage = "full"
  /\ faults = 0 /\ (reviews # {} \/ (pc = "done" /\ work.outcome = "returned")) =>
       /\ Len(trail) = IF work.kind = "map" THEN 1 ELSE 2
       /\ trail[1].action = "map"
       /\ trail[Len(trail)].answers = IF work.kind = "gaps"
                                        THEN {m.requirement : m \in Uncovered(work)}
                                        ELSE {m.requirement : m \in work.mappings}
  /\ work.outcome = "failed" =>
       /\ reviews = {}
       /\ \A i \in DOMAIN trail : /\ trail[i].action = "map"
                                  /\ trail[i].answers = {m.requirement : m \in work.mappings}
       /\ work.mappings # {} /\ faults = 1 => trail # <<>>

\* requires_review and route_owner: a change gets a reviewer and an owner if and only
\* if it applies or may apply to the bank, whatever its band.
ReviewedIffApplicable ==
  \A a \in scan.assessments :
    /\ a.review <=> Applicability(a.change) # "not_applicable"
    /\ a.owner # NoOwner <=> Applicability(a.change) # "not_applicable"

\* _open_gap_counts and score_materiality: open gaps make a change more material and
\* never less, so an analysis that failed can only have made it less.
GapsOnlyRaise ==
  \A a \in scan.assessments :
    /\ a.score >= Score(a.change, 0) /\ a.band >= Materiality(a.change, 0)
    /\ work.outcome # "returned" => a.band = Materiality(a.change, 0)

\* A scan outlives its analysis: every change it detected for its regulator is assessed.
ScansAssess ==
  [](scan.open /\ pc = "fetch" =>
       <>(pc = "assessed" /\ {a.change : a \in scan.assessments} = scan.changes))

\* mapping_service.py:14-15, "a malformed model JSON degrades to NONE-coverage mappings
\* (flagged for review) rather than raising".
MalformedReplyIsFlagged ==
  pc = "done" /\ work.outcome = "returned" /\ ~work.parsed =>
    \A r \in work.requirements :
      \E m \in work.mappings : m.requirement = r /\ m.coverage = "none" /\ m.review
=============================================================================
