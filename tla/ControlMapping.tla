---------------------------- MODULE ControlMapping ----------------------------
(***************************************************************************)
(* One call of the control-mapping services: map (requirements to controls *)
(* with a coverage computed from what is observed), gaps (what is not      *)
(* fully covered, with a severity) and pack (both, always handed to a      *)
(* human reviewer).  gaps and pack run the whole of map first, with its    *)
(* audit row.  Every call of a port is one action and may raise.           *)
(*                                                                         *)
(* A requirement is its id: two passages of one page share it and are one  *)
(* requirement.  A row the model returns twice is one row.                 *)
(***************************************************************************)
EXTENDS Naturals, FiniteSets, Sequences

CONSTANTS
  Requirements, RegulatorOf,   \* requirements of the knowledge base, and whose they are
  Controls, FamilyOf,          \* the catalogue of controls
  SeenBy,                      \* the posture sources that may report on a control
  Unknown,                     \* an id the model made up
  Hints,                       \* what the model may call a coverage
  Severities,                  \* what the model may call a severity
  Absent, Garbled,             \* a severity that is missing, one that cannot be read
  AnyRegulator,                \* a request without a regulator
  MaxFaults                    \* bound on the calls that raise in a request

Coverage == {"full", "partial", "none"}
Severity == 0..3   \* low, medium, high, critical
Moderate == 1
Grave    == 2

ASSUME ControlMappingAssumption ==
  /\ Unknown \notin Requirements \union Controls
  /\ Severities \subseteq Severity \union {Absent, Garbled}
  /\ MaxFaults \in Nat

VARIABLES
  pc,       \* the next step of the request
  work,     \* its locals
  trail,    \* its audit rows, oldest first
  reviews,  \* the packs that reached the console
  faults    \* calls that have raised

mappingVars == <<pc, work, trail, reviews, faults>>

Regulators == {RegulatorOf[r] : r \in Requirements}

NoPosture == [c \in Controls |-> {}]

NoWork == [kind |-> "map", wanted |-> AnyRegulator, requirements |-> {}, posture |-> NoPosture,
           parsed |-> TRUE, mappings |-> {}, gaps |-> {}, outcome |-> "none"]

(***************************************************************************)
(* The posture.  A control is reported by the sources that know it, and    *)
(* only a report of "enabled" satisfies; a finding never is one.           *)
(***************************************************************************)
Reports == [scc |-> {"unsatisfied"}, asset |-> {"enabled", "unsatisfied"},
            assured |-> {"enabled", "unsatisfied"}, seed |-> {"enabled", "unsatisfied"}]

Postures == {p \in [Controls -> SUBSET {"enabled", "unsatisfied"}] :
               \A c \in Controls : p[c] \subseteq UNION {Reports[s] : s \in SeenBy[c]}}

Satisfied(posture, c) == "enabled" \in posture[c]

ComputeCoverage(controls, posture) ==
  LET satisfied == {c \in controls : Satisfied(posture, c)} IN
  CASE satisfied = {}                            -> "none"
    [] satisfied # {} /\ satisfied = controls    -> "full"
    [] satisfied # {} /\ satisfied # controls    -> "partial"

\* Mutant: only what was found wrong is missing, not what nobody observed.
MissingWhereReported(controls, posture) ==
  {FamilyOf[c] : c \in {d \in controls : posture[d] # {} /\ ~Satisfied(posture, d)}}

MissingFamilies(controls, posture) ==
  {FamilyOf[c] : c \in {d \in controls : ~Satisfied(posture, d)}}

(***************************************************************************)
(* The mapping.                                                            *)
(***************************************************************************)
Rows == [requirement : Requirements \union {Unknown}, controls : SUBSET (Controls \union {Unknown}),
         hint : Hints]

Observed(controls, posture) == \E c \in controls : posture[c] # {}

\* Mutant: the model is believed as soon as one control was not observed.
HintForAnyBlindSpot(row, controls, posture) ==
  IF (\A c \in controls : posture[c] # {}) \/ row.hint \notin Coverage
    THEN ComputeCoverage(controls, posture) ELSE row.hint

\* The model's word counts when nothing at all was observed of the mapped controls.
CoverageOf(row, controls, posture) ==
  IF Observed(controls, posture) \/ row.hint \notin Coverage
    THEN ComputeCoverage(controls, posture) ELSE row.hint

\* Mutant: a partial coverage passes without a review.
ReviewsNoneOnly(coverage) == coverage = "none"

MappingReview(coverage) == coverage \in {"partial", "none"}

\* Ids the service did not supply are dropped, of requirements and of controls.
MappingOf(row, posture) ==
  LET controls == row.controls \intersect Controls
      coverage == CoverageOf(row, controls, posture)
  IN  [requirement |-> row.requirement, controls |-> controls, coverage |-> coverage,
       review |-> MappingReview(coverage)]

\* Mutant: the ids the model names are not looked up.
MapsWhatIsNamed(rows, w) == {MappingOf(row, w.posture) : row \in rows}

BuildMappings(rows, w) ==
  {MappingOf(row, w.posture) : row \in {r \in rows : r.requirement \in w.requirements}}

Uncovered(w) == {m \in w.mappings : m.coverage \in {"partial", "none"}}

\* Only a severity that is missing takes the floor of its coverage; one that cannot
\* be read is medium.
SeverityFor(raw, coverage) ==
  CASE raw \in Severity -> raw
    [] raw = Garbled  -> Moderate
    [] raw = Absent   -> IF coverage = "none" THEN Grave ELSE Moderate

Gap(m, raw, posture) == [requirement |-> m.requirement, missing |-> MissingFamilies(m.controls, posture),
                         severity |-> SeverityFor(raw, m.coverage)]

-----------------------------------------------------------------------------
MappingInit ==
  /\ pc = "idle"
  /\ work = NoWork
  /\ trail = <<>>
  /\ reviews = {}
  /\ faults = 0

Begin(kind, wanted) ==
  /\ pc' = "fetch"
  /\ work' = [NoWork EXCEPT !.kind = kind, !.wanted = wanted]
  /\ trail' = <<>>
  /\ reviews' = {}
  /\ faults' = 0

CountFault == faults < MaxFaults /\ faults' = faults + 1

\* The sink's failure is suppressed, and the row may have been written.
Write(row) ==
  \/ trail' = Append(trail, row) /\ UNCHANGED faults
  \/ trail' \in {trail, Append(trail, row)} /\ CountFault

Fetch ==
  /\ pc = "fetch"
  /\ \E found \in SUBSET {r \in Requirements : work.wanted \in {AnyRegulator, RegulatorOf[r]}} :
       /\ work' = [work EXCEPT !.requirements = found]
       /\ pc' = IF found = {} THEN "refuse" ELSE "observe"
  /\ UNCHANGED <<trail, reviews, faults>>

Observe ==
  /\ pc = "observe"
  /\ \E posture \in Postures :
       /\ work' = [work EXCEPT !.posture = posture]
       /\ pc' = IF posture = NoPosture THEN "refuse" ELSE "generate"
  /\ UNCHANGED <<trail, reviews, faults>>

\* Without requirements or a posture nothing is claimed: audited, then raised.
Refuse ==
  /\ pc = "refuse"
  /\ Write([action |-> "map", decision |-> "escalated", answers |-> {}])
  /\ work' = [work EXCEPT !.outcome = "refused"]
  /\ pc' = "done"
  /\ UNCHANGED reviews

\* A reply that cannot be parsed has no rows.
Generate ==
  /\ pc = "generate"
  /\ pc' = "audit_map"
  /\ \/ \E a, b \in Rows : work' = [work EXCEPT !.mappings = BuildMappings({a, b}, work)]
     \/ work' = [work EXCEPT !.parsed = FALSE]
  /\ UNCHANGED <<trail, reviews, faults>>

MapDecision(w) == IF \E m \in w.mappings : m.review THEN "escalated" ELSE "allowed"

AuditMap ==
  /\ pc = "audit_map"
  /\ Write([action |-> "map", decision |-> MapDecision(work),
            answers |-> {m.requirement : m \in work.mappings}])
  /\ IF work.kind = "map" THEN pc' = "done" /\ work' = [work EXCEPT !.outcome = "returned"]
                          ELSE pc' = "derive" /\ UNCHANGED work
  /\ UNCHANGED reviews

\* One gap per uncovered mapping; the model is asked only if there is one.
Derive ==
  /\ pc = "derive"
  /\ \E raw \in [{m.requirement : m \in Uncovered(work)} -> Severities] :
       work' = [work EXCEPT !.gaps = {Gap(m, raw[m.requirement], work.posture) : m \in Uncovered(work)}]
  /\ pc' = IF work.kind = "gaps" THEN "audit_gaps" ELSE "audit_pack"
  /\ UNCHANGED <<trail, reviews, faults>>

AuditGaps ==
  /\ pc = "audit_gaps"
  /\ Write([action |-> "gaps", decision |-> "escalated", answers |-> {g.requirement : g \in work.gaps}])
  /\ work' = [work EXCEPT !.outcome = "returned"]
  /\ pc' = "done"
  /\ UNCHANGED reviews

AuditPack ==
  /\ pc = "audit_pack"
  /\ Write([action |-> "evidence_pack", decision |-> "escalated",
            answers |-> {m.requirement : m \in work.mappings}])
  /\ pc' = "route"
  /\ UNCHANGED <<work, reviews>>

Covers(w, coverage) == \E m \in w.mappings : m.coverage = coverage

\* The most severe gap, or a floor from the coverage where there is no gap.
PackSeverity(w) ==
  CASE w.gaps # {} -> CHOOSE s \in Severity : /\ \E g \in w.gaps : g.severity = s
                                              /\ \A g \in w.gaps : g.severity <= s
    [] w.gaps = {} /\ Covers(w, "none")                              -> Grave
    [] w.gaps = {} /\ ~Covers(w, "none") /\ Covers(w, "partial")     -> Moderate
    [] w.gaps = {} /\ ~Covers(w, "none") /\ ~Covers(w, "partial")    -> 0

\* Mutant: the severities of the gaps decide alone.
EscalatedBySeverity(w) == PackSeverity(w) >= Grave

PackEscalated(w) == Covers(w, "none") \/ PackSeverity(w) >= Grave

PackReview(w) == [mappings |-> w.mappings, gaps |-> w.gaps, severity |-> PackSeverity(w),
                  approvals |-> IF PackEscalated(w) THEN 2 ELSE 1]

\* The hand-off is the last step, its failure is suppressed, and it may be switched off.
Route ==
  /\ pc = "route"
  /\ \/ reviews' \in {{}, {PackReview(work)}} /\ UNCHANGED faults
     \/ reviews' \in {{}, {PackReview(work)}} /\ CountFault
  /\ work' = [work EXCEPT !.outcome = "returned"]
  /\ pc' = "done"
  /\ UNCHANGED trail

\* The knowledge base, a posture source or the model raises: no further row.
Raise ==
  /\ pc \in {"fetch", "observe", "generate"} \/ (pc = "derive" /\ Uncovered(work) # {})
  /\ CountFault
  /\ work' = [work EXCEPT !.outcome = "failed"]
  /\ pc' = "done"
  /\ UNCHANGED <<trail, reviews>>

ServeMapping ==
  \/ Fetch \/ Observe \/ Refuse \/ Generate \/ AuditMap \/ Derive
  \/ AuditGaps \/ AuditPack \/ Route \/ Raise
=============================================================================
