----------------------- MODULE ScanAssessment_proofs -----------------------
(***************************************************************************)
(* Proofs about ScanAssessment, for every catalogue, every policy a bank   *)
(* may configure and every reply of the model.                             *)
(***************************************************************************)
EXTENDS ScanAssessment, LeastElement, FiniteSetTheorems, SequenceTheorems

(***************************************************************************)
(* What the pure definitions return.                                       *)
(***************************************************************************)
MappingRecord == [requirement : Requirements, controls : SUBSET Controls, coverage : Coverage,
             review : BOOLEAN]

GapRecord == [requirement : Requirements, missing : SUBSET {FamilyOf[c] : c \in Controls},
         severity : Severity]

PostureRecord == [Controls -> SUBSET {"enabled", "unsatisfied"}]

LEMMA PosturesAreTyped == Postures \subseteq PostureRecord /\ NoPosture \in PostureRecord
BY DEF Postures, PostureRecord, NoPosture

LEMMA CoverageTyped ==
  ASSUME NEW row \in Rows, NEW controls, NEW posture
  PROVE  CoverageOf(row, controls, posture) \in Coverage
<1> DEFINE satisfied == {c \in controls : Satisfied(posture, c)}
<1>1. ComputeCoverage(controls, posture) \in Coverage
  <2>1. CASE satisfied = {}
    BY <2>1 DEF ComputeCoverage, Coverage
  <2>2. CASE satisfied # {} /\ satisfied = controls
    BY <2>2 DEF ComputeCoverage, Coverage
  <2>3. CASE satisfied # {} /\ satisfied # controls
    BY <2>3 DEF ComputeCoverage, Coverage
  <2> QED
    BY <2>1, <2>2, <2>3
<1> QED
  BY <1>1 DEF CoverageOf

LEMMA MappingTyped ==
  ASSUME NEW row \in Rows, row.requirement \in Requirements, NEW posture
  PROVE  MappingOf(row, posture) \in MappingRecord
<1> DEFINE controls == row.controls \intersect Controls
<1>1. CoverageOf(row, controls, posture) \in Coverage
  BY CoverageTyped
<1> QED
  BY <1>1 DEF MappingOf, MappingRecord, MappingReview

\* Full coverage that was computed is full: every mapped control was seen enabled.
LEMMA FullIsSatisfied ==
  ASSUME NEW controls, NEW posture, ComputeCoverage(controls, posture) = "full"
  PROVE  controls # {} /\ \A c \in controls : Satisfied(posture, c)
<1> DEFINE satisfied == {c \in controls : Satisfied(posture, c)}
<1>1. CASE satisfied = {}
  BY <1>1 DEF ComputeCoverage
<1>2. CASE satisfied # {} /\ satisfied = controls
  BY <1>2
<1>3. CASE satisfied # {} /\ satisfied # controls
  BY <1>3 DEF ComputeCoverage
<1> QED
  BY <1>1, <1>2, <1>3

\* And the other way round: if every mapped control was seen enabled, coverage is full.
LEMMA SatisfiedIsFull ==
  ASSUME NEW controls, NEW posture, controls # {}, \A c \in controls : Satisfied(posture, c)
  PROVE  ComputeCoverage(controls, posture) = "full"
<1>1. {c \in controls : Satisfied(posture, c)} = controls
  OBVIOUS
<1> QED
  BY <1>1 DEF ComputeCoverage

LEMMA SeverityTyped ==
  ASSUME NEW raw \in Severities, NEW coverage
  PROVE  SeverityFor(raw, coverage) \in Severity
<1> USE DEF Severity, Moderate, Grave
<1>1. raw \in Severity \union {Absent, Garbled}
  BY ControlMappingAssumption
<1> DEFINE none == IF coverage = "none" THEN 2 ELSE 1
<1>2. none \in 0..3
  OBVIOUS
<1>3. CASE raw \in Severity
  BY <1>2, <1>3 DEF SeverityFor
<1>4. CASE raw \notin Severity /\ raw = Garbled
  BY <1>2, <1>4 DEF SeverityFor
<1>5. CASE raw \notin Severity /\ raw = Absent
  BY <1>2, <1>5 DEF SeverityFor
<1> QED
  BY <1>1, <1>3, <1>4, <1>5

LEMMA SmallerLarger ==
  ASSUME NEW a \in Int, NEW b \in Int
  PROVE  /\ Smaller(a, b) \in Int /\ Larger(a, b) \in Int
         /\ Smaller(a, b) <= a /\ Smaller(a, b) <= b /\ Smaller(a, b) \in {a, b}
         /\ a <= Larger(a, b) /\ b <= Larger(a, b) /\ Larger(a, b) \in {a, b}
BY DEF Smaller, Larger

\* Every number a score is made of is an integer, whatever the tables say.
LEMMA DriversAreNumbers ==
  ASSUME NEW c \in Change
  PROVE  /\ Weight(KindWeight, c.kind) \in Int
         /\ Weight(DocTypeWeight, c.doc_type) \in Int
         /\ TopicDriver(c) \in Int
         /\ Penalty(c) \in Int
<1> USE HorizonPolicyAssumption
<1>1. /\ Weight(KindWeight, c.kind) \in Int
      /\ Weight(DocTypeWeight, c.doc_type) \in Int
  BY DEF Weight
<1>2. TopicDriver(c) \in Int
  <2>1. c.topics \in Seq(STRING)
    BY DEF Change
  <2>2. Len(c.topics) \in Nat /\ DOMAIN c.topics = 1..Len(c.topics)
    BY <2>1
  <2>3. IsFiniteSet(1..Len(c.topics)) /\ MatchedTopics(c) \in SUBSET (1..Len(c.topics))
    BY <2>2, FS_Interval DEF MatchedTopics
  <2>4. Cardinality(MatchedTopics(c)) \in Nat
    BY <2>3, FS_Subset, FS_CardinalityType
  <2>5. TopicPoints * Cardinality(MatchedTopics(c)) \in Int /\ MaxTopicPoints \in Int
    BY <2>4
  <2> QED
    BY <2>5, SmallerLarger DEF TopicDriver
<1>3. Penalty(c) \in Int
  <2>1. ConditionalPenalty \in Int /\ -ConditionalPenalty \in Int
    OBVIOUS
  <2> QED
    BY <2>1, SmallerLarger DEF Penalty
<1> QED
  BY <1>1, <1>2, <1>3

LEMMA GapDriverGrows ==
  ASSUME NEW n \in Nat
  PROVE  GapDriver(0) \in Int /\ GapDriver(n) \in Int /\ GapDriver(0) <= GapDriver(n)
<1> USE HorizonPolicyAssumption
<1>1. Larger(0, 0) = 0 /\ Larger(0, n) = n
  BY DEF Larger
<1>2. OpenGapPoints * n \in Nat /\ OpenGapPoints * 0 = 0
  OBVIOUS
<1>3. MaxOpenGapPoints \in Int
  OBVIOUS
<1> QED
  BY <1>1, <1>2, <1>3 DEF GapDriver, Smaller

LEMMA ScoreGrows ==
  ASSUME NEW c \in Change, NEW n \in Nat
  PROVE  Score(c, 0) \in 0..100 /\ Score(c, n) \in 0..100 /\ Score(c, 0) <= Score(c, n)
<1> DEFINE base == Weight(KindWeight, c.kind) + Weight(DocTypeWeight, c.doc_type) + TopicDriver(c)
<1>1. base \in Int /\ Penalty(c) \in Int
  BY DriversAreNumbers
<1>2. /\ RawScore(c, 0) = base + GapDriver(0) - Penalty(c)
      /\ RawScore(c, n) = base + GapDriver(n) - Penalty(c)
  BY DEF RawScore
<1>3. RawScore(c, 0) \in Int /\ RawScore(c, n) \in Int /\ RawScore(c, 0) <= RawScore(c, n)
  <2> HIDE DEF base
  <2> QED
    BY <1>1, <1>2, GapDriverGrows
<1> QED
  BY <1>3 DEF Score, Smaller, Larger

\* Some band of a non-empty set of bands is the strongest.
LEMMA StrongestBand ==
  ASSUME NEW bands \in SUBSET Band, bands # {}
  PROVE  \E b \in bands : \A other \in bands : other <= b
<1> USE DEF Band
<1>1. CASE 3 \in bands
  BY <1>1
<1>2. CASE 3 \notin bands /\ 2 \in bands
  BY <1>2
<1>3. CASE 3 \notin bands /\ 2 \notin bands /\ 1 \in bands
  BY <1>3
<1>4. CASE 3 \notin bands /\ 2 \notin bands /\ 1 \notin bands
  <2>1. PICK b \in bands : TRUE
    OBVIOUS
  <2>2. b = 0 /\ \A other \in bands : other = 0
    BY <1>4, <2>1
  <2> QED
    BY <2>2
<1> QED
  BY <1>1, <1>2, <1>3, <1>4

LEMMA BandForReached ==
  ASSUME NEW score \in Int
  PROVE  /\ BandFor(score) \in Band
         /\ Reached(score) = {} => BandFor(score) = 0
         /\ Reached(score) # {} => /\ BandFor(score) \in Reached(score)
                                   /\ \A b \in Reached(score) : b <= BandFor(score)
<1>1. Reached(score) \in SUBSET Band
  BY HorizonPolicyAssumption DEF Reached
<1>2. CASE Reached(score) = {}
  BY <1>2 DEF BandFor, Band, Low
<1>3. CASE Reached(score) # {}
  <2>1. \E b \in Reached(score) : \A other \in Reached(score) : other <= b
    BY <1>1, <1>3, StrongestBand
  <2> QED
    BY <2>1, <1>1, <1>3 DEF BandFor
<1> QED
  BY <1>2, <1>3

LEMMA BandGrows ==
  ASSUME NEW low \in Int, NEW high \in Int, low <= high
  PROVE  BandFor(low) <= BandFor(high)
<1>1. Reached(low) \subseteq Reached(high)
  BY HorizonPolicyAssumption DEF Reached, Band
<1>2. BandFor(low) \in 0..3 /\ BandFor(high) \in 0..3
  BY BandForReached DEF Band
<1>3. CASE Reached(low) = {}
  BY <1>2, <1>3, BandForReached
<1>4. CASE Reached(low) # {}
  BY <1>1, <1>4, BandForReached
<1> QED
  BY <1>3, <1>4

(***************************************************************************)
(* Open gaps only make a change more material: monotone over every table   *)
(* of weights, caps and floors a bank may configure.                       *)
(***************************************************************************)
LEMMA MaterialityGrows ==
  ASSUME NEW c \in Change, NEW n \in Nat
  PROVE  /\ Score(c, n) \in 0..100 /\ Materiality(c, n) \in Band
         /\ Score(c, 0) <= Score(c, n) /\ Materiality(c, 0) <= Materiality(c, n)
<1>1. Score(c, 0) \in 0..100 /\ Score(c, n) \in 0..100 /\ Score(c, 0) <= Score(c, n)
  BY ScoreGrows
<1>2. BandFor(Score(c, 0)) <= BandFor(Score(c, n)) /\ BandFor(Score(c, n)) \in Band
  BY <1>1, BandGrows, BandForReached
<1> QED
  BY <1>1, <1>2 DEF Materiality, Low, Band

LEMMA TimesGrows ==
  ASSUME NEW k \in Nat, NEW a \in Nat, NEW b \in Nat, a <= b
  PROVE  k * a <= k * b /\ k * a \in Nat /\ k * b \in Nat
<1>1. PICK e \in Nat : b = a + e
  <2>1. b - a \in Nat /\ b = a + (b - a)
    OBVIOUS
  <2> QED
    BY <2>1
<1>2. k * b = k * a + k * e /\ k * a \in Nat /\ k * e \in Nat /\ k * b \in Nat
  BY <1>1
<1> QED
  BY <1>2

\* The number of topics in scope.
LEMMA MatchedIsCounted ==
  ASSUME NEW c \in Change
  PROVE  /\ Cardinality(MatchedTopics(c)) \in Nat
         /\ Cardinality(MatchedTopics(c)) = 0 <=> MatchedTopics(c) = {}
<1>1. c.topics \in Seq(STRING)
  BY DEF Change
<1>2. Len(c.topics) \in Nat /\ DOMAIN c.topics = 1..Len(c.topics)
  BY <1>1
<1>3. IsFiniteSet(1..Len(c.topics)) /\ MatchedTopics(c) \in SUBSET (1..Len(c.topics))
  BY <1>2, FS_Interval DEF MatchedTopics
<1>4. IsFiniteSet(MatchedTopics(c))
  BY <1>3, FS_Subset
<1> QED
  BY <1>4, FS_CardinalityType, FS_EmptySet

(***************************************************************************)
(* No driver of materiality works against another one: a change that is at *)
(* least as deep in the footprint, of a kind and a document weighted at    *)
(* least as high, with at least as many topics in scope and as many open   *)
(* gaps is never less material (score_materiality, band_for).  It holds    *)
(* for every table and floor, caps and penalties of any sign, as long as a *)
(* topic has no negative points.                                           *)
(***************************************************************************)
THEOREM DriversNeverLower ==
  ASSUME NEW c \in Change, NEW d \in Change, NEW m \in Nat, NEW n \in Nat,
         TopicPoints \in Nat,
         InFootprint(c) => InFootprint(d),
         Weight(KindWeight, c.kind) <= Weight(KindWeight, d.kind),
         Weight(DocTypeWeight, c.doc_type) <= Weight(DocTypeWeight, d.doc_type),
         Cardinality(MatchedTopics(c)) <= Cardinality(MatchedTopics(d)),
         m <= n
  PROVE  Score(c, m) <= Score(d, n) /\ Materiality(c, m) <= Materiality(d, n)
<1> USE HorizonPolicyAssumption
<1>1. TopicDriver(c) <= TopicDriver(d)
  <2>1. /\ TopicPoints * Cardinality(MatchedTopics(c)) \in Nat
        /\ TopicPoints * Cardinality(MatchedTopics(d)) \in Nat
        /\ TopicPoints * Cardinality(MatchedTopics(c)) <= TopicPoints * Cardinality(MatchedTopics(d))
    BY MatchedIsCounted, TimesGrows
  <2>2. MaxTopicPoints \in Int
    OBVIOUS
  <2> QED
    BY <2>1, <2>2 DEF TopicDriver, Smaller
<1>2. GapDriver(m) \in Int /\ GapDriver(n) \in Int /\ GapDriver(m) <= GapDriver(n)
  <2>1. OpenGapPoints * m \in Nat /\ OpenGapPoints * n \in Nat
        /\ OpenGapPoints * m <= OpenGapPoints * n
    BY TimesGrows
  <2>2. Larger(0, m) = m /\ Larger(0, n) = n
    BY DEF Larger
  <2>3. MaxOpenGapPoints \in Int
    OBVIOUS
  <2> QED
    BY <2>1, <2>2, <2>3 DEF GapDriver, Smaller
<1>3. InFootprint(c) => 0 <= Penalty(d) /\ Penalty(d) <= Penalty(c)
  <2>1. ConditionalPenalty \in Int
    OBVIOUS
  <2>2. ASSUME MatchedTopics(d) = {} PROVE MatchedTopics(c) = {}
    <3>1. Cardinality(MatchedTopics(d)) = 0
      BY <2>2, MatchedIsCounted
    <3>2. Cardinality(MatchedTopics(c)) \in Nat
      BY MatchedIsCounted
    <3>3. Cardinality(MatchedTopics(c)) = 0
      BY <3>1, <3>2
    <3> QED
      BY <3>3, MatchedIsCounted
  <2>3. 0 <= Larger(ConditionalPenalty, -ConditionalPenalty)
    BY <2>1 DEF Larger
  <2>4. \A e \in {c, d} : InFootprint(e) =>
           Penalty(e) = IF MatchedTopics(e) = {}
                          THEN Larger(ConditionalPenalty, -ConditionalPenalty) ELSE 0
    BY DEF Penalty, Applicability
  <2>5. Larger(ConditionalPenalty, -ConditionalPenalty) \in Int
    BY <2>1, SmallerLarger
  <2> QED
    BY <2>2, <2>3, <2>4, <2>5
<1>4. Score(c, m) \in 0..100 /\ Score(d, n) \in 0..100
  BY ScoreGrows
<1>5. CASE ~InFootprint(c)
  <2>1. Applicability(c) = "not_applicable"
    BY <1>5 DEF Applicability
  <2>2. Score(c, m) = 0 /\ Materiality(c, m) = 0
    BY <2>1 DEF Score, Materiality, Low
  <2>3. Materiality(d, n) \in 0..3
    BY MaterialityGrows DEF Band
  <2> QED
    BY <1>4, <2>2, <2>3
<1>6. CASE InFootprint(c)
  <2>1. Applicability(c) # "not_applicable" /\ Applicability(d) # "not_applicable"
    BY <1>6 DEF Applicability
  <2>2. RawScore(c, m) \in Int /\ RawScore(d, n) \in Int /\ RawScore(c, m) <= RawScore(d, n)
    BY <1>1, <1>2, <1>3, <1>6, DriversAreNumbers DEF RawScore
  <2>3. Score(c, m) <= Score(d, n)
    BY <2>1, <2>2 DEF Score, Smaller, Larger
  <2>4. BandFor(Score(c, m)) <= BandFor(Score(d, n))
    BY <1>4, <2>3, BandGrows
  <2> QED
    BY <2>1, <2>3, <2>4 DEF Materiality
<1> QED
  BY <1>5, <1>6

\* A change has an owner if and only if it applies, or may apply, to the bank.
LEMMA OwnerIffApplicable ==
  ASSUME NEW c \in Change
  PROVE  RouteOwner(c) # NoOwner <=> Applicability(c) # "not_applicable"
<1> USE HorizonPolicyAssumption
<1>1. c.topics \in Seq(STRING)
  BY DEF Change
<1>2. CASE Applicability(c) = "not_applicable"
  BY <1>2 DEF RouteOwner
<1>3. CASE Applicability(c) # "not_applicable" /\ RuledTopics(c) # {}
  <2> DEFINE first == CHOOSE i \in RuledTopics(c) : \A j \in RuledTopics(c) : i <= j
  <2>1. RuledTopics(c) \in SUBSET Nat
    BY <1>1 DEF RuledTopics
  <2>2. \E i \in RuledTopics(c) : \A j \in RuledTopics(c) : i <= j
    BY <1>3, <2>1, MinIsLeast
  <2>3. TopicOwner[c.topics[first]] # NoOwner
    <3>1. first \in RuledTopics(c)
      BY <2>2
    <3> QED
      BY <3>1 DEF RuledTopics
  <2> QED
    BY <1>3, <2>3 DEF RouteOwner
<1>4. CASE Applicability(c) # "not_applicable" /\ RuledTopics(c) = {}
           /\ c.regulator \in DOMAIN RegulatorOwner
  BY <1>4 DEF RouteOwner
<1>5. CASE Applicability(c) # "not_applicable" /\ RuledTopics(c) = {}
           /\ c.regulator \notin DOMAIN RegulatorOwner
  BY <1>5 DEF RouteOwner
<1> QED
  BY <1>2, <1>3, <1>4, <1>5

(***************************************************************************)
(* The inductive invariant.  What a request has is what its steps computed *)
(* from the rows and severities of the model and from one posture, and it  *)
(* has it at known steps only; a scan has assessments only while the       *)
(* analysis they were made with is still there.                            *)
(***************************************************************************)
WorkRecord ==
  [kind : {"map", "gaps", "pack"}, wanted : Regulators \union {AnyRegulator},
   requirements : SUBSET Requirements, posture : PostureRecord, parsed : BOOLEAN,
   mappings : SUBSET MappingRecord, gaps : SUBSET GapRecord,
   outcome : {"none", "returned", "refused", "failed"}]

WorkTypeOK ==
  /\ pc \in Steps
  /\ work \in WorkRecord
  /\ scan = [open |-> scan.open, changes |-> scan.changes, assessments |-> scan.assessments]
  /\ scan.open \in BOOLEAN
  /\ scan.changes \subseteq Change

Mapped(w) == \A m \in w.mappings :
               \E row \in Rows : row.requirement \in w.requirements /\ m = MappingOf(row, w.posture)

Derived(w) == \E raw \in [{m.requirement : m \in Uncovered(w)} -> Severities] :
                w.gaps = {Gap(m, raw[m.requirement], w.posture) : m \in Uncovered(w)}

\* The steps before there is a mapping, before there are gaps, and after.
Early == {"idle", "fetch", "observe", "refuse"}
Asking == {"generate", "audit_map", "derive"}
Late == {"audit_gaps", "audit_pack", "route"}

WorkInv ==
  /\ Mapped(work)
  /\ IsFiniteSet(work.mappings) /\ IsFiniteSet(work.gaps)
  /\ \A g \in work.gaps : g.requirement \in work.requirements
  /\ pc \in Early => work.mappings = {}
  /\ pc = "generate" => work.mappings = {}
  /\ pc \in Early \union Asking => work.gaps = {}
  /\ pc \in {"done", "assessed"} <=> work.outcome # "none"
  /\ work.outcome = "refused" => work.mappings = {} /\ work.gaps = {}
  /\ pc \in {"derive"} \union Late => work.kind # "map"
  /\ pc = "audit_gaps" => work.kind = "gaps"
  /\ pc \in {"audit_pack", "route"} => work.kind = "pack"
  /\ pc \in Late \/ (work.outcome = "returned" /\ work.kind # "map") => Derived(work)

ScanInv ==
  /\ scan.open => work.kind = "gaps"
  /\ pc = "idle" => ~scan.open
  /\ pc = "assessed" => scan.open
  /\ pc # "assessed" => scan.assessments = {}
  /\ \A a \in scan.assessments :
       \E c \in scan.changes : a = Assessment(c, OpenGaps(c.regulator))

IInv == WorkTypeOK /\ WorkInv /\ ScanInv

\* Two records with the same mappings, over the same posture, have the same holes and
\* are derived from the same replies.
LEMMA SameWork ==
  ASSUME NEW w, NEW v, v.requirements = w.requirements, v.posture = w.posture,
         v.mappings = w.mappings, v.gaps = w.gaps
  PROVE  /\ Uncovered(v) = Uncovered(w)
         /\ Mapped(w) => Mapped(v)
         /\ Derived(w) => Derived(v)
<1>1. Uncovered(v) = Uncovered(w)
  BY DEF Uncovered
<1>2. Mapped(w) => Mapped(v)
  BY DEF Mapped
<1>3. Derived(w) => Derived(v)
  <2> SUFFICES ASSUME Derived(w)
               PROVE  Derived(v)
    OBVIOUS
  <2>1. PICK raw \in [{m.requirement : m \in Uncovered(w)} -> Severities] :
          w.gaps = {Gap(m, raw[m.requirement], w.posture) : m \in Uncovered(w)}
    BY DEF Derived
  <2>2. v.gaps = {Gap(m, raw[m.requirement], v.posture) : m \in Uncovered(v)}
    BY <1>1, <2>1
  <2>3. raw \in [{m.requirement : m \in Uncovered(v)} -> Severities]
    BY <1>1
  <2> QED
    BY <2>2, <2>3 DEF Derived
<1> QED
  BY <1>1, <1>2, <1>3

LEMMA InitHolds == ScanInit => IInv
<1> SUFFICES ASSUME ScanInit PROVE IInv
  OBVIOUS
<1> USE DEF ScanInit, MappingInit, NoWork, NoScan
<1>1. WorkTypeOK
  BY PosturesAreTyped DEF WorkTypeOK, WorkRecord, Steps
<1>2. WorkInv
  BY FS_EmptySet DEF WorkInv, Mapped, Early, Asking, Late
<1>3. ScanInv
  BY DEF ScanInv, Steps
<1> QED
  BY <1>1, <1>2, <1>3 DEF IInv

\* A request starts from nothing.
LEMMA BeginHolds ==
  ASSUME NEW kind \in {"map", "gaps", "pack"}, NEW wanted \in Regulators \union {AnyRegulator},
         Begin(kind, wanted)
  PROVE  /\ pc' = "fetch"
         /\ work' = [kind |-> kind, wanted |-> wanted, requirements |-> {}, posture |-> NoPosture,
                     parsed |-> TRUE, mappings |-> {}, gaps |-> {}, outcome |-> "none"]
         /\ work' \in WorkRecord
         /\ WorkInv'
<1>1. /\ pc' = "fetch"
      /\ work' = [kind |-> kind, wanted |-> wanted, requirements |-> {}, posture |-> NoPosture,
                  parsed |-> TRUE, mappings |-> {}, gaps |-> {}, outcome |-> "none"]
  BY DEF Begin, NoWork
<1>2. WorkInv'
  BY <1>1, FS_EmptySet DEF WorkInv, Mapped, Early, Asking, Late
<1>3. work' \in WorkRecord
  BY <1>1, PosturesAreTyped DEF WorkRecord
<1> QED
  BY <1>1, <1>2, <1>3

LEMMA RequestKeeps ==
  ASSUME IInv, NEW kind \in {"map", "gaps", "pack"},
         NEW wanted \in Regulators \union {AnyRegulator}, Request(kind, wanted)
  PROVE  IInv'
<1> USE DEF IInv
<1>1. pc = "idle" /\ Begin(kind, wanted) /\ scan' = scan
  BY DEF Request
<1>2. WorkTypeOK'
  BY <1>1, BeginHolds DEF WorkTypeOK, Steps
<1>3. ScanInv'
  BY <1>1, BeginHolds DEF ScanInv
<1> QED
  BY <1>1, <1>2, <1>3, BeginHolds

LEMMA BeginScanKeeps ==
  ASSUME IInv, NEW wanted \in Regulators \union {AnyRegulator}, NEW detected \in Detections,
         BeginScan(wanted, detected)
  PROVE  IInv'
<1> USE DEF IInv
<1>1. /\ Begin("gaps", wanted)
      /\ scan' = [open |-> TRUE,
                  changes |-> {c \in detected : wanted \in {AnyRegulator, c.regulator}},
                  assessments |-> {}]
  BY DEF BeginScan, NoScan
<1>2. detected \subseteq Change
  BY HorizonPolicyAssumption
<1>3. WorkTypeOK'
  BY <1>1, <1>2, BeginHolds DEF WorkTypeOK, Steps
<1>4. ScanInv'
  BY <1>1, BeginHolds DEF ScanInv
<1> QED
  BY <1>1, <1>3, <1>4, BeginHolds

LEMMA FetchKeeps == ASSUME IInv, Fetch, UNCHANGED scan PROVE IInv'
<1> USE DEF IInv
<1>1. PICK found \in SUBSET Requirements :
        /\ work' = [work EXCEPT !.requirements = found]
        /\ pc' = IF found = {} THEN "refuse" ELSE "observe"
  BY DEF Fetch
<1>2. pc = "fetch" /\ scan' = scan
  BY DEF Fetch
<1>3. WorkTypeOK'
  BY <1>1, <1>2 DEF WorkTypeOK, WorkRecord, Steps
<1>4. WorkInv'
  BY <1>1, <1>2 DEF WorkInv, WorkTypeOK, WorkRecord, Mapped, Early, Asking, Late
<1>5. ScanInv'
  BY <1>1, <1>2 DEF ScanInv, WorkTypeOK, WorkRecord
<1> QED
  BY <1>3, <1>4, <1>5

LEMMA ObserveKeeps == ASSUME IInv, Observe, UNCHANGED scan PROVE IInv'
<1> USE DEF IInv
<1>1. PICK posture \in Postures :
        /\ work' = [work EXCEPT !.posture = posture]
        /\ pc' = IF posture = NoPosture THEN "refuse" ELSE "generate"
  BY DEF Observe
<1>2. pc = "observe" /\ scan' = scan
  BY DEF Observe
<1>3. WorkTypeOK'
  BY <1>1, <1>2, PosturesAreTyped DEF WorkTypeOK, WorkRecord, Steps
<1>4. WorkInv'
  BY <1>1, <1>2 DEF WorkInv, WorkTypeOK, WorkRecord, Mapped, Early, Asking, Late
<1>5. ScanInv'
  BY <1>1, <1>2 DEF ScanInv, WorkTypeOK, WorkRecord
<1> QED
  BY <1>3, <1>4, <1>5

\* The steps that only move on, or record how the request ended.
LEMMA SettledWork ==
  ASSUME IInv, NEW outcome \in {"none", "returned", "refused", "failed"},
         work' = [work EXCEPT !.outcome = outcome]
  PROVE  /\ work' \in WorkRecord
         /\ work'.kind = work.kind /\ work'.mappings = work.mappings /\ work'.gaps = work.gaps
         /\ work'.requirements = work.requirements /\ work'.posture = work.posture
         /\ work'.outcome = outcome
         /\ Mapped(work') /\ (Derived(work) => Derived(work'))
<1>1. /\ work' \in WorkRecord
      /\ work'.kind = work.kind /\ work'.mappings = work.mappings /\ work'.gaps = work.gaps
      /\ work'.requirements = work.requirements /\ work'.posture = work.posture
      /\ work'.outcome = outcome
  BY DEF IInv, WorkTypeOK, WorkRecord
<1>2. Mapped(work)
  BY DEF IInv, WorkInv
<1> QED
  BY <1>1, <1>2, SameWork

LEMMA RefuseKeeps == ASSUME IInv, Refuse, UNCHANGED scan PROVE IInv'
<1> USE DEF IInv
<1>1. /\ pc = "refuse" /\ pc' = "done" /\ scan' = scan
      /\ work' = [work EXCEPT !.outcome = "refused"]
  BY DEF Refuse
<1>2. WorkTypeOK'
  BY <1>1, SettledWork DEF WorkTypeOK, Steps
<1>3. WorkInv'
  BY <1>1, SettledWork DEF WorkInv, Early, Asking, Late
<1>4. ScanInv'
  BY <1>1, SettledWork DEF ScanInv
<1> QED
  BY <1>2, <1>3, <1>4

\* What the model says of a requirement is kept only if the service had fetched it.
LEMMA BuiltMappings ==
  ASSUME IInv, NEW a \in Rows, NEW b \in Rows
  PROVE  /\ BuildMappings({a, b}, work) \subseteq MappingRecord
         /\ IsFiniteSet(BuildMappings({a, b}, work))
         /\ \A m \in BuildMappings({a, b}, work) :
              \E row \in Rows : row.requirement \in work.requirements /\ m = MappingOf(row, work.posture)
<1>1. \A m \in BuildMappings({a, b}, work) :
        \E row \in {a, b} : row.requirement \in work.requirements /\ m = MappingOf(row, work.posture)
  BY DEF BuildMappings
<1>2. work.requirements \subseteq Requirements
  BY DEF IInv, WorkTypeOK, WorkRecord
<1>3. BuildMappings({a, b}, work) \subseteq MappingRecord
  BY <1>1, <1>2, MappingTyped
<1>4. IsFiniteSet({MappingOf(a, work.posture), MappingOf(b, work.posture)})
  <2>1. IsFiniteSet({MappingOf(a, work.posture)})
    BY FS_Singleton
  <2>2. IsFiniteSet({MappingOf(a, work.posture)} \union {MappingOf(b, work.posture)})
    BY <2>1, FS_AddElement
  <2>3. {MappingOf(a, work.posture)} \union {MappingOf(b, work.posture)}
          = {MappingOf(a, work.posture), MappingOf(b, work.posture)}
    OBVIOUS
  <2> QED
    BY <2>2, <2>3
<1>5. BuildMappings({a, b}, work) \subseteq {MappingOf(a, work.posture), MappingOf(b, work.posture)}
  BY <1>1
<1>6. IsFiniteSet(BuildMappings({a, b}, work))
  BY <1>4, <1>5, FS_Subset
<1> QED
  BY <1>1, <1>3, <1>6

LEMMA GenerateKeeps == ASSUME IInv, Generate, UNCHANGED scan PROVE IInv'
<1> USE DEF IInv
<1>1. pc = "generate" /\ pc' = "audit_map" /\ scan' = scan
  BY DEF Generate
<1>2. ASSUME NEW a \in Rows, NEW b \in Rows,
             work' = [work EXCEPT !.mappings = BuildMappings({a, b}, work)]
      PROVE  IInv'
  <2>1. /\ work' \in WorkRecord
        /\ work'.mappings = BuildMappings({a, b}, work)
        /\ work'.requirements = work.requirements /\ work'.posture = work.posture
        /\ work'.gaps = work.gaps /\ work'.outcome = work.outcome /\ work'.kind = work.kind
    BY <1>2, BuiltMappings DEF WorkTypeOK, WorkRecord
  <2>2. WorkTypeOK'
    BY <1>1, <2>1 DEF WorkTypeOK, Steps
  <2>3. WorkInv'
    BY <1>1, <2>1, BuiltMappings DEF WorkInv, Mapped, Early, Asking, Late
  <2>4. ScanInv'
    BY <1>1, <2>1 DEF ScanInv
  <2> QED
    BY <2>2, <2>3, <2>4
<1>3. CASE work' = [work EXCEPT !.parsed = FALSE]
  <2>1. /\ work' \in WorkRecord
        /\ work'.mappings = work.mappings
        /\ work'.requirements = work.requirements /\ work'.posture = work.posture
        /\ work'.gaps = work.gaps /\ work'.outcome = work.outcome /\ work'.kind = work.kind
    BY <1>3 DEF WorkTypeOK, WorkRecord
  <2>2. WorkTypeOK'
    BY <1>1, <2>1 DEF WorkTypeOK, Steps
  <2>3. WorkInv'
    BY <1>1, <2>1 DEF WorkInv, Mapped, Early, Asking, Late
  <2>4. ScanInv'
    BY <1>1, <2>1 DEF ScanInv
  <2> QED
    BY <2>2, <2>3, <2>4
<1> QED
  BY <1>2, <1>3 DEF Generate

LEMMA AuditMapKeeps == ASSUME IInv, AuditMap, UNCHANGED scan PROVE IInv'
<1> USE DEF IInv
<1>1. pc = "audit_map" /\ scan' = scan
  BY DEF AuditMap
<1>2. CASE work.kind = "map"
  <2>1. pc' = "done" /\ work' = [work EXCEPT !.outcome = "returned"]
    BY <1>2 DEF AuditMap
  <2>2. WorkTypeOK'
    BY <1>1, <2>1, SettledWork DEF WorkTypeOK, Steps
  <2>3. WorkInv'
    BY <1>1, <1>2, <2>1, SettledWork DEF WorkInv, Early, Asking, Late
  <2>4. ScanInv'
    BY <1>1, <2>1, SettledWork DEF ScanInv
  <2> QED
    BY <2>2, <2>3, <2>4
<1>3. CASE work.kind # "map"
  <2>1. pc' = "derive" /\ work' = work
    BY <1>3 DEF AuditMap
  <2>2. WorkTypeOK'
    BY <1>1, <2>1 DEF WorkTypeOK, Steps
  <2>3. WorkInv'
    BY <1>1, <1>3, <2>1 DEF WorkInv, Mapped, Early, Asking, Late
  <2>4. ScanInv'
    BY <1>1, <2>1 DEF ScanInv
  <2> QED
    BY <2>2, <2>3, <2>4
<1> QED
  BY <1>2, <1>3

\* One gap for each mapping with a hole, whatever severity the model gives it.
LEMMA DerivedGaps ==
  ASSUME IInv, NEW raw \in [{m.requirement : m \in Uncovered(work)} -> Severities]
  PROVE  LET gaps == {Gap(m, raw[m.requirement], work.posture) : m \in Uncovered(work)} IN
         /\ gaps \subseteq GapRecord
         /\ IsFiniteSet(gaps)
         /\ \A g \in gaps : g.requirement \in work.requirements
<1> DEFINE gaps == {Gap(m, raw[m.requirement], work.posture) : m \in Uncovered(work)}
<1>1. /\ work.mappings \subseteq MappingRecord /\ IsFiniteSet(work.mappings)
      /\ \A m \in work.mappings : m.requirement \in work.requirements
  <2>1. work.mappings \subseteq MappingRecord
    BY DEF IInv, WorkTypeOK, WorkRecord
  <2>2. IsFiniteSet(work.mappings) /\ Mapped(work)
    BY DEF IInv, WorkInv
  <2>3. \A row \in Rows : MappingOf(row, work.posture).requirement = row.requirement
    BY DEF MappingOf
  <2> QED
    BY <2>1, <2>2, <2>3 DEF Mapped
<1>2. Uncovered(work) \in SUBSET work.mappings
  BY DEF Uncovered
<1>3. ASSUME NEW m \in Uncovered(work)
      PROVE  /\ Gap(m, raw[m.requirement], work.posture) \in GapRecord
             /\ Gap(m, raw[m.requirement], work.posture).requirement \in work.requirements
  <2>1. m \in MappingRecord /\ m.requirement \in work.requirements
    BY <1>1, <1>2
  <2>2. raw[m.requirement] \in Severities
    OBVIOUS
  <2>3. SeverityFor(raw[m.requirement], m.coverage) \in Severity
    BY <2>2, SeverityTyped
  <2>4. MissingFamilies(m.controls, work.posture) \in SUBSET {FamilyOf[c] : c \in Controls}
    BY <2>1 DEF MissingFamilies, MappingRecord
  <2> QED
    BY <2>1, <2>3, <2>4 DEF Gap, GapRecord, MappingRecord
<1>4. IsFiniteSet(gaps)
  <2>1. IsFiniteSet(Uncovered(work))
    BY <1>1, <1>2, FS_Subset
  <2> DEFINE f == [m \in Uncovered(work) |-> Gap(m, raw[m.requirement], work.posture)]
  <2>2. f \in Surjection(Uncovered(work), gaps)
    BY DEF Surjection
  <2> QED
    BY <2>1, <2>2, FS_Surjection
<1> QED
  BY <1>3, <1>4

LEMMA DeriveKeeps == ASSUME IInv, Derive, UNCHANGED scan PROVE IInv'
<1> USE DEF IInv
<1>1. PICK raw \in [{m.requirement : m \in Uncovered(work)} -> Severities] :
        work' = [work EXCEPT !.gaps = {Gap(m, raw[m.requirement], work.posture) : m \in Uncovered(work)}]
  BY DEF Derive
<1>2. /\ pc = "derive" /\ scan' = scan
      /\ pc' = IF work.kind = "gaps" THEN "audit_gaps" ELSE "audit_pack"
  BY DEF Derive
<1> DEFINE gaps == {Gap(m, raw[m.requirement], work.posture) : m \in Uncovered(work)}
<1>3. /\ gaps \subseteq GapRecord /\ IsFiniteSet(gaps)
      /\ \A g \in gaps : g.requirement \in work.requirements
  BY DerivedGaps
<1>4. /\ work' \in WorkRecord
      /\ work'.gaps = gaps
      /\ work'.mappings = work.mappings
      /\ work'.requirements = work.requirements /\ work'.posture = work.posture
      /\ work'.outcome = work.outcome /\ work'.kind = work.kind
  <2> HIDE DEF gaps
  <2>1. work' = [work EXCEPT !.gaps = gaps]
    BY <1>1 DEF gaps
  <2> QED
    BY <1>3, <2>1 DEF WorkTypeOK, WorkRecord
<1>5. Derived(work')
  <2>1. Uncovered(work') = Uncovered(work)
    BY <1>4 DEF Uncovered
  <2>2. work'.gaps = {Gap(m, raw[m.requirement], work'.posture) : m \in Uncovered(work')}
    BY <1>4, <2>1
  <2>3. raw \in [{m.requirement : m \in Uncovered(work')} -> Severities]
    BY <2>1
  <2> QED
    BY <2>2, <2>3 DEF Derived
<1> HIDE DEF gaps
<1>6. WorkTypeOK'
  BY <1>2, <1>4 DEF WorkTypeOK, Steps
<1>7. WorkInv'
  <2>1. work.kind \in {"map", "gaps", "pack"}
    BY DEF WorkTypeOK, WorkRecord
  <2> QED
    BY <1>2, <1>3, <1>4, <1>5, <2>1 DEF WorkInv, Mapped, Early, Asking, Late
<1>8. ScanInv'
  BY <1>2, <1>4 DEF ScanInv
<1> QED
  BY <1>6, <1>7, <1>8

LEMMA AuditGapsKeeps == ASSUME IInv, AuditGaps, UNCHANGED scan PROVE IInv'
<1> USE DEF IInv
<1>1. /\ pc = "audit_gaps" /\ pc' = "done" /\ scan' = scan
      /\ work' = [work EXCEPT !.outcome = "returned"]
  BY DEF AuditGaps
<1>2. WorkTypeOK'
  BY <1>1, SettledWork DEF WorkTypeOK, Steps
<1>3. WorkInv'
  BY <1>1, SettledWork DEF WorkInv, Early, Asking, Late
<1>4. ScanInv'
  BY <1>1, SettledWork DEF ScanInv
<1> QED
  BY <1>2, <1>3, <1>4

LEMMA AuditPackKeeps == ASSUME IInv, AuditPack, UNCHANGED scan PROVE IInv'
<1> USE DEF IInv
<1>1. pc = "audit_pack" /\ pc' = "route" /\ scan' = scan /\ work' = work
  BY DEF AuditPack
<1>2. WorkTypeOK'
  BY <1>1 DEF WorkTypeOK, Steps
<1>3. WorkInv'
  BY <1>1, SameWork DEF WorkInv, Early, Asking, Late
<1>4. ScanInv'
  BY <1>1 DEF ScanInv
<1> QED
  BY <1>2, <1>3, <1>4

LEMMA RouteKeeps == ASSUME IInv, Route, UNCHANGED scan PROVE IInv'
<1> USE DEF IInv
<1>1. /\ pc = "route" /\ pc' = "done" /\ scan' = scan
      /\ work' = [work EXCEPT !.outcome = "returned"]
  BY DEF Route
<1>2. WorkTypeOK'
  BY <1>1, SettledWork DEF WorkTypeOK, Steps
<1>3. WorkInv'
  BY <1>1, SettledWork DEF WorkInv, Early, Asking, Late
<1>4. ScanInv'
  BY <1>1, SettledWork DEF ScanInv
<1> QED
  BY <1>2, <1>3, <1>4

LEMMA RaiseKeeps == ASSUME IInv, Raise, UNCHANGED scan PROVE IInv'
<1> USE DEF IInv
<1>1. /\ pc \in {"fetch", "observe", "generate", "derive"} /\ pc' = "done" /\ scan' = scan
      /\ work' = [work EXCEPT !.outcome = "failed"]
  BY DEF Raise
<1>2. WorkTypeOK'
  BY <1>1, SettledWork DEF WorkTypeOK, Steps
<1>3. WorkInv'
  BY <1>1, SettledWork DEF WorkInv, Early, Asking, Late
<1>4. ScanInv'
  BY <1>1, SettledWork DEF ScanInv
<1> QED
  BY <1>2, <1>3, <1>4

LEMMA AssessKeeps == ASSUME IInv, Assess PROVE IInv'
<1> USE DEF IInv
<1>1. /\ pc = "done" /\ pc' = "assessed" /\ work' = work /\ scan.open
      /\ scan' = [open |-> scan.open, changes |-> scan.changes,
                  assessments |-> {Assessment(c, OpenGaps(c.regulator)) : c \in scan.changes}]
  BY DEF Assess, ForAScan, WorkTypeOK
<1>2. WorkTypeOK'
  BY <1>1 DEF WorkTypeOK, Steps
<1>3. WorkInv'
  BY <1>1, SameWork DEF WorkInv, Early, Asking, Late
<1>4. ScanInv'
  <2>1. \A c : OpenGaps(c.regulator)' = OpenGaps(c.regulator)
    BY <1>1 DEF OpenGaps
  <2> QED
    BY <1>1, <2>1 DEF ScanInv
<1> QED
  BY <1>2, <1>3, <1>4

LEMMA ReturnKeeps == ASSUME IInv, Return PROVE IInv'
<1>1. pc' = "idle" /\ work' = NoWork /\ scan' = NoScan
  BY DEF Return
<1>2. WorkTypeOK'
  BY <1>1, PosturesAreTyped DEF WorkTypeOK, WorkRecord, Steps, NoWork, NoScan
<1>3. WorkInv'
  BY <1>1, FS_EmptySet DEF WorkInv, Mapped, Early, Asking, Late, NoWork
<1>4. ScanInv'
  BY <1>1 DEF ScanInv, NoScan
<1> QED
  BY <1>2, <1>3, <1>4 DEF IInv

LEMMA StepKeeps == IInv /\ [Next]_vars => IInv'
<1> SUFFICES ASSUME IInv, [Next]_vars
             PROVE  IInv'
  OBVIOUS
<1>1. CASE UNCHANGED vars
  <2>1. pc' = pc /\ work' = work /\ scan' = scan
    BY <1>1 DEF vars, mappingVars
  <2>2. WorkTypeOK'
    BY <2>1 DEF IInv, WorkTypeOK
  <2>3. WorkInv'
    BY <2>1, SameWork DEF IInv, WorkInv
  <2>4. ScanInv'
    <3>1. \A c : OpenGaps(c.regulator)' = OpenGaps(c.regulator)
      BY <2>1 DEF OpenGaps
    <3> QED
      BY <2>1, <3>1 DEF IInv, ScanInv
  <2> QED
    BY <2>2, <2>3, <2>4 DEF IInv
<1>2. CASE Mapping
  BY <1>2, FetchKeeps, ObserveKeeps, RefuseKeeps, GenerateKeeps, AuditMapKeeps, DeriveKeeps,
     AuditGapsKeeps, AuditPackKeeps, RouteKeeps, RaiseKeeps DEF Mapping, ServeMapping
<1>3. CASE Assess
  BY <1>3, AssessKeeps
<1>4. CASE Return
  BY <1>4, ReturnKeeps
<1>5. ASSUME NEW kind \in {"map", "gaps", "pack"},
             NEW wanted \in Regulators \union {AnyRegulator}, Request(kind, wanted)
      PROVE  IInv'
  BY <1>5, RequestKeeps
<1>6. ASSUME NEW wanted \in Regulators \union {AnyRegulator}, NEW detected \in Detections,
             BeginScan(wanted, detected)
      PROVE  IInv'
  BY <1>6, BeginScanKeeps
<1> QED
  BY <1>1, <1>2, <1>3, <1>4, <1>5, <1>6 DEF Next, Progress

(***************************************************************************)
(* Wherever a request stands, what it holds is what the code computed from *)
(* what it read: each mapping from its reply, the gaps from the mappings   *)
(* and the posture, each assessment of a scan from its change and the gaps *)
(* of its regulator (mapping_service.py, gap_service.py, scan_service.py). *)
(***************************************************************************)
THEOREM WorkIsComputed == Spec => []IInv
BY InitHolds, StepKeeps, PTL DEF Spec
-----------------------------------------------------------------------------
(***************************************************************************)
(* What follows from it.                                                   *)
(***************************************************************************)
LEMMA CoverageFollows == IInv => CoverageIsEvidenced
<1> SUFFICES ASSUME IInv, NEW m \in work.mappings,
                    m.coverage = "full", Observed(m.controls, work.posture)
             PROVE  \A c \in m.controls : Satisfied(work.posture, c)
  BY DEF CoverageIsEvidenced
<1>1. PICK row \in Rows : m = MappingOf(row, work.posture)
  BY DEF IInv, WorkInv, Mapped
<1>2. m.coverage = CoverageOf(row, m.controls, work.posture)
  BY <1>1 DEF MappingOf
<1>3. ComputeCoverage(m.controls, work.posture) = "full"
  BY <1>2 DEF CoverageOf
<1> QED
  BY <1>3, FullIsSatisfied

(***************************************************************************)
(* Full coverage is never claimed, on the word of the model or otherwise,  *)
(* while one of the mapped controls was observed and one was not seen      *)
(* enabled (compute_coverage in review_policy.py).                         *)
(***************************************************************************)
THEOREM FullIsEvidenced == Spec => []CoverageIsEvidenced
BY WorkIsComputed, CoverageFollows, PTL

\* A hole with nothing missing has nothing mapped.
LEMMA NothingMissing ==
  ASSUME NEW row \in Rows, NEW posture, NEW m, m = MappingOf(row, posture),
         m.coverage # "full", MissingFamilies(m.controls, posture) = {}
  PROVE  m.controls = {}
<1>1. m.coverage = CoverageOf(row, m.controls, posture)
  BY DEF MappingOf
<1>2. \A c \in m.controls : Satisfied(posture, c)
  BY DEF MissingFamilies
<1>3. CASE Observed(m.controls, posture) \/ row.hint \notin Coverage
  <2>1. ComputeCoverage(m.controls, posture) # "full"
    BY <1>1, <1>3 DEF CoverageOf
  <2> QED
    BY <1>2, <2>1, SatisfiedIsFull
<1>4. CASE ~Observed(m.controls, posture)
  BY <1>2, <1>4 DEF Observed, Satisfied
<1> QED
  BY <1>3, <1>4

\* The requirements of the derived gaps are those with a hole.
LEMMA DerivedNames ==
  ASSUME Derived(work)
  PROVE  {g.requirement : g \in work.gaps} = {m.requirement : m \in Uncovered(work)}
<1>1. PICK raw \in [{m.requirement : m \in Uncovered(work)} -> Severities] :
        work.gaps = {Gap(m, raw[m.requirement], work.posture) : m \in Uncovered(work)}
  BY DEF Derived
<1>2. \A m \in Uncovered(work) :
        Gap(m, raw[m.requirement], work.posture).requirement = m.requirement
  BY DEF Gap
<1> QED
  BY <1>1, <1>2

LEMMA GapsFollow == IInv => GapsNameWhatIsMissing
<1> SUFFICES ASSUME IInv, pc \in {"audit_gaps", "audit_pack", "route", "assessed"},
                    work.outcome # "failed"
             PROVE  /\ {g.requirement : g \in work.gaps} = {m.requirement : m \in Uncovered(work)}
                    /\ \A g \in work.gaps : g.missing = {} =>
                         \E m \in Uncovered(work) : m.requirement = g.requirement /\ m.controls = {}
  BY DEF GapsNameWhatIsMissing
<1>1. Derived(work) \/ (work.mappings = {} /\ work.gaps = {})
  BY DEF IInv, WorkTypeOK, WorkRecord, WorkInv, ScanInv, Late
<1>2. CASE work.mappings = {} /\ work.gaps = {}
  BY <1>2 DEF Uncovered
<1>3. CASE Derived(work)
  <2>1. PICK raw \in [{m.requirement : m \in Uncovered(work)} -> Severities] :
          work.gaps = {Gap(m, raw[m.requirement], work.posture) : m \in Uncovered(work)}
    BY <1>3 DEF Derived
  <2>2. \A m \in Uncovered(work) :
          LET g == Gap(m, raw[m.requirement], work.posture) IN
          /\ g.requirement = m.requirement
          /\ g.missing = MissingFamilies(m.controls, work.posture)
    BY DEF Gap
  <2>3. {g.requirement : g \in work.gaps} = {m.requirement : m \in Uncovered(work)}
    BY <1>3, DerivedNames
  <2>4. ASSUME NEW g \in work.gaps, g.missing = {}
        PROVE  \E m \in Uncovered(work) : m.requirement = g.requirement /\ m.controls = {}
    <3>1. PICK m \in Uncovered(work) : g = Gap(m, raw[m.requirement], work.posture)
      BY <2>1
    <3>2. PICK row \in Rows : m = MappingOf(row, work.posture)
      BY <3>1 DEF IInv, WorkInv, Mapped, Uncovered
    <3>3. m.coverage # "full" /\ MissingFamilies(m.controls, work.posture) = {}
      BY <2>2, <2>4, <3>1 DEF Uncovered
    <3>4. m.controls = {}
      BY <3>2, <3>3, NothingMissing
    <3> QED
      BY <2>2, <3>1, <3>4
  <2> QED
    BY <2>3, <2>4
<1> QED
  BY <1>1, <1>2, <1>3

(***************************************************************************)
(* The gaps of a request are those of its mapping: nothing uncovered is    *)
(* without a gap and no gap is invented, although the two services compute *)
(* coverage and what is missing apart (mapping_service.py, gap_service.py).*)
(***************************************************************************)
THEOREM GapsMatchTheMapping == Spec => []GapsNameWhatIsMissing
BY WorkIsComputed, GapsFollow, PTL
LEMMA OpenGapsCounted == ASSUME IInv, NEW regulator PROVE OpenGaps(regulator) \in Nat
<1> DEFINE open == {g \in work.gaps : RegulatorOf[g.requirement] = regulator}
<1>1. IsFiniteSet(work.gaps) /\ open \in SUBSET work.gaps
  BY DEF IInv, WorkInv
<1>2. Cardinality(open) \in Nat
  BY <1>1, FS_Subset, FS_CardinalityType
<1> QED
  BY <1>2 DEF OpenGaps

LEMMA AssessmentsFollow == IInv => ReviewedIffApplicable /\ GapsOnlyRaise
<1> SUFFICES ASSUME IInv, NEW a \in scan.assessments
             PROVE  /\ a.review <=> Applicability(a.change) # "not_applicable"
                    /\ a.owner # NoOwner <=> Applicability(a.change) # "not_applicable"
                    /\ a.score >= Score(a.change, 0) /\ a.band >= Materiality(a.change, 0)
                    /\ work.outcome # "returned" => a.band = Materiality(a.change, 0)
  BY DEF ReviewedIffApplicable, GapsOnlyRaise
<1>1. PICK c \in Change : a = Assessment(c, OpenGaps(c.regulator))
  BY DEF IInv, ScanInv, WorkTypeOK
<1> DEFINE n == OpenGaps(c.regulator)
<1>2. n \in Nat /\ (work.outcome # "returned" => n = 0)
  BY OpenGapsCounted DEF OpenGaps
<1> HIDE DEF n
<1>3. /\ a.change = c /\ a.score = Score(c, n) /\ a.band = Materiality(c, n)
      /\ a.owner = RouteOwner(c) /\ a.review = ReviewNeeded(c, Materiality(c, n), RouteOwner(c))
  BY <1>1 DEF Assessment, n
<1>4. RouteOwner(c) # NoOwner <=> Applicability(c) # "not_applicable"
  BY OwnerIffApplicable
<1>5. ReviewNeeded(c, Materiality(c, n), RouteOwner(c)) <=> Applicability(c) # "not_applicable"
  BY <1>4 DEF ReviewNeeded
<1>6. Score(c, n) >= Score(c, 0) /\ Materiality(c, n) >= Materiality(c, 0)
  <2>1. 0 \in Nat /\ Materiality(c, 0) \in 0..3 /\ Materiality(c, n) \in 0..3
    BY <1>2, MaterialityGrows DEF Band
  <2>2. Score(c, 0) \in 0..100 /\ Score(c, n) \in 0..100
    BY <1>2, MaterialityGrows
  <2> QED
    BY <1>2, <2>1, <2>2, MaterialityGrows
<1> QED
  BY <1>2, <1>3, <1>4, <1>5, <1>6

(***************************************************************************)
(* A change has a reviewer and an owner exactly when it applies, or may    *)
(* apply, to the bank: requires_review and route_owner agree, whatever     *)
(* rules and bands the bank configured.                                    *)
(***************************************************************************)
THEOREM ReviewersGoWithOwners == Spec => []ReviewedIffApplicable
BY WorkIsComputed, AssessmentsFollow, PTL

(***************************************************************************)
(* Open gaps only raise the materiality of a change, so an analysis that   *)
(* failed can only have lowered it (score_materiality, _open_gap_counts).  *)
(***************************************************************************)
THEOREM GapsNeverLower == Spec => []GapsOnlyRaise
BY WorkIsComputed, AssessmentsFollow, PTL

\* The severity of a pack is at least that of each of its gaps.
LEMMA PackSeverityBounds ==
  ASSUME IInv
  PROVE  /\ PackSeverity(work) \in Severity
         /\ \A g \in work.gaps : g.severity \in Severity /\ g.severity <= PackSeverity(work)
<1>1. \A g \in work.gaps : g.severity \in Severity
  BY DEF IInv, WorkTypeOK, WorkRecord, GapRecord
<1>2. CASE work.gaps = {}
  BY <1>2 DEF PackSeverity, Severity, Grave, Moderate
<1>3. CASE work.gaps # {}
  <2> DEFINE grades == {g.severity : g \in work.gaps}
  <2>1. grades \in SUBSET Band /\ grades # {}
    BY <1>1, <1>3 DEF Band, Severity
  <2>2. \E s \in grades : \A other \in grades : other <= s
    BY <2>1, StrongestBand
  <2>3. \E s \in Severity : (\E g \in work.gaps : g.severity = s)
                             /\ \A g \in work.gaps : g.severity <= s
    BY <1>1, <2>2
  <2> DEFINE top == CHOOSE s \in Severity : /\ \E g \in work.gaps : g.severity = s
                                            /\ \A g \in work.gaps : g.severity <= s
  <2>4. top \in Severity /\ \A g \in work.gaps : g.severity <= top
    BY <2>3
  <2>5. PackSeverity(work) = top
    BY <1>3 DEF PackSeverity
  <2> QED
    BY <1>1, <2>4, <2>5
<1> QED
  BY <1>2, <1>3

LEMMA RoutedNeedsTwo == IInv /\ UncoveredNeedsTwo /\ [Next]_vars => UncoveredNeedsTwo'
<1> SUFFICES ASSUME IInv, UncoveredNeedsTwo, [Next]_vars
             PROVE  UncoveredNeedsTwo'
  OBVIOUS
<1>1. CASE reviews' \in {reviews, {}}
  BY <1>1 DEF UncoveredNeedsTwo
<1>2. CASE reviews' = {PackReview(work)}
  <2>1. CASE PackEscalated(work)
    BY <1>2, <2>1 DEF UncoveredNeedsTwo, PackReview
  <2>2. CASE ~PackEscalated(work)
    <3>1. \A m \in work.mappings : m.coverage # "none"
      BY <2>2 DEF PackEscalated, Covers
    <3>2. \A g \in work.gaps : g.severity < Grave
      BY <2>2, PackSeverityBounds DEF PackEscalated, Severity, Grave
    <3>3. PackReview(work).mappings = work.mappings /\ PackReview(work).gaps = work.gaps
      BY DEF PackReview
    <3> QED
      BY <1>2, <3>1, <3>2, <3>3 DEF UncoveredNeedsTwo
  <2> QED
    BY <2>1, <2>2
<1>3. reviews' \in {reviews, {}, {PackReview(work)}}
  BY DEF Next, Progress, Mapping, ServeMapping, Request, BeginScan, Begin, Fetch, Observe, Refuse,
     Generate, AuditMap, Derive, AuditGaps, AuditPack, Route, Raise, Assess, Return, vars, mappingVars
<1> QED
  BY <1>1, <1>2, <1>3

(***************************************************************************)
(* A pack that says of a requirement that nothing covers it, or with a     *)
(* grave gap, always asks for two approvals, however mild the severities   *)
(* the model wrote (_review_payload.py).                                   *)
(***************************************************************************)
THEOREM HolesNeedTwo == Spec => []UncoveredNeedsTwo
<1>1. ScanInit => UncoveredNeedsTwo
  BY DEF ScanInit, MappingInit, UncoveredNeedsTwo
<1> QED
  BY <1>1, RoutedNeedsTwo, WorkIsComputed, PTL DEF Spec
-----------------------------------------------------------------------------
(***************************************************************************)
(* The audit rows.  Which rows a request has written depends on its step   *)
(* and its kind alone; a failing sink may lose any of them.                *)
(***************************************************************************)
MapRow(w) == [action |-> "map", decision |-> MapDecision(w),
              answers |-> {m.requirement : m \in w.mappings}]

LastRow(w) ==
  IF w.kind = "gaps"
    THEN [action |-> "gaps", decision |-> "escalated", answers |-> {g.requirement : g \in w.gaps}]
    ELSE [action |-> "evidence_pack", decision |-> "escalated",
          answers |-> {m.requirement : m \in w.mappings}]

RefusalRow == [action |-> "map", decision |-> "escalated", answers |-> {}]

KeptOne(row) == trail \in {<<>>, <<row>>} /\ (faults = 0 => trail = <<row>>)

KeptTwo(one, two) == /\ trail \in {<<>>, <<one>>, <<two>>, <<one, two>>}
                     /\ faults = 0 => trail = <<one, two>>

TrailInv ==
  /\ faults \in 0..MaxFaults
  /\ pc \in Early \union {"generate", "audit_map"} => trail = <<>>
  /\ pc \in {"derive", "audit_gaps", "audit_pack"} => KeptOne(MapRow(work))
  /\ pc = "route" => KeptTwo(MapRow(work), LastRow(work))
  /\ work.outcome = "returned" /\ work.kind = "map" => KeptOne(MapRow(work))
  /\ work.outcome = "returned" /\ work.kind # "map" => KeptTwo(MapRow(work), LastRow(work))
  /\ work.outcome = "refused" => KeptOne(RefusalRow)
  /\ work.outcome = "failed" => trail \in {<<>>, <<MapRow(work)>>}
  /\ work.outcome = "failed" /\ work.mappings # {} /\ faults = 1 => trail # <<>>
  /\ reviews = {} \/ \E r : reviews = {r}
  /\ reviews # {} => work.kind = "pack" /\ work.outcome = "returned"

LEMMA CountFaultTyped ==
  ASSUME faults \in 0..MaxFaults, CountFault
  PROVE  faults' \in 0..MaxFaults /\ faults' # 0
BY ControlMappingAssumption DEF CountFault

LEMMA FirstRowWritten ==
  ASSUME faults \in 0..MaxFaults, NEW row, trail = <<>>, Write(row)
  PROVE  /\ faults' \in 0..MaxFaults
         /\ trail' \in {<<>>, <<row>>} /\ (faults' = 0 => trail' = <<row>>)
<1>1. Append(trail, row) = <<row>>
  OBVIOUS
<1> QED
  BY <1>1, CountFaultTyped DEF Write

LEMMA SecondRowWritten ==
  ASSUME faults \in 0..MaxFaults, NEW one, NEW two, KeptOne(one), Write(two)
  PROVE  /\ faults' \in 0..MaxFaults
         /\ trail' \in {<<>>, <<one>>, <<two>>, <<one, two>>}
         /\ faults' = 0 => trail' = <<one, two>>
<1>1. Append(<<>>, two) = <<two>> /\ Append(<<one>>, two) = <<one, two>>
  <2>1. Append(<<>>, two) = <<two>>
    OBVIOUS
  <2> DEFINE S == {one, two}
             long == Append(<<one>>, two)
  <2>2. <<one>> \in Seq(S) /\ <<one, two>> \in Seq(S) /\ two \in S
    OBVIOUS
  <2>3. /\ long \in Seq(S) /\ Len(long) = Len(<<one>>) + 1
        /\ \A i \in 1 .. Len(<<one>>) : long[i] = <<one>>[i]
        /\ long[Len(<<one>>) + 1] = two
    BY <2>2, AppendProperties
  <2>4. Len(<<one>>) = 1 /\ Len(<<one, two>>) = 2
    OBVIOUS
  <2>5. Len(long) = 2 /\ long[1] = one /\ long[2] = two
    BY <2>3, <2>4
  <2> HIDE DEF long, S
  <2>6. \A i \in 1 .. Len(long) : long[i] = <<one, two>>[i]
    BY <2>5
  <2>7. long = <<one, two>>
    BY <2>2, <2>3, <2>4, <2>5, <2>6, SeqEqual
  <2> QED
    BY <2>1, <2>7 DEF long
<1>2. trail \in {<<>>, <<one>>}
  BY DEF KeptOne
<1>3. Append(trail, two) \in {<<two>>, <<one, two>>}
  BY <1>1, <1>2
<1>4. CASE trail' = Append(trail, two) /\ faults' = faults
  BY <1>1, <1>3, <1>4 DEF KeptOne
<1>5. CASE trail' \in {trail, Append(trail, two)} /\ CountFault
  BY <1>2, <1>3, <1>5, CountFaultTyped
<1> QED
  BY <1>4, <1>5 DEF Write

LEMMA SameRows ==
  ASSUME NEW w, NEW v, v.kind = w.kind, v.mappings = w.mappings, v.gaps = w.gaps
  PROVE  MapRow(v) = MapRow(w) /\ LastRow(v) = LastRow(w)
BY DEF MapRow, LastRow, MapDecision
LEMMA InitTrail == ScanInit => TrailInv
BY ControlMappingAssumption DEF ScanInit, MappingInit, NoWork, TrailInv

LEMMA StepTrail == IInv /\ TrailInv /\ [Next]_vars => TrailInv'
<1> SUFFICES ASSUME IInv, TrailInv, [Next]_vars
             PROVE  TrailInv'
  OBVIOUS
<1> USE DEF TrailInv
<1> DEFINE Rest == <<trail, reviews, faults>>
<1>0. /\ pc \in Steps /\ work.kind \in {"map", "gaps", "pack"}
      /\ pc \in {"done", "assessed"} <=> work.outcome # "none"
  BY DEF IInv, WorkTypeOK, WorkInv, WorkRecord
<1>1. CASE UNCHANGED vars
  <2>1. MapRow(work)' = MapRow(work) /\ LastRow(work)' = LastRow(work)
    BY <1>1 DEF vars, mappingVars, MapRow, LastRow, MapDecision
  <2> QED
    BY <1>1, <2>1 DEF vars, mappingVars, KeptOne, KeptTwo
<1>2. CASE pc' \in {"idle", "fetch"} /\ trail' = <<>> /\ reviews' = {} /\ faults' = 0
           /\ work'.outcome = "none"
  BY <1>2, ControlMappingAssumption
<1>3. ASSUME pc \in {"fetch", "observe", "generate"}, UNCHANGED Rest, work'.outcome = "none",
             pc' \in {"observe", "refuse", "generate", "audit_map"}
      PROVE  TrailInv'
  BY <1>0, <1>3 DEF Early
<1>4. CASE Refuse
  <2>1. work'.outcome = "refused"
    BY <1>4, SettledWork DEF Refuse
  <2>2. /\ faults' \in 0..MaxFaults
        /\ trail' \in {<<>>, <<RefusalRow>>} /\ (faults' = 0 => trail' = <<RefusalRow>>)
    BY <1>4, FirstRowWritten DEF Refuse, RefusalRow, Early
  <2> QED
    BY <1>0, <1>4, <2>1, <2>2 DEF Refuse, KeptOne, Early
<1>5. CASE AuditMap
  <2>1. /\ faults' \in 0..MaxFaults
        /\ trail' \in {<<>>, <<MapRow(work)>>} /\ (faults' = 0 => trail' = <<MapRow(work)>>)
    BY <1>5, FirstRowWritten DEF AuditMap, MapRow
  <2>2. work'.kind = work.kind /\ MapRow(work') = MapRow(work)
    BY <1>5, SettledWork, SameRows DEF AuditMap
  <2>3. \/ pc' = "done" /\ work'.outcome = "returned" /\ work.kind = "map"
        \/ pc' = "derive" /\ work'.outcome = "none"
    BY <1>0, <1>5, SettledWork DEF AuditMap
  <2> QED
    BY <1>0, <1>5, <2>1, <2>2, <2>3 DEF AuditMap, KeptOne, Early
<1>6. CASE Derive
  <2>1. /\ work'.kind = work.kind /\ work'.mappings = work.mappings
        /\ work'.outcome = work.outcome
    BY <1>6 DEF Derive, IInv, WorkTypeOK, WorkRecord
  <2>2. MapRow(work') = MapRow(work)
    BY <2>1 DEF MapRow, MapDecision
  <2>3. pc' \in {"audit_gaps", "audit_pack"}
    BY <1>6 DEF Derive
  <2> QED
    BY <1>0, <1>6, <2>1, <2>2, <2>3 DEF Derive, KeptOne, Early
<1>7. CASE AuditGaps
  <2>1. work.kind = "gaps" /\ KeptOne(MapRow(work))
    BY <1>7 DEF AuditGaps, IInv, WorkInv
  <2>2. Write(LastRow(work))
    BY <1>7, <2>1 DEF AuditGaps, LastRow
  <2>3. /\ work'.kind = work.kind /\ work'.outcome = "returned"
        /\ MapRow(work') = MapRow(work) /\ LastRow(work') = LastRow(work)
    BY <1>7, SettledWork, SameRows DEF AuditGaps
  <2>4. /\ faults' \in 0..MaxFaults /\ KeptTwo(MapRow(work), LastRow(work))'
    BY <2>1, <2>2, <2>3, SecondRowWritten DEF KeptTwo
  <2> QED
    BY <1>0, <1>7, <2>1, <2>3, <2>4 DEF AuditGaps, Early
<1>8. CASE AuditPack
  <2>1. work.kind = "pack" /\ KeptOne(MapRow(work))
    BY <1>8 DEF AuditPack, IInv, WorkInv
  <2>2. Write(LastRow(work))
    BY <1>8, <2>1 DEF AuditPack, LastRow
  <2>3. faults' \in 0..MaxFaults /\ KeptTwo(MapRow(work), LastRow(work))'
    BY <1>8, <2>1, <2>2, SecondRowWritten DEF KeptTwo, AuditPack
  <2> QED
    BY <1>0, <1>8, <2>3 DEF AuditPack, Early
<1>9. CASE Route
  <2>1. /\ work.kind = "pack" /\ work'.kind = work.kind /\ work'.outcome = "returned"
        /\ MapRow(work') = MapRow(work) /\ LastRow(work') = LastRow(work)
    BY <1>9, SettledWork, SameRows DEF Route, IInv, WorkInv
  <2>2. faults' \in 0..MaxFaults /\ (faults' = 0 => faults = 0) /\ trail' = trail
    BY <1>9, CountFaultTyped DEF Route
  <2>3. KeptTwo(MapRow(work), LastRow(work))'
    BY <1>9, <2>1, <2>2 DEF Route, KeptTwo
  <2>4. reviews' = {} \/ \E r : reviews' = {r}
    BY <1>9 DEF Route
  <2> QED
    BY <1>9, <2>1, <2>2, <2>3, <2>4 DEF Route, Early
<1>10. CASE Raise
  <2>1. work'.outcome = "failed" /\ MapRow(work') = MapRow(work)
    BY <1>10, SettledWork, SameRows DEF Raise
  <2>2. faults' \in 0..MaxFaults /\ trail' = trail /\ reviews' = reviews
    BY <1>10, CountFaultTyped DEF Raise
  <2>3. trail \in {<<>>, <<MapRow(work)>>} /\ reviews = {}
    BY <1>0, <1>10 DEF Raise, KeptOne, Early
  <2>4. work'.mappings = work.mappings /\ (faults' = 1 => faults = 0)
    <3>1. faults' = 1 => faults = 0
      BY <1>10 DEF Raise, CountFault
    <3> QED
      BY <1>10, <3>1, SettledWork DEF Raise
  <2>5. work'.mappings # {} /\ faults' = 1 => trail' # <<>>
    <3>1. work.mappings # {} => pc = "derive"
      BY <1>10 DEF Raise, IInv, WorkInv, Early
    <3>2. CASE pc = "derive" /\ faults = 0
      BY <2>2, <3>2 DEF KeptOne
    <3> QED
      BY <2>4, <3>1, <3>2
  <2> QED
    BY <1>10, <2>1, <2>2, <2>3, <2>5 DEF Raise, Early
<1>11. CASE Assess
  <2>1. pc' = "assessed" /\ work' = work /\ UNCHANGED Rest
    BY <1>11 DEF Assess
  <2>2. MapRow(work)' = MapRow(work) /\ LastRow(work)' = LastRow(work)
    BY <2>1 DEF MapRow, LastRow, MapDecision
  <2> QED
    BY <2>1, <2>2 DEF KeptOne, KeptTwo, Early
<1>12. Fetch \/ Observe \/ Generate => TrailInv'
  <2>1. ASSUME Fetch PROVE TrailInv'
    <3>1. pc = "fetch" /\ UNCHANGED Rest /\ pc' \in {"observe", "refuse"}
      BY <2>1 DEF Fetch
    <3>2. work'.outcome = work.outcome
      BY <2>1 DEF Fetch, IInv, WorkTypeOK, WorkRecord
    <3> QED
      BY <1>0, <1>3, <3>1, <3>2
  <2>2. ASSUME Observe PROVE TrailInv'
    <3>1. pc = "observe" /\ UNCHANGED Rest /\ pc' \in {"generate", "refuse"}
      BY <2>2 DEF Observe
    <3>2. work'.outcome = work.outcome
      BY <2>2 DEF Observe, IInv, WorkTypeOK, WorkRecord
    <3> QED
      BY <1>0, <1>3, <3>1, <3>2
  <2>3. ASSUME Generate PROVE TrailInv'
    <3>1. pc = "generate" /\ UNCHANGED Rest /\ pc' = "audit_map"
      BY <2>3 DEF Generate
    <3>2. work'.outcome = work.outcome
      BY <2>3 DEF Generate, IInv, WorkTypeOK, WorkRecord
    <3> QED
      BY <1>0, <1>3, <3>1, <3>2
  <2> QED
    BY <2>1, <2>2, <2>3
<1>13. CASE Return
  BY <1>2, <1>13 DEF Return, NoWork
<1>14. ASSUME NEW kind, NEW wanted, Begin(kind, wanted)
       PROVE  TrailInv'
  <2>1. work'.outcome = "none"
    BY <1>14 DEF Begin, NoWork
  <2> QED
    BY <1>2, <1>14, <2>1 DEF Begin
<1> QED
  BY <1>1, <1>4, <1>5, <1>6, <1>7, <1>8, <1>9, <1>10, <1>11, <1>12, <1>13, <1>14
     DEF Next, Progress, Mapping, ServeMapping, Request, BeginScan

(***************************************************************************)
(* At each point of a request the audit log holds exactly the rows written *)
(* so far, and lacks one only if a port has failed (_audit_mappings,       *)
(* _audit_gaps, _audit_pack): no row comes early, twice or of other work.  *)
(***************************************************************************)
THEOREM TrailIsKnown == Spec => []TrailInv
BY InitTrail, StepTrail, WorkIsComputed, PTL DEF Spec

LEMMA RowsFollow == IInv /\ TrailInv => RowsTellTheWork
<1> SUFFICES ASSUME IInv, TrailInv
             PROVE  RowsTellTheWork
  OBVIOUS
<1> DEFINE one == MapRow(work)
           two == LastRow(work)
<1>1. /\ pc \in Steps /\ work.kind \in {"map", "gaps", "pack"}
      /\ work.outcome \in {"none", "returned", "refused", "failed"}
      /\ pc \in {"done", "assessed"} <=> work.outcome # "none"
  BY DEF IInv, WorkTypeOK, WorkInv, WorkRecord
<1>2. trail \in {<<>>, <<one>>, <<two>>, <<one, two>>, <<RefusalRow>>}
  BY <1>1 DEF TrailInv, KeptOne, KeptTwo, Early, Steps
<1>3. two.decision = "escalated" /\ RefusalRow.decision = "escalated"
  BY DEF LastRow, RefusalRow
<1>4. one.decision = "allowed" => \A m \in work.mappings : m.coverage = "full"
  <2> SUFFICES ASSUME one.decision = "allowed", NEW m \in work.mappings
               PROVE  m.coverage = "full"
    OBVIOUS
  <2>1. ~m.review
    BY DEF MapRow, MapDecision
  <2>2. PICK row \in Rows : m = MappingOf(row, work.posture)
    BY DEF IInv, WorkInv, Mapped
  <2>3. m.review <=> m.coverage \in {"partial", "none"}
    BY <2>2 DEF MappingOf, MappingReview
  <2>4. m.coverage \in Coverage
    BY DEF IInv, WorkTypeOK, WorkRecord, MappingRecord
  <2> QED
    BY <2>1, <2>3, <2>4 DEF Coverage
<1>5. ASSUME NEW i \in DOMAIN trail, trail[i].decision = "allowed"
      PROVE  \A m \in work.mappings : m.coverage = "full"
  <2> HIDE DEF one, two
  <2>1. trail[i] \in {one, two, RefusalRow}
    BY <1>2
  <2> QED
    BY <1>3, <1>4, <1>5, <2>1
<1>6. ASSUME faults = 0, reviews # {} \/ (pc = "done" /\ work.outcome = "returned")
      PROVE  /\ Len(trail) = IF work.kind = "map" THEN 1 ELSE 2
             /\ trail[1].action = "map"
             /\ trail[Len(trail)].answers = IF work.kind = "gaps"
                                              THEN {m.requirement : m \in Uncovered(work)}
                                              ELSE {m.requirement : m \in work.mappings}
  <2>1. work.outcome = "returned"
    BY <1>6 DEF TrailInv
  <2>2. one.action = "map" /\ one.answers = {m.requirement : m \in work.mappings}
    BY DEF MapRow
  <2>3. CASE work.kind = "map"
    <3>1. trail = <<one>>
      BY <1>6, <2>1, <2>3 DEF TrailInv, KeptOne
    <3> HIDE DEF one
    <3> QED
      BY <2>2, <2>3, <3>1
  <2>4. CASE work.kind # "map"
    <3>1. trail = <<one, two>>
      BY <1>6, <2>1, <2>4 DEF TrailInv, KeptTwo
    <3>2. two.answers = IF work.kind = "gaps" THEN {m.requirement : m \in Uncovered(work)}
                                              ELSE {m.requirement : m \in work.mappings}
      <4>1. Derived(work)
        BY <2>1, <2>4 DEF IInv, WorkInv
      <4> QED
        BY <4>1, DerivedNames DEF LastRow
    <3> HIDE DEF one, two
    <3>3. Len(trail) = 2 /\ trail[1] = one /\ trail[2] = two
      BY <3>1
    <3> QED
      BY <2>2, <2>4, <3>2, <3>3
  <2> QED
    BY <2>3, <2>4
<1>7. ASSUME work.outcome = "failed"
      PROVE  /\ reviews = {}
             /\ \A i \in DOMAIN trail :
                    /\ trail[i].action = "map"
                    /\ trail[i].answers = {m.requirement : m \in work.mappings}
             /\ work.mappings # {} /\ faults = 1 => trail # <<>>
  <2>1. one.action = "map" /\ one.answers = {m.requirement : m \in work.mappings}
    BY DEF MapRow
  <2>2. trail \in {<<>>, <<one>>}
    BY <1>7 DEF TrailInv
  <2> HIDE DEF one
  <2>3. \A i \in DOMAIN trail : trail[i] = one
    BY <2>2
  <2> QED
    BY <1>7, <2>1, <2>3 DEF TrailInv
<1> QED
  BY <1>5, <1>6, <1>7 DEF RowsTellTheWork

(***************************************************************************)
(* The audit log never allows a mapping with a hole in it, and what a      *)
(* caller or a reviewer gets has its rows, naming every requirement, when  *)
(* no port failed (_audit_mappings, _audit_gaps, _audit_pack).  A request  *)
(* that failed leaves at most the row of its mappings, and no hand-off.    *)
(***************************************************************************)
THEOREM RowsAreTrue == Spec => []RowsTellTheWork
BY WorkIsComputed, TrailIsKnown, RowsFollow, PTL

LEMMA TypesFollow == IInv /\ TrailInv => TypeOK
<1> SUFFICES ASSUME IInv, TrailInv
             PROVE  TypeOK
  OBVIOUS
<1>1. /\ pc \in Steps
      /\ work.outcome \in {"none", "returned", "refused", "failed"}
      /\ work.kind \in {"map", "gaps", "pack"}
      /\ pc \in {"done", "assessed"} <=> work.outcome # "none"
  BY DEF IInv, WorkTypeOK, WorkInv, WorkRecord
<1>2. ASSUME NEW m \in work.mappings
      PROVE  m.requirement \in work.requirements /\ m.controls \subseteq Controls /\ m.coverage \in Coverage
  <2>1. PICK row \in Rows : row.requirement \in work.requirements /\ m = MappingOf(row, work.posture)
    BY DEF IInv, WorkInv, Mapped
  <2>2. m.requirement \in work.requirements
    BY <2>1 DEF MappingOf
  <2>3. m \in MappingRecord
    BY DEF IInv, WorkTypeOK, WorkRecord
  <2> QED
    BY <2>2, <2>3 DEF MappingRecord
<1>3. \A g \in work.gaps : g.requirement \in work.requirements /\ g.severity \in Severity
  BY DEF IInv, WorkTypeOK, WorkInv, WorkRecord, GapRecord
<1>4. ASSUME NEW a \in scan.assessments
      PROVE  a.score \in 0..100 /\ a.band \in Band
  <2>1. PICK c \in Change : a = Assessment(c, OpenGaps(c.regulator))
    BY DEF IInv, ScanInv, WorkTypeOK
  <2>2. /\ a.score = Score(c, OpenGaps(c.regulator))
        /\ a.band = Materiality(c, OpenGaps(c.regulator))
    BY <2>1 DEF Assessment
  <2> QED
    BY <2>2, OpenGapsCounted, MaterialityGrows
<1>5. Len(trail) <= 2
  <2>1. \E one, two : trail \in {<<>>, <<one>>, <<two>>, <<one, two>>}
    BY <1>1 DEF TrailInv, KeptOne, KeptTwo, Early, Steps
  <2>2. ASSUME NEW one, NEW two
        PROVE  Len(<<>>) = 0 /\ Len(<<one>>) = 1 /\ Len(<<two>>) = 1 /\ Len(<<one, two>>) = 2
    OBVIOUS
  <2>3. PICK one, two : trail \in {<<>>, <<one>>, <<two>>, <<one, two>>}
    BY <2>1
  <2> DEFINE n == Len(trail)
  <2>4. n \in {0, 1, 2}
    BY <2>2, <2>3
  <2> HIDE DEF n
  <2>5. n <= 2
    BY <2>4
  <2> QED
    BY <2>5 DEF n
<1>6. Cardinality(reviews) <= 1
  <2>1. CASE reviews = {}
    BY <2>1, FS_EmptySet
  <2>2. ASSUME NEW r, reviews = {r}
        PROVE  Cardinality(reviews) <= 1
    <3>1. Cardinality({r}) = 1
      BY FS_Singleton
    <3> QED
      BY <2>2, <3>1
  <2> QED
    BY <2>1, <2>2 DEF TrailInv
<1> QED
  BY <1>1, <1>2, <1>3, <1>4, <1>5, <1>6 DEF TypeOK, TrailInv

(***************************************************************************)
(* Types: what is mapped was fetched, a score is a percentage, a request   *)
(* writes at most two rows and hands at most one pack over.                *)
(***************************************************************************)
THEOREM AssessmentTypes == Spec => []TypeOK
BY WorkIsComputed, TrailIsKnown, TypesFollow, PTL
=============================================================================
