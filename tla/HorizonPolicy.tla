---------------------------- MODULE HorizonPolicy ----------------------------
(***************************************************************************)
(* domain/horizon/policy.py: whether a regulatory change applies to the    *)
(* bank, how material it is, who owns it and whether a human reviews it.   *)
(* Pure definitions over the numbers and tables a bank configures, which   *)
(* are the constants.                                                      *)
(***************************************************************************)
EXTENDS Integers, FiniteSets, Sequences

CONSTANTS
  Detections,     \* the sets of changes a scan may detect
  InScope,        \* [regulators, jurisdictions, topics]: the bank's footprint
  KindWeight, DocTypeWeight,       \* points per kind of change and of document
  TopicPoints, MaxTopicPoints,     \* points per topic in scope, and their cap
  OpenGapPoints, MaxOpenGapPoints, \* points per open control gap, and their cap
  ConditionalPenalty,              \* subtracted while applicability is open
  BandFloor,                       \* the floors that are configured, by band
  TopicOwner, RegulatorOwner,      \* routing rules, where there are any
  DefaultOwner,
  ReviewBand                       \* the band that forces a review

\* The bands in MATERIALITY_BAND_ORDER: low, medium, high, critical.
Band   == 0..3
Low    == 0
Medium == 1
High   == 2

NoOwner == "unassigned"

Change == [regulator : STRING, jurisdiction : STRING, topics : Seq(STRING),
           kind : STRING, doc_type : STRING]

ASSUME HorizonPolicyAssumption ==
  /\ Detections \subseteq SUBSET Change
  /\ DOMAIN KindWeight \subseteq STRING /\ \A k \in DOMAIN KindWeight : KindWeight[k] \in Int
  /\ DOMAIN DocTypeWeight \subseteq STRING /\ \A d \in DOMAIN DocTypeWeight : DocTypeWeight[d] \in Int
  /\ {TopicPoints, MaxTopicPoints, MaxOpenGapPoints, ConditionalPenalty} \subseteq Int
  /\ OpenGapPoints \in Nat
  /\ DOMAIN BandFloor \subseteq Band /\ \A b \in DOMAIN BandFloor : BandFloor[b] \in Int
  /\ \A t \in DOMAIN TopicOwner : TopicOwner[t] # NoOwner
  /\ \A r \in DOMAIN RegulatorOwner : RegulatorOwner[r] # NoOwner
  /\ DefaultOwner # NoOwner
  /\ ReviewBand \in Band

\* The reference numbers, which a bank's settings may replace.
ReferenceKindWeight == [new_source |-> 40, content_revised |-> 32, withdrawn |-> 24,
                        version_bump |-> 12, unchanged |-> 0]

ReferenceDocTypeWeight == [standard |-> 22, notice |-> 20, guideline |-> 14, circular |-> 12,
                           advisory |-> 8, consultation |-> 6, other |-> 4]

ReferenceBandFloor == [b \in Band |-> <<0, 34, 58, 78>>[b + 1]]

ReferenceOwner == "compliance-office"

Smaller(a, b) == IF a <= b THEN a ELSE b
Larger(a, b)  == IF a <= b THEN b ELSE a
Weight(table, key) == IF key \in DOMAIN table THEN table[key] ELSE 0

\* The places of the topics of a change that are in scope.
MatchedTopics(c) == {i \in DOMAIN c.topics : c.topics[i] \in InScope.topics}

InFootprint(c) == c.regulator \in InScope.regulators /\ c.jurisdiction \in InScope.jurisdictions

Applicability(c) == CASE ~InFootprint(c)                             -> "not_applicable"
                      [] InFootprint(c) /\ MatchedTopics(c) # {}     -> "applicable"
                      [] InFootprint(c) /\ MatchedTopics(c) = {}     -> "conditional"

\* Mutant: more open gaps make a change less material.
GapsAsCredit(gaps) == -Smaller(OpenGapPoints * Larger(0, gaps), MaxOpenGapPoints)

GapDriver(gaps) == Smaller(OpenGapPoints * Larger(0, gaps), MaxOpenGapPoints)

TopicDriver(c) == Smaller(TopicPoints * Cardinality(MatchedTopics(c)), MaxTopicPoints)

Penalty(c) == IF Applicability(c) = "conditional" THEN Larger(ConditionalPenalty, -ConditionalPenalty) ELSE 0

RawScore(c, gaps) == Weight(KindWeight, c.kind) + Weight(DocTypeWeight, c.doc_type)
                     + TopicDriver(c) + GapDriver(gaps) - Penalty(c)

Score(c, gaps) == IF Applicability(c) = "not_applicable" THEN 0
                  ELSE Larger(0, Smaller(100, RawScore(c, gaps)))

\* The strongest band whose floor the score reaches; a band without a floor is skipped.
Reached(score) == {b \in DOMAIN BandFloor : score >= BandFloor[b]}

BandFor(score) == IF Reached(score) = {} THEN Low
                  ELSE CHOOSE b \in Reached(score) : \A other \in Reached(score) : other <= b

Materiality(c, gaps) == IF Applicability(c) = "not_applicable" THEN Low ELSE BandFor(Score(c, gaps))

\* The first topic with a rule, then the regulator's rule, then the default.
RuledTopics(c) == {i \in DOMAIN c.topics : c.topics[i] \in DOMAIN TopicOwner}

RouteOwner(c) ==
  CASE Applicability(c) = "not_applicable" -> NoOwner
    [] Applicability(c) # "not_applicable" /\ RuledTopics(c) # {} ->
         TopicOwner[c.topics[CHOOSE i \in RuledTopics(c) : \A j \in RuledTopics(c) : i <= j]]
    [] Applicability(c) # "not_applicable" /\ RuledTopics(c) = {}
         /\ c.regulator \in DOMAIN RegulatorOwner -> RegulatorOwner[c.regulator]
    [] Applicability(c) # "not_applicable" /\ RuledTopics(c) = {}
         /\ c.regulator \notin DOMAIN RegulatorOwner -> DefaultOwner

\* Mutant: an owner is not by itself a reason for a review.
OnlyTheBandCounts(c, band, owner) ==
  Applicability(c) # "not_applicable" /\ band >= ReviewBand

ReviewNeeded(c, band, owner) ==
  /\ ~(Applicability(c) = "not_applicable" /\ owner = NoOwner)
  /\ owner # NoOwner \/ band >= ReviewBand

Assessment(c, gaps) ==
  LET band == Materiality(c, gaps)
      owner == RouteOwner(c)
  IN  [change |-> c, score |-> Score(c, gaps), band |-> band, owner |-> owner,
       review |-> ReviewNeeded(c, band, owner)]

\* The console asks for two approvals from the high band up.
AssessmentApprovals(a) == IF a.band >= High THEN 2 ELSE 1
=============================================================================
