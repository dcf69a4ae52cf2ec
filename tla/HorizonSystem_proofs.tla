------------------------- MODULE HorizonSystem_proofs -------------------------
(***************************************************************************)
(* Proofs about HorizonSystem, for every value of its constants.           *)
(***************************************************************************)
EXTENDS HorizonSystem, CorpusPipeline_proofs

\* Every step is one of the pipeline's, or leaves its variables alone.
LEMMA StepIsCorpusStep == [SystemNext]_systemVars => [Next]_vars
BY DEF SystemNext, systemVars, StartScan, ScanStep, Track, FinishScan, CrashScan

(***************************************************************************)
(* The composed system implements the pipeline: a scan only reads the      *)
(* ledger, so whatever is proved about CorpusPipeline holds beside it.     *)
(***************************************************************************)
THEOREM SystemImplementsCorpus == SystemSpec => Spec
<1>1. SystemInit => Init
  BY DEF SystemInit
<1> QED
  BY <1>1, StepIsCorpusStep, PTL DEF SystemSpec, Spec

(***************************************************************************)
(* The snapshot of a scan and the tracker only ever hold ids of registered *)
(* sources and real movements: uploads and unchanged rows are skipped.     *)
(***************************************************************************)
THEOREM SystemTypeCorrect == SystemSpec => []SystemTypeOK
<1>1. SystemInit => SystemTypeOK
  BY DeathsAssumption DEF SystemInit, SystemTypeOK, IdleScan
<1>2. TypeInv /\ SystemTypeOK /\ [SystemNext]_systemVars => SystemTypeOK'
  <2> SUFFICES ASSUME TypeInv, SystemTypeOK, [SystemNext]_systemVars
               PROVE  SystemTypeOK'
    OBVIOUS
  <2> USE DeathsAssumption DEF SystemTypeOK
  <2>1. CASE UNCHANGED horizon
    BY <2>1 DEF horizon
  <2>2. CASE StartScan
    <3>1. ASSUME NEW s \in Registered, ledger[s] # NoRecord,
                 Classify(ledger[s]) # "unchanged"
          PROVE  ChangeId(s, ledger[s]) \in Changes
      <4>1. ledger[s] \in Record
        BY <3>1, CorpusConstants DEF TypeInv, TypeOK
      <4>2. /\ ledger[s].checksum \in Checksums \cup {NoChecksum}
            /\ Classify(ledger[s]) \in ChangeKind
        BY <4>1 DEF Record, FreshnessRecord, Classify, ChangeKind
      <4> QED
        BY <3>1, <4>2 DEF ChangeId, Changes
    <3>2. DetectChanges(ledger, Registered) \subseteq Changes
      BY <3>1 DEF DetectChanges
    <3> QED
      BY <2>2, <3>2 DEF StartScan
  <2>3. ASSUME NEW change \in Changes, Track(change)
        PROVE  SystemTypeOK'
    BY <2>3 DEF Track
  <2>4. CASE FinishScan
    BY <2>4 DEF FinishScan, IdleScan
  <2>5. CASE CrashScan
    BY <2>5 DEF CrashScan, IdleScan
  <2> QED
    BY <2>1, <2>2, <2>3, <2>4, <2>5 DEF SystemNext, ScanStep, systemVars
<1> QED
  BY <1>1, <1>2, SystemImplementsCorpus, TypesHold, PTL DEF SystemSpec

-------------------------------------------------------------------------------
(* What is tracked was served. *)

Served(change) == change[2] # "withdrawn" => change[3] \in editions[change[1]]

\* Also of the changes in the hands of a scan whose snapshot is out of date.
ServedInv ==
    /\ \A change \in scan.todo : Served(change)
    /\ \A change \in tracked : Served(change)

\* A row that is not a failure vouches for its checksum.
LEMMA DetectedIsServed ==
    ASSUME TypeInv, LedgerInv, NEW change \in DetectChanges(ledger, Registered)
    PROVE  Served(change)
<1>1. PICK s \in Registered : /\ change = ChangeId(s, ledger[s])
                              /\ ledger[s] # NoRecord
  BY DEF DetectChanges
<1>2. Dated(ledger[s]) /\ Genuine(editions[s], ledger[s])
  BY <1>1, CorpusConstants DEF LedgerInv, RowInv
<1>3. /\ change[1] = s
      /\ change[2] = Classify(ledger[s])
      /\ change[3] = ledger[s].checksum
  BY <1>1 DEF ChangeId
<1>4. Classify(ledger[s]) # "withdrawn" => ledger[s].status = "fresh"
  BY <1>2 DEF Classify, Dated
<1> QED
  BY <1>2, <1>3, <1>4 DEF Served, Genuine

\* What was served stays served.
LEMMA ServedIsStable ==
    ASSUME TypeInv, [Next]_vars, NEW change \in Changes, Served(change)
    PROVE  Served(change)'
<1>1. change[1] \in Sources
  BY CorpusConstants DEF Changes
<1> QED
  BY <1>1, EditionsGrow DEF Served

(***************************************************************************)
(* A tracked change that is not a withdrawal names a content its source    *)
(* served, for any number of sources, workers, faults and dead scans.      *)
(***************************************************************************)
THEOREM TrackedWasServed == SystemSpec => []TrackedContentWasServed
<1>1. SystemInit => ServedInv
  BY DEF SystemInit, ServedInv, IdleScan
<1>2. /\ TypeInv /\ LedgerInv /\ SystemTypeOK /\ ServedInv
      /\ [SystemNext]_systemVars
      => ServedInv'
  <2> SUFFICES ASSUME TypeInv, LedgerInv, SystemTypeOK, ServedInv,
                      [SystemNext]_systemVars
               PROVE  ServedInv'
    OBVIOUS
  <2>1. \A change \in scan.todo \cup tracked : Served(change)'
    BY StepIsCorpusStep, ServedIsStable DEF SystemTypeOK, ServedInv
  <2>2. CASE UNCHANGED horizon
    BY <2>1, <2>2 DEF horizon, ServedInv
  <2>3. CASE StartScan
    <3>1. \A change \in DetectChanges(ledger, Registered) : Served(change)'
      BY <2>3, DetectedIsServed DEF StartScan, vars, history, Served
    <3> QED
      BY <2>1, <2>3, <3>1 DEF StartScan, ServedInv
  <2>4. ASSUME NEW change \in Changes, Track(change)
        PROVE  ServedInv'
    BY <2>1, <2>4 DEF Track, ServedInv, SystemTypeOK
  <2>5. CASE FinishScan \/ CrashScan
    BY <2>1, <2>5 DEF FinishScan, CrashScan, IdleScan, ServedInv
  <2> QED
    BY <2>2, <2>3, <2>4, <2>5 DEF SystemNext, ScanStep, systemVars
<1>3. ServedInv => TrackedContentWasServed
  BY DEF ServedInv, TrackedContentWasServed, Served
<1> QED
  BY <1>1, <1>2, <1>3, SystemImplementsCorpus, SystemTypeCorrect, LedgerHolds,
     PTL DEF SystemSpec
===============================================================================
