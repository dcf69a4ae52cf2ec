------------------------- MODULE CorpusPipeline_proofs -------------------------
(***************************************************************************)
(* Proofs about CorpusPipeline, for every set of sources, workers,         *)
(* contents and versions, every TTL and every number of faults.            *)
(***************************************************************************)
EXTENDS CorpusPipeline, LeastElement

\* A worker has a document in hand.
Busy == {"index", "roll", "write", "failroll", "failwrite"}

\* What a worker in a given place has in hand.
InHand ==
    \A w \in Workers :
        /\ pc[w] \in Busy => doc[w] \in Document
        /\ pc[w] \notin Busy => doc[w] = NoDoc
        /\ pc[w] \in {"index", "roll", "write"} => doc[w].checksum \in Checksums
        /\ pc[w] = "expire" \/ todo[w] # {} => labels[w] \in [Registered -> Versions]
        /\ pc[w] \notin {"write", "failwrite"} => previous[w] = NoRecord

TypeInv == TypeOK /\ InHand

\* The assumptions of CorpusPipeline, by one name.
LEMMA CorpusConstants ==
    /\ Sources \subseteq Nat /\ Registered \subseteq Sources /\ Uploads \subseteq Sources
    /\ Jobs \subseteq Workers /\ Callers \subseteq Workers /\ ReadPath \subseteq Workers
    /\ NoChecksum \notin Checksums
    /\ NoVersion \notin Versions
    /\ NoRecord \notin Record
    /\ TTL \in Nat \ {0} /\ 0 \in 0..TTL /\ TTL \in 0..TTL
    /\ MaxFaults \in Nat
<1>1. Record \subseteq FreshnessRecord(Versions, Checksums, Nat)
  BY BoundsAssumption DEF Record, FreshnessRecord
<1> QED
  BY <1>1, SourcesAssumption, WorkersAssumption, SentinelAssumption, BoundsAssumption
     DEF Sources, Workers

-------------------------------------------------------------------------------
(* Rows. *)

\* Rolling a row forward keeps it a row, and its own generation as it is.
LEMMA CarriedRow ==
    ASSUME NEW old \in Record \cup {NoRecord}, NEW new \in Record
    PROVE  /\ CarryForward(old, new) \in Record
           /\ CarryForward(old, new).status = new.status
           /\ CarryForward(old, new).left = new.left
           /\ CarryForward(old, new).checksum = new.checksum
           /\ CarryForward(old, new).version = new.version
<1>1. CASE old = NoRecord
  BY <1>1 DEF CarryForward
<1>2. CASE old # NoRecord
  BY <1>2 DEF CarryForward, Supersede, KeepDiffBase, Record, FreshnessRecord
<1> QED
  BY <1>1, <1>2

LEMMA FreshRowType ==
    ASSUME NEW d \in Document
    PROVE  /\ FreshRow(d) \in Record /\ FreshRow(d).status = "fresh"
           /\ FreshRow(d).checksum = d.checksum
BY DEF FreshRow, NewRecord, Record, FreshnessRecord, Document, Status

LEMMA FailedRowType ==
    ASSUME NEW d \in Document
    PROVE  /\ FailedRow(d) \in Record /\ FailedRow(d).status = "failed"
           /\ FailedRow(d).left = 0
BY CorpusConstants DEF FailedRow, NewRecord, Record, FreshnessRecord, Document, Status

\* The row a worker upserts: FRESH with its document's checksum, or FAILED.
LEMMA RolledRowType ==
    ASSUME TypeInv, NEW w \in Workers, pc[w] \in {"write", "failwrite"}
    PROVE  /\ doc[w] \in Document
           /\ RolledRow(w) \in Record /\ RolledRow(w) # NoRecord
           /\ pc[w] = "write" => /\ RolledRow(w).status = "fresh"
                                 /\ RolledRow(w).checksum = doc[w].checksum
           /\ pc[w] = "failwrite" => RolledRow(w).status = "failed" /\ RolledRow(w).left = 0
<1>1. doc[w] \in Document /\ previous[w] \in Record \cup {NoRecord}
  BY DEF TypeInv, TypeOK, InHand, Busy
<1>2. CASE pc[w] = "write"
  BY <1>1, <1>2, CarriedRow, FreshRowType, CorpusConstants DEF RolledRow
<1>3. CASE pc[w] = "failwrite"
  BY <1>1, <1>3, CarriedRow, FailedRowType, CorpusConstants DEF RolledRow
<1> QED
  BY <1>1, <1>2, <1>3

-------------------------------------------------------------------------------
(* Type correctness. *)

LEMMA NextTarget ==
    ASSUME TypeOK, NEW w \in Workers, todo[w] # {}
    PROVE  Min(todo[w]) \in Registered
BY CorpusConstants, MinIsLeast DEF TypeOK

LEMMA RaisesType == ASSUME TypeOK, NEW kind, Raises(kind) PROVE faults' \in 0..MaxFaults
BY CorpusConstants DEF TypeOK, Raises

LEMMA OverlapType ==
    ASSUME TypeOK, NEW w \in Workers, NEW s \in Sources, MarkOverlap(w, s)
    PROVE  disturbed' \subseteq Sources
BY DEF TypeOK, MarkOverlap

\* A failed ingest goes on with a document whose checksum may be gone.
LEMMA GivenUp ==
    ASSUME NEW d \in Document, NEW checksum \in Checksums \cup {NoChecksum}
    PROVE  [d EXCEPT !.checksum = checksum, !.left = 0] \in Document
BY CorpusConstants DEF Document

LEMMA StartTypes ==
    ASSUME TypeInv, NEW w \in Workers, Start(w)
    PROVE  TypeInv'
<1> USE DEF TypeInv, world, ports
<1>1. CASE StartExpired(w)
  BY <1>1 DEF StartExpired, Begin, MissingIds, TypeOK, InHand, PC, Busy
<1>2. CASE StartFull(w)
  BY <1>2 DEF StartFull, Begin, TypeOK, InHand, PC, Busy
<1>3. ASSUME NEW s \in Registered, EnsureFresh(w, s) PROVE TypeInv'
  BY <1>3 DEF EnsureFresh, Begin, TypeOK, InHand, PC, Busy
<1>4. ASSUME NEW s \in Uploads, NEW c \in Checksums, NEW v \in Versions, Upload(w, s, c, v)
      PROVE  TypeInv'
  <2> DEFINE d == [src |-> s, version |-> v, checksum |-> c, left |-> TTL]
  <2>1. d \in Document /\ d.checksum \in Checksums
    BY CorpusConstants DEF Document
  <2>2. doc' = [doc EXCEPT ![w] = d] /\ disturbed' \subseteq Sources
    BY <1>4, OverlapType, CorpusConstants DEF Upload
  <2>3. editions' \in [Sources -> SUBSET Checksums]
    BY <1>4 DEF Upload, TypeOK
  <2> HIDE DEF d
  <2>4. TypeOK'
    BY <1>4, <2>1, <2>2, <2>3 DEF Upload, TypeOK, PC
  <2>5. InHand'
    BY <1>4, <2>1, <2>2 DEF Upload, TypeOK, InHand, Busy
  <2> QED
    BY <2>4, <2>5
<1> QED
  BY <1>1, <1>2, <1>3, <1>4 DEF Start

LEMMA ProceedTypes ==
    ASSUME TypeInv, NEW w \in Workers, Proceed(w)
    PROVE  TypeInv'
<1> USE DEF TypeInv, world, ports
<1>1. CASE ListExpired(w)
  BY <1>1 DEF ListExpired, TypeOK, InHand, PC, Busy
<1>2. CASE Finish(w)
  BY <1>2 DEF Finish, NoLabels, TypeOK, InHand, PC, Busy
<1>3. CASE Fetch(w)
  <2> DEFINE s == Min(todo[w])
             d == [src |-> s, version |-> labels[w][s], checksum |-> published[s],
                   left |-> TTL]
  <2>1. s \in Registered /\ s \in Sources
    BY <1>3, NextTarget, CorpusConstants DEF Fetch
  <2>2. d \in Document /\ d.checksum \in Checksums
    BY <1>3, <2>1, CorpusConstants DEF Fetch, TypeOK, InHand, Document
  <2>3. doc' = [doc EXCEPT ![w] = d] /\ disturbed' \subseteq Sources
    BY <1>3, <2>1, OverlapType DEF Fetch
  <2>4. todo' \in [Workers -> SUBSET Registered]
        /\ \A u \in Workers : todo'[u] \subseteq todo[u]
    BY <1>3 DEF Fetch, TypeOK
  <2> HIDE DEF d, s
  <2>5. TypeOK'
    BY <1>3, <2>2, <2>3, <2>4 DEF Fetch, TypeOK, PC
  <2>6. InHand'
    BY <1>3, <2>2, <2>3, <2>4 DEF Fetch, TypeOK, InHand, Busy
  <2> QED
    BY <2>5, <2>6
<1>4. CASE Index(w)
  <2>1. doc[w] \in Document
    BY <1>4 DEF Index, InHand, Busy
  <2> QED
    BY <1>4, <2>1 DEF Index, TypeOK, InHand, PC, Busy, Document
<1>5. CASE RollForward(w)
  <2>1. doc[w].src \in Sources
    BY <1>5 DEF RollForward, InHand, Busy, Document
  <2> QED
    BY <1>5, <2>1 DEF RollForward, TypeOK, InHand, PC, Busy
<1>6. CASE Write(w)
  <2>1. /\ doc[w].src \in Sources /\ doc[w].checksum \in Checksums
        /\ RolledRow(w) \in Record
    BY <1>6, RolledRowType DEF Write, InHand, Document
  <2> QED
    BY <1>6, <2>1 DEF Write, Upserted, Conclude, TypeOK, InHand, PC, Busy
<1>7. CASE WriteFailed(w)
  <2>1. doc[w].src \in Sources /\ RolledRow(w) \in Record
    BY <1>7, RolledRowType DEF WriteFailed, Document
  <2> QED
    BY <1>7, <2>1 DEF WriteFailed, Upserted, Conclude, TypeOK, InHand, PC, Busy
<1> QED
  BY <1>1, <1>2, <1>3, <1>4, <1>5, <1>6, <1>7 DEF Proceed

LEMMA FaultTypes ==
    ASSUME TypeInv, NEW w \in Workers, Fault(w)
    PROVE  TypeInv'
<1> USE DEF TypeInv, world, ports
<1>0. /\ faults' \in 0..MaxFaults
      /\ pc[w] \in Busy => doc[w] \in Document /\ doc[w].src \in Sources
                           /\ doc[w].checksum \in Checksums \cup {NoChecksum}
  BY RaisesType DEF Fault, FetchFails, IndexRefused, IndexRaises, RollBlind, WriteRaises,
                    WriteFailedRaises, Crash, InHand, Document
<1>1. CASE FetchFails(w)
  <2> DEFINE s == Min(todo[w])
             d == [src |-> s, version |-> labels[w][s], checksum |-> NoChecksum,
                   left |-> 0]
  <2>1. s \in Registered /\ s \in Sources
    BY <1>1, NextTarget, CorpusConstants DEF FetchFails
  <2>2. d \in Document
    BY <1>1, <2>1, CorpusConstants DEF FetchFails, TypeOK, InHand, Document
  <2>3. PICK e \in Document : doc' = [doc EXCEPT ![w] = e]
    BY <1>1, <2>2, GivenUp DEF FetchFails, GiveUp
  <2>4. todo' \in [Workers -> SUBSET Registered]
        /\ \A u \in Workers : todo'[u] \subseteq todo[u]
    BY <1>1 DEF FetchFails, TypeOK
  <2>5. disturbed' \subseteq Sources
    BY <1>1, <2>1, OverlapType DEF FetchFails
  <2> HIDE DEF d, s
  <2>6. TypeOK'
    BY <1>0, <1>1, <2>3, <2>4, <2>5 DEF FetchFails, GiveUp, TypeOK, PC
  <2>7. InHand'
    BY <1>1, <2>3, <2>4 DEF FetchFails, GiveUp, TypeOK, InHand, Busy
  <2> QED
    BY <2>6, <2>7
<1>2. CASE IndexRefused(w)
  <2>1. PICK e \in Document : doc' = [doc EXCEPT ![w] = e]
    BY <1>0, <1>2, GivenUp DEF IndexRefused, GiveUp, Busy
  <2>2. index' \in [Sources -> Checksums \cup {NoChecksum}]
    BY <1>0, <1>2 DEF IndexRefused, TypeOK, Busy
  <2>3. TypeOK'
    BY <1>0, <1>2, <2>1, <2>2 DEF IndexRefused, GiveUp, TypeOK, PC
  <2>4. InHand'
    BY <1>2, <2>1 DEF IndexRefused, GiveUp, TypeOK, InHand, Busy
  <2> QED
    BY <2>3, <2>4
<1>3. CASE IndexRaises(w)
  <2>1. PICK e \in Document : doc' = [doc EXCEPT ![w] = e]
    BY <1>0, <1>3, GivenUp DEF IndexRaises, GiveUp, Busy
  <2>2. index' \in [Sources -> Checksums \cup {NoChecksum}]
    BY <1>0, <1>3 DEF IndexRaises, TypeOK, Busy
  <2>3. TypeOK'
    BY <1>0, <1>3, <2>1, <2>2 DEF IndexRaises, GiveUp, TypeOK, PC
  <2>4. InHand'
    BY <1>3, <2>1 DEF IndexRaises, GiveUp, TypeOK, InHand, Busy
  <2> QED
    BY <2>3, <2>4
<1>4. CASE RollBlind(w)
  BY <1>0, <1>4 DEF RollBlind, TypeOK, InHand, PC, Busy
<1>5. CASE WriteRaises(w)
  <2>1. PICK e \in Document : doc' = [doc EXCEPT ![w] = e]
    BY <1>0, <1>5, GivenUp DEF WriteRaises, GiveUp, Busy
  <2>2. /\ ledger' \in [Sources -> Record \cup {NoRecord}]
        /\ lastFresh' \in [Sources -> Checksums \cup {NoChecksum}]
    BY <1>0, <1>5, RolledRowType DEF WriteRaises, Upserted, TypeOK, Busy
  <2>3. TypeOK'
    BY <1>0, <1>5, <2>1, <2>2 DEF WriteRaises, GiveUp, TypeOK, PC
  <2>4. InHand'
    BY <1>5, <2>1 DEF WriteRaises, GiveUp, TypeOK, InHand, Busy
  <2> QED
    BY <2>3, <2>4
<1>6. CASE WriteFailedRaises(w)
  <2>1. ledger' \in [Sources -> Record \cup {NoRecord}]
    BY <1>0, <1>6, RolledRowType DEF WriteFailedRaises, Upserted, TypeOK, Busy
  <2>2. disturbed' \subseteq Sources
    BY <1>0, <1>6 DEF WriteFailedRaises, TypeOK, Busy
  <2> QED
    BY <1>0, <1>6, <2>1, <2>2 DEF WriteFailedRaises, Conclude, TypeOK, InHand, PC, Busy
<1>7. CASE Crash(w)
  BY <1>0, <1>7 DEF Crash, NoLabels, TypeOK, InHand, PC, Busy
<1> QED
  BY <1>1, <1>2, <1>3, <1>4, <1>5, <1>6, <1>7 DEF Fault

LEMMA OlderType == ASSUME NEW n \in 0..TTL PROVE Older(n) \in 0..TTL
BY CorpusConstants DEF Older

LEMMA EnvironmentTypes ==
    ASSUME TypeInv, Environment
    PROVE  TypeInv'
<1> USE DEF TypeInv, world, ports, local, history
<1>1. CASE Tick
  <2>1. \A s \in Sources : ledger[s] # NoRecord =>
            [ledger[s] EXCEPT !.left = Older(@)] \in Record
    BY OlderType DEF TypeOK, Record, FreshnessRecord
  <2>2. ledger' \in [Sources -> Record \cup {NoRecord}]
    BY <1>1, <2>1 DEF Tick
  <2>3. \A w \in Workers :
            /\ doc'[w] = [doc[w] EXCEPT !.left = Older(@)]
            /\ doc[w] = NoDoc => doc'[w] = NoDoc
            /\ doc[w] \in Document => doc'[w] \in Document
            /\ doc'[w].checksum = doc[w].checksum
    <3> TAKE w \in Workers
    <3>1. doc'[w] = [doc[w] EXCEPT !.left = Older(@)]
      BY <1>1 DEF Tick
    <3>2. CASE doc[w] = NoDoc
      <4>1. doc'[w] = NoDoc
        BY <3>1, <3>2 DEF NoDoc, Older
      <4> QED
        BY <3>1, <3>2, <4>1 DEF NoDoc, Document
    <3>3. CASE doc[w] \in Document /\ doc[w] # NoDoc
      BY <3>1, <3>3, OlderType DEF Document
    <3> QED
      BY <3>1, <3>2, <3>3 DEF TypeOK
  <2>4. TypeOK'
    BY <1>1, <2>2, <2>3 DEF Tick, TypeOK
  <2>5. InHand'
    BY <1>1, <2>3 DEF Tick, InHand
  <2> QED
    BY <2>4, <2>5
<1>2. ASSUME NEW s \in Registered, NEW c \in Checksums, Republish(s, c) PROVE TypeInv'
  BY <1>2 DEF Republish, TypeOK, InHand
<1>3. ASSUME NEW s \in Registered, NEW v \in Versions, Relabel(s, v) PROVE TypeInv'
  BY <1>3 DEF Relabel, TypeOK, InHand
<1> QED
  BY <1>1, <1>2, <1>3 DEF Environment

LEMMA TypeStep == TypeInv /\ [Next]_vars => TypeInv'
<1>1. CASE UNCHANGED vars
  BY <1>1 DEF vars, ports, local, history, TypeInv, TypeOK, InHand
<1> QED
  BY <1>1, StartTypes, ProceedTypes, FaultTypes, EnvironmentTypes DEF Next

LEMMA TypesHold == Spec => []TypeInv
<1>1. Init => TypeInv
  <2> SUFFICES ASSUME Init PROVE TypeInv
    OBVIOUS
  <2>1. TypeOK
    BY CorpusConstants DEF Init, TypeOK, NoLabels, PC
  <2>2. InHand
    BY DEF Init, InHand, Busy
  <2> QED
    BY <2>1, <2>2 DEF TypeInv
<1> QED
  BY <1>1, TypeStep, PTL DEF Spec

(***************************************************************************)
(* Every store and every worker of the corpus pipeline stays well-typed;   *)
(* in particular a refresh only ever targets sources of the registry.      *)
(***************************************************************************)
THEOREM TypeCorrect == Spec => []TypeOK
BY TypesHold, PTL DEF TypeInv

-------------------------------------------------------------------------------
(* The rows of the ledger, and the copies of them in flight. *)

\* A row as this code writes it: FRESH, or FAILED and already expired.
Dated(row) ==
    /\ row.status \in {"fresh", "failed"}
    /\ row.status = "failed" => row.left = 0

\* The row of a source whose movement is hidden supersedes a failure.
Visible(row) == Classify(row) = "unchanged" => row.prevStatus = "failed"

\* The contents of its fresh generations are among those served.
Genuine(served, row) ==
    /\ row.status = "fresh" => row.checksum \in served
    /\ row.prevStatus = "fresh" => row.prevChecksum \in served

RowInv(served, row) ==
    row # NoRecord => Dated(row) /\ Visible(row) /\ Genuine(served, row)

\* A worker's copy of a row it is about to supersede may be long out of date,
\* but it was a row of that source once.
LedgerInv ==
    /\ \A s \in Registered : published[s] \in editions[s]
    /\ \A s \in Sources : RowInv(editions[s], ledger[s])
    /\ \A w \in Workers : pc[w] \in Busy =>
          /\ RowInv(editions[doc[w].src], previous[w])
          /\ pc[w] \in {"index", "roll", "write"} =>
                doc[w].checksum \in editions[doc[w].src]

LEMMA RowInvGrows ==
    ASSUME NEW served, NEW more, served \subseteq more, NEW row, RowInv(served, row)
    PROVE  RowInv(more, row)
BY DEF RowInv, Genuine

\* Rolling any earlier row of the source forward gives a row that is in order.
\* If it moved, the superseded status tells; if not, the earlier row does.
LEMMA RolledIsInOrder ==
    ASSUME NEW served, NEW old \in Record \cup {NoRecord}, RowInv(served, old),
           NEW new \in Record, ~HasHistory(new), new.prevStatus = NoStatus, Dated(new),
           new.status = "fresh" => new.checksum \in served
    PROVE  RowInv(served, CarryForward(old, new))
<1> DEFINE rolled == CarryForward(old, new)
<1>1. CASE old = NoRecord
  BY <1>1 DEF CarryForward, RowInv, Visible, Genuine, Classify, NoStatus
<1>2. CASE old # NoRecord /\ Moved(old, new)
  <2>1. rolled = Supersede(old, new)
    BY <1>2 DEF CarryForward
  <2>2. /\ rolled.status = new.status /\ rolled.left = new.left
        /\ rolled.checksum = new.checksum /\ rolled.version = new.version
        /\ rolled.prevStatus = old.status /\ rolled.prevChecksum = old.checksum
        /\ rolled.prevVersion = old.version
    BY <2>1 DEF Supersede, Record, FreshnessRecord
  <2> HIDE DEF rolled
  <2>3. Dated(old) /\ Genuine(served, old)
    BY <1>2 DEF RowInv
  <2>4. Genuine(served, rolled)
    BY <2>2, <2>3 DEF Genuine
  <2>5. Visible(rolled)
    BY <1>2, <2>2, <2>3 DEF Visible, Classify, Moved, Dated
  <2> QED
    BY <2>2, <2>4, <2>5 DEF RowInv, Dated, rolled
<1>3. CASE old # NoRecord /\ ~Moved(old, new)
  <2>1. rolled = KeepDiffBase(old, new)
    BY <1>3 DEF CarryForward
  <2>2. /\ rolled.status = new.status /\ rolled.left = new.left
        /\ rolled.checksum = new.checksum /\ rolled.version = new.version
        /\ rolled.prevStatus = old.prevStatus /\ rolled.prevChecksum = old.prevChecksum
        /\ rolled.prevVersion = old.prevVersion
    BY <2>1 DEF KeepDiffBase, Record, FreshnessRecord
  <2> HIDE DEF rolled
  <2>3. Visible(old) /\ Genuine(served, old)
    BY <1>3 DEF RowInv
  <2>4. Genuine(served, rolled)
    BY <2>2, <2>3 DEF Genuine
  <2>5. Visible(rolled)
    BY <1>3, <2>2, <2>3 DEF Visible, Classify, HasHistory, Moved
  <2> QED
    BY <2>2, <2>4, <2>5 DEF RowInv, Dated, rolled
<1> QED
  BY <1>1, <1>2, <1>3

LEMMA RolledRowInv ==
    ASSUME TypeInv, LedgerInv, NEW w \in Workers, pc[w] \in {"write", "failwrite"}
    PROVE  RowInv(editions[doc[w].src], RolledRow(w))
<1>1. /\ doc[w] \in Document /\ previous[w] \in Record \cup {NoRecord}
      /\ RowInv(editions[doc[w].src], previous[w])
      /\ pc[w] = "write" => doc[w].checksum \in editions[doc[w].src]
  BY DEF TypeInv, TypeOK, InHand, LedgerInv, Busy
<1>2. CASE pc[w] = "write"
  <2>1. ~HasHistory(FreshRow(doc[w])) /\ FreshRow(doc[w]).prevStatus = NoStatus
    BY DEF FreshRow, NewRecord, HasHistory
  <2> QED
    BY <1>1, <1>2, <2>1, FreshRowType, RolledIsInOrder DEF RolledRow, Dated
<1>3. CASE pc[w] = "failwrite"
  <2>1. ~HasHistory(FailedRow(doc[w])) /\ FailedRow(doc[w]).prevStatus = NoStatus
    BY DEF FailedRow, NewRecord, HasHistory
  <2> QED
    BY <1>1, <1>3, <2>1, FailedRowType, RolledIsInOrder DEF RolledRow, Dated
<1> QED
  BY <1>2, <1>3

\* What an upsert does to the ledger.
Rolls(w) ==
    /\ pc[w] \in {"write", "failwrite"}
    /\ ledger' = Upserted(w)

Ages ==
    ledger' = [s \in Sources |->
                  IF ledger[s] = NoRecord THEN NoRecord
                  ELSE [ledger[s] EXCEPT !.left = Older(@)]]

LEMMA WhoWritesTheLedger ==
    ASSUME [Next]_vars
    PROVE  UNCHANGED ledger \/ Ages \/ \E w \in Workers : Rolls(w)
<1> USE DEF world, ports, local, history
<1>1. ASSUME NEW w \in Workers, Start(w) PROVE UNCHANGED ledger
  BY <1>1 DEF Start, StartExpired, StartFull, EnsureFresh, Begin, Upload
<1>2. ASSUME NEW w \in Workers, Proceed(w) PROVE UNCHANGED ledger \/ Rolls(w)
  BY <1>2 DEF Proceed, ListExpired, Finish, Fetch, Index, RollForward, Write, WriteFailed,
              Rolls
<1>3. ASSUME NEW w \in Workers, Fault(w) PROVE UNCHANGED ledger \/ Rolls(w)
  BY <1>3 DEF Fault, FetchFails, IndexRefused, IndexRaises, RollBlind, WriteRaises,
              WriteFailedRaises, Crash, Rolls
<1>4. CASE Environment
  BY <1>4 DEF Environment, Tick, Republish, Relabel, Ages
<1>5. CASE UNCHANGED vars
  BY <1>5 DEF vars
<1> QED
  BY <1>1, <1>2, <1>3, <1>4, <1>5 DEF Next

LEMMA EditionsGrow ==
    ASSUME TypeInv, [Next]_vars
    PROVE  /\ \A s \in Sources : editions[s] \subseteq editions'[s]
           /\ (\A s \in Registered : published[s] \in editions[s]) =>
                  \A s \in Registered : published'[s] \in editions'[s]
<1> USE DEF world, ports, local, history
<1>1. ASSUME NEW w \in Workers, Start(w)
      PROVE  /\ \A s \in Sources : editions[s] \subseteq editions'[s]
             /\ UNCHANGED published
  BY <1>1 DEF Start, StartExpired, StartFull, EnsureFresh, Begin, Upload, TypeInv, TypeOK
<1>2. ASSUME NEW w \in Workers, Proceed(w) \/ Fault(w)
      PROVE  UNCHANGED <<published, editions>>
  BY <1>2 DEF Proceed, ListExpired, Finish, Fetch, Index, RollForward, Write, WriteFailed,
              Fault, FetchFails, IndexRefused, IndexRaises, RollBlind, WriteRaises,
              WriteFailedRaises, Crash, Conclude
<1>3. CASE Tick \/ \E s \in Registered, v \in Versions : Relabel(s, v)
  BY <1>3 DEF Tick, Relabel
<1>4. ASSUME NEW s \in Registered, NEW c \in Checksums, Republish(s, c)
      PROVE  /\ \A t \in Sources : editions[t] \subseteq editions'[t]
             /\ c \in editions'[s]
             /\ published' = [published EXCEPT ![s] = c]
  BY <1>4, CorpusConstants DEF Republish, TypeInv, TypeOK
<1>5. CASE UNCHANGED vars
  BY <1>5 DEF vars
<1>6. Registered \subseteq Sources /\ published \in [Registered -> Checksums]
  BY CorpusConstants DEF TypeInv, TypeOK
<1> QED
  BY <1>1, <1>2, <1>3, <1>4, <1>5, <1>6 DEF Next, Environment

\* A worker with a document in hand had it before, or has just taken it.
LEMMA WhatAWorkerHolds ==
    ASSUME TypeInv, LedgerInv, [Next]_vars, NEW w \in Workers, pc'[w] \in Busy
    PROVE  \/ /\ pc[w] \in Busy /\ doc'[w].src = doc[w].src
              /\ previous'[w] \in {previous[w], NoRecord, ledger[doc[w].src]}
              /\ pc'[w] \in {"index", "roll", "write"} =>
                    /\ pc[w] \in {"index", "roll", "write"}
                    /\ doc'[w].checksum = doc[w].checksum
           \/ /\ pc[w] \notin Busy /\ previous'[w] = NoRecord
              /\ pc'[w] \in {"index", "roll", "write"} =>
                    doc'[w].checksum \in editions'[doc'[w].src]
<1> USE DEF world, ports, local, history
<1>0. /\ pc \in [Workers -> PC] /\ doc \in [Workers -> Document \cup {NoDoc}]
      /\ previous \in [Workers -> Record \cup {NoRecord}]
      /\ pc[w] \in Busy => doc[w] \in Document
      /\ pc[w] \notin Busy => doc[w] = NoDoc /\ previous[w] = NoRecord
  BY DEF TypeInv, TypeOK, InHand, Busy
<1>1. ASSUME UNCHANGED <<pc, previous>>, doc'[w].src = doc[w].src,
             doc'[w].checksum = doc[w].checksum
      PROVE  pc[w] \in Busy /\ previous'[w] = previous[w] /\ pc'[w] = pc[w]
  BY <1>1
<1>2. CASE UNCHANGED vars
  BY <1>1, <1>2 DEF vars
<1>3. CASE Tick
  <2>1. doc'[w] = [doc[w] EXCEPT !.left = Older(@)]
    BY <1>3 DEF Tick
  <2>2. doc'[w].src = doc[w].src /\ doc'[w].checksum = doc[w].checksum
    BY <1>0, <2>1 DEF NoDoc, Document
  <2> QED
    BY <1>1, <1>3, <2>2 DEF Tick
<1>4. ASSUME NEW s \in Registered, \/ \E c \in Checksums : Republish(s, c)
                                   \/ \E v \in Versions : Relabel(s, v)
      PROVE  UNCHANGED <<pc, doc, previous>>
  BY <1>4 DEF Republish, Relabel
<1>5. ASSUME NEW u \in Workers, u # w, Start(u) \/ Proceed(u) \/ Fault(u)
      PROVE  pc'[w] = pc[w] /\ doc'[w] = doc[w] /\ previous'[w] = previous[w]
  BY <1>0, <1>5 DEF Start, StartExpired, StartFull, EnsureFresh, Begin, Upload, Proceed,
     ListExpired, Finish, Fetch, Index, RollForward, Write, WriteFailed, Fault, FetchFails,
     IndexRefused, IndexRaises, RollBlind, WriteRaises, WriteFailedRaises, Crash, Conclude,
     GiveUp
<1>6. CASE Start(w)
  <2>1. ASSUME StartExpired(w) \/ StartFull(w) \/ \E s \in Registered : EnsureFresh(w, s)
        PROVE  pc'[w] \notin Busy
    BY <1>0, <2>1 DEF StartExpired, StartFull, EnsureFresh, Busy
  <2>2. ASSUME NEW s \in Uploads, NEW c \in Checksums, NEW v \in Versions, Upload(w, s, c, v)
        PROVE  /\ pc[w] \notin Busy /\ previous'[w] = NoRecord
               /\ doc'[w].checksum \in editions'[doc'[w].src]
    BY <1>0, <2>2, CorpusConstants DEF Upload, TypeInv, TypeOK, Busy
  <2> QED
    BY <1>6, <2>1, <2>2 DEF Start
<1>7. CASE ListExpired(w) \/ Finish(w) \/ Write(w) \/ WriteFailed(w) \/ WriteFailedRaises(w)
           \/ Crash(w)
  BY <1>0, <1>7 DEF ListExpired, Finish, Write, WriteFailed, WriteFailedRaises, Crash,
     Conclude, Busy
<1>8. CASE Fetch(w)
  <2>1. Min(todo[w]) \in Registered
    BY <1>8, NextTarget DEF Fetch, TypeInv
  <2> QED
    BY <1>0, <1>8, <2>1 DEF Fetch, Busy, LedgerInv
<1>9. CASE FetchFails(w)
  BY <1>0, <1>9 DEF FetchFails, GiveUp, Busy
<1>10. CASE Index(w) \/ RollForward(w) \/ RollBlind(w)
  BY <1>0, <1>10 DEF Index, RollForward, RollBlind, Busy
<1>11. CASE IndexRefused(w) \/ IndexRaises(w) \/ WriteRaises(w)
  <2>1. pc[w] \in Busy /\ pc'[w] = "failroll"
        /\ previous'[w] \in {previous[w], NoRecord}
    BY <1>0, <1>11 DEF IndexRefused, IndexRaises, WriteRaises, GiveUp, Busy
  <2>2. PICK checksum : GiveUp(w, doc[w], checksum)
    BY <1>11 DEF IndexRefused, IndexRaises, WriteRaises
  <2>3. doc'[w].src = doc[w].src
    BY <1>0, <2>1, <2>2 DEF GiveUp, Document
  <2> QED
    BY <2>1, <2>3
<1> QED
  BY <1>1, <1>2, <1>3, <1>4, <1>5, <1>6, <1>7, <1>8, <1>9, <1>10, <1>11
     DEF Next, Environment, Proceed, Fault

LEMMA LedgerStep ==
    ASSUME TypeInv, LedgerInv, [Next]_vars
    PROVE  LedgerInv'
<1>1. \A s \in Registered : published'[s] \in editions'[s]
  BY EditionsGrow DEF LedgerInv
<1>2. ASSUME NEW s \in Sources
      PROVE  RowInv(editions'[s], ledger'[s])
  <2>0. editions[s] \subseteq editions'[s] /\ RowInv(editions[s], ledger[s])
        /\ ledger \in [Sources -> Record \cup {NoRecord}]
    BY EditionsGrow DEF LedgerInv, TypeInv, TypeOK
  <2>1. CASE ledger'[s] = ledger[s]
    BY <2>0, <2>1, RowInvGrows
  <2>2. CASE Ages
    <3>1. CASE ledger[s] = NoRecord
      BY <2>2, <3>1 DEF Ages, RowInv
    <3>2. CASE ledger[s] # NoRecord
      <4>1. ledger'[s] = [ledger[s] EXCEPT !.left = Older(@)] /\ ledger[s] \in Record
        BY <2>0, <2>2, <3>2 DEF Ages
      <4> DEFINE row == ledger[s]
                 aged == [row EXCEPT !.left = Older(@)]
      <4>2. /\ aged.status = row.status /\ aged.checksum = row.checksum
            /\ aged.version = row.version /\ aged.prevStatus = row.prevStatus
            /\ aged.prevChecksum = row.prevChecksum /\ aged.prevVersion = row.prevVersion
            /\ row.left = 0 => aged.left = 0
        BY <4>1 DEF Record, FreshnessRecord, Older
      <4>3. Dated(row) /\ Visible(row) /\ Genuine(editions'[s], row)
        BY <2>0, <3>2, RowInvGrows DEF RowInv
      <4> HIDE DEF aged, row
      <4>4. Dated(aged) /\ Visible(aged) /\ Genuine(editions'[s], aged)
        BY <4>2, <4>3 DEF Dated, Visible, Genuine, Classify, HasHistory
      <4> QED
        BY <4>1, <4>4 DEF RowInv, aged, row
    <3> QED
      BY <3>1, <3>2
  <2>3. ASSUME NEW w \in Workers, Rolls(w), doc[w].src = s
        PROVE  RowInv(editions'[s], ledger'[s])
    <3>1. ledger'[s] = RolledRow(w)
      BY <2>0, <2>3 DEF Rolls, Upserted
    <3>2. RowInv(editions[s], RolledRow(w))
      BY <2>3, RolledRowInv DEF Rolls
    <3> QED
      BY <2>0, <3>1, <3>2, RowInvGrows
  <2>4. ASSUME NEW w \in Workers, Rolls(w), doc[w].src # s
        PROVE  ledger'[s] = ledger[s]
    BY <2>0, <2>4 DEF Rolls, Upserted
  <2> QED
    BY <2>1, <2>2, <2>3, <2>4, WhoWritesTheLedger
<1>3. ASSUME NEW w \in Workers, pc'[w] \in Busy
      PROVE  /\ RowInv(editions'[doc'[w].src], previous'[w])
             /\ pc'[w] \in {"index", "roll", "write"} =>
                   doc'[w].checksum \in editions'[doc'[w].src]
  <2>1. CASE pc[w] \notin Busy /\ previous'[w] = NoRecord
    BY <1>3, <2>1, WhatAWorkerHolds DEF RowInv
  <2>2. CASE pc[w] \in Busy
    <3>1. doc[w].src \in Sources /\ doc'[w].src = doc[w].src
      BY <1>3, <2>2, WhatAWorkerHolds DEF TypeInv, InHand, Document
    <3>2. editions[doc[w].src] \subseteq editions'[doc[w].src]
      BY <3>1, EditionsGrow
    <3>3. RowInv(editions[doc[w].src], previous'[w])
      <4>1. previous'[w] \in {previous[w], NoRecord, ledger[doc[w].src]}
        BY <1>3, <2>2, WhatAWorkerHolds
      <4>2. RowInv(editions[doc[w].src], previous[w])
            /\ RowInv(editions[doc[w].src], ledger[doc[w].src])
        BY <2>2, <3>1 DEF LedgerInv
      <4> QED
        BY <4>1, <4>2 DEF RowInv
    <3>4. pc'[w] \in {"index", "roll", "write"} =>
              doc'[w].checksum \in editions[doc[w].src]
      BY <1>3, <2>2, WhatAWorkerHolds DEF LedgerInv
    <3> QED
      BY <3>1, <3>2, <3>3, <3>4, RowInvGrows
  <2> QED
    BY <1>3, <2>1, <2>2, WhatAWorkerHolds
<1> QED
  BY <1>1, <1>2, <1>3 DEF LedgerInv

LEMMA LedgerHolds == Spec => [](TypeInv /\ LedgerInv)
<1>1. Init => LedgerInv
  BY CorpusConstants DEF Init, LedgerInv, RowInv, Busy
<1>2. TypeInv /\ LedgerInv /\ [Next]_vars => LedgerInv'
  BY LedgerStep
<1> QED
  BY <1>1, <1>2, TypesHold, PTL DEF Spec

(***************************************************************************)
(* is_stale and the job's list of targets agree at every instant, for any  *)
(* TTL: no source is served stale that the next pass would not refresh.    *)
(***************************************************************************)
THEOREM StaleSourcesAreDue == Spec => []StaleIffDue
<1>1. TypeInv /\ LedgerInv => StaleIffDue
  <2> SUFFICES ASSUME TypeInv, LedgerInv, NEW s \in Registered
               PROVE  IsStale(s) <=> DueForRefresh(s)
    BY DEF StaleIffDue
  <2>1. CASE ledger[s] = NoRecord
    BY <2>1 DEF IsStale, DueForRefresh, MissingIds
  <2>2. CASE ledger[s] # NoRecord
    <3>1. Dated(ledger[s]) /\ ledger[s] \in Record
      BY <2>2, CorpusConstants DEF TypeInv, TypeOK, LedgerInv, RowInv
    <3>2. ledger[s].left \in 0..TTL
      BY <3>1 DEF Record, FreshnessRecord
    <3>3. IsFresh(ledger[s]) <=> ~(ledger[s].left <= 0)
      BY <3>1, <3>2, CorpusConstants DEF Dated, IsFresh
    <3> QED
      BY <2>2, <3>3 DEF IsStale, DueForRefresh, MissingIds, Expired
  <2> QED
    BY <2>1, <2>2
<1> QED
  BY <1>1, LedgerHolds, PTL

(***************************************************************************)
(* carry_forward hides a source from the horizon only behind a failed      *)
(* attempt, whatever copy of the row it was given.                         *)
(***************************************************************************)
THEOREM OnlyFailuresHideChanges == Spec => []HiddenOnlyAfterFailure
<1>1. LedgerInv => HiddenOnlyAfterFailure
  BY DEF LedgerInv, RowInv, Visible, HiddenOnlyAfterFailure
<1> QED
  BY <1>1, LedgerHolds, PTL

(***************************************************************************)
(* A revision over a FRESH row names two contents that were both served.   *)
(***************************************************************************)
THEOREM RevisionsAreGenuine == Spec => []RevisionIsGenuine
<1>1. LedgerInv => RevisionIsGenuine
  BY DEF LedgerInv, RowInv, Genuine, Dated, Classify, RevisionIsGenuine
<1> QED
  BY <1>1, LedgerHolds, PTL

-------------------------------------------------------------------------------
(* The index and the ledger. *)

\* Two workers with the same source in hand are a disturbance; a worker alone
\* with its source finds in the index what it put there.
DriftInv ==
    /\ \A w, u \in Workers :
          /\ w # u /\ pc[w] \in Busy /\ pc[u] \in Busy
          /\ doc[w].src = doc[u].src
          => doc[w].src \in disturbed
    /\ \A w \in Workers :
          pc[w] \in {"roll", "write"} =>
              doc[w].src \in disturbed \/ index[doc[w].src] = doc[w].checksum
    /\ DriftHasACause

\* What a worker has in hand, in the terms DriftInv is about.
LEMMA HandTypes ==
    ASSUME TypeInv
    PROVE  /\ \A w \in Workers :
                 /\ pc[w] \in Busy => doc[w].src \in Sources
                 /\ pc[w] \notin Busy => doc[w].src \notin Sources
           /\ index \in [Sources -> Checksums \cup {NoChecksum}]
           /\ ledger \in [Sources -> Record \cup {NoRecord}]
           /\ pc \in [Workers -> PC]
           /\ doc \in [Workers -> Document \cup {NoDoc}]
<1>1. -1 \notin Sources
  BY CorpusConstants
<1> QED
  BY <1>1 DEF TypeInv, TypeOK, InHand, NoDoc, Document

LEMMA DriftStepStart ==
    ASSUME TypeInv, DriftInv, NEW w \in Workers, Start(w)
    PROVE  DriftInv'
<1> USE HandTypes DEF DriftInv, DriftHasACause, Drift, world, ports, Busy
<1>1. CASE StartExpired(w)
  BY <1>1 DEF StartExpired, Begin
<1>2. CASE StartFull(w)
  BY <1>2 DEF StartFull, Begin
<1>3. ASSUME NEW s \in Registered, EnsureFresh(w, s) PROVE DriftInv'
  BY <1>3 DEF EnsureFresh, Begin
<1>4. ASSUME NEW s \in Uploads, NEW c \in Checksums, NEW v \in Versions, Upload(w, s, c, v)
      PROVE  DriftInv'
  BY <1>4 DEF Upload, MarkOverlap
<1> QED
  BY <1>1, <1>2, <1>3, <1>4 DEF Start

LEMMA DriftStepProceed ==
    ASSUME TypeInv, DriftInv, NEW w \in Workers, Proceed(w)
    PROVE  DriftInv'
<1> USE HandTypes DEF DriftInv, DriftHasACause, Drift, world, ports, Busy
<1>1. CASE ListExpired(w)
  BY <1>1 DEF ListExpired
<1>2. CASE Finish(w)
  BY <1>2 DEF Finish
<1>3. CASE Fetch(w)
  BY <1>3 DEF Fetch, MarkOverlap
<1>4. CASE Index(w)
  BY <1>4 DEF Index
<1>5. CASE RollForward(w)
  BY <1>5 DEF RollForward
<1>6. CASE Write(w)
  BY <1>6, RolledRowType DEF Write, Upserted, Conclude
<1>7. CASE WriteFailed(w)
  BY <1>7, RolledRowType DEF WriteFailed, Upserted, Conclude
<1> QED
  BY <1>1, <1>2, <1>3, <1>4, <1>5, <1>6, <1>7 DEF Proceed

LEMMA DriftStepFault ==
    ASSUME TypeInv, DriftInv, NEW w \in Workers, Fault(w)
    PROVE  DriftInv'
<1> USE HandTypes DEF DriftInv, DriftHasACause, Drift, world, ports, Busy
<1>1. CASE FetchFails(w)
  BY <1>1 DEF FetchFails, GiveUp, MarkOverlap
<1>2. CASE IndexRefused(w)
  BY <1>2 DEF IndexRefused, GiveUp
<1>3. CASE IndexRaises(w)
  BY <1>3 DEF IndexRaises, GiveUp
<1>4. CASE RollBlind(w)
  BY <1>4 DEF RollBlind
<1>5. CASE WriteRaises(w)
  BY <1>5, RolledRowType DEF WriteRaises, GiveUp, Upserted
<1>6. CASE WriteFailedRaises(w)
  BY <1>6, RolledRowType DEF WriteFailedRaises, Upserted, Conclude
<1>7. CASE Crash(w)
  BY <1>7 DEF Crash
<1> QED
  BY <1>1, <1>2, <1>3, <1>4, <1>5, <1>6, <1>7 DEF Fault

LEMMA DriftStepEnvironment ==
    ASSUME TypeInv, DriftInv, Environment
    PROVE  DriftInv'
<1> USE HandTypes DEF DriftInv, DriftHasACause, Drift, world, ports, local, history, Busy
<1>1. CASE Tick
  <2>1. \A w \in Workers : doc'[w].src = doc[w].src /\ doc'[w].checksum = doc[w].checksum
    <3> TAKE w \in Workers
    <3>1. doc'[w] = [doc[w] EXCEPT !.left = Older(@)]
      BY <1>1 DEF Tick
    <3> QED
      BY <3>1 DEF NoDoc, Document
  <2>2. \A s \in Sources :
            /\ ledger'[s] # NoRecord => ledger[s] # NoRecord
            /\ ledger'[s] # NoRecord => /\ ledger'[s].status = ledger[s].status
                                        /\ ledger'[s].checksum = ledger[s].checksum
    BY <1>1 DEF Tick, Record, FreshnessRecord
  <2>3. UNCHANGED <<pc, index, disturbed>>
    BY <1>1 DEF Tick
  <2> QED
    BY <2>1, <2>2, <2>3
<1>2. ASSUME NEW s \in Registered, NEW c \in Checksums, Republish(s, c) PROVE DriftInv'
  BY <1>2 DEF Republish
<1>3. ASSUME NEW s \in Registered, NEW v \in Versions, Relabel(s, v) PROVE DriftInv'
  BY <1>3 DEF Relabel
<1> QED
  BY <1>1, <1>2, <1>3 DEF Environment

(***************************************************************************)
(* A FRESH row vouches for what the index serves, unless two ingests of    *)
(* its source overlapped, one ended without a ledger write, or one is      *)
(* under way: the order of the two writes, and the FAILED row after a      *)
(* refused or raised one, suffice for that.                                *)
(***************************************************************************)
THEOREM FreshRowsMatchTheIndex == Spec => []DriftHasACause
<1>1. Init => DriftInv
  BY DEF Init, DriftInv, DriftHasACause, Drift, Busy
<1>2. TypeInv /\ DriftInv /\ [Next]_vars => DriftInv'
  <2>1. CASE UNCHANGED vars
    BY <2>1 DEF vars, ports, local, history, DriftInv, DriftHasACause, Drift
  <2> QED
    BY <2>1, DriftStepStart, DriftStepProceed, DriftStepFault, DriftStepEnvironment DEF Next
<1>3. DriftInv => DriftHasACause
  BY DEF DriftInv
<1> QED
  BY <1>1, <1>2, <1>3, TypesHold, PTL DEF Spec
===============================================================================
