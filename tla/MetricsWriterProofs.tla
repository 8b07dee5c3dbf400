------------------------- MODULE MetricsWriterProofs -------------------------
(***************************************************************************)
(* Proofs about MetricsWriter, for every number of identities, series,     *)
(* samples, callers, crashes and every choice of failing storage calls:    *)
(* its types and the protocol of its threads; then what becomes of an      *)
(* accepted sample, which is in one place only and settled in the order of *)
(* acceptance; and that what a reader finds is what SampleStore promises.  *)
(***************************************************************************)
EXTENDS MetricsWriter, SiftingProofs

(* The parts of the type invariant.  Samples are numbered in the order of  *)
(* acceptance: what is queued or in a batch has been accepted.             *)
QueueOK == /\ queue \in Seq(0 .. Len(sent))
           /\ batch \in Seq(1 .. Len(sent))
           /\ sent \in Seq(Identity)

ThreadOK == /\ pc \in PcStates /\ pos \in Nat \ {0}
            /\ cache \subseteq Identity \X Nat
            /\ nextId \in Nat /\ idStart \in Nat

TablesOK == txn \in Tables /\ db \in Tables

(* The caller that sends the sentinel is alone and has an attempt left.    *)
StopOK ==
    /\ caller \in [Callers -> CallerStates]
    /\ tries \in Nat
    /\ \A c, d \in Callers : caller[c] = "sending" /\ caller[d] = "sending" => c = d
    /\ \A c \in Callers : caller[c] = "sending" => tries >= 1

HistoryOK ==
    /\ dropped \subseteq Nat /\ crashLost \subseteq Nat /\ stopLost \subseteq Nat
    /\ mark \in Nat /\ crashes \in Nat

FlagsOK == /\ stop \in BOOLEAN /\ dirty \in BOOLEAN /\ early \in BOOLEAN
           /\ hasSender \in BOOLEAN /\ hasHandle \in BOOLEAN

TypeInv == QueueOK /\ ThreadOK /\ TablesOK /\ StopOK /\ HistoryOK /\ FlagsOK

LEMMA SetOfSeq ==
    ASSUME NEW S, NEW s \in Seq(S)
    PROVE  ToSet(s) \subseteq S
  BY DEF ToSet

LEMMA QueuedAreSamples == QueueOK => Queued \subseteq Nat /\ ToSet(batch) \subseteq Nat
  <1> SUFFICES ASSUME QueueOK PROVE Queued \subseteq Nat /\ ToSet(batch) \subseteq Nat
    OBVIOUS
  <1>1. ToSet(queue) \subseteq 0 .. Len(sent) /\ ToSet(batch) \subseteq 1 .. Len(sent)
    BY SetOfSeq DEF QueueOK
  <1>. QED BY <1>1 DEF Queued

(* How the two sequences change.                                           *)
LEMMA QueueSteps ==
    ASSUME QueueOK
    PROVE  /\ \A n \in 0 .. Len(sent) : Append(queue, n) \in Seq(0 .. Len(sent))
           /\ queue # <<>> => /\ Tail(queue) \in Seq(0 .. Len(sent))
                             /\ Head(queue) \in 0 .. Len(sent)
           /\ \A n \in 1 .. Len(sent) : /\ Append(batch, n) \in Seq(1 .. Len(sent))
                                         /\ <<n>> \in Seq(1 .. Len(sent))
  BY DEF QueueOK

LEMMA EmptyTablesOK == EmptyTables \in Tables
  BY DEF EmptyTables, Tables, Absent

LEMMA TypeInvInit == Init => TypeInv
  <1> SUFFICES ASSUME Init PROVE TypeInv
    OBVIOUS
  <1>1. QueueOK /\ ThreadOK
    <2>1. QueueOK
      BY EmptySeq DEF Init, StartedThread, QueueOK
    <2>2. ThreadOK
      BY DEF Init, StartedThread, ThreadOK, PcStates
    <2>. QED BY <2>1, <2>2
  <1>2. TablesOK
    BY EmptyTablesOK DEF Init, StartedThread, TablesOK
  <1>3. StopOK /\ HistoryOK
    BY WriterAssumption DEF Init, StopOK, HistoryOK, CallerStates
  <1>4. FlagsOK
    BY DEF Init, StartedThread, FlagsOK
  <1>. QED BY <1>1, <1>2, <1>3, <1>4 DEF TypeInv

(* The sample being applied, and what its three cases do to the types.     *)
LEMMA CurrentSample ==
    ASSUME TypeInv, pc = "apply", pos <= Len(batch)
    PROVE  /\ batch[pos] \in 1 .. Len(sent)
           /\ sent[batch[pos]] \in Identity
           /\ SeriesOf[sent[batch[pos]]] \in Series
  <1>1. batch[pos] \in 1 .. Len(sent)
    BY DEF TypeInv, QueueOK, ThreadOK
  <1>2. sent[batch[pos]] \in Identity
    BY <1>1 DEF TypeInv, QueueOK
  <1>. QED BY <1>1, <1>2, WriterAssumption

LEMMA CachePutType ==
    ASSUME NEW i \in Identity, NEW id \in Nat, cache \subseteq Identity \X Nat, CachePut(i, id)
    PROVE  cache' \subseteq Identity \X Nat
  BY DEF CachePut

LEMMA EarlyTypes ==
    ASSUME TypeInv, EarlyError
    PROVE  cache' \subseteq Identity \X Nat /\ nextId' \in Nat
  <1>1. txn \in Tables /\ nextId \in Nat /\ cache \subseteq Identity \X Nat
    BY DEF TypeInv, TablesOK, ThreadOK, FlagsOK
  <1>2. CASE UNCHANGED <<cache, nextId>>
    BY <1>1, <1>2
  <1>3. CASE pos <= Len(batch)
    <2>1. PICK i : i = sent[batch[pos]]
      OBVIOUS
    <2>2. i \in Identity /\ SeriesOf[i] \in Series
      BY <1>3, <2>1, CurrentSample DEF EarlyError
    <2>3. txn.byKey[SeriesOf[i]] \in Nat
      BY <1>1, <2>2 DEF Tables
    <2>4. Overflows(i) \/ TakenInVain(i) \/ CachedInVain(i) \/ UNCHANGED <<cache, nextId>>
      BY <1>3, <2>1 DEF EarlyError
    <2>5. CASE Overflows(i)
      BY <1>2, <2>5 DEF Overflows
    <2>6. CASE TakenInVain(i)
      BY <1>1, <2>6 DEF TakenInVain
    <2>7. CASE CachedInVain(i)
      <3>1. \/ CachePut(i, txn.byKey[SeriesOf[i]]) /\ nextId' = nextId
            \/ CachePut(i, nextId) /\ nextId' = nextId + 1
        BY <2>7 DEF CachedInVain
      <3>. QED BY <1>1, <2>2, <2>3, <3>1, CachePutType
    <2>. QED BY <1>2, <2>4, <2>5, <2>6, <2>7
  <1>. QED BY <1>2, <1>3 DEF EarlyError

LEMMA ApplyTypes ==
    ASSUME TypeInv, ApplySample
    PROVE  /\ txn' \in Tables /\ cache' \subseteq Identity \X Nat
           /\ nextId' \in Nat /\ dirty' \in BOOLEAN
  <1> DEFINE i == sent[batch[pos]]
  <1>1. /\ batch[pos] \in 1 .. Len(sent)
        /\ i \in Identity /\ SeriesOf[i] \in Series
    BY CurrentSample DEF ApplySample
  <1>2. txn \in Tables /\ nextId \in Nat /\ cache \subseteq Identity \X Nat /\ dirty \in BOOLEAN
    BY DEF TypeInv, TablesOK, ThreadOK, FlagsOK
  <1>3. ASSUME NEW tables \in Tables, NEW id \in Nat, InsertRaw(id, tables)
        PROVE  txn' \in Tables
    <2>1. batch[pos] \in Nat
      BY <1>1 DEF TypeInv, QueueOK
    <2>2. tables.raw \cup {<<id, batch[pos]>>} \in SUBSET (Nat \X Nat)
      BY <2>1 DEF Tables
    <2>. QED BY <1>3, <2>2 DEF InsertRaw, Tables
  <1>4. ASSUME NEW id \in Nat, CachePut(i, id)
        PROVE  cache' \subseteq Identity \X Nat
    BY <1>1, <1>2, <1>4, CachePutType
  <1>5. CASE CacheHit(i)
    BY <1>2, <1>3, <1>5 DEF CacheHit
  <1>6. CASE KnownSeries(i)
    <2>1. txn.byKey[SeriesOf[i]] \in Nat
      BY <1>1, <1>2 DEF Tables
    <2>. QED BY <1>2, <1>3, <1>4, <1>6, <2>1 DEF KnownSeries
  <1>7. CASE NewSeries(i)
    <2> DEFINE t == [txn EXCEPT !.byKey = [@ EXCEPT ![SeriesOf[i]] = nextId],
                                !.meta = @ \cup {<<nextId, SeriesOf[i]>>}]
    <2>1. t \in Tables
      <3>1. [txn.byKey EXCEPT ![SeriesOf[i]] = nextId] \in [Series -> Nat]
        BY <1>1, <1>2 DEF Tables
      <3>2. txn.meta \cup {<<nextId, SeriesOf[i]>>} \in SUBSET (Nat \X Series)
        BY <1>1, <1>2 DEF Tables
      <3>4. txn.raw \in SUBSET (Nat \X Nat) /\ txn.next \in Nat
        BY <1>2 DEF Tables
      <3>. QED BY <1>2, <3>1, <3>2, <3>4 DEF Tables
    <2>2. InsertRaw(nextId, t)
      BY <1>7 DEF NewSeries
    <2>3. txn' \in Tables
      BY <1>2, <1>3, <2>1, <2>2
    <2>4. cache' \subseteq Identity \X Nat
      BY <1>2, <1>4, <1>7 DEF NewSeries
    <2>5. nextId' \in Nat
      BY <1>2, <1>7 DEF NewSeries
    <2>6. dirty' \in BOOLEAN
      BY <1>7 DEF NewSeries
    <2>. QED BY <2>3, <2>4, <2>5, <2>6
  <1>. QED BY <1>5, <1>6, <1>7 DEF ApplySample

THEOREM TypeInvNext == TypeInv /\ [Next]_vars => TypeInv'
  <1> SUFFICES ASSUME TypeInv, [Next]_vars PROVE TypeInv'
    OBVIOUS
  <1> USE WriterAssumption DEF TypeInv
  <1>1. ASSUME NEW i \in Identity, Accept(i) PROVE TypeInv'
    <2>1. QueueOK'
      BY <1>1, EmptySeq, QueueSteps DEF Accept, threadVars, stopVars, Closed, QueueOK
    <2>2. ThreadOK'
      BY <1>1 DEF Accept, threadVars, stopVars, Closed, ThreadOK, PcStates
    <2>3. TablesOK'
      BY <1>1 DEF Accept, threadVars, stopVars, Closed, TablesOK, Tables
    <2>4. StopOK'
      BY <1>1 DEF Accept, threadVars, stopVars, Closed, StopOK, CallerStates
    <2>5. HistoryOK'
      BY <1>1, QueuedAreSamples DEF Accept, threadVars, stopVars, Closed, HistoryOK, QueueOK
    <2>6. FlagsOK'
      BY <1>1 DEF Accept, threadVars, stopVars, Closed, FlagsOK
    <2>. QED BY <2>1, <2>2, <2>3, <2>4, <2>5, <2>6
  <1>2. CASE LoadNextId
    <2>1. QueueOK'
      BY <1>2, EmptySeq, QueueSteps DEF LoadNextId, stopVars, QueueOK
    <2>2. ThreadOK'
      BY <1>2 DEF LoadNextId, stopVars, ThreadOK, TablesOK, Tables, PcStates
    <2>3. TablesOK'
      BY <1>2 DEF LoadNextId, stopVars, TablesOK, Tables
    <2>4. StopOK'
      BY <1>2 DEF LoadNextId, stopVars, StopOK, CallerStates
    <2>5. HistoryOK'
      BY <1>2, QueuedAreSamples DEF LoadNextId, stopVars, HistoryOK, QueueOK
    <2>6. FlagsOK'
      BY <1>2 DEF LoadNextId, stopVars, FlagsOK
    <2>. QED BY <2>1, <2>2, <2>3, <2>4, <2>5, <2>6
  <1>3. CASE RecvFirst
    <2>1. QueueOK'
      <3>1. CASE IsSample(Head(queue))
        <4>1. Head(queue) \in 1 .. Len(sent)
          BY <1>3, <3>1, QueueSteps DEF RecvFirst, IsSample, Shutdown, QueueOK
        <4>. QED BY <1>3, <3>1, <4>1, QueueSteps DEF RecvFirst, QueueOK
      <3>2. CASE ~IsSample(Head(queue))
        BY <1>3, <3>2, EmptySeq DEF RecvFirst, ThreadStops, QueueOK
      <3>. QED BY <3>1, <3>2
    <2>2. ThreadOK'
      BY <1>3 DEF RecvFirst, ThreadStops, IsSample, Shutdown, stopVars, ThreadOK, PcStates
    <2>3. TablesOK'
      BY <1>3 DEF RecvFirst, ThreadStops, IsSample, Shutdown, stopVars, TablesOK, Tables
    <2>4. StopOK'
      BY <1>3 DEF RecvFirst, ThreadStops, IsSample, Shutdown, stopVars, StopOK, CallerStates
    <2>5. HistoryOK'
      BY <1>3, QueuedAreSamples DEF RecvFirst, ThreadStops, IsSample, Shutdown, stopVars, HistoryOK, QueueOK
    <2>6. FlagsOK'
      BY <1>3 DEF RecvFirst, ThreadStops, IsSample, Shutdown, stopVars, FlagsOK
    <2>. QED BY <2>1, <2>2, <2>3, <2>4, <2>5, <2>6
  <1>4. CASE RecvMore
    <2>1. QueueOK'
      <3>1. CASE IsSample(Head(queue))
        <4>1. Head(queue) \in 1 .. Len(sent)
          BY <1>4, <3>1, QueueSteps DEF RecvMore, IsSample, Shutdown, QueueOK
        <4>. QED BY <1>4, <3>1, <4>1, QueueSteps DEF RecvMore, histVars, QueueOK
      <3>2. CASE ~IsSample(Head(queue))
        BY <1>4, <3>2, QueueSteps DEF RecvMore, histVars, QueueOK
      <3>. QED BY <3>1, <3>2
    <2>2. ThreadOK'
      BY <1>4 DEF RecvMore, IsSample, Shutdown, stopVars, histVars, ThreadOK, PcStates
    <2>3. TablesOK'
      BY <1>4 DEF RecvMore, IsSample, Shutdown, stopVars, histVars, TablesOK, Tables
    <2>4. StopOK'
      BY <1>4 DEF RecvMore, IsSample, Shutdown, stopVars, histVars, StopOK, CallerStates
    <2>5. HistoryOK'
      BY <1>4, QueuedAreSamples DEF RecvMore, IsSample, Shutdown, stopVars, histVars, HistoryOK, QueueOK
    <2>6. FlagsOK'
      BY <1>4 DEF RecvMore, IsSample, Shutdown, stopVars, histVars, FlagsOK
    <2>. QED BY <2>1, <2>2, <2>3, <2>4, <2>5, <2>6
  <1>5. CASE EndDrain
    <2>1. QueueOK'
      BY <1>5, EmptySeq, QueueSteps DEF EndDrain, stopVars, histVars, QueueOK
    <2>2. ThreadOK'
      BY <1>5 DEF EndDrain, stopVars, histVars, ThreadOK, PcStates
    <2>3. TablesOK'
      BY <1>5 DEF EndDrain, stopVars, histVars, TablesOK, Tables
    <2>4. StopOK'
      BY <1>5 DEF EndDrain, stopVars, histVars, StopOK, CallerStates
    <2>5. HistoryOK'
      BY <1>5, QueuedAreSamples DEF EndDrain, stopVars, histVars, HistoryOK, QueueOK
    <2>6. FlagsOK'
      BY <1>5 DEF EndDrain, stopVars, histVars, FlagsOK
    <2>. QED BY <2>1, <2>2, <2>3, <2>4, <2>5, <2>6
  <1>6. CASE BeginWrite
    <2>1. QueueOK'
      BY <1>6, EmptySeq, QueueSteps DEF BeginWrite, FailBatch, stopVars, QueueOK
    <2>2. ThreadOK'
      BY <1>6 DEF BeginWrite, FailBatch, stopVars, ThreadOK, PcStates
    <2>3. TablesOK'
      BY <1>6 DEF BeginWrite, FailBatch, stopVars, TablesOK, Tables
    <2>4. StopOK'
      BY <1>6 DEF BeginWrite, FailBatch, stopVars, StopOK, CallerStates
    <2>5. HistoryOK'
      BY <1>6, QueuedAreSamples DEF BeginWrite, FailBatch, stopVars, HistoryOK, QueueOK
    <2>6. FlagsOK'
      BY <1>6 DEF BeginWrite, FailBatch, stopVars, FlagsOK
    <2>. QED BY <2>1, <2>2, <2>3, <2>4, <2>5, <2>6
  <1>7. CASE ApplySample
    <2>1. QueueOK'
      BY <1>7, EmptySeq, QueueSteps DEF ApplySample, stopVars, histVars, QueueOK
    <2>2. ThreadOK'
      BY <1>7, ApplyTypes DEF ApplySample, ThreadOK
    <2>3. TablesOK'
      BY <1>7, ApplyTypes DEF ApplySample, TablesOK
    <2>4. StopOK'
      BY <1>7 DEF ApplySample, stopVars, histVars, StopOK, CallerStates
    <2>5. HistoryOK'
      BY <1>7, QueuedAreSamples DEF ApplySample, stopVars, histVars, HistoryOK, QueueOK
    <2>6. FlagsOK'
      BY <1>7, ApplyTypes DEF ApplySample, stopVars, histVars, FlagsOK
    <2>. QED BY <2>1, <2>2, <2>3, <2>4, <2>5, <2>6
  <1>8. CASE EarlyError
    <2>1. QueueOK'
      BY <1>8, EmptySeq, QueueSteps DEF EarlyError, FailBatch, stopVars, QueueOK
    <2>2. ThreadOK'
      BY <1>8, EarlyTypes DEF EarlyError, FailBatch, stopVars, ThreadOK, PcStates
    <2>3. TablesOK'
      BY <1>8, EarlyTypes DEF EarlyError, FailBatch, stopVars, TablesOK, Tables
    <2>4. StopOK'
      BY <1>8 DEF EarlyError, FailBatch, stopVars, StopOK, CallerStates
    <2>5. HistoryOK'
      BY <1>8, QueuedAreSamples DEF EarlyError, FailBatch, stopVars, HistoryOK, QueueOK
    <2>6. FlagsOK'
      BY <1>8, EarlyTypes DEF EarlyError, FailBatch, stopVars, FlagsOK
    <2>. QED BY <2>1, <2>2, <2>3, <2>4, <2>5, <2>6
  <1>9. CASE EndApply
    <2>1. QueueOK'
      BY <1>9, EmptySeq, QueueSteps DEF EndApply, stopVars, histVars, QueueOK
    <2>2. ThreadOK'
      BY <1>9 DEF EndApply, stopVars, histVars, ThreadOK, PcStates
    <2>3. TablesOK'
      BY <1>9 DEF EndApply, ThreadOK, TablesOK, Tables
    <2>4. StopOK'
      BY <1>9 DEF EndApply, stopVars, histVars, StopOK, CallerStates
    <2>5. HistoryOK'
      BY <1>9, QueuedAreSamples DEF EndApply, stopVars, histVars, HistoryOK, QueueOK
    <2>6. FlagsOK'
      BY <1>9 DEF EndApply, stopVars, histVars, FlagsOK
    <2>. QED BY <2>1, <2>2, <2>3, <2>4, <2>5, <2>6
  <1>10. CASE Commit
    <2>1. QueueOK'
      BY <1>10, EmptySeq, QueueSteps DEF Commit, stopVars, histVars, QueueOK
    <2>2. ThreadOK'
      BY <1>10 DEF Commit, stopVars, histVars, ThreadOK, PcStates
    <2>3. TablesOK'
      BY <1>10 DEF Commit, stopVars, histVars, TablesOK, Tables
    <2>4. StopOK'
      BY <1>10 DEF Commit, stopVars, histVars, StopOK, CallerStates
    <2>5. HistoryOK'
      BY <1>10, QueuedAreSamples DEF Commit, stopVars, histVars, HistoryOK, QueueOK
    <2>6. FlagsOK'
      BY <1>10 DEF Commit, stopVars, histVars, FlagsOK
    <2>. QED BY <2>1, <2>2, <2>3, <2>4, <2>5, <2>6
  <1>11. CASE CommitError
    <2>1. QueueOK'
      BY <1>11, EmptySeq, QueueSteps DEF CommitError, FailBatch, stopVars, QueueOK
    <2>2. ThreadOK'
      BY <1>11 DEF CommitError, FailBatch, stopVars, ThreadOK, PcStates
    <2>3. TablesOK'
      BY <1>11 DEF CommitError, FailBatch, stopVars, TablesOK, Tables
    <2>4. StopOK'
      BY <1>11 DEF CommitError, FailBatch, stopVars, StopOK, CallerStates
    <2>5. HistoryOK'
      BY <1>11, QueuedAreSamples DEF CommitError, FailBatch, stopVars, HistoryOK, QueueOK
    <2>6. FlagsOK'
      BY <1>11 DEF CommitError, FailBatch, stopVars, FlagsOK
    <2>. QED BY <2>1, <2>2, <2>3, <2>4, <2>5, <2>6
  <1>12. CASE NextTurn
    <2>1. QueueOK'
      BY <1>12, EmptySeq, QueueSteps DEF NextTurn, ThreadStops, stopVars, QueueOK
    <2>2. ThreadOK'
      BY <1>12 DEF NextTurn, ThreadStops, stopVars, ThreadOK, PcStates
    <2>3. TablesOK'
      BY <1>12 DEF NextTurn, ThreadStops, stopVars, TablesOK, Tables
    <2>4. StopOK'
      BY <1>12 DEF NextTurn, ThreadStops, stopVars, StopOK, CallerStates
    <2>5. HistoryOK'
      BY <1>12, QueuedAreSamples DEF NextTurn, ThreadStops, stopVars, HistoryOK, QueueOK
    <2>6. FlagsOK'
      BY <1>12 DEF NextTurn, ThreadStops, stopVars, FlagsOK
    <2>. QED BY <2>1, <2>2, <2>3, <2>4, <2>5, <2>6
  <1>13. ASSUME NEW c \in Callers, TakeSender(c) PROVE TypeInv'
    <2>1. QueueOK'
      BY <1>13, EmptySeq, QueueSteps DEF TakeSender, Moves, threadVars, histVars, QueueOK
    <2>2. ThreadOK'
      BY <1>13 DEF TakeSender, Moves, threadVars, histVars, ThreadOK, PcStates
    <2>3. TablesOK'
      BY <1>13 DEF TakeSender, Moves, threadVars, histVars, TablesOK, Tables
    <2>4. StopOK'
      BY <1>13 DEF TakeSender, Moves, threadVars, histVars, StopOK, CallerStates
    <2>5. HistoryOK'
      BY <1>13, QueuedAreSamples DEF TakeSender, Moves, threadVars, histVars, HistoryOK, QueueOK
    <2>6. FlagsOK'
      BY <1>13 DEF TakeSender, Moves, threadVars, histVars, FlagsOK
    <2>. QED BY <2>1, <2>2, <2>3, <2>4, <2>5, <2>6
  <1>14. ASSUME NEW c \in Callers, TrySendShutdown(c) PROVE TypeInv'
    <2>1. QueueOK'
      <3>1. Shutdown \in 0 .. Len(sent)
        BY DEF Shutdown, QueueOK
      <3>. QED BY <1>14, <3>1, QueueSteps DEF TrySendShutdown, threadVars, QueueOK
    <2>2. ThreadOK'
      BY <1>14 DEF TrySendShutdown, Moves, Shutdown, threadVars, ThreadOK, PcStates
    <2>3. TablesOK'
      BY <1>14 DEF TrySendShutdown, Moves, Shutdown, threadVars, TablesOK, Tables
    <2>4. StopOK'
      BY <1>14 DEF TrySendShutdown, Moves, Shutdown, threadVars, StopOK, CallerStates
    <2>5. HistoryOK'
      BY <1>14, QueuedAreSamples DEF TrySendShutdown, Moves, Shutdown, threadVars, HistoryOK, QueueOK
    <2>6. FlagsOK'
      BY <1>14 DEF TrySendShutdown, Moves, Shutdown, threadVars, FlagsOK
    <2>. QED BY <2>1, <2>2, <2>3, <2>4, <2>5, <2>6
  <1>15. ASSUME NEW c \in Callers, TakeHandle(c) PROVE TypeInv'
    <2>1. QueueOK'
      BY <1>15, EmptySeq, QueueSteps DEF TakeHandle, Moves, threadVars, histVars, QueueOK
    <2>2. ThreadOK'
      BY <1>15 DEF TakeHandle, Moves, threadVars, histVars, ThreadOK, PcStates
    <2>3. TablesOK'
      BY <1>15 DEF TakeHandle, Moves, threadVars, histVars, TablesOK, Tables
    <2>4. StopOK'
      BY <1>15 DEF TakeHandle, Moves, threadVars, histVars, StopOK, CallerStates
    <2>5. HistoryOK'
      BY <1>15, QueuedAreSamples DEF TakeHandle, Moves, threadVars, histVars, HistoryOK, QueueOK
    <2>6. FlagsOK'
      BY <1>15 DEF TakeHandle, Moves, threadVars, histVars, FlagsOK
    <2>. QED BY <2>1, <2>2, <2>3, <2>4, <2>5, <2>6
  <1>16. ASSUME NEW c \in Callers, Joined(c) PROVE TypeInv'
    <2>1. QueueOK'
      BY <1>16, EmptySeq, QueueSteps DEF Joined, Moves, threadVars, histVars, QueueOK
    <2>2. ThreadOK'
      BY <1>16 DEF Joined, Moves, threadVars, histVars, ThreadOK, PcStates
    <2>3. TablesOK'
      BY <1>16 DEF Joined, Moves, threadVars, histVars, TablesOK, Tables
    <2>4. StopOK'
      BY <1>16 DEF Joined, Moves, threadVars, histVars, StopOK, CallerStates
    <2>5. HistoryOK'
      BY <1>16, QueuedAreSamples DEF Joined, Moves, threadVars, histVars, HistoryOK, QueueOK
    <2>6. FlagsOK'
      BY <1>16 DEF Joined, Moves, threadVars, histVars, FlagsOK
    <2>. QED BY <2>1, <2>2, <2>3, <2>4, <2>5, <2>6
  <1>17. CASE Crash
    <2>1. QueueOK'
      BY <1>17, EmptySeq, QueueSteps DEF Crash, QueueOK
    <2>2. ThreadOK'
      BY <1>17 DEF Crash, ThreadOK, PcStates
    <2>3. TablesOK'
      BY <1>17, EmptyTablesOK DEF Crash, TablesOK
    <2>4. StopOK'
      BY <1>17 DEF Crash, StopOK, CallerStates
    <2>5. HistoryOK'
      <3>1. crashLost' = crashLost \cup stopLost \cup ToSet(batch) \cup Queued
        BY <1>17 DEF Crash
      <3>2. crashLost' \subseteq Nat
        BY <3>1, QueuedAreSamples DEF HistoryOK
      <3>3. dropped' = dropped /\ stopLost' = {} /\ mark' = MaxSamples /\ crashes' = crashes + 1
        BY <1>17 DEF Crash
      <3>. QED BY <3>2, <3>3 DEF HistoryOK
    <2>6. FlagsOK'
      BY <1>17 DEF Crash, FlagsOK
    <2>. QED BY <2>1, <2>2, <2>3, <2>4, <2>5, <2>6
  <1>18. CASE UNCHANGED vars
    BY <1>18 DEF vars, threadVars, stopVars, histVars, QueueOK, ThreadOK, TablesOK, StopOK, HistoryOK, FlagsOK
  <1>. QED
    BY <1>1, <1>2, <1>3, <1>4, <1>5, <1>6, <1>7, <1>8, <1>9, <1>10, <1>11, <1>12, <1>13, <1>14, <1>15, <1>16, <1>17, <1>18 DEF Next, WriterStep, CallerStep

LEMMA TypeInvImpliesTypeOK == TypeInv => TypeOK
  <1> SUFFICES ASSUME TypeInv PROVE TypeOK
    OBVIOUS
  <1>1. queue \in Seq(Nat) /\ batch \in Seq(Nat) /\ sent \in Seq(Identity)
    BY DEF TypeInv, QueueOK
  <1>. QED
    BY <1>1 DEF TypeInv, ThreadOK, TablesOK, StopOK, HistoryOK, FlagsOK, TypeOK

LEMMA TypeInvariant == Spec => []TypeInv
  BY TypeInvInit, TypeInvNext, PTL DEF Spec

(* Every variable keeps the type TypeOK gives it.                          *)
THEOREM TypeCorrect == Spec => []TypeOK
  BY TypeInvariant, TypeInvImpliesTypeOK, PTL
-----------------------------------------------------------------------------
(* shutdown(): once the handle is taken, somebody is joining the thread or *)
(* the thread has ended; and who has returned has seen it end.             *)
StopInv == /\ ~hasHandle => pc = "done" \/ \E c \in Callers : caller[c] = "joining"
           /\ \A c \in Callers : caller[c] = "joining" => ~hasHandle
           /\ \A c \in Callers : caller[c] = "returned" => pc = "done"

(* The thread never leaves "done" but by the end of the process.           *)
LEMMA WriterStaysDone == pc = "done" /\ WriterStep => FALSE
  BY DEF WriterStep, LoadNextId, RecvFirst, RecvMore, EndDrain, BeginWrite, ApplySample,
     EarlyError, EndApply, Commit, CommitError, NextTurn

LEMMA WriterKeepsStopVars == WriterStep => UNCHANGED stopVars
  BY DEF WriterStep, LoadNextId, RecvFirst, RecvMore, EndDrain, BeginWrite, ApplySample,
     EarlyError, EndApply, Commit, CommitError, NextTurn

LEMMA StopInvNext == TypeInv /\ StopInv /\ [Next]_vars => StopInv'
  <1> SUFFICES ASSUME TypeInv, StopInv, [Next]_vars PROVE StopInv'
    OBVIOUS
  <1>0. caller \in [Callers -> CallerStates]
    BY DEF TypeInv, StopOK
  <1>1. ASSUME NEW i \in Identity, Accept(i) PROVE StopInv'
    BY <1>1 DEF Accept, StopInv, threadVars, stopVars
  <1>2. CASE WriterStep
    <2>1. pc # "done" /\ caller' = caller /\ hasHandle' = hasHandle
      BY <1>2, WriterStaysDone, WriterKeepsStopVars DEF stopVars
    <2>. QED BY <2>1 DEF StopInv
  <1>3. ASSUME NEW c \in Callers, TakeSender(c) PROVE StopInv'
    BY <1>0, <1>3 DEF TakeSender, Moves, StopInv, threadVars
  <1>4. ASSUME NEW c \in Callers, TrySendShutdown(c) PROVE StopInv'
    BY <1>0, <1>4 DEF TrySendShutdown, Moves, StopInv, threadVars
  <1>5. ASSUME NEW c \in Callers, TakeHandle(c) PROVE StopInv'
    <2>1. pc' = pc /\ ~hasHandle'
      BY <1>5, Zenon DEF TakeHandle, threadVars
    <2>2. CASE hasHandle
      <3>1. caller' = [caller EXCEPT ![c] = "joining"]
        BY <1>5, <2>2 DEF TakeHandle, Moves
      <3>. QED BY <1>0, <2>1, <3>1 DEF StopInv
    <2>3. CASE ~hasHandle
      <3>1. caller' = [caller EXCEPT ![c] = "returned"]
        BY <1>5, <2>3 DEF TakeHandle, Moves
      <3>2. pc = "done"
        BY <1>5, <2>3 DEF TakeHandle, StopInv
      <3>. QED BY <1>0, <2>1, <3>1, <3>2 DEF StopInv
    <2>. QED BY <2>2, <2>3
  <1>6. ASSUME NEW c \in Callers, Joined(c) PROVE StopInv'
    <2>1. /\ caller' = [caller EXCEPT ![c] = "returned"]
          /\ pc' = pc /\ pc = "done" /\ hasHandle' = hasHandle
      BY <1>6 DEF Joined, Moves, threadVars
    <2>. QED BY <1>0, <2>1 DEF StopInv
  <1>7. CASE Crash
    BY <1>7 DEF Crash, StopInv
  <1>8. CASE UNCHANGED vars
    BY <1>8 DEF vars, threadVars, stopVars, StopInv
  <1>. QED BY <1>1, <1>2, <1>3, <1>4, <1>5, <1>6, <1>7, <1>8 DEF Next, CallerStep

(* No call of shutdown() returns while the writer thread runs.             *)
THEOREM ShutdownJoins == Spec => []ShutdownMeansStopped
  <1>1. Init => StopInv
    BY DEF Init, StopInv
  <1>2. StopInv => ShutdownMeansStopped
    BY DEF StopInv, ShutdownMeansStopped
  <1>. QED BY <1>1, <1>2, StopInvNext, TypeInvariant, PTL DEF Spec
-----------------------------------------------------------------------------
(* Series identity.  The tables t are sound for the counter n when every   *)
(* id in use is below n and belongs to one series, series_meta mirrors     *)
(* series_by_key, and every point lies under the id of its series.         *)
KeysSound(t, n) ==
    /\ n >= 1
    /\ \A s \in Series : t.byKey[s] < n
    /\ \A s, u \in Series : t.byKey[s] # Absent /\ t.byKey[s] = t.byKey[u] => s = u
    /\ t.meta = {<<t.byKey[s], s>> : s \in {u \in Series : t.byKey[u] # Absent}}

Filed(t, accepted) ==
    \A p \in t.raw : /\ p[1] # Absent
                     /\ p[2] \in 1 .. Len(accepted)
                     /\ t.byKey[SeriesOf[accepted[p[2]]]] = p[1]

Agrees(entries, t) ==
    \A e \in entries : e[2] # Absent /\ t.byKey[SeriesOf[e[1]]] = e[2]

(* IdentityUnlessEarly is not inductive: what the thread holds in memory   *)
(* (cache, next_id, the open transaction) must agree with the tables it    *)
(* will write to, at every point of the loop where it will use them.       *)
CommittedSound == KeysSound(db, db.next) /\ Filed(db, sent)

BetweenBatches ==
    pc \in {"recv", "fill", "begin", "settled"} => Agrees(cache, db) /\ nextId >= db.next

InBatch ==
    pc \in {"apply", "commit"} =>
        /\ KeysSound(txn, nextId) /\ Filed(txn, sent) /\ Agrees(cache, txn)
        /\ idStart >= db.next /\ nextId >= txn.next

CounterWritten ==
    (pc = "apply" /\ dirty = FALSE) \/ pc = "commit" => KeysSound(txn, txn.next)

SoundInv == /\ CommittedSound /\ BetweenBatches /\ InBatch /\ CounterWritten
            /\ pc = "load" => cache = {}

IdInv == early = TRUE \/ SoundInv

LEMMA SoundUp ==
    ASSUME NEW t \in Tables, NEW n \in Nat, NEW m \in Nat, KeysSound(t, n), n <= m
    PROVE  KeysSound(t, m)
  BY DEF KeysSound, Tables

(* Accepting a sample does not move the points already filed.              *)
LEMMA FiledAfterAppend ==
    ASSUME NEW t, NEW accepted \in Seq(Identity), NEW i \in Identity, Filed(t, accepted)
    PROVE  Filed(t, Append(accepted, i))
  <1>1. ASSUME NEW n \in 1 .. Len(accepted)
        PROVE  n \in 1 .. Len(Append(accepted, i)) /\ Append(accepted, i)[n] = accepted[n]
    OBVIOUS
  <1>. QED BY <1>1 DEF Filed

(* A point filed under the id of its series keeps the tables sound.        *)
LEMMA InsertKeeps ==
    ASSUME NEW t \in Tables, NEW n \in Nat, KeysSound(t, n), Filed(t, sent), sent \in Seq(Identity),
           pc = "apply", pos \in Nat, batch[pos] \in 1 .. Len(sent),
           NEW id \in Nat, id # Absent, t.byKey[SeriesOf[sent[batch[pos]]]] = id,
           InsertRaw(id, t)
    PROVE  /\ KeysSound(txn', n) /\ Filed(txn', sent)
           /\ txn'.byKey = t.byKey /\ txn'.next = t.next
  <1>1. txn' = [t EXCEPT !.raw = @ \cup {<<id, batch[pos]>>}]
    BY DEF InsertRaw
  <1>2. /\ txn'.byKey = t.byKey /\ txn'.next = t.next /\ txn'.meta = t.meta
        /\ txn'.raw = t.raw \cup {<<id, batch[pos]>>}
    BY <1>1 DEF Tables
  <1>3. KeysSound(txn', n)
    BY <1>2 DEF KeysSound
  <1>4. Filed(txn', sent)
    BY <1>2 DEF Filed
  <1>. QED BY <1>2, <1>3, <1>4

(* What is put in the cache is true, whatever is evicted.                  *)
LEMMA PutKeeps ==
    ASSUME NEW i \in Identity, NEW id \in Nat, NEW t, Agrees(cache, t),
           id # Absent, t.byKey[SeriesOf[i]] = id, CachePut(i, id)
    PROVE  Agrees(cache', t)
  <1>1. cache' \subseteq cache \cup {<<i, id>>}
    BY DEF CachePut
  <1>. QED BY <1>1 DEF Agrees

(* A new series under the next id: no other series has it.                 *)
WithKey(t, s, n) == [t EXCEPT !.byKey = [@ EXCEPT ![s] = n], !.meta = @ \cup {<<n, s>>}]

LEMMA NewKeyKeeps ==
    ASSUME NEW t \in Tables, NEW n \in Nat, NEW s \in Series, t.byKey[s] = Absent,
           KeysSound(t, n), sent \in Seq(Identity), Filed(t, sent),
           NEW u, u = WithKey(t, s, n)
    PROVE  /\ u \in Tables /\ KeysSound(u, n + 1) /\ Filed(u, sent)
           /\ u.byKey[s] = n /\ u.next = t.next /\ n # Absent
           /\ \A r \in Series : t.byKey[r] # Absent => u.byKey[r] = t.byKey[r]
  <1>1. /\ u.byKey = [t.byKey EXCEPT ![s] = n] /\ u.meta = t.meta \cup {<<n, s>>}
        /\ u.raw = t.raw /\ u.next = t.next
    BY DEF Tables, WithKey
  <1>2. t.byKey \in [Series -> Nat] /\ t.meta \subseteq Nat \X Series
    BY DEF Tables
  <1>3. u.byKey \in [Series -> Nat] /\ u.meta \in SUBSET (Nat \X Series)
    BY <1>1, <1>2
  <1>4. u \in Tables
    BY <1>1, <1>3 DEF Tables, WithKey
  <1>5. n # Absent /\ n \in Nat /\ n >= 1
    BY DEF KeysSound, Absent
  <1>6. \A r \in Series : u.byKey[r] = IF r = s THEN n ELSE t.byKey[r]
    BY <1>1, <1>2
  <1>7. KeysSound(u, n + 1)
    <2>1. \A r \in Series : u.byKey[r] < n + 1
      BY <1>2, <1>6 DEF KeysSound
    <2>2. \A r, v \in Series : u.byKey[r] # Absent /\ u.byKey[r] = u.byKey[v] => r = v
      BY <1>2, <1>5, <1>6 DEF KeysSound
    <2>3. u.meta = {<<u.byKey[r], r>> : r \in {v \in Series : u.byKey[v] # Absent}}
      BY <1>1, <1>5, <1>6 DEF KeysSound
    <2>. QED BY <1>5, <2>1, <2>2, <2>3 DEF KeysSound
  <1>8. Filed(u, sent)
    <2>1. ASSUME NEW p \in t.raw
          PROVE  u.byKey[SeriesOf[sent[p[2]]]] = p[1]
      <3>1. SeriesOf[sent[p[2]]] \in Series /\ SeriesOf[sent[p[2]]] # s
        BY WriterAssumption DEF Filed
      <3>. QED BY <1>6, <3>1 DEF Filed
    <2>. QED BY <1>1, <2>1 DEF Filed
  <1>9. \A r \in Series : t.byKey[r] # Absent => u.byKey[r] = t.byKey[r]
    BY <1>6
  <1>. QED BY <1>1, <1>4, <1>5, <1>6, <1>7, <1>8, <1>9

LEMMA ApplyKeepsSound == TypeInv /\ SoundInv /\ ApplySample => SoundInv'
  <1> SUFFICES ASSUME TypeInv, SoundInv, ApplySample PROVE SoundInv'
    OBVIOUS
  <1> DEFINE i == sent[batch[pos]]
  <1>1. /\ batch[pos] \in 1 .. Len(sent) /\ i \in Identity /\ SeriesOf[i] \in Series
        /\ pc = "apply" /\ pos \in Nat
    BY CurrentSample DEF ApplySample, TypeInv, ThreadOK
  <1>2. /\ txn \in Tables /\ nextId \in Nat /\ idStart \in Nat /\ db \in Tables
        /\ cache \subseteq Identity \X Nat /\ sent \in Seq(Identity)
    BY DEF TypeInv, TablesOK, ThreadOK, QueueOK
  <1>3. /\ KeysSound(txn, nextId) /\ Filed(txn, sent) /\ Agrees(cache, txn)
        /\ idStart >= db.next /\ nextId >= txn.next
        /\ dirty = FALSE => KeysSound(txn, txn.next)
    BY <1>1, Zenon DEF SoundInv, InBatch, CounterWritten
  <1>4. pc' = "apply" /\ db' = db /\ sent' = sent /\ idStart' = idStart
    BY <1>1 DEF ApplySample, histVars
  <1>5. txn.next \in Nat /\ txn.byKey \in [Series -> Nat]
    BY <1>2 DEF Tables
  <1>6. CommittedSound'
    BY <1>4 DEF SoundInv, CommittedSound
  <1>7. SUFFICES /\ KeysSound(txn', nextId') /\ Filed(txn', sent) /\ Agrees(cache', txn')
                 /\ nextId' >= txn'.next
                 /\ dirty' = FALSE => KeysSound(txn', txn'.next)
    BY <1>3, <1>4, <1>6 DEF SoundInv, BetweenBatches, InBatch, CounterWritten
  <1>8. CASE CacheHit(i)
    <2>1. PICK e \in cache : /\ e[1] = i /\ InsertRaw(e[2], txn)
                             /\ UNCHANGED <<cache, nextId, dirty>>
      BY <1>8 DEF CacheHit
    <2>2. e[2] \in Nat /\ e[2] # Absent /\ txn.byKey[SeriesOf[i]] = e[2]
      BY <1>2, <1>3, <2>1 DEF Agrees
    <2>3. /\ KeysSound(txn', nextId) /\ Filed(txn', sent)
          /\ txn'.byKey = txn.byKey /\ txn'.next = txn.next
      BY <1>1, <1>2, <1>3, <2>1, <2>2, InsertKeeps
    <2>4. dirty = FALSE => KeysSound(txn', txn'.next)
      BY <1>1, <1>2, <1>3, <1>5, <2>1, <2>2, InsertKeeps
    <2>5. Agrees(cache', txn')
      BY <1>3, <2>1, <2>3 DEF Agrees
    <2>. QED BY <1>3, <2>1, <2>3, <2>4, <2>5
  <1>9. CASE KnownSeries(i)
    <2> DEFINE id == txn.byKey[SeriesOf[i]]
    <2>1. /\ id \in Nat /\ id # Absent /\ CachePut(i, id) /\ InsertRaw(id, txn)
          /\ nextId' = nextId /\ dirty' = dirty
      BY <1>1, <1>5, <1>9 DEF KnownSeries
    <2>2. /\ KeysSound(txn', nextId) /\ Filed(txn', sent)
          /\ txn'.byKey = txn.byKey /\ txn'.next = txn.next
      BY <1>1, <1>2, <1>3, <2>1, InsertKeeps
    <2>3. dirty = FALSE => KeysSound(txn', txn'.next)
      BY <1>1, <1>2, <1>3, <1>5, <2>1, InsertKeeps
    <2>4. Agrees(cache', txn)
      BY <1>1, <1>3, <2>1, PutKeeps
    <2>5. Agrees(cache', txn')
      BY <2>2, <2>4 DEF Agrees
    <2>. QED BY <1>3, <2>1, <2>2, <2>3, <2>5
  <1>10. CASE NewSeries(i)
    <2>0. PICK u : u = WithKey(txn, SeriesOf[i], nextId)
      OBVIOUS
    <2>1. /\ txn.byKey[SeriesOf[i]] = Absent /\ nextId' = nextId + 1 /\ dirty' = TRUE
          /\ CachePut(i, nextId) /\ InsertRaw(nextId, u)
      BY <1>10, <2>0 DEF NewSeries, WithKey
    <2>2. /\ u \in Tables /\ KeysSound(u, nextId + 1) /\ Filed(u, sent)
          /\ u.byKey[SeriesOf[i]] = nextId /\ u.next = txn.next /\ nextId # Absent
          /\ \A r \in Series : txn.byKey[r] # Absent => u.byKey[r] = txn.byKey[r]
      BY <1>1, <1>2, <1>3, <2>0, <2>1, NewKeyKeeps
    <2>3. /\ KeysSound(txn', nextId + 1) /\ Filed(txn', sent)
          /\ txn'.byKey = u.byKey /\ txn'.next = u.next
      BY <1>1, <1>2, <2>1, <2>2, InsertKeeps
    <2>4. Agrees(cache, u)
      <3>1. ASSUME NEW e \in cache
            PROVE  e[2] # Absent /\ u.byKey[SeriesOf[e[1]]] = e[2]
        <4>1. e[1] \in Identity /\ SeriesOf[e[1]] \in Series
          BY <1>2, WriterAssumption
        <4>. QED BY <1>3, <2>2, <4>1 DEF Agrees
      <3>. QED BY <3>1 DEF Agrees
    <2>5. Agrees(cache', u)
      BY <1>1, <1>2, <2>1, <2>2, <2>4, PutKeeps
    <2>6. Agrees(cache', txn')
      BY <2>3, <2>5 DEF Agrees
    <2>. QED BY <1>2, <1>3, <1>5, <2>1, <2>2, <2>3, <2>6
  <1>. QED BY <1>8, <1>9, <1>10 DEF ApplySample

LEMMA SoundInvNext == TypeInv /\ IdInv /\ [Next]_vars => IdInv'
  <1> SUFFICES ASSUME TypeInv, IdInv, [Next]_vars PROVE IdInv'
    OBVIOUS
  <1>0. CASE early = TRUE
    <2>1. early' = TRUE
      BY <1>0, Zenon DEF Next, vars, histVars, Accept, WriterStep, CallerStep, LoadNextId,
         RecvFirst, RecvMore, EndDrain, BeginWrite, ApplySample, EarlyError, EndApply,
         Commit, CommitError, NextTurn, TakeSender, TrySendShutdown, TakeHandle, Joined, Crash
    <2>. QED BY <2>1 DEF IdInv
  <1>. SUFFICES ASSUME SoundInv, early # TRUE PROVE IdInv'
    BY <1>0 DEF IdInv
  <1>b. /\ txn \in Tables /\ nextId \in Nat /\ idStart \in Nat /\ db \in Tables
        /\ cache \subseteq Identity \X Nat /\ sent \in Seq(Identity)
    BY DEF TypeInv, TablesOK, ThreadOK, QueueOK
  <1>c. /\ txn.next \in Nat /\ txn.byKey \in [Series -> Nat]
        /\ db.next \in Nat /\ db.byKey \in [Series -> Nat]
    BY <1>b DEF Tables
  <1> USE DEF IdInv, SoundInv, CommittedSound, BetweenBatches, InBatch, CounterWritten
  <1>1. ASSUME NEW i \in Identity, Accept(i) PROVE SoundInv'
    <2>1. Filed(db, sent') /\ (pc \in {"apply", "commit"} => Filed(txn, sent'))
      BY <1>b, <1>1, FiledAfterAppend DEF Accept
    <2>. QED BY <1>1, <2>1 DEF Accept, threadVars
  <1>2. CASE LoadNextId
    <2>1. cache = {} /\ cache' = {} /\ db' = db /\ sent' = sent
      BY <1>2 DEF LoadNextId
    <2>2. Agrees({}, db)
      BY DEF Agrees
    <2>3. \/ pc' = "recv" /\ nextId' = db.next
          \/ pc' = "done"
      BY <1>2 DEF LoadNextId
    <2>. QED BY <1>c, <2>1, <2>2, <2>3
  <1>3. CASE RecvFirst
    <2>1. /\ pc = "recv" /\ pc' \in {"fill", "done"}
          /\ db' = db /\ sent' = sent /\ cache' = cache /\ nextId' = nextId
      BY <1>3 DEF RecvFirst, ThreadStops
    <2>. QED BY <2>1
  <1>4. CASE RecvMore
    <2>1. /\ pc = "fill" /\ pc' \in {"fill", "begin"}
          /\ db' = db /\ sent' = sent /\ cache' = cache /\ nextId' = nextId
      BY <1>4 DEF RecvMore, histVars
    <2>. QED BY <2>1
  <1>5. CASE EndDrain
    BY <1>5 DEF EndDrain, histVars
  <1>6. CASE BeginWrite
    <2>1. CASE pc' = "apply" /\ txn' = db /\ idStart' = nextId /\ dirty' = FALSE
      <3>1. pc = "begin" /\ db' = db /\ sent' = sent /\ cache' = cache /\ nextId' = nextId
        BY <1>6 DEF BeginWrite
      <3>2. KeysSound(db, nextId)
        BY <1>b, <1>c, <3>1, SoundUp
      <3>. QED BY <2>1, <3>1, <3>2
    <2>2. CASE pc' = "settled"
      BY <1>6, <2>2 DEF BeginWrite
    <2>. QED BY <1>6, <2>1, <2>2 DEF BeginWrite, FailBatch
  <1>7. CASE ApplySample
    BY <1>7, ApplyKeepsSound
  <1>8. CASE EarlyError
    BY <1>8 DEF EarlyError, IdInv
  <1>9. CASE EndApply
    <2>1. /\ pc = "apply" /\ pc' = "commit" /\ db' = db /\ sent' = sent
          /\ cache' = cache /\ nextId' = nextId /\ idStart' = idStart
      BY <1>9 DEF EndApply, histVars
    <2>2. CASE dirty = FALSE
      <3>1. txn' = txn
        BY <1>9, <2>2 DEF EndApply
      <3>. QED BY <2>1, <2>2, <3>1
    <2>3. CASE dirty # FALSE
      <3>1. txn' = [txn EXCEPT !.next = nextId]
        BY <1>9, <2>3 DEF EndApply, TypeInv, FlagsOK
      <3>2. txn'.next = nextId /\ txn'.byKey = txn.byKey /\ txn'.meta = txn.meta /\ txn'.raw = txn.raw
        BY <1>b, <3>1 DEF Tables
      <3>3. KeysSound(txn', nextId) /\ Filed(txn', sent) /\ Agrees(cache, txn')
        BY <2>1, <3>2 DEF KeysSound, Filed, Agrees
      <3>. QED BY <1>b, <2>1, <3>2, <3>3
    <2>. QED BY <2>2, <2>3
  <1>10. CASE Commit
    <2>1. /\ pc = "commit" /\ pc' = "settled" /\ db' = txn /\ sent' = sent
          /\ cache' = cache /\ nextId' = nextId
      BY <1>10 DEF Commit, histVars
    <2>. QED BY <2>1
  <1>11. CASE CommitError
    <2>1. /\ pc = "commit" /\ pc' = "settled" /\ db' = db /\ sent' = sent
          /\ cache' = {} /\ nextId' = idStart
      BY <1>11 DEF CommitError, FailBatch
    <2>2. Agrees({}, db)
      BY DEF Agrees
    <2>. QED BY <2>1, <2>2
  <1>12. CASE NextTurn
    <2>1. /\ pc = "settled" /\ pc' \in {"recv", "done"}
          /\ db' = db /\ sent' = sent /\ cache' = cache /\ nextId' = nextId
      BY <1>12 DEF NextTurn, ThreadStops
    <2>. QED BY <2>1
  <1>13. ASSUME NEW c \in Callers, CallerStep(c) PROVE SoundInv'
    <2>1. UNCHANGED <<threadVars, db, sent>>
      BY <1>13 DEF CallerStep, TakeSender, TrySendShutdown, TakeHandle, Joined, histVars
    <2>. QED BY <2>1 DEF threadVars
  <1>14. CASE Crash
    <2>1. pc' = "load" /\ db' = db /\ sent' = sent /\ cache' = {}
      BY <1>14 DEF Crash
    <2>. QED BY <2>1
  <1>15. CASE UNCHANGED vars
    BY <1>15 DEF vars, threadVars, histVars
  <1>. QED BY <1>1, <1>2, <1>3, <1>4, <1>5, <1>6, <1>7, <1>8, <1>9, <1>10, <1>11, <1>12,
              <1>13, <1>14, <1>15 DEF Next, WriterStep, IdInv

LEMMA SoundInvariant == Spec => []IdInv
  <1>1. Init => IdInv
    <2> SUFFICES ASSUME Init PROVE SoundInv
      BY DEF IdInv
    <2>1. /\ db = EmptyTables /\ pc = "load" /\ cache = {} /\ sent = <<>>
      BY DEF Init, StartedThread
    <2>2. KeysSound(EmptyTables, EmptyTables.next) /\ Filed(EmptyTables, <<>>)
      BY DEF KeysSound, Filed, EmptyTables, Absent
    <2>. QED BY <2>1, <2>2
             DEF SoundInv, CommittedSound, BetweenBatches, InBatch, CounterWritten
  <1>. QED BY <1>1, SoundInvNext, TypeInvariant, PTL DEF Spec

(* Every committed point is under the id of its series and the catalogue   *)
(* is sound, unless a batch has left commit_batch by an early `?`.         *)
THEOREM SeriesIdentityKept == Spec => []IdentityUnlessEarly
  <1>1. TypeInv /\ IdInv => IdentityUnlessEarly
    <2>1. ASSUME SoundInv, TypeInv PROVE SeriesIdentity /\ CatalogueSound
      BY <2>1 DEF SoundInv, CommittedSound, KeysSound, Filed, SeriesIdentity, CatalogueSound
    <2>. QED BY <2>1 DEF IdInv, IdentityUnlessEarly
  <1>. QED BY <1>1, SoundInvariant, TypeInvariant, PTL

-----------------------------------------------------------------------------
(* What becomes of an accepted sample.                                     *)

(* The samples that wait in the queue, and the number of those accepted    *)
(* and no longer in flight.                                                *)
Waiting == Sifted(queue, Shutdown)
Base == Len(sent) - Len(Waiting) - Len(batch)

(* The samples in flight are the last ones accepted, in order: first the   *)
(* batch b, then those that wait, w; n have been accepted.                 *)
Flying(w, b, n) ==
    /\ w \in Seq(Nat) /\ b \in Seq(Nat) /\ n \in Nat
    /\ Len(w) + Len(b) <= n
    /\ \A j \in 1 .. Len(w) : w[j] = n - Len(w) + j
    /\ \A j \in 1 .. Len(b) : b[j] = n - Len(w) - Len(b) + j

FlightInv == Flying(Waiting, batch, Len(sent))

(* The four places of a sample that is not in flight.                      *)
Parted(a, b, c, d, n) ==
    /\ a \cup b \cup c \cup d = 1 .. n
    /\ a \cap b = {} /\ a \cap c = {} /\ a \cap d = {}
    /\ b \cap c = {} /\ b \cap d = {} /\ c \cap d = {}

Numbers(raw) == {p[2] : p \in raw}
OncePerSample(raw) == IsFiniteSet(raw) /\ \A p, q \in raw : p[2] = q[2] => p = q

PlacesInv == /\ Parted(Committed, dropped, crashLost, stopLost, Base)
             /\ OncePerSample(db.raw)

(* The open transaction holds the committed points and those of the batch  *)
(* that have been applied, once each.                                      *)
TxnInv ==
    /\ pc = "apply" => /\ pos - 1 <= Len(batch)
                       /\ OncePerSample(txn.raw)
                       /\ Numbers(txn.raw) = Committed \cup {batch[j] : j \in 1 .. pos - 1}
    /\ pc = "commit" => /\ OncePerSample(txn.raw)
                        /\ Numbers(txn.raw) = Committed \cup ToSet(batch)

PhaseInv ==
    /\ batch # <<>> <=> pc \in {"fill", "begin", "apply", "commit"}
    /\ pc = "done" => queue = <<>>
    /\ pc # "done" => stopLost = {}

(* At most one sentinel in the queue q: the samples in front of it were    *)
(* accepted before it was sent (m of them), those behind it after.  Once   *)
(* it is taken only the latter are left.  n samples have been accepted.    *)
HasSentinel(q) == \E k \in 1 .. Len(q) : q[k] = Shutdown

Marked(q, m, taken, n) ==
    /\ \A k, j \in 1 .. Len(q) :
          q[k] = Shutdown => /\ j < k => q[j] # Shutdown /\ q[j] <= m
                             /\ j > k => q[j] > m
    /\ taken => \A j \in 1 .. Len(q) : q[j] > m
    /\ taken \/ HasSentinel(q) => m <= n

SentinelInv ==
    /\ Marked(queue, mark, stop, Len(sent))
    /\ hasSender \/ (\E c \in Callers : caller[c] = "sending")
          => ~stop /\ ~HasSentinel(queue)
    /\ hasSender => \A c \in Callers : caller[c] # "sending"
    /\ \A n \in stopLost : n > mark

DeliveryInv == FlightInv /\ PlacesInv /\ TxnInv /\ PhaseInv /\ SentinelInv
-----------------------------------------------------------------------------
(* Lemmas about sequences in flight.                                       *)

LEMMA FlyingAccept ==
    ASSUME NEW w, NEW b, NEW n, Flying(w, b, n)
    PROVE  Flying(Append(w, n + 1), b, n + 1)
  <1>1. PICK v : v = Append(w, n + 1)
    OBVIOUS
  <1>2. /\ v \in Seq(Nat) /\ Len(v) = Len(w) + 1 /\ Len(w) \in Nat /\ Len(b) \in Nat
        /\ v[Len(w) + 1] = n + 1 /\ \A j \in 1 .. Len(w) : v[j] = w[j]
    BY <1>1 DEF Flying
  <1>3. /\ n \in Nat /\ Len(w) + Len(b) <= n /\ b \in Seq(Nat)
        /\ \A j \in 1 .. Len(w) : w[j] = n - Len(w) + j
        /\ \A j \in 1 .. Len(b) : b[j] = n - Len(w) - Len(b) + j
    BY DEF Flying
  <1>4. ASSUME NEW j \in 1 .. Len(v)
        PROVE  v[j] = (n + 1) - Len(v) + j
    <2>1. CASE j \in 1 .. Len(w)
      <3>1. v[j] = w[j] /\ w[j] = n - Len(w) + j
        BY <1>2, <1>3, <2>1
      <3>. QED BY <1>2, <1>3, <3>1
    <2>2. CASE j = Len(w) + 1
      BY <1>2, <1>3, <2>2
    <2>. QED BY <1>2, <2>1, <2>2
  <1>5. ASSUME NEW j \in 1 .. Len(b)
        PROVE  b[j] = (n + 1) - Len(v) - Len(b) + j
    <2>1. b[j] = n - Len(w) - Len(b) + j
      BY <1>3
    <2>. QED BY <1>2, <1>3, <2>1
  <1>6. Flying(v, b, n + 1)
    BY <1>2, <1>3, <1>4, <1>5 DEF Flying
  <1>. QED BY <1>1, <1>6

LEMMA FlyingTake ==
    ASSUME NEW w \in Seq(Nat), NEW b, NEW n, NEW h \in Nat, Flying(<<h>> \o w, b, n)
    PROVE  Flying(w, Append(b, h), n)
  <1>1. PICK v, c : v = <<h>> \o w /\ c = Append(b, h)
    OBVIOUS
  <1>2. /\ v \in Seq(Nat) /\ Len(v) = Len(w) + 1 /\ Len(w) \in Nat /\ v[1] = h
        /\ \A j \in 1 .. Len(w) : v[j + 1] = w[j]
    BY <1>1
  <1>3. /\ c \in Seq(Nat) /\ Len(c) = Len(b) + 1 /\ Len(b) \in Nat
        /\ c[Len(b) + 1] = h /\ \A j \in 1 .. Len(b) : c[j] = b[j]
    BY <1>1 DEF Flying
  <1>4. /\ n \in Nat /\ Len(v) + Len(b) <= n
        /\ \A j \in 1 .. Len(v) : v[j] = n - Len(v) + j
        /\ \A j \in 1 .. Len(b) : b[j] = n - Len(v) - Len(b) + j
    BY <1>1 DEF Flying
  <1>5. \A j \in 1 .. Len(w) : w[j] = n - Len(w) + j
    <2> TAKE j \in 1 .. Len(w)
    <2>1. j + 1 \in 1 .. Len(v)
      BY <1>2
    <2>. QED BY <1>2, <1>4, <2>1
  <1>6. h = n - Len(w)
    <2>1. 1 \in 1 .. Len(v)
      BY <1>2
    <2>2. v[1] = n - Len(v) + 1
      BY <1>4, <2>1
    <2>. QED BY <1>2, <1>4, <2>2
  <1>7. \A j \in 1 .. Len(c) : c[j] = n - Len(w) - Len(c) + j
    <2> TAKE j \in 1 .. Len(c)
    <2>1. CASE j \in 1 .. Len(b)
      <3>1. c[j] = b[j] /\ b[j] = n - Len(v) - Len(b) + j
        BY <1>3, <1>4, <2>1
      <3>. QED BY <1>2, <1>3, <1>4, <3>1
    <2>2. CASE j = Len(b) + 1
      BY <1>2, <1>3, <1>4, <1>6, <2>2
    <2>. QED BY <1>3, <2>1, <2>2
  <1>8. Flying(w, c, n)
    BY <1>2, <1>3, <1>4, <1>5, <1>7 DEF Flying
  <1>. QED BY <1>1, <1>8

LEMMA FlyingSettle ==
    ASSUME NEW w, NEW b, NEW n, Flying(w, b, n)
    PROVE  Flying(w, <<>>, n) /\ Flying(<<>>, <<>>, n)
  BY DEF Flying

LEMMA FlyingSets ==
    ASSUME NEW w, NEW b, NEW n, Flying(w, b, n)
    PROVE  /\ ToSet(w) = n - Len(w) + 1 .. n
           /\ ToSet(b) = n - Len(w) - Len(b) + 1 .. n - Len(w)
  <1>1. ASSUME NEW s \in Seq(Nat), NEW k \in Nat, \A j \in 1 .. Len(s) : s[j] = k + j
        PROVE  ToSet(s) = k + 1 .. k + Len(s)
    <2>1. ASSUME NEW m \in k + 1 .. k + Len(s)
          PROVE  m \in ToSet(s)
      <3>1. m - k \in 1 .. Len(s) /\ k + (m - k) = m
        BY <2>1
      <3>2. s[m - k] = m
        BY <1>1, <3>1
      <3>. QED BY <3>1, <3>2, Zenon DEF ToSet
    <2>2. ToSet(s) \subseteq k + 1 .. k + Len(s)
      BY <1>1 DEF ToSet
    <2>. QED BY <2>1, <2>2
  <1>2. /\ w \in Seq(Nat) /\ b \in Seq(Nat)
        /\ n - Len(w) \in Nat /\ n - Len(w) - Len(b) \in Nat
        /\ (n - Len(w)) + Len(w) = n /\ (n - Len(w) - Len(b)) + Len(b) = n - Len(w)
    BY DEF Flying
  <1>3. ToSet(w) = (n - Len(w)) + 1 .. (n - Len(w)) + Len(w)
    BY <1>1, <1>2 DEF Flying
  <1>4. ToSet(b) = (n - Len(w) - Len(b)) + 1 .. (n - Len(w) - Len(b)) + Len(b)
    BY <1>1, <1>2 DEF Flying
  <1>. QED BY <1>2, <1>3, <1>4

LEMMA WaitingSamples ==
    ASSUME TypeInv
    PROVE  /\ Waiting \in Seq(1 .. Len(sent)) /\ Waiting \in Seq(Nat)
           /\ ToSet(Waiting) = Queued
  <1>1. queue \in Seq(0 .. Len(sent)) /\ Len(sent) \in Nat
    BY DEF TypeInv, QueueOK
  <1>2. Waiting \in Seq((0 .. Len(sent)) \ {Shutdown})
    BY <1>1, SiftedSeq DEF Waiting
  <1>3. (0 .. Len(sent)) \ {Shutdown} = 1 .. Len(sent)
    BY <1>1 DEF Shutdown
  <1>4. ToSet(Waiting) = ToSet(queue) \ {Shutdown}
    <2>1. Elements(Sifted(queue, Shutdown)) = Elements(queue) \ {Shutdown}
      BY <1>1, SiftedElements
    <2>. QED BY <2>1, Zenon DEF Waiting, ToSet, Elements
  <1>. QED BY <1>1, <1>2, <1>3, <1>4 DEF Queued, IsSample

(* What waits after each way the queue changes.                            *)
LEMMA WaitingSteps ==
    ASSUME TypeInv
    PROVE  /\ queue' = queue => Waiting' = Waiting
           /\ queue' = <<>> => Waiting' = <<>>
           /\ queue' = Append(queue, Shutdown) => Waiting' = Waiting
           /\ \A n \in Nat \ {0} : queue' = Append(queue, n) => Waiting' = Append(Waiting, n)
           /\ queue # <<>> /\ queue' = Tail(queue) =>
                 /\ Waiting' \in Seq(Nat)
                 /\ Head(queue) = Shutdown => Waiting' = Waiting
                 /\ Head(queue) # Shutdown => Waiting = <<Head(queue)>> \o Waiting'
  <1>1. queue \in Seq(Nat)
    BY DEF TypeInv, QueueOK
  <1>2. queue' = queue => Waiting' = Waiting
    BY DEF Waiting
  <1>3. queue' = <<>> => Waiting' = <<>>
    BY SiftedEmpty, Zenon DEF Waiting
  <1>4. queue' = Append(queue, Shutdown) => Waiting' = Waiting
    BY <1>1, SiftedAppend DEF Waiting, Shutdown
  <1>5. ASSUME NEW n \in Nat \ {0}, queue' = Append(queue, n)
        PROVE  Waiting' = Append(Waiting, n)
    BY <1>1, <1>5, SiftedAppend DEF Waiting, Shutdown
  <1>6. ASSUME queue # <<>>, queue' = Tail(queue)
        PROVE  /\ Waiting' \in Seq(Nat)
               /\ Head(queue) = Shutdown => Waiting' = Waiting
               /\ Head(queue) # Shutdown => Waiting = <<Head(queue)>> \o Waiting'
    <2>1. Tail(queue) \in Seq(Nat)
      BY <1>1, <1>6
    <2>2. Sifted(Tail(queue), Shutdown) \in Seq(Nat \ {Shutdown})
      BY <2>1, SiftedSeq
    <2>3. Sifted(Tail(queue), Shutdown) \in Seq(Nat)
      BY <2>2, SeqMonotonic
    <2>4. Sifted(queue, Shutdown)
             = IF Head(queue) = Shutdown THEN Sifted(Tail(queue), Shutdown)
               ELSE <<Head(queue)>> \o Sifted(Tail(queue), Shutdown)
      BY <1>1, <1>6, SiftedHead
    <2>. QED BY <1>6, <2>3, <2>4, Zenon DEF Waiting
  <1>. QED BY <1>2, <1>3, <1>4, <1>5, <1>6

(* How the sentinel stays in its place.                                    *)
LEMMA AppendedTo ==
    ASSUME NEW q \in Seq(Nat), NEW e \in Nat
    PROVE  \E r : /\ r = Append(q, e) /\ r \in Seq(Nat)
                  /\ Len(r) = Len(q) + 1 /\ r[Len(q) + 1] = e
                  /\ \A j \in 1 .. Len(q) : r[j] = q[j]
                  /\ \A j \in 1 .. Len(r) : j \in 1 .. Len(q) \/ j = Len(q) + 1
  <1>1. PICK r : r = Append(q, e)
    OBVIOUS
  <1>2. /\ r \in Seq(Nat) /\ Len(r) = Len(q) + 1 /\ r[Len(q) + 1] = e
        /\ \A j \in 1 .. Len(q) : r[j] = q[j]
    BY <1>1
  <1>3. \A j \in 1 .. Len(r) : j \in 1 .. Len(q) \/ j = Len(q) + 1
    BY <1>2
  <1>. QED BY <1>1, <1>2, <1>3

LEMMA MarkedAccept ==
    ASSUME NEW q \in Seq(Nat), NEW m \in Nat, NEW t, NEW n \in Nat, Marked(q, m, t, n)
    PROVE  /\ Marked(Append(q, n + 1), m, t, n + 1)
           /\ HasSentinel(Append(q, n + 1)) => HasSentinel(q)
  <1>1. PICK r : /\ r = Append(q, n + 1) /\ r \in Seq(Nat)
                 /\ Len(r) = Len(q) + 1 /\ r[Len(q) + 1] = n + 1
                 /\ \A j \in 1 .. Len(q) : r[j] = q[j]
                 /\ \A j \in 1 .. Len(r) : j \in 1 .. Len(q) \/ j = Len(q) + 1
    <2>1. n + 1 \in Nat
      OBVIOUS
    <2>. QED BY <2>1, AppendedTo, Zenon
  <1>2. Len(q) \in Nat /\ n + 1 # Shutdown
    BY DEF Shutdown
  <1>3. HasSentinel(r) => HasSentinel(q)
    BY <1>1, <1>2 DEF HasSentinel
  <1>4. t \/ HasSentinel(r) => m <= n
    BY <1>3 DEF Marked
  <1>5. ASSUME NEW k \in 1 .. Len(r), NEW j \in 1 .. Len(r), r[k] = Shutdown
        PROVE  /\ j < k => r[j] # Shutdown /\ r[j] <= m
               /\ j > k => r[j] > m
    <2>1. k \in 1 .. Len(q) /\ q[k] = Shutdown
      BY <1>1, <1>2, <1>5
    <2>2. m <= n
      BY <1>4, <1>5 DEF HasSentinel
    <2>3. CASE j \in 1 .. Len(q)
      BY <1>1, <2>1, <2>3 DEF Marked
    <2>4. CASE j = Len(q) + 1
      BY <1>1, <1>2, <2>1, <2>2, <2>4
    <2>. QED BY <1>1, <2>3, <2>4
  <1>6. ASSUME t, NEW j \in 1 .. Len(r)
        PROVE  r[j] > m
    <2>1. m <= n
      BY <1>4, <1>6
    <2>2. CASE j \in 1 .. Len(q)
      BY <1>1, <1>6, <2>2 DEF Marked
    <2>3. CASE j = Len(q) + 1
      BY <1>1, <2>1, <2>3
    <2>. QED BY <1>1, <2>2, <2>3
  <1>7. Marked(r, m, t, n + 1)
    BY <1>4, <1>5, <1>6 DEF Marked
  <1>. QED BY <1>1, <1>3, <1>7

LEMMA MarkedSend ==
    ASSUME NEW q \in Seq(Nat), NEW n \in Nat, ~HasSentinel(q),
           \A j \in 1 .. Len(q) : q[j] <= n
    PROVE  Marked(Append(q, Shutdown), n, FALSE, n)
  <1>1. PICK r : /\ r = Append(q, Shutdown) /\ r \in Seq(Nat)
                 /\ Len(r) = Len(q) + 1 /\ r[Len(q) + 1] = Shutdown
                 /\ \A j \in 1 .. Len(q) : r[j] = q[j]
                 /\ \A j \in 1 .. Len(r) : j \in 1 .. Len(q) \/ j = Len(q) + 1
    BY AppendedTo DEF Shutdown
  <1>2. ASSUME NEW k \in 1 .. Len(r), NEW j \in 1 .. Len(r), r[k] = Shutdown
        PROVE  /\ j < k => r[j] # Shutdown /\ r[j] <= n
               /\ j > k => r[j] > n
    <2>1. k = Len(q) + 1
      BY <1>1, <1>2 DEF HasSentinel
    <2>2. CASE j \in 1 .. Len(q)
      BY <1>1, <2>1, <2>2 DEF HasSentinel
    <2>3. CASE j = Len(q) + 1
      BY <2>1, <2>3
    <2>. QED BY <1>1, <2>2, <2>3
  <1>. QED BY <1>1, <1>2 DEF Marked

LEMMA MarkedTail ==
    ASSUME NEW q \in Seq(Nat), q # <<>>, NEW m \in Nat, NEW t, NEW n \in Nat, Marked(q, m, t, n)
    PROVE  /\ Head(q) # Shutdown => /\ Marked(Tail(q), m, t, n)
                                    /\ HasSentinel(Tail(q)) => HasSentinel(q)
           /\ Head(q) = Shutdown => /\ Marked(Tail(q), m, TRUE, n) /\ ~HasSentinel(Tail(q))
                                    /\ \A k \in ToSet(q) \ {Shutdown} : k > m
  <1>1. PICK r : r = Tail(q)
    OBVIOUS
  <1>2. /\ r \in Seq(Nat) /\ Len(q) = Len(r) + 1 /\ Len(r) \in Nat /\ Head(q) = q[1]
        /\ \A j \in 1 .. Len(r) : r[j] = q[j + 1] /\ j + 1 \in 1 .. Len(q)
        /\ 1 \in 1 .. Len(q)
    BY <1>1
  <1>3. HasSentinel(r) => HasSentinel(q)
    BY <1>2 DEF HasSentinel
  <1>4. \A k, j \in 1 .. Len(r) :
          r[k] = Shutdown => /\ j < k => r[j] # Shutdown /\ r[j] <= m
                             /\ j > k => r[j] > m
    <2> SUFFICES ASSUME NEW k \in 1 .. Len(r), NEW j \in 1 .. Len(r), r[k] = Shutdown
                 PROVE  /\ j < k => r[j] # Shutdown /\ r[j] <= m
                        /\ j > k => r[j] > m
      OBVIOUS
    <2>1. /\ k + 1 \in 1 .. Len(q) /\ j + 1 \in 1 .. Len(q)
          /\ q[k + 1] = r[k] /\ q[j + 1] = r[j]
      BY <1>2
    <2>2. /\ j < k => j + 1 < k + 1
          /\ j > k => j + 1 > k + 1
      OBVIOUS
    <2>. QED BY <2>1, <2>2 DEF Marked
  <1>5. t => \A j \in 1 .. Len(r) : r[j] > m
    BY <1>2 DEF Marked
  <1>6. t \/ HasSentinel(r) => m <= n
    BY <1>3 DEF Marked
  <1>7. Marked(r, m, t, n)
    BY <1>4, <1>5, <1>6 DEF Marked
  <1>8. ASSUME Head(q) = Shutdown
        PROVE  /\ Marked(r, m, TRUE, n) /\ ~HasSentinel(r)
               /\ \A k \in ToSet(q) \ {Shutdown} : k > m
    <2>1. HasSentinel(q) /\ m <= n
      BY <1>2, <1>8 DEF HasSentinel, Marked
    <2>2. \A j \in 1 .. Len(q) : j > 1 => q[j] > m
      BY <1>2, <1>8 DEF Marked
    <2>3. \A j \in 1 .. Len(r) : r[j] > m
      <3> TAKE j \in 1 .. Len(r)
      <3>1. j + 1 \in 1 .. Len(q) /\ j + 1 > 1 /\ r[j] = q[j + 1]
        BY <1>2
      <3>. QED BY <2>2, <3>1
    <2>4. ~HasSentinel(r)
      BY <2>3 DEF HasSentinel, Shutdown
    <2>5. ASSUME NEW k \in ToSet(q), k # Shutdown
          PROVE  k > m
      <3>1. PICK j \in 1 .. Len(q) : k = q[j]
        BY DEF ToSet
      <3>. QED BY <1>2, <1>8, <2>2, <2>5, <3>1
    <2>. QED BY <1>4, <2>1, <2>3, <2>4, <2>5 DEF Marked
  <1>. QED BY <1>1, <1>3, <1>7, <1>8

LEMMA MarkedEmpty ==
    ASSUME NEW m, NEW n
    PROVE  Marked(<<>>, m, FALSE, n) /\ ~HasSentinel(<<>>)
  BY DEF Marked, HasSentinel
-----------------------------------------------------------------------------
(* Samples n + 1 .. m leave the flight for one of the places.              *)
LEMMA PartedSettle ==
    ASSUME NEW a, NEW b, NEW c, NEW d, NEW n \in Nat, NEW m \in Nat, n <= m,
           NEW x, x = n + 1 .. m, Parted(a, b, c, d, n)
    PROVE  /\ Parted(a \cup x, b, c, d, m) /\ Parted(a, b \cup x, c, d, m)
           /\ Parted(a, b, c \cup x, d, m) /\ Parted(a, b, c, d \cup x, m)
           /\ Parted(a, b, c \cup (d \cup x), {}, m)
  <1>1. 1 .. m = (1 .. n) \cup x /\ (1 .. n) \cap x = {}
    OBVIOUS
  <1>2. /\ a \subseteq 1 .. n /\ b \subseteq 1 .. n /\ c \subseteq 1 .. n /\ d \subseteq 1 .. n
        /\ a \cup b \cup c \cup d = 1 .. n
        /\ a \cap b = {} /\ a \cap c = {} /\ a \cap d = {}
        /\ b \cap c = {} /\ b \cap d = {} /\ c \cap d = {}
    BY DEF Parted
  <1>3. a \cap x = {} /\ b \cap x = {} /\ c \cap x = {} /\ d \cap x = {}
    BY <1>1, <1>2
  <1>. QED BY <1>1, <1>2, <1>3 DEF Parted

(* Where the samples in flight are, in numbers.                            *)
LEMMA InTheAir ==
    ASSUME TypeInv, FlightInv
    PROVE  /\ Waiting \in Seq(Nat) /\ batch \in Seq(Nat) /\ Len(sent) \in Nat /\ Base \in Nat
           /\ Len(Waiting) \in Nat /\ Len(batch) \in Nat
           /\ ToSet(batch) = Base + 1 .. Base + Len(batch)
           /\ Queued = Base + Len(batch) + 1 .. Len(sent)
           /\ Len(sent) = Base + Len(batch) + Len(Waiting)
  <1>1. /\ Waiting \in Seq(Nat) /\ batch \in Seq(Nat) /\ Len(sent) \in Nat
        /\ Len(Waiting) + Len(batch) <= Len(sent)
    BY DEF FlightInv, Flying
  <1>2. /\ ToSet(Waiting) = Len(sent) - Len(Waiting) + 1 .. Len(sent)
        /\ ToSet(batch) = Len(sent) - Len(Waiting) - Len(batch) + 1 .. Len(sent) - Len(Waiting)
    BY FlyingSets DEF FlightInv
  <1>3. ToSet(Waiting) = Queued
    BY WaitingSamples
  <1>4. Len(Waiting) \in Nat /\ Len(batch) \in Nat
    BY <1>1
  <1>. QED BY <1>1, <1>2, <1>3, <1>4 DEF Base

Flight == FlightInv /\ PlacesInv

(* The steps that move nothing.                                            *)
LEMMA FlightRests ==
    ASSUME Flight, TypeInv, UNCHANGED <<batch, sent, db, dropped, crashLost, stopLost>>,
           Waiting' = Waiting
    PROVE  Flight'
  <1>1. Base' = Base /\ Committed' = Committed
    BY DEF Base, Committed
  <1>. QED BY <1>1 DEF Flight, FlightInv, PlacesInv

(* A sample goes from the queue to the batch.                              *)
LEMMA FlightTakes ==
    ASSUME Flight, TypeInv, UNCHANGED <<sent, db, dropped, crashLost, stopLost>>,
           queue # <<>>, queue' = Tail(queue), Head(queue) # Shutdown,
           batch' = Append(batch, Head(queue))
    PROVE  Flight'
  <1>1. /\ Waiting' \in Seq(Nat) /\ Waiting = <<Head(queue)>> \o Waiting'
        /\ Head(queue) \in Nat
    <2>1. Head(queue) \in Nat
      BY DEF TypeInv, QueueOK
    <2>. QED BY <2>1, WaitingSteps
  <1>2. Flying(Waiting', batch', Len(sent))
    BY <1>1, FlyingTake DEF Flight, FlightInv
  <1>3. Base' = Base
    <2>1. Len(Waiting) = Len(Waiting') + 1 /\ Len(Waiting') \in Nat
      BY <1>1
    <2>2. batch \in Seq(Nat) /\ Len(sent) \in Nat
      BY DEF Flight, FlightInv, Flying
    <2>3. Len(batch') = Len(batch) + 1 /\ Len(batch) \in Nat
      BY <1>1, <2>2
    <2>. QED BY <2>1, <2>2, <2>3 DEF Base
  <1>4. Committed' = Committed
    BY DEF Committed
  <1>. QED BY <1>2, <1>3, <1>4 DEF Flight, FlightInv, PlacesInv

(* The batch is committed, or it is dropped.                               *)
LEMMA FlightSettles ==
    ASSUME Flight, TypeInv, UNCHANGED <<sent, crashLost, stopLost>>, Waiting' = Waiting,
           batch' = <<>>, OncePerSample(db.raw)',
           \/ Committed' = Committed \cup ToSet(batch) /\ dropped' = dropped
           \/ Committed' = Committed /\ dropped' = dropped \cup ToSet(batch)
    PROVE  Flight'
  <1>1. /\ Base \in Nat /\ Len(batch) \in Nat /\ Len(Waiting) \in Nat
        /\ ToSet(batch) = Base + 1 .. Base + Len(batch)
        /\ Len(sent) = Base + Len(batch) + Len(Waiting)
    BY InTheAir DEF Flight
  <1>2. Base' = Base + Len(batch)
    <2>1. Len(batch') = 0 /\ Len(sent') = Len(sent) /\ Len(Waiting') = Len(Waiting)
      BY EmptySeq
    <2>. QED BY <1>1, <2>1 DEF Base
  <1>3. Flying(Waiting', batch', Len(sent'))
    BY FlyingSettle DEF Flight, FlightInv
  <1>4. Parted(Committed', dropped', crashLost', stopLost', Base')
    <2>1. /\ Base + Len(batch) \in Nat /\ Base <= Base + Len(batch)
          /\ Parted(Committed, dropped, crashLost, stopLost, Base)
      BY <1>1 DEF Flight, PlacesInv
    <2>2. /\ Parted(Committed \cup ToSet(batch), dropped, crashLost, stopLost, Base + Len(batch))
          /\ Parted(Committed, dropped \cup ToSet(batch), crashLost, stopLost, Base + Len(batch))
      BY <1>1, <2>1, PartedSettle
    <2>. QED BY <1>2, <2>2
  <1>. QED BY <1>3, <1>4 DEF Flight, FlightInv, PlacesInv

(* Everything in flight is lost, by a crash or because the thread ends.    *)
FlightLost ==
    \/ /\ crashLost' = crashLost \cup stopLost \cup ToSet(batch) \cup Queued
       /\ stopLost' = {}
    \/ batch = <<>> /\ crashLost' = crashLost \cup Queued /\ stopLost' = stopLost
    \/ batch = <<>> /\ stopLost' = stopLost \cup Queued /\ crashLost' = crashLost

LEMMA FlightEnds ==
    ASSUME Flight, TypeInv, UNCHANGED <<sent, db, dropped>>, queue' = <<>>, batch' = <<>>,
           FlightLost
    PROVE  Flight'
  <1>1. /\ Base \in Nat /\ Len(batch) \in Nat /\ Len(Waiting) \in Nat /\ Len(sent) \in Nat
        /\ ToSet(batch) = Base + 1 .. Base + Len(batch)
        /\ Queued = Base + Len(batch) + 1 .. Len(sent)
        /\ Len(sent) = Base + Len(batch) + Len(Waiting)
    BY InTheAir DEF Flight
  <1>2. Waiting' = <<>> /\ Base' = Len(sent)
    <2>1. Waiting' = <<>>
      BY WaitingSteps
    <2>2. Len(batch') = 0 /\ Len(sent') = Len(sent) /\ Len(Waiting') = 0
      BY <2>1, EmptySeq
    <2>. QED BY <1>1, <2>1, <2>2 DEF Base
  <1>3. Flying(Waiting', batch', Len(sent'))
    BY <1>2, FlyingSettle DEF Flight, FlightInv
  <1>4. ToSet(batch) \cup Queued = Base + 1 .. Len(sent)
    BY <1>1
  <1>5. batch = <<>> => Queued = Base + 1 .. Len(sent)
    BY <1>1
  <1>6. Parted(Committed, dropped, crashLost', stopLost', Len(sent))
    <2>1. Base <= Len(sent) /\ Parted(Committed, dropped, crashLost, stopLost, Base)
      BY <1>1 DEF Flight, PlacesInv
    <2>2. PICK x : x = ToSet(batch) \cup Queued
      OBVIOUS
    <2>3. x = Base + 1 .. Len(sent) /\ Base \in Nat /\ Len(sent) \in Nat
      BY <1>1, <1>4, <2>2
    <2>5. /\ Parted(Committed, dropped, crashLost \cup x, stopLost, Len(sent))
          /\ Parted(Committed, dropped, crashLost, stopLost \cup x, Len(sent))
          /\ Parted(Committed, dropped, crashLost \cup (stopLost \cup x), {}, Len(sent))
      BY <2>1, <2>3, PartedSettle
    <2>4. \/ crashLost' = crashLost \cup (stopLost \cup x) /\ stopLost' = {}
          \/ crashLost' = crashLost \cup x /\ stopLost' = stopLost
          \/ stopLost' = stopLost \cup x /\ crashLost' = crashLost
      BY <1>4, <1>5, <2>2, <2>3 DEF FlightLost
    <2>. QED BY <2>4, <2>5
  <1>7. Committed' = Committed
    BY DEF Committed
  <1>. QED BY <1>2, <1>3, <1>6, <1>7 DEF Flight, FlightInv, PlacesInv

LEMMA FlightAccepts ==
    ASSUME Flight, TypeInv, NEW i \in Identity, Accept(i)
    PROVE  Flight'
  <1>1. /\ sent' = Append(sent, i) /\ queue' = Append(queue, Len(sent) + 1) /\ batch' = batch
        /\ UNCHANGED <<db, dropped, crashLost, stopLost>>
    BY DEF Accept, threadVars
  <1>2. /\ Base \in Nat /\ Len(batch) \in Nat /\ Len(Waiting) \in Nat /\ Len(sent) \in Nat
        /\ Waiting \in Seq(Nat) /\ sent \in Seq(Identity)
    BY InTheAir DEF Flight, TypeInv, QueueOK
  <1>3. Len(sent) + 1 \in Nat \ {0} /\ Len(sent') = Len(sent) + 1
    BY <1>1, <1>2
  <1>4. Waiting' = Append(Waiting, Len(sent) + 1)
    BY <1>1, <1>3, WaitingSteps
  <1>5. Flying(Waiting', batch', Len(sent'))
    <2>1. Flying(Append(Waiting, Len(sent) + 1), batch, Len(sent) + 1)
      BY FlyingAccept DEF Flight, FlightInv
    <2>. QED BY <1>1, <1>3, <1>4, <2>1, Zenon
  <1>6. Base' = Base
    <2>1. Len(Waiting') = Len(Waiting) + 1
      BY <1>2, <1>4
    <2>. QED BY <1>1, <1>2, <1>3, <2>1 DEF Base
  <1>7. Committed' = Committed
    BY <1>1 DEF Committed
  <1>. QED BY <1>1, <1>5, <1>6, <1>7 DEF Flight, FlightInv, PlacesInv

LEMMA FlightNext ==
    ASSUME TypeInv, DeliveryInv, [Next]_vars
    PROVE  Flight'
  <1>0. Flight /\ PhaseInv /\ TxnInv
    BY DEF DeliveryInv, Flight
  <1>t. txn \in Tables /\ db \in Tables
    BY DEF TypeInv, TablesOK
  <1>1. ASSUME NEW i \in Identity, Accept(i) PROVE Flight'
    BY <1>0, <1>1, FlightAccepts
  <1>2. CASE LoadNextId
    <2>1. UNCHANGED <<batch, sent, db, dropped, stopLost>> /\ pc = "load"
      BY <1>2 DEF LoadNextId
    <2>2. CASE UNCHANGED <<queue, crashLost>>
      <3>1. Waiting' = Waiting
        BY <2>2, WaitingSteps
      <3>. QED BY <1>0, <2>1, <2>2, <3>1, FlightRests
    <2>3. CASE queue' = <<>> /\ crashLost' = crashLost \cup Queued
      <3>1. batch = <<>>
        BY <1>0, <2>1, Zenon DEF PhaseInv
      <3>2. batch' = <<>>
        BY <2>1, <3>1
      <3>3. FlightLost
        BY <2>1, <2>3, <3>1, Zenon DEF FlightLost
      <3>. QED BY <1>0, <2>1, <2>3, <3>2, <3>3, FlightEnds
    <2>. QED BY <1>2, <2>2, <2>3 DEF LoadNextId
  <1>3. CASE RecvFirst
    <2>1. /\ UNCHANGED <<sent, db, dropped, crashLost>> /\ pc = "recv"
          /\ queue # <<>>
      BY <1>3 DEF RecvFirst
    <2>2. batch = <<>>
      BY <1>0, <2>1, Zenon DEF PhaseInv
    <2>3. CASE IsSample(Head(queue))
      <3>1. /\ batch' = <<Head(queue)>> /\ queue' = Tail(queue) /\ stopLost' = stopLost
            /\ Head(queue) # Shutdown
        BY <1>3, <2>3 DEF RecvFirst, IsSample
      <3>2. <<Head(queue)>> = Append(<<>>, Head(queue))
        BY DEF TypeInv, QueueOK
      <3>3. batch' = Append(batch, Head(queue))
        BY <2>2, <3>1, <3>2, Zenon
      <3>. QED BY <1>0, <2>1, <3>1, <3>3, FlightTakes
    <2>4. CASE ~IsSample(Head(queue))
      <3>1. batch' = batch /\ queue' = <<>> /\ stopLost' = stopLost \cup Queued
        BY <1>3, <2>4 DEF RecvFirst, ThreadStops
      <3>2. batch' = <<>>
        BY <2>2, <3>1
      <3>3. FlightLost
        BY <2>1, <2>2, <3>1, Zenon DEF FlightLost
      <3>. QED BY <1>0, <2>1, <3>1, <3>2, <3>3, FlightEnds
    <2>. QED BY <2>3, <2>4
  <1>4. CASE RecvMore
    <2>1. /\ UNCHANGED <<sent, db, dropped, crashLost, stopLost>>
          /\ queue # <<>> /\ queue' = Tail(queue)
      BY <1>4 DEF RecvMore, histVars
    <2>2. CASE IsSample(Head(queue))
      <3>1. batch' = Append(batch, Head(queue)) /\ Head(queue) # Shutdown
        BY <1>4, <2>2 DEF RecvMore, IsSample
      <3>. QED BY <1>0, <2>1, <3>1, FlightTakes
    <2>3. CASE ~IsSample(Head(queue))
      <3>1. batch' = batch /\ Head(queue) = Shutdown
        BY <1>4, <2>3 DEF RecvMore, IsSample
      <3>2. Waiting' = Waiting
        BY <2>1, <3>1, WaitingSteps
      <3>. QED BY <1>0, <2>1, <3>1, <3>2, FlightRests
    <2>. QED BY <2>2, <2>3
  <1>5. CASE EndDrain \/ ApplySample \/ EndApply \/ UNCHANGED vars
    <2>1. UNCHANGED <<queue, batch, sent, db, dropped, crashLost, stopLost>>
      BY <1>5 DEF EndDrain, ApplySample, EndApply, vars, threadVars, histVars
    <2>2. Waiting' = Waiting
      BY <2>1, WaitingSteps
    <2>. QED BY <1>0, <2>1, <2>2, FlightRests
  <1>6. CASE BeginWrite /\ pc' = "apply"
    <2>1. UNCHANGED <<queue, batch, sent, db, dropped, crashLost, stopLost>>
      BY <1>6 DEF BeginWrite, FailBatch
    <2>2. Waiting' = Waiting
      BY <2>1, WaitingSteps
    <2>. QED BY <1>0, <2>1, <2>2, FlightRests
  <1>7. CASE (BeginWrite /\ pc' # "apply") \/ EarlyError \/ CommitError
    <2>1. FailBatch /\ UNCHANGED <<queue, sent, db, crashLost, stopLost>>
      BY <1>7 DEF BeginWrite, EarlyError, CommitError
    <2>2. batch' = <<>> /\ dropped' = dropped \cup ToSet(batch)
      BY <2>1 DEF FailBatch
    <2>3. Waiting' = Waiting
      BY <2>1, WaitingSteps
    <2>4. Committed' = Committed /\ OncePerSample(db.raw)'
      BY <1>0, <2>1 DEF Committed, Flight, PlacesInv
    <2>. QED BY <1>0, <2>1, <2>2, <2>3, <2>4, FlightSettles
  <1>8. CASE Commit
    <2>1. /\ UNCHANGED <<queue, sent, dropped, crashLost, stopLost>> /\ batch' = <<>>
          /\ db' = txn /\ pc = "commit"
      BY <1>8 DEF Commit, histVars
    <2>2. Waiting' = Waiting
      BY <2>1, WaitingSteps
    <2>3. OncePerSample(txn.raw) /\ Numbers(txn.raw) = Committed \cup ToSet(batch)
      BY <1>0, <2>1, Zenon DEF TxnInv
    <2>4. OncePerSample(db.raw)' /\ Committed' = Committed \cup ToSet(batch)
      BY <2>1, <2>3 DEF Committed, Numbers
    <2>. QED BY <1>0, <2>1, <2>2, <2>4, FlightSettles
  <1>9. CASE NextTurn
    <2>1. UNCHANGED <<batch, sent, db, dropped, crashLost>> /\ pc = "settled"
      BY <1>9 DEF NextTurn
    <2>2. batch = <<>>
      BY <1>0, <2>1, Zenon DEF PhaseInv
    <2>3. CASE stop
      <3>1. queue' = <<>> /\ stopLost' = stopLost \cup Queued
        BY <1>9, <2>3 DEF NextTurn, ThreadStops
      <3>2. batch' = <<>>
        BY <2>1, <2>2
      <3>3. FlightLost
        BY <2>1, <2>2, <3>1, Zenon DEF FlightLost
      <3>. QED BY <1>0, <2>1, <3>1, <3>2, <3>3, FlightEnds
    <2>4. CASE ~stop
      <3>1. UNCHANGED <<queue, stopLost>>
        BY <1>9, <2>4 DEF NextTurn
      <3>2. Waiting' = Waiting
        BY <3>1, WaitingSteps
      <3>. QED BY <1>0, <2>1, <3>1, <3>2, FlightRests
    <2>. QED BY <2>3, <2>4
  <1>10. ASSUME NEW c \in Callers, CallerStep(c) PROVE Flight'
    <2>1. UNCHANGED <<batch, sent, db, dropped, crashLost, stopLost>>
      BY <1>10 DEF CallerStep, TakeSender, TrySendShutdown, TakeHandle, Joined, histVars, threadVars
    <2>2. queue' = queue \/ queue' = Append(queue, Shutdown)
      BY <1>10 DEF CallerStep, TakeSender, TrySendShutdown, TakeHandle, Joined
    <2>3. Waiting' = Waiting
      BY <2>2, WaitingSteps
    <2>. QED BY <1>0, <2>1, <2>3, FlightRests
  <1>11. CASE Crash
    <2>1. /\ UNCHANGED <<sent, db, dropped>> /\ queue' = <<>> /\ batch' = <<>>
          /\ FlightLost
      BY <1>11 DEF Crash, FlightLost
    <2>. QED BY <1>0, <2>1, FlightEnds
  <1>. QED BY <1>1, <1>2, <1>3, <1>4, <1>5, <1>6, <1>7, <1>8, <1>9, <1>10, <1>11
           DEF Next, WriterStep

LEMMA PhaseNext ==
    ASSUME TypeInv, DeliveryInv, [Next]_vars
    PROVE  PhaseInv'
  <1>0. PhaseInv
    BY DEF DeliveryInv
  <1>t. /\ queue # <<>> => <<Head(queue)>> # <<>> /\ Append(batch, Head(queue)) # <<>>
        /\ pc \in PcStates
    <2>1. queue \in Seq(Nat) /\ batch \in Seq(Nat) /\ pc \in PcStates
      BY DEF TypeInv, QueueOK, ThreadOK
    <2>2. queue # <<>> => Head(queue) \in Nat
      BY <2>1
    <2>3. \A h \in Nat : Len(<<h>>) = 1 /\ Len(Append(batch, h)) = Len(batch) + 1
      BY <2>1
    <2>4. Len(<<>>) = 0 /\ Len(batch) \in Nat
      BY <2>1, EmptySeq
    <2>5. \A h \in Nat : Len(<<h>>) # Len(<<>>) /\ Len(Append(batch, h)) # Len(<<>>)
      BY <2>3, <2>4
    <2>. QED BY <2>1, <2>2, <2>5, Zenon
  <1> DEFINE busy(p) == p \in {"fill", "begin", "apply", "commit"}
  <1>1. ASSUME batch' # <<>> <=> busy(pc'), pc' = "done" => queue' = <<>>,
               pc' # "done" => stopLost' = {}
        PROVE  PhaseInv'
    BY <1>1, Zenon DEF PhaseInv
  <1>2. ASSUME UNCHANGED <<batch, pc, stopLost>>, queue' = queue \/ pc # "done"
        PROVE  PhaseInv'
    BY <1>0, <1>2, Zenon DEF PhaseInv
  <1>3. ASSUME batch' = batch, stopLost' = stopLost, pc # "done", pc' # "done",
               busy(pc) <=> busy(pc')
        PROVE  PhaseInv'
    BY <1>0, <1>3, Zenon DEF PhaseInv
  <1>4. ASSUME batch' = <<>>, pc' \notin {"fill", "begin", "apply", "commit", "done"}, stopLost' = {}
        PROVE  PhaseInv'
    BY <1>4, Zenon DEF PhaseInv
  <1>5. ASSUME batch = <<>>, batch' = batch, pc' = "done", queue' = <<>>
        PROVE  PhaseInv'
    <2>1. batch' = <<>> /\ ~busy(pc')
      BY <1>5
    <2>. QED BY <1>5, <2>1, Zenon DEF PhaseInv
  <1>6. ASSUME FailBatch, stopLost' = stopLost, pc # "done"
        PROVE  PhaseInv'
    <2>1. batch' = <<>> /\ pc' = "settled"
      BY <1>6 DEF FailBatch
    <2>2. stopLost' = {}
      BY <1>0, <1>6, Zenon DEF PhaseInv
    <2>. QED BY <1>4, <2>1, <2>2
  <1> HIDE DEF busy
  <1>7. ASSUME NEW i \in Identity, Accept(i) PROVE PhaseInv'
    <2>1. UNCHANGED <<batch, pc, stopLost>> /\ pc # "done"
      BY <1>7 DEF Accept, threadVars, Closed
    <2>. QED BY <1>2, <2>1
  <1>8. CASE LoadNextId
    <2>1. batch' = batch /\ stopLost' = stopLost /\ pc = "load"
      BY <1>8 DEF LoadNextId
    <2>2. pc' = "recv" \/ (pc' = "done" /\ queue' = <<>>)
      BY <1>8 DEF LoadNextId
    <2>3. batch = <<>>
      BY <1>0, <2>1, Zenon DEF PhaseInv
    <2>4. pc' = "recv" => (busy(pc) <=> busy(pc')) /\ pc # "done" /\ pc' # "done"
      BY <2>1 DEF busy
    <2>. QED BY <1>3, <1>5, <2>1, <2>2, <2>3, <2>4
  <1>9. CASE RecvFirst
    <2>1. pc = "recv" /\ queue # <<>>
      BY <1>9 DEF RecvFirst
    <2>2. batch = <<>> /\ stopLost = {}
      BY <1>0, <2>1, Zenon DEF PhaseInv
    <2>3. CASE IsSample(Head(queue))
      <3>1. batch' = <<Head(queue)>> /\ pc' = "fill" /\ stopLost' = stopLost
        BY <1>9, <2>3 DEF RecvFirst
      <3>2. batch' # <<>> /\ busy(pc') /\ pc' # "done" /\ stopLost' = {}
        BY <1>t, <2>1, <2>2, <3>1 DEF busy
      <3>. QED BY <1>1, <3>2
    <2>4. CASE ~IsSample(Head(queue))
      <3>1. batch' = batch /\ pc' = "done" /\ queue' = <<>>
        BY <1>9, <2>4 DEF RecvFirst, ThreadStops
      <3>. QED BY <1>5, <2>2, <3>1
    <2>. QED BY <2>3, <2>4
  <1>10. CASE RecvMore
    <2>1. pc = "fill" /\ queue # <<>> /\ stopLost' = stopLost
      BY <1>10 DEF RecvMore, histVars
    <2>2. CASE IsSample(Head(queue))
      <3>1. batch' = Append(batch, Head(queue)) /\ pc' = "fill"
        BY <1>10, <2>1, <2>2 DEF RecvMore
      <3>2. batch' # <<>> /\ busy(pc') /\ pc' # "done"
        BY <1>t, <2>1, <3>1 DEF busy
      <3>3. stopLost' = {}
        BY <1>0, <2>1, Zenon DEF PhaseInv
      <3>. QED BY <1>1, <3>2, <3>3
    <2>3. CASE ~IsSample(Head(queue))
      <3>1. batch' = batch /\ pc' = "begin"
        BY <1>10, <2>3 DEF RecvMore
      <3>2. (busy(pc) <=> busy(pc')) /\ pc # "done" /\ pc' # "done"
        BY <2>1, <3>1 DEF busy
      <3>. QED BY <1>3, <2>1, <3>1, <3>2
    <2>. QED BY <2>2, <2>3
  <1>11. CASE EndDrain \/ EndApply \/ ApplySample \/ (BeginWrite /\ pc' = "apply")
    <2>1. batch' = batch /\ stopLost' = stopLost
      BY <1>11 DEF EndDrain, EndApply, ApplySample, BeginWrite, FailBatch, histVars
    <2>2. (busy(pc) <=> busy(pc')) /\ pc # "done" /\ pc' # "done"
      BY <1>11 DEF EndDrain, EndApply, ApplySample, BeginWrite, busy
    <2>. QED BY <1>3, <2>1, <2>2
  <1>12. CASE (BeginWrite /\ pc' # "apply") \/ EarlyError \/ CommitError
    <2>1. FailBatch /\ stopLost' = stopLost /\ pc # "done"
      BY <1>12 DEF BeginWrite, EarlyError, CommitError
    <2>. QED BY <1>6, <2>1
  <1>13. CASE Commit
    <2>1. batch' = <<>> /\ pc' = "settled" /\ stopLost' = stopLost /\ pc = "commit"
      BY <1>13 DEF Commit, histVars
    <2>2. stopLost' = {}
      BY <1>0, <2>1, Zenon DEF PhaseInv
    <2>. QED BY <1>4, <2>1, <2>2
  <1>14. CASE NextTurn
    <2>1. batch' = batch /\ pc = "settled"
      BY <1>14 DEF NextTurn
    <2>2. batch = <<>> /\ stopLost = {}
      BY <1>0, <2>1, Zenon DEF PhaseInv
    <2>3. \/ pc' = "done" /\ queue' = <<>>
          \/ pc' = "recv" /\ stopLost' = stopLost
      BY <1>14 DEF NextTurn, ThreadStops
    <2>4. pc' = "recv" => (busy(pc) <=> busy(pc')) /\ pc # "done" /\ pc' # "done"
      BY <2>1 DEF busy
    <2>. QED BY <1>3, <1>5, <2>1, <2>2, <2>3, <2>4
  <1>15. ASSUME NEW c \in Callers, CallerStep(c) PROVE PhaseInv'
    <2>1. UNCHANGED <<batch, pc, stopLost>> /\ (queue' = queue \/ pc # "done")
      BY <1>15 DEF CallerStep, TakeSender, TrySendShutdown, TakeHandle, Joined,
                   histVars, threadVars, Closed
    <2>. QED BY <1>2, <2>1
  <1>16. CASE Crash
    <2>1. batch' = <<>> /\ pc' = "load" /\ stopLost' = {}
      BY <1>16 DEF Crash
    <2>. QED BY <1>4, <2>1
  <1>17. CASE UNCHANGED vars
    <2>1. UNCHANGED <<batch, pc, stopLost, queue>>
      BY <1>17 DEF vars, threadVars, histVars
    <2>. QED BY <1>2, <2>1
  <1>. QED BY <1>7, <1>8, <1>9, <1>10, <1>11, <1>12, <1>13, <1>14, <1>15, <1>16, <1>17
           DEF Next, WriterStep

(* A sample applied to the transaction is a new point of it.               *)
AddsPoint(raw, id, m, new) == new = raw \cup {<<id, m>>}

LEMMA ApplyInserts ==
    ASSUME TypeInv, ApplySample
    PROVE  \E id : AddsPoint(txn.raw, id, batch[pos], txn'.raw)
  <1>1. txn \in Tables
    BY DEF TypeInv, TablesOK
  <1>2. ASSUME NEW id, InsertRaw(id, txn)
        PROVE  AddsPoint(txn.raw, id, batch[pos], txn'.raw)
    BY <1>1, <1>2 DEF AddsPoint, InsertRaw, Tables
  <1> DEFINE i == sent[batch[pos]]
  <1>3. CASE CacheHit(i)
    BY <1>2, <1>3 DEF CacheHit
  <1>4. CASE KnownSeries(i)
    BY <1>2, <1>4 DEF KnownSeries
  <1>5. CASE NewSeries(i)
    <2>1. PICK t : t = [txn EXCEPT !.byKey = [@ EXCEPT ![SeriesOf[i]] = nextId],
                                   !.meta = @ \cup {<<nextId, SeriesOf[i]>>}]
      OBVIOUS
    <2>2. t.raw = txn.raw /\ t \in [byKey : {t.byKey}, meta : {t.meta}, raw : {txn.raw}, next : {txn.next}]
      BY <1>1, <2>1 DEF Tables
    <2>3. InsertRaw(nextId, t)
      BY <1>5, <2>1 DEF NewSeries
    <2>. QED BY <2>2, <2>3 DEF AddsPoint, InsertRaw
  <1>. QED BY <1>3, <1>4, <1>5 DEF ApplySample

(* A point with a new number keeps the points apart.                       *)
LEMMA OnceMore ==
    ASSUME NEW raw, NEW id, NEW m, NEW new, OncePerSample(raw), m \notin Numbers(raw),
           AddsPoint(raw, id, m, new)
    PROVE  OncePerSample(new) /\ Numbers(new) = Numbers(raw) \cup {m}
  <1>0. new = raw \cup {<<id, m>>}
    BY DEF AddsPoint
  <1>1. IsFiniteSet(new)
    BY <1>0, FS_AddElement DEF OncePerSample
  <1>2. \A p \in raw : p[2] # m
    BY DEF Numbers
  <1>3. \A p, q \in new : p[2] = q[2] => p = q
    BY <1>0, <1>2 DEF OncePerSample
  <1>4. Numbers(new) = Numbers(raw) \cup {m}
    <2>1. <<id, m>> \in new /\ <<id, m>>[2] = m /\ raw \subseteq new
      BY <1>0
    <2>2. \A p \in new : p \in raw \/ p[2] = m
      BY <1>0
    <2>3. m \in Numbers(new)
      BY <2>1 DEF Numbers
    <2>4. Numbers(raw) \subseteq Numbers(new)
      BY <2>1 DEF Numbers
    <2>5. Numbers(new) \subseteq Numbers(raw) \cup {m}
      BY <2>2 DEF Numbers
    <2>. QED BY <2>3, <2>4, <2>5
  <1>. QED BY <1>1, <1>3, <1>4 DEF OncePerSample

LEMMA TxnNext ==
    ASSUME TypeInv, DeliveryInv, [Next]_vars
    PROVE  TxnInv'
  <1>0. TxnInv /\ Flight /\ OncePerSample(db.raw)
    BY DEF DeliveryInv, Flight, PlacesInv
  <1>t. txn \in Tables /\ db \in Tables /\ pos \in Nat \ {0} /\ batch \in Seq(Nat) /\ Len(batch) \in Nat
    BY DEF TypeInv, TablesOK, ThreadOK, QueueOK
  <1>1. ASSUME pc' \notin {"apply", "commit"} PROVE TxnInv'
    BY <1>1 DEF TxnInv
  <1>2. ASSUME UNCHANGED <<pc, pos, batch, txn, db>> PROVE TxnInv'
    BY <1>0, <1>2 DEF TxnInv, Committed
  <1>3. ASSUME NEW i \in Identity, Accept(i) PROVE TxnInv'
    <2>1. UNCHANGED <<pc, pos, batch, txn, db>>
      BY <1>3 DEF Accept, threadVars
    <2>. QED BY <1>2, <2>1
  <1>4. CASE LoadNextId \/ RecvFirst \/ RecvMore \/ EndDrain \/ EarlyError \/ Commit
             \/ CommitError \/ NextTurn \/ Crash
    <2>1. pc' \notin {"apply", "commit"}
      BY <1>4 DEF LoadNextId, RecvFirst, RecvMore, EndDrain, EarlyError, Commit, CommitError,
                  NextTurn, Crash, FailBatch, ThreadStops
    <2>. QED BY <1>1, <2>1
  <1>5. CASE BeginWrite
    <2>1. CASE pc' = "apply"
      <3>1. txn' = db /\ pos' = 1 /\ batch' = batch /\ db' = db
        BY <1>5, <2>1 DEF BeginWrite, FailBatch
      <3>2. {batch[j] : j \in 1 .. 1 - 1} = {} /\ 1 - 1 <= Len(batch)
        BY <1>t
      <3>3. Numbers(db.raw) = Committed
        BY DEF Numbers, Committed
      <3>4. Committed' = Committed
        BY <3>1 DEF Committed
      <3>5. Numbers(txn'.raw) = Committed' \cup {batch'[j] : j \in 1 .. pos' - 1}
        BY <3>1, <3>2, <3>3, <3>4
      <3>. QED BY <1>0, <2>1, <3>1, <3>2, <3>5 DEF TxnInv
    <2>2. CASE pc' # "apply"
      <3>1. pc' = "settled"
        BY <1>5, <2>2 DEF BeginWrite, FailBatch
      <3>. QED BY <1>1, <3>1
    <2>. QED BY <2>1, <2>2
  <1>6. CASE ApplySample
    <2>1. /\ pc = "apply" /\ pc' = "apply" /\ pos <= Len(batch) /\ pos' = pos + 1
          /\ batch' = batch /\ db' = db
      BY <1>6 DEF ApplySample
    <2>2. /\ OncePerSample(txn.raw)
          /\ Numbers(txn.raw) = Committed \cup {batch[j] : j \in 1 .. pos - 1}
      BY <1>0, <2>1 DEF TxnInv
    <2>3. PICK id : AddsPoint(txn.raw, id, batch[pos], txn'.raw)
      BY <1>6, ApplyInserts
    <2>4. batch[pos] \notin Committed \cup {batch[j] : j \in 1 .. pos - 1}
      <3>1. \A j \in 1 .. Len(batch) : batch[j] = Len(sent) - Len(Waiting) - Len(batch) + j
        BY <1>0 DEF Flight, FlightInv, Flying
      <3>2. /\ Base \in Nat /\ Base = Len(sent) - Len(Waiting) - Len(batch)
            /\ Committed \subseteq 1 .. Base
        BY <1>0, InTheAir DEF Flight, PlacesInv, Parted, Base
      <3>3. \A j \in 1 .. Len(batch) : batch[j] = Base + j
        BY <3>1, <3>2
      <3>4. pos \in 1 .. Len(batch) /\ 1 .. pos - 1 \subseteq 1 .. Len(batch)
        BY <1>t, <2>1
      <3>5. batch[pos] = Base + pos /\ \A j \in 1 .. pos - 1 : batch[j] = Base + j
        BY <3>3, <3>4
      <3>6. \A j \in 1 .. pos - 1 : batch[j] # batch[pos]
        BY <1>t, <3>2, <3>5
      <3>7. batch[pos] \notin Committed
        BY <1>t, <3>2, <3>5
      <3>. QED BY <3>6, <3>7
    <2>5. /\ OncePerSample(txn'.raw)
          /\ Numbers(txn'.raw) = Numbers(txn.raw) \cup {batch[pos]}
      <3>1. batch[pos] \notin Numbers(txn.raw)
        BY <2>2, <2>4, Zenon
      <3>. QED BY <2>2, <2>3, <3>1, OnceMore
    <2>6. {batch[j] : j \in 1 .. pos' - 1} = {batch[j] : j \in 1 .. pos - 1} \cup {batch[pos]}
      <3>1. 1 .. pos' - 1 = (1 .. pos - 1) \cup {pos}
        BY <1>t, <2>1
      <3>. QED BY <3>1
    <2>7. Committed' = Committed /\ pos' - 1 <= Len(batch')
      BY <1>t, <2>1 DEF Committed
    <2>8. Numbers(txn'.raw) = Committed' \cup {batch'[j] : j \in 1 .. pos' - 1}
      <3>1. {batch'[j] : j \in 1 .. pos' - 1} = {batch[j] : j \in 1 .. pos' - 1}
        BY <2>1
      <3>2. PICK x, y : x = {batch[j] : j \in 1 .. pos - 1} /\ y = {batch[j] : j \in 1 .. pos' - 1}
        OBVIOUS
      <3>3. Numbers(txn'.raw) = (Committed \cup x) \cup {batch[pos]} /\ y = x \cup {batch[pos]}
        BY <2>2, <2>5, <2>6, <3>2
      <3>4. Numbers(txn'.raw) = Committed \cup y
        BY <3>3
      <3>. QED BY <2>7, <3>1, <3>2, <3>4
    <2>. QED BY <2>1, <2>5, <2>7, <2>8 DEF TxnInv
  <1>7. CASE EndApply
    <2>1. /\ pc = "apply" /\ pc' = "commit" /\ pos > Len(batch) /\ batch' = batch /\ db' = db
          /\ txn' = IF dirty THEN [txn EXCEPT !.next = nextId] ELSE txn
      BY <1>7 DEF EndApply
    <2>2. txn'.raw = txn.raw
      BY <1>t, <2>1 DEF Tables
    <2>3. /\ OncePerSample(txn.raw) /\ pos - 1 <= Len(batch)
          /\ Numbers(txn.raw) = Committed \cup {batch[j] : j \in 1 .. pos - 1}
      BY <1>0, <2>1 DEF TxnInv
    <2>4. pos - 1 = Len(batch)
      BY <1>t, <2>1, <2>3
    <2>5. {batch[j] : j \in 1 .. pos - 1} = ToSet(batch)
      BY <2>4 DEF ToSet
    <2>6. Committed' = Committed /\ ToSet(batch)' = ToSet(batch)
      BY <2>1 DEF Committed
    <2>7. pc' # "apply"
      BY <2>1
    <2>8. OncePerSample(txn'.raw) /\ Numbers(txn'.raw) = Committed' \cup ToSet(batch)'
      BY <2>2, <2>3, <2>5, <2>6
    <2>. QED BY <2>7, <2>8, Zenon DEF TxnInv
  <1>8. ASSUME NEW c \in Callers, CallerStep(c) PROVE TxnInv'
    <2>1. UNCHANGED <<pc, pos, batch, txn, db>>
      BY <1>8 DEF CallerStep, TakeSender, TrySendShutdown, TakeHandle, Joined, threadVars
    <2>. QED BY <1>2, <2>1
  <1>9. CASE UNCHANGED vars
    <2>1. UNCHANGED <<pc, pos, batch, txn, db>>
      BY <1>9 DEF vars, threadVars
    <2>. QED BY <1>2, <2>1
  <1>. QED BY <1>3, <1>4, <1>5, <1>6, <1>7, <1>8, <1>9 DEF Next, WriterStep

LEMMA SentinelNext ==
    ASSUME TypeInv, DeliveryInv, [Next]_vars
    PROVE  SentinelInv'
  <1>0. SentinelInv /\ PhaseInv
    BY DEF DeliveryInv
  <1>t. /\ queue \in Seq(Nat) /\ queue \in Seq(0 .. Len(sent)) /\ Len(sent) \in Nat
        /\ mark \in Nat /\ sent \in Seq(Identity)
        /\ stop \in BOOLEAN /\ hasSender \in BOOLEAN
        /\ caller \in [Callers -> CallerStates]
        /\ \A c, d \in Callers : caller[c] = "sending" /\ caller[d] = "sending" => c = d
    BY DEF TypeInv, QueueOK, FlagsOK, StopOK, HistoryOK
  <1> DEFINE Sending == \E c \in Callers : caller[c] = "sending"
  <1>q. Queued = ToSet(queue) \ {Shutdown}
    BY DEF Queued, IsSample
  <1>1. ASSUME UNCHANGED <<queue, mark, stop, caller, hasSender>>, Len(sent') = Len(sent),
               \A n \in stopLost' : n > mark
        PROVE  SentinelInv'
    <2>1. Marked(queue, mark, stop, Len(sent))'
      BY <1>0, <1>1, Zenon DEF SentinelInv
    <2>. QED BY <1>0, <1>1, <2>1 DEF SentinelInv
  (* the thread ends, and what is behind the sentinel is lost *)
  <1>2. ASSUME queue' = <<>>, UNCHANGED <<mark, caller, hasSender>>, Len(sent') = Len(sent),
               stop' = stop,
               stopLost' = stopLost \/ (stopLost' = stopLost \cup Queued /\ \A n \in Queued : n > mark)
        PROVE  SentinelInv'
    <2>1. Marked(<<>>, mark, stop, Len(sent)) /\ ~HasSentinel(<<>>)
      BY <1>0 DEF SentinelInv, Marked, HasSentinel
    <2>2. Marked(queue, mark, stop, Len(sent))' /\ ~HasSentinel(queue)'
      BY <1>2, <2>1
    <2>3. \A n \in stopLost' : n > mark'
      BY <1>0, <1>2 DEF SentinelInv
    <2>. QED BY <1>0, <1>2, <2>2, <2>3 DEF SentinelInv
  <1>3. ASSUME NEW i \in Identity, Accept(i) PROVE SentinelInv'
    <2>1. /\ queue' = Append(queue, Len(sent) + 1) /\ sent' = Append(sent, i)
          /\ UNCHANGED <<mark, stop, caller, hasSender, stopLost>>
      BY <1>3 DEF Accept, threadVars, stopVars
    <2>2. Len(sent') = Len(sent) + 1
      BY <1>t, <2>1
    <2>3. /\ Marked(Append(queue, Len(sent) + 1), mark, stop, Len(sent) + 1)
          /\ HasSentinel(Append(queue, Len(sent) + 1)) => HasSentinel(queue)
      BY <1>0, <1>t, MarkedAccept DEF SentinelInv
    <2>4. Marked(queue, mark, stop, Len(sent))' /\ (HasSentinel(queue)' => HasSentinel(queue))
      BY <2>1, <2>2, <2>3
    <2>. QED BY <1>0, <2>1, <2>4 DEF SentinelInv
  <1>4. CASE LoadNextId
    <2>1. UNCHANGED <<mark, caller, hasSender, sent, stop, stopLost>>
      BY <1>4 DEF LoadNextId, stopVars
    <2>2. queue' = queue \/ queue' = <<>>
      BY <1>4 DEF LoadNextId
    <2>. QED BY <1>0, <1>1, <1>2, <2>1, <2>2 DEF SentinelInv
  <1>5. CASE RecvFirst
    <2>1. /\ UNCHANGED <<mark, caller, hasSender, sent, stop>> /\ queue # <<>>
      BY <1>5 DEF RecvFirst, stopVars
    <2>2. CASE IsSample(Head(queue))
      <3>1. queue' = Tail(queue) /\ stopLost' = stopLost /\ Head(queue) # Shutdown
        BY <1>5, <2>2 DEF RecvFirst, IsSample
      <3>2. /\ Marked(Tail(queue), mark, stop, Len(sent))
            /\ HasSentinel(Tail(queue)) => HasSentinel(queue)
        BY <1>0, <1>t, <2>1, <3>1, MarkedTail DEF SentinelInv
      <3>3. Marked(queue, mark, stop, Len(sent))' /\ (HasSentinel(queue)' => HasSentinel(queue))
        BY <2>1, <3>1, <3>2
      <3>. QED BY <1>0, <2>1, <3>1, <3>3 DEF SentinelInv
    <2>3. CASE ~IsSample(Head(queue))
      <3>1. queue' = <<>> /\ stopLost' = stopLost \cup Queued /\ Head(queue) = Shutdown
        BY <1>5, <2>3 DEF RecvFirst, ThreadStops, IsSample
      <3>2. \A n \in ToSet(queue) \ {Shutdown} : n > mark
        BY <1>0, <1>t, <2>1, <3>1, MarkedTail DEF SentinelInv
      <3>. QED BY <1>2, <1>q, <2>1, <3>1, <3>2
    <2>. QED BY <2>2, <2>3
  <1>6. CASE RecvMore
    <2>1. /\ UNCHANGED <<mark, caller, hasSender, sent, stopLost>> /\ queue # <<>>
          /\ queue' = Tail(queue)
      BY <1>6 DEF RecvMore, stopVars, histVars
    <2>2. CASE IsSample(Head(queue))
      <3>1. stop' = stop /\ Head(queue) # Shutdown
        BY <1>6, <2>2 DEF RecvMore, IsSample
      <3>2. /\ Marked(Tail(queue), mark, stop, Len(sent))
            /\ HasSentinel(Tail(queue)) => HasSentinel(queue)
        BY <1>0, <1>t, <2>1, <3>1, MarkedTail DEF SentinelInv
      <3>3. Marked(queue, mark, stop, Len(sent))' /\ (HasSentinel(queue)' => HasSentinel(queue))
        BY <2>1, <3>1, <3>2
      <3>. QED BY <1>0, <2>1, <3>1, <3>3 DEF SentinelInv
    <2>3. CASE ~IsSample(Head(queue))
      <3>1. stop' = TRUE /\ Head(queue) = Shutdown
        BY <1>6, <2>3 DEF RecvMore, IsSample
      <3>2. Marked(Tail(queue), mark, TRUE, Len(sent)) /\ ~HasSentinel(Tail(queue))
        BY <1>0, <1>t, <2>1, <3>1, MarkedTail DEF SentinelInv
      <3>3. Marked(queue, mark, stop, Len(sent))' /\ ~HasSentinel(queue)'
        BY <2>1, <3>1, <3>2
      <3>4. HasSentinel(queue)
        <4>1. 1 \in 1 .. Len(queue) /\ queue[1] = Shutdown
          BY <1>t, <2>1, <3>1
        <4>. QED BY <4>1 DEF HasSentinel
      <3>. QED BY <1>0, <2>1, <3>3, <3>4 DEF SentinelInv
    <2>. QED BY <2>2, <2>3
  <1>7. CASE EndDrain \/ BeginWrite \/ ApplySample \/ EarlyError \/ EndApply \/ Commit
             \/ CommitError \/ UNCHANGED vars
    <2>1. UNCHANGED <<queue, mark, stop, caller, hasSender, sent, stopLost>>
      BY <1>7 DEF EndDrain, BeginWrite, ApplySample, EarlyError, EndApply, Commit, CommitError,
                  FailBatch, vars, threadVars, histVars, stopVars
    <2>. QED BY <1>0, <1>1, <2>1 DEF SentinelInv
  <1>8. CASE NextTurn
    <2>1. UNCHANGED <<mark, caller, hasSender, sent, stop>>
      BY <1>8 DEF NextTurn, stopVars
    <2>2. CASE stop
      <3>1. queue' = <<>> /\ stopLost' = stopLost \cup Queued
        BY <1>8, <2>2 DEF NextTurn, ThreadStops
      <3>2. \A n \in Queued : n > mark
        BY <1>0, <2>2 DEF SentinelInv, Marked, Queued, ToSet
      <3>. QED BY <1>2, <2>1, <3>1, <3>2
    <2>3. CASE ~stop
      <3>1. queue' = queue /\ stopLost' = stopLost
        BY <1>8, <2>3 DEF NextTurn
      <3>. QED BY <1>0, <1>1, <2>1, <3>1 DEF SentinelInv
    <2>. QED BY <2>2, <2>3
  <1>9. ASSUME NEW c \in Callers, TakeSender(c) PROVE SentinelInv'
    <2>1. UNCHANGED <<queue, mark, sent, stop, stopLost>> /\ hasSender' = FALSE
      BY <1>9 DEF TakeSender, threadVars, histVars
    <2>2. (\E d \in Callers : caller'[d] = "sending") => hasSender
      BY <1>9, <1>t DEF TakeSender, Moves
    <2>3. Marked(queue, mark, stop, Len(sent))' /\ (HasSentinel(queue)' <=> HasSentinel(queue))
      BY <1>0, <2>1 DEF SentinelInv
    <2>. QED BY <1>0, <2>1, <2>2, <2>3 DEF SentinelInv
  <1>10. ASSUME NEW c \in Callers, TrySendShutdown(c) PROVE SentinelInv'
    <2>1. /\ UNCHANGED <<sent, stop, stopLost, hasSender>> /\ caller[c] = "sending"
          /\ \A d \in Callers : caller'[d] = "sending" => caller[d] = "sending"
      BY <1>10, <1>t DEF TrySendShutdown, Moves, threadVars
    <2>2. ~stop /\ ~HasSentinel(queue) /\ ~hasSender
      BY <1>0, <2>1 DEF SentinelInv
    <2>3. CASE queue' = queue /\ mark' = mark
      <3>1. Marked(queue, mark, stop, Len(sent))' /\ (HasSentinel(queue)' <=> HasSentinel(queue))
        BY <1>0, <2>1, <2>3 DEF SentinelInv
      <3>. QED BY <1>0, <2>1, <2>2, <2>3, <3>1 DEF SentinelInv
    <2>4. CASE pc # "done" /\ queue' = Append(queue, Shutdown) /\ mark' = Len(sent)
               /\ Moves(c, "join")
      <3>1. \A j \in 1 .. Len(queue) : queue[j] <= Len(sent)
        BY <1>t
      <3>2. Marked(Append(queue, Shutdown), Len(sent), FALSE, Len(sent))
        BY <1>t, <2>2, <3>1, MarkedSend
      <3>3. stop' = FALSE
        BY <1>t, <2>1, <2>2
      <3>4. Marked(queue, mark, stop, Len(sent))'
        BY <2>1, <2>4, <3>2, <3>3
      <3>5. stopLost' = {}
        BY <1>0, <2>1, <2>4, Zenon DEF PhaseInv
      <3>6. \A d \in Callers : caller'[d] # "sending"
        BY <1>t, <2>1, <2>4 DEF Moves
      <3>. QED BY <2>1, <2>2, <3>4, <3>5, <3>6 DEF SentinelInv
    <2>. QED BY <1>10, <2>3, <2>4 DEF TrySendShutdown, Closed
  <1>11. ASSUME NEW c \in Callers, TakeHandle(c) \/ Joined(c) PROVE SentinelInv'
    <2>1. /\ UNCHANGED <<queue, mark, sent, stop, stopLost, hasSender>>
          /\ \A d \in Callers : caller'[d] = "sending" => caller[d] = "sending"
      BY <1>11, <1>t DEF TakeHandle, Joined, Moves, threadVars, histVars
    <2>2. Marked(queue, mark, stop, Len(sent))' /\ (HasSentinel(queue)' <=> HasSentinel(queue))
      BY <1>0, <2>1 DEF SentinelInv
    <2>. QED BY <1>0, <2>1, <2>2 DEF SentinelInv
  <1>12. CASE Crash
    <2>1. /\ queue' = <<>> /\ stop' = FALSE /\ stopLost' = {}
          /\ \A c \in Callers : caller'[c] # "sending"
      BY <1>12 DEF Crash
    <2>2. Marked(<<>>, mark', FALSE, Len(sent')) /\ ~HasSentinel(<<>>)
      BY MarkedEmpty
    <2>3. Marked(queue, mark, stop, Len(sent))' /\ ~HasSentinel(queue)'
      BY <2>1, <2>2
    <2>. QED BY <2>1, <2>3 DEF SentinelInv
  <1>. QED BY <1>3, <1>4, <1>5, <1>6, <1>7, <1>8, <1>9, <1>10, <1>11, <1>12
           DEF Next, WriterStep, CallerStep

LEMMA DeliveryInit == Init => DeliveryInv
  <1> SUFFICES ASSUME Init PROVE DeliveryInv
    OBVIOUS
  <1>1. /\ queue = <<>> /\ batch = <<>> /\ sent = <<>> /\ pc = "load" /\ stop = FALSE
        /\ db.raw = {} /\ dropped = {} /\ crashLost = {} /\ stopLost = {}
        /\ \A c \in Callers : caller[c] # "sending"
    BY DEF Init, StartedThread, EmptyTables
  <1>2. Waiting = <<>>
    BY <1>1, SiftedEmpty, Zenon DEF Waiting
  <1>3. Len(sent) = 0 /\ Len(Waiting) = 0 /\ Len(batch) = 0
    BY <1>1, <1>2
  <1>4. FlightInv
    <2>1. Flying(<<>>, <<>>, 0)
      BY EmptySeq DEF Flying
    <2>. QED BY <1>1, <1>2, <1>3, <2>1, Zenon DEF FlightInv
  <1>5. PlacesInv
    <2>1. Base = 0 /\ Committed = {}
      BY <1>1, <1>3 DEF Base, Committed
    <2>2. OncePerSample({})
      BY FS_EmptySet DEF OncePerSample
    <2>. QED BY <1>1, <2>1, <2>2 DEF PlacesInv, Parted
  <1>6. TxnInv /\ PhaseInv
    BY <1>1, Zenon DEF TxnInv, PhaseInv
  <1>7. SentinelInv
    <2>1. Marked(<<>>, mark, FALSE, Len(sent)) /\ ~HasSentinel(<<>>)
      BY MarkedEmpty
    <2>. QED BY <1>1, <2>1 DEF SentinelInv
  <1>. QED BY <1>4, <1>5, <1>6, <1>7 DEF DeliveryInv

LEMMA DeliveryInvariant == Spec => []DeliveryInv
  <1>1. TypeInv /\ DeliveryInv /\ [Next]_vars => DeliveryInv'
    BY FlightNext, PhaseNext, TxnNext, SentinelNext DEF Flight, DeliveryInv
  <1>. QED BY <1>1, DeliveryInit, TypeInvariant, PTL DEF Spec

(* All samples in flight are one sequence, without a gap or a double.      *)
LEMMA FlyingJoin ==
    ASSUME NEW w, NEW b, NEW n, Flying(w, b, n)
    PROVE  Flying(b \o w, <<>>, n) /\ Len(b \o w) = Len(b) + Len(w)
  <1>1. PICK v : v = b \o w
    OBVIOUS
  <1>2. /\ w \in Seq(Nat) /\ b \in Seq(Nat) /\ n \in Nat
        /\ Len(w) + Len(b) <= n
        /\ \A j \in 1 .. Len(w) : w[j] = n - Len(w) + j
        /\ \A j \in 1 .. Len(b) : b[j] = n - Len(w) - Len(b) + j
    BY DEF Flying
  <1>3. /\ v \in Seq(Nat) /\ Len(v) = Len(b) + Len(w) /\ Len(b) \in Nat /\ Len(w) \in Nat
        /\ \A j \in 1 .. Len(b) : v[j] = b[j]
        /\ \A j \in 1 .. Len(w) : v[Len(b) + j] = w[j]
    BY <1>1, <1>2, ConcatProperties
  <1>4. ASSUME NEW j \in 1 .. Len(v)
        PROVE  v[j] = n - Len(v) + j
    <2>1. CASE j \in 1 .. Len(b)
      <3>1. v[j] = b[j] /\ b[j] = n - Len(w) - Len(b) + j
        BY <1>2, <1>3, <2>1
      <3>. QED BY <1>2, <1>3, <3>1
    <2>2. CASE j > Len(b)
      <3>1. j - Len(b) \in 1 .. Len(w) /\ Len(b) + (j - Len(b)) = j
        BY <1>3, <2>2
      <3>2. v[j] = w[j - Len(b)] /\ w[j - Len(b)] = n - Len(w) + (j - Len(b))
        BY <1>2, <1>3, <3>1
      <3>. QED BY <1>2, <1>3, <3>2
    <2>. QED BY <1>3, <2>1, <2>2
  <1>5. Flying(v, <<>>, n)
    <2>1. Len(<<>>) = 0 /\ <<>> \in Seq(Nat)
      BY EmptySeq
    <2>2. \A j \in 1 .. Len(<<>>) : <<>>[j] = n - Len(v) - Len(<<>>) + j
      BY <2>1
    <2>. QED BY <1>2, <1>3, <1>4, <2>1, <2>2 DEF Flying
  <1>. QED BY <1>1, <1>3, <1>5

LEMMA InFlightNumbers ==
    ASSUME TypeInv, FlightInv
    PROVE  /\ Base \in Nat /\ Len(sent) \in Nat /\ Base <= Len(sent)
           /\ ToSet(InFlight) = Base + 1 .. Len(sent)
           /\ Len(InFlight) = Len(sent) - Base
  <1>1. PICK v : v = InFlight
    OBVIOUS
  <1>2. Flying(v, <<>>, Len(sent)) /\ Len(v) = Len(batch) + Len(Waiting)
    BY <1>1, FlyingJoin DEF FlightInv, InFlight, Waiting
  <1>3. ToSet(v) = Len(sent) - Len(v) + 1 .. Len(sent)
    BY <1>2, FlyingSets
  <1>. QED BY <1>1, <1>2, <1>3, InTheAir DEF Base

(* An accepted sample is in flight, committed, dropped with its batch or   *)
(* lost by a crash or a stop: in one of these places and once.             *)
THEOREM SampleInOnePlace == Spec => []EachSampleInOnePlace
  <1>1. TypeInv /\ DeliveryInv => EachSampleInOnePlace
    <2> SUFFICES ASSUME TypeInv, DeliveryInv PROVE EachSampleInOnePlace
      OBVIOUS
    <2>1. FlightInv /\ PlacesInv
      BY DEF DeliveryInv
    <2>2. PICK fl : fl = ToSet(InFlight)
      OBVIOUS
    <2>3. /\ Base \in Nat /\ Len(sent) \in Nat /\ Base <= Len(sent)
          /\ fl = Base + 1 .. Len(sent) /\ Len(InFlight) = Len(sent) - Base
      BY <2>1, <2>2, InFlightNumbers
    <2>4. Parted(Committed, dropped, crashLost, stopLost, Base) /\ OncePerSample(db.raw)
      BY <2>1 DEF PlacesInv
    <2>5. /\ Committed \cup dropped \cup crashLost \cup stopLost = 1 .. Base
          /\ Committed \cap dropped = {} /\ Committed \cap crashLost = {}
          /\ Committed \cap stopLost = {} /\ dropped \cap crashLost = {}
          /\ dropped \cap stopLost = {} /\ crashLost \cap stopLost = {}
      BY <2>4 DEF Parted
    <2>6. Len(InFlight) = Cardinality(fl)
      BY <2>3, FS_Interval
    <2>7. Cardinality(db.raw) = Cardinality(Committed)
      <3> DEFINE number == [p \in db.raw |-> p[2]]
      <3>1. number \in Bijection(db.raw, Committed)
        <4>1. number \in [db.raw -> Committed]
          BY DEF Committed
        <4>2. \A p, q \in db.raw : number[p] = number[q] => p = q
          BY <2>4 DEF OncePerSample
        <4>3. \A n \in Committed : \E p \in db.raw : number[p] = n
          BY DEF Committed
        <4>4. DOMAIN number = db.raw
          OBVIOUS
        <4> HIDE DEF number
        <4>5. IsInjective(number)
          BY <4>2, <4>4 DEF IsInjective
        <4>6. number \in Injection(db.raw, Committed)
          BY <4>1, <4>5 DEF Injection
        <4>7. number \in Surjection(db.raw, Committed)
          BY <4>1, <4>3 DEF Surjection
        <4>. QED BY <4>6, <4>7 DEF Bijection
      <3>2. ExistsBijection(db.raw, Committed)
        BY <3>1 DEF ExistsBijection
      <3>. QED BY <2>4, <3>2, FS_Bijection DEF OncePerSample
    <2> DEFINE places == <<fl, Committed, dropped, crashLost, stopLost>>
    <2>8. UNION {places[k] : k \in 1 .. 5} = 1 .. Len(sent)
      <3>1. UNION {places[k] : k \in 1 .. 5}
               = fl \cup Committed \cup dropped \cup crashLost \cup stopLost
        OBVIOUS
      <3>. QED BY <2>3, <2>5, <3>1
    <2>9. ASSUME NEW j \in 1 .. 5, NEW k \in 1 .. 5, j < k
          PROVE  places[j] \cap places[k] = {}
      <3>1. /\ fl \cap Committed = {} /\ fl \cap dropped = {}
            /\ fl \cap crashLost = {} /\ fl \cap stopLost = {}
        BY <2>3, <2>5
      <3>2. j \in {1, 2, 3, 4} /\ k \in {2, 3, 4, 5}
        BY <2>9
      <3>. QED BY <2>5, <2>9, <3>1, <3>2
    <2>. QED BY <2>2, <2>6, <2>7, <2>8, <2>9, Zenon DEF EachSampleInOnePlace
  <1>. QED BY <1>1, TypeInvariant, DeliveryInvariant, PTL

(* Nothing in flight is older than what is settled, and a stop leaves only *)
(* samples accepted after its sentinel.                                    *)
THEOREM SettledInOrder == Spec => []CommittedInOrder
  <1>1. TypeInv /\ DeliveryInv => CommittedInOrder
    <2> SUFFICES ASSUME TypeInv, DeliveryInv PROVE CommittedInOrder
      OBVIOUS
    <2>1. FlightInv /\ PlacesInv /\ SentinelInv
      BY DEF DeliveryInv
    <2>2. /\ Base \in Nat /\ ToSet(InFlight) = Base + 1 .. Len(sent) /\ Len(sent) \in Nat
      BY <2>1, InFlightNumbers
    <2>3. Committed \cup dropped \subseteq 1 .. Base
      BY <2>1 DEF PlacesInv, Parted
    <2>4. \A m \in ToSet(InFlight) : \A n \in Committed \cup dropped : n < m
      BY <2>2, <2>3
    <2>. QED BY <2>1, <2>4 DEF CommittedInOrder, SentinelInv
  <1>. QED BY <1>1, TypeInvariant, DeliveryInvariant, PTL
-----------------------------------------------------------------------------
(* The writer implements SampleStore: a flight is determined by where it   *)
(* starts and ends, so the promise is about Base and Len(sent).            *)
LEMMA FlightSettled ==
    ASSUME NEW v, NEW u, NEW n, NEW k \in Nat, Flying(v, <<>>, n), Flying(u, <<>>, n),
           Len(v) = Len(u) + k
    PROVE  u = SubSeq(v, k + 1, Len(v)) /\ (k = 0 => u = v)
  <1>1. /\ v \in Seq(Nat) /\ u \in Seq(Nat) /\ n \in Nat
        /\ Len(v) \in Nat /\ Len(u) \in Nat
        /\ \A j \in 1 .. Len(v) : v[j] = n - Len(v) + j
        /\ \A j \in 1 .. Len(u) : u[j] = n - Len(u) + j
    BY DEF Flying
  <1>2. PICK t : t = SubSeq(v, k + 1, Len(v))
    OBVIOUS
  <1>3. /\ t \in Seq(Nat) /\ Len(t) = Len(u)
        /\ \A j \in 1 .. Len(u) : t[j] = v[k + j]
    BY <1>1, <1>2
  <1>4. ASSUME NEW j \in 1 .. Len(u)
        PROVE  t[j] = u[j]
    <2>1. k + j \in 1 .. Len(v)
      BY <1>1
    <2>2. v[k + j] = n - Len(v) + (k + j) /\ u[j] = n - Len(u) + j
      BY <1>1, <2>1
    <2>. QED BY <1>1, <1>3, <2>2
  <1>5. t = u
    BY <1>1, <1>3, <1>4, SeqEqual
  <1>6. ASSUME k = 0
        PROVE  u = v
    <2>1. \A j \in 1 .. Len(u) : u[j] = v[j]
      BY <1>1, <1>6
    <2>2. Len(u) = Len(v)
      BY <1>1, <1>6
    <2>. QED BY <1>1, <2>1, <2>2, SeqEqual
  <1>. QED BY <1>2, <1>5, <1>6

LEMMA FlightLonger ==
    ASSUME NEW v, NEW u, NEW n, Flying(v, <<>>, n), Flying(u, <<>>, n + 1),
           Len(u) = Len(v) + 1
    PROVE  u = Append(v, n + 1)
  <1>1. /\ v \in Seq(Nat) /\ u \in Seq(Nat) /\ n \in Nat /\ n + 1 \in Nat
        /\ Len(v) \in Nat /\ Len(u) \in Nat
        /\ \A j \in 1 .. Len(u) : u[j] = (n + 1) - Len(u) + j
    BY DEF Flying
  <1>2. Flying(Append(v, n + 1), <<>>, n + 1)
    BY FlyingAccept
  <1>3. PICK t : t = Append(v, n + 1)
    OBVIOUS
  <1>4. t \in Seq(Nat) /\ Len(t) = Len(u)
    BY <1>1, <1>3
  <1>5. \A j \in 1 .. Len(t) : t[j] = (n + 1) - Len(t) + j
    BY <1>2, <1>3 DEF Flying
  <1>6. \A j \in 1 .. Len(u) : u[j] = t[j]
    BY <1>1, <1>4, <1>5
  <1>. QED BY <1>1, <1>3, <1>4, <1>6, SeqEqual

(* What a reader finds, once the catalogue is known to be sound.           *)
Found(numbers, accepted) == {<<SeriesOf[accepted[n]], n>> : n \in numbers}

LEMMA ReadersFind == TypeInv /\ SoundInv => ReaderView = Found(Committed, sent)
  <1> SUFFICES ASSUME TypeInv, SoundInv
               PROVE  ReaderView = Found(Committed, sent)
    OBVIOUS
  <1>1. /\ \A p \in db.raw : /\ p[1] # Absent /\ p[2] \in 1 .. Len(sent)
                             /\ db.byKey[SeriesOf[sent[p[2]]]] = p[1]
        /\ \A s, u \in Series : db.byKey[s] # Absent /\ db.byKey[s] = db.byKey[u] => s = u
    BY DEF SoundInv, CommittedSound, KeysSound, Filed
  <1>2. db.raw \subseteq Nat \X Nat /\ sent \in Seq(Identity)
    BY DEF TypeInv, TablesOK, Tables, QueueOK
  <1>3. \A n \in 1 .. Len(sent) : SeriesOf[sent[n]] \in Series
    BY <1>2, WriterAssumption
  <1>4. ASSUME NEW p \in ReaderView
        PROVE  p \in Found(Committed, sent)
    <2>1. /\ p \in Series \X (1 .. Len(sent)) /\ db.byKey[p[1]] # Absent
          /\ <<db.byKey[p[1]], p[2]>> \in db.raw
      BY DEF ReaderView
    <2>2. PICK q \in db.raw : q = <<db.byKey[p[1]], p[2]>>
      BY <2>1
    <2>3. q[1] = db.byKey[p[1]] /\ q[2] = p[2] /\ p[2] \in Committed
      BY <2>2 DEF Committed
    <2>4. db.byKey[SeriesOf[sent[p[2]]]] = db.byKey[p[1]]
      BY <1>1, <2>2, <2>3
    <2>5. p[1] = SeriesOf[sent[p[2]]] /\ p = <<p[1], p[2]>>
      BY <1>1, <1>3, <2>1, <2>4
    <2>. QED BY <2>3, <2>5 DEF Found
  <1>5. ASSUME NEW p \in Found(Committed, sent)
        PROVE  p \in ReaderView
    <2>1. PICK n \in Committed : p = <<SeriesOf[sent[n]], n>>
      BY DEF Found
    <2>2. PICK q \in db.raw : n = q[2]
      BY DEF Committed
    <2>3. q = <<q[1], n>> /\ n \in 1 .. Len(sent) /\ q[1] # Absent
          /\ db.byKey[SeriesOf[sent[n]]] = q[1]
      BY <1>1, <1>2, <2>2
    <2>4. p \in Series \X (1 .. Len(sent)) /\ p[1] = SeriesOf[sent[n]] /\ p[2] = n
      BY <1>3, <2>1, <2>3
    <2>. QED BY <2>2, <2>3, <2>4 DEF ReaderView
  <1>. QED BY <1>4, <1>5

LEMMA FlightOf ==
    TypeInv /\ Flight =>
        /\ Flying(InFlight, <<>>, Len(sent)) /\ Len(InFlight) = Len(sent) - Base
        /\ Base \in Nat /\ Len(sent) \in Nat /\ Base <= Len(sent)
        /\ Committed \cup dropped \cup (crashLost \cup stopLost) = 1 .. Base
  <1> SUFFICES ASSUME TypeInv, Flight
               PROVE  /\ Flying(InFlight, <<>>, Len(sent)) /\ Len(InFlight) = Len(sent) - Base
                      /\ Base \in Nat /\ Len(sent) \in Nat /\ Base <= Len(sent)
                      /\ Committed \cup dropped \cup (crashLost \cup stopLost) = 1 .. Base
    OBVIOUS
  <1>1. Flying(InFlight, <<>>, Len(sent))
    BY FlyingJoin DEF Flight, FlightInv, InFlight, Waiting
  <1>. QED BY <1>1, InFlightNumbers DEF Flight, PlacesInv, Parted

LEMMA StoreStep ==
    ASSUME TypeInv, DeliveryInv, DeliveryInv', TypeInv', IdInv, IdInv', [Next]_vars
    PROVE  [Store!Next \/ early']_(Store!storeVars)
  <1>0. CASE early' = TRUE
    BY <1>0
  <1>. SUFFICES ASSUME early' # TRUE
                PROVE  Store!Next \/ UNCHANGED Store!storeVars
    BY <1>0
  <1>e. early' = FALSE /\ early = FALSE
    <2>1. early \in BOOLEAN /\ early' \in BOOLEAN
      BY DEF TypeInv, FlagsOK
    <2>2. early = TRUE => early' = TRUE
      BY Zenon DEF Next, vars, histVars, Accept, WriterStep, CallerStep, LoadNextId,
         RecvFirst, RecvMore, EndDrain, BeginWrite, ApplySample, EarlyError, EndApply,
         Commit, CommitError, NextTurn, TakeSender, TrySendShutdown, TakeHandle, Joined, Crash
    <2>. QED BY <2>1, <2>2
  <1>s. SoundInv /\ SoundInv'
    BY <1>e DEF IdInv
  <1>r. ReaderView = Found(Committed, sent) /\ ReaderView' = Found(Committed', sent')
    <2>1. ReaderView = Found(Committed, sent)
      BY <1>s, ReadersFind
    <2>2. (ReaderView = Found(Committed, sent))'
      BY <1>s, ReadersFind, PTL
    <2>. QED BY <2>1, <2>2 DEF Found
  <1>f. /\ Flight
        /\ Flying(InFlight, <<>>, Len(sent)) /\ Len(InFlight) = Len(sent) - Base
        /\ Base \in Nat /\ Len(sent) \in Nat /\ Base <= Len(sent)
        /\ Committed \cup dropped \cup (crashLost \cup stopLost) = 1 .. Base
    BY FlightOf DEF DeliveryInv, Flight
  <1>g. /\ Flying(InFlight', <<>>, Len(sent')) /\ Len(InFlight') = Len(sent') - Base'
        /\ Base' \in Nat /\ Len(sent') \in Nat /\ Base' <= Len(sent')
        /\ Committed' \cup dropped' \cup (crashLost' \cup stopLost') = 1 .. Base'
    <2>1. Flight'
      BY FlightNext
    <2>2. /\ Flying(InFlight, <<>>, Len(sent))' /\ (Len(InFlight) = Len(sent) - Base)'
          /\ (Base \in Nat)' /\ (Len(sent) \in Nat)' /\ (Base <= Len(sent))'
          /\ (Committed \cup dropped \cup (crashLost \cup stopLost) = 1 .. Base)'
      BY <2>1, FlightOf, PTL
    <2>. QED BY <2>2
  <1>i. ASSUME NEW a \in Nat, NEW b \in Nat, 1 .. a \subseteq 1 .. b PROVE a <= b
    BY <1>i
  <1>1. ASSUME NEW i \in Identity, Accept(i) PROVE Store!Next
    <2>1. /\ sent' = Append(sent, i) /\ Len(sent) < MaxSamples
          /\ UNCHANGED <<db, dropped, crashLost, stopLost>>
      BY <1>1 DEF Accept
    <2>2. Committed' = Committed /\ Len(sent') = Len(sent) + 1
      BY <2>1 DEF Committed, TypeInv, QueueOK
    <2>3. Base' = Base
      <3>1. 1 .. Base' = 1 .. Base
        BY <1>f, <1>g, <2>1, <2>2
      <3>2. Base' <= Base /\ Base <= Base'
        BY <1>f, <1>g, <1>i, <3>1
      <3>. QED BY <1>f, <1>g, <3>2
    <2>4. InFlight' = Append(InFlight, Len(sent) + 1)
      <3>1. Len(InFlight') = Len(InFlight) + 1 /\ Flying(InFlight', <<>>, Len(sent) + 1)
        BY <1>f, <1>g, <2>2, <2>3
      <3>. QED BY <1>f, <3>1, FlightLonger
    <2>5. ReaderView' = ReaderView
      <3>1. \A n \in Committed : sent'[n] = sent[n]
        <4>1. Committed \subseteq 1 .. Len(sent) /\ sent \in Seq(Identity)
          BY <1>f DEF TypeInv, QueueOK
        <4>. QED BY <2>1, <4>1
      <3>. QED BY <1>r, <2>2, <3>1 DEF Found
    <2>6. Store!Accept(i)
      BY <2>1, <2>4, <2>5 DEF Store!Accept
    <2>. QED BY <2>6 DEF Store!Next
  <1>2. CASE Commit
    <2>1. /\ UNCHANGED <<sent, dropped, crashLost, stopLost>> /\ pc = "commit" /\ db' = txn
      BY <1>2 DEF Commit, histVars
    <2>2. Committed' = Committed \cup ToSet(batch) /\ batch # <<>> /\ batch \in Seq(Nat)
      <3>1. Numbers(txn.raw) = Committed \cup ToSet(batch) /\ batch # <<>>
        BY <2>1, Zenon DEF DeliveryInv, TxnInv, PhaseInv
      <3>2. batch \in Seq(Nat)
        BY <1>f DEF Flight, FlightInv, Flying
      <3>3. Committed' = Numbers(txn.raw)
        BY <2>1, Zenon DEF Committed, Numbers
      <3>. QED BY <3>1, <3>2, <3>3, Zenon
    <2>3. /\ Len(batch) \in Nat \ {0}
          /\ ToSet(batch) = Base + 1 .. Base + Len(batch)
          /\ Len(batch) <= Len(InFlight)
      <3>1. Len(batch) \in Nat \ {0}
        BY <2>2, EmptySeq
      <3>. QED BY <1>f, <3>1, InTheAir DEF Flight
    <2>4. Base' = Base + Len(batch)
      <3>1. Committed' \cup dropped' \cup (crashLost' \cup stopLost') = (1 .. Base) \cup ToSet(batch)
        BY <1>f, <2>1, <2>2
      <3>2. (1 .. Base) \cup (Base + 1 .. Base + Len(batch)) = 1 .. Base + Len(batch)
        BY <1>f, <2>3
      <3>3. 1 .. Base' = 1 .. Base + Len(batch) /\ Base + Len(batch) \in Nat
        BY <1>f, <1>g, <2>3, <3>1, <3>2
      <3>4. Base' <= Base + Len(batch) /\ Base + Len(batch) <= Base'
        BY <1>g, <1>i, <3>3
      <3>. QED BY <1>g, <3>3, <3>4
    <2>5. InFlight' = SubSeq(InFlight, Len(batch) + 1, Len(InFlight))
      <3>1. Len(InFlight) = Len(InFlight') + Len(batch) /\ Flying(InFlight', <<>>, Len(sent))
        BY <1>f, <1>g, <2>1, <2>3, <2>4
      <3>. QED BY <1>f, <2>3, <3>1, FlightSettled
    <2>6. \A j \in 1 .. Len(batch) : InFlight[j] = Base + j
      <3>1. \A j \in 1 .. Len(InFlight) : InFlight[j] = Len(sent) - Len(InFlight) + j
        BY <1>f DEF Flying
      <3>2. \A j \in 1 .. Len(batch) : j \in 1 .. Len(InFlight)
        BY <1>f, <2>3
      <3>. QED BY <1>f, <3>1, <3>2
    <2>7. ReaderView' = ReaderView \cup {<<SeriesOf[sent[InFlight[j]]], InFlight[j]>> :
                                            j \in 1 .. Len(batch)}
      <3>1. PICK flew : flew = {<<SeriesOf[sent[InFlight[j]]], InFlight[j]>> : j \in 1 .. Len(batch)}
        OBVIOUS
      <3>2. flew = {<<SeriesOf[sent[Base + j]], Base + j>> : j \in 1 .. Len(batch)}
        BY <2>6, <3>1
      <3>3. flew \subseteq Found(ToSet(batch), sent)
        BY <1>f, <2>3, <3>2 DEF Found
      <3>4. ASSUME NEW n \in ToSet(batch)
            PROVE  <<SeriesOf[sent[n]], n>> \in flew
        <4>1. n - Base \in 1 .. Len(batch) /\ Base + (n - Base) = n
          BY <1>f, <2>3
        <4>2. <<SeriesOf[sent[Base + (n - Base)]], Base + (n - Base)>> \in flew
          BY <3>2, <4>1
        <4>. QED BY <4>1, <4>2
      <3>5. flew = Found(ToSet(batch), sent)
        BY <3>3, <3>4 DEF Found
      <3>6. Found(Committed', sent) = Found(Committed, sent) \cup Found(ToSet(batch), sent)
        BY <2>2 DEF Found
      <3>. QED BY <1>r, <2>1, <3>1, <3>5, <3>6
    <2>8. Store!Persist(Len(batch))
      BY <2>1, <2>5, <2>7 DEF Store!Persist, Store!Settle
    <2>9. Len(batch) \in 1 .. Len(InFlight)
      BY <1>f, <2>3
    <2>. QED BY <2>8, <2>9 DEF Store!Next
  <1>3. ASSUME UNCHANGED <<sent, db>>, dropped \subseteq dropped',
               crashLost \cup stopLost \subseteq crashLost' \cup stopLost'
        PROVE  Store!Next \/ UNCHANGED Store!storeVars
    <2>1. Committed' = Committed /\ ReaderView' = ReaderView
      BY <1>3, <1>r DEF Committed, Found
    <2>2. Base <= Base'
      <3>1. 1 .. Base \subseteq 1 .. Base'
        BY <1>f, <1>g, <1>3, <2>1
      <3>. QED BY <1>f, <1>g, <1>i, <3>1
    <2>3. PICK k \in Nat : Base' = Base + k
      <3>1. Base' - Base \in Nat /\ Base' = Base + (Base' - Base)
        <4>1. PICK b, c : b = Base /\ c = Base'
          OBVIOUS
        <4>2. b \in Nat /\ c \in Nat /\ b <= c
          BY <1>f, <1>g, <2>2, <4>1
        <4>3. c - b \in Nat /\ c = b + (c - b)
          BY <4>2
        <4>. QED BY <4>1, <4>3
      <3>. QED BY <3>1
    <2>4. Len(InFlight) = Len(InFlight') + k /\ Flying(InFlight', <<>>, Len(sent))
          /\ Len(InFlight') \in Nat
      BY <1>f, <1>g, <1>3, <2>3
    <2>5. /\ InFlight' = SubSeq(InFlight, k + 1, Len(InFlight))
          /\ k = 0 => InFlight' = InFlight
      BY <1>f, <2>4, FlightSettled
    <2>6. CASE k = 0
      BY <1>3, <2>1, <2>5, <2>6 DEF Store!storeVars
    <2>7. CASE k # 0
      <3>1. k \in 1 .. Len(InFlight)
        BY <2>4, <2>7
      <3>2. Store!GiveUp(k)
        BY <1>3, <2>1, <2>5 DEF Store!GiveUp, Store!Settle
      <3>. QED BY <3>1, <3>2 DEF Store!Next
    <2>. QED BY <2>6, <2>7
  <1>4. CASE WriterStep /\ ~Commit
    <2>1. UNCHANGED <<sent, db>> /\ dropped \subseteq dropped'
          /\ crashLost \subseteq crashLost' /\ stopLost \subseteq stopLost'
      BY <1>4 DEF WriterStep, LoadNextId, RecvFirst, RecvMore, EndDrain, BeginWrite, ApplySample,
                  EarlyError, EndApply, CommitError, NextTurn, FailBatch, ThreadStops, histVars
    <2>. QED BY <1>3, <2>1
  <1>5. ASSUME NEW c \in Callers, CallerStep(c) PROVE Store!Next \/ UNCHANGED Store!storeVars
    <2>1. UNCHANGED <<sent, db, dropped, crashLost, stopLost>>
      BY <1>5 DEF CallerStep, TakeSender, TrySendShutdown, TakeHandle, Joined, histVars
    <2>. QED BY <1>3, <2>1
  <1>6. CASE Crash
    <2>1. UNCHANGED <<sent, db, dropped>> /\ crashLost \subseteq crashLost'
          /\ stopLost \subseteq crashLost'
      BY <1>6 DEF Crash
    <2>. QED BY <1>3, <2>1
  <1>7. CASE UNCHANGED vars
    <2>1. UNCHANGED <<sent, db, dropped, crashLost, stopLost>>
      BY <1>7 DEF vars, histVars
    <2>. QED BY <1>3, <2>1
  <1>. QED BY <1>1, <1>2, <1>4, <1>5, <1>6, <1>7 DEF Next

(* The detailed writer implements the abstract store, step by step, as     *)
(* long as no batch has left commit_batch by an early `?`.                 *)
THEOREM WriterImplementsStore == Spec => StoreSpec
  <1>1. Init => Store!Init
    <2> SUFFICES ASSUME Init PROVE Store!Init
      OBVIOUS
    <2>1. sent = <<>> /\ batch = <<>> /\ queue = <<>> /\ db.raw = {}
      BY DEF Init, StartedThread, EmptyTables
    <2>2. Sifted(queue, Shutdown) = <<>>
      BY <2>1, SiftedEmpty, Zenon
    <2>3. <<>> \o <<>> = <<>>
      BY EmptySeq, ConcatEmptySeq
    <2>4. InFlight = <<>>
      BY <2>1, <2>2, <2>3, Zenon DEF InFlight
    <2>5. ReaderView = {}
      BY <2>1 DEF ReaderView
    <2>. QED BY <2>1, <2>4, <2>5 DEF Store!Init
  <1>2. /\ TypeInv /\ DeliveryInv /\ IdInv /\ TypeInv' /\ DeliveryInv' /\ IdInv' /\ [Next]_vars
        => [Store!Next \/ early']_(Store!storeVars)
    BY StoreStep
  <1>. QED BY <1>1, <1>2, TypeInvariant, DeliveryInvariant, SoundInvariant, PTL
           DEF Spec, StoreSpec
=============================================================================
