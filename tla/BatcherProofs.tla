--------------------------- MODULE BatcherProofs ---------------------------
(***************************************************************************)
(* Safety of Batcher for every set of events, every size function and      *)
(* every batch size: type correctness, no loss and no duplication, no      *)
(* forgotten batch, bounded batches, and the implementation of EventSink   *)
(* up to its fairness.                                                     *)
(***************************************************************************)
EXTENDS Batcher, TLAPS

Inside == {"locked", "schedule", "write"}

\* The lock is held by e exactly while e is between Lock and Unlock.
MutexInv == \A e \in Events : pc[e] \in Inside <=> mx = e

\* Bytes are pending exactly when payloads are.
BuffersInStep == pendingLen = 0 <=> pendingPayloads = << >>

\* What Push has established when it is about to write.
BeforeWrite(e) ==
  /\ armed \/ waiting > 0
  /\ pendingLen = 0 \/ ~Overflows(e)

PushInv ==
  \A e \in Events :
    /\ pc[e] = "schedule" => pendingLen = 0
    /\ pc[e] = "write" => BeforeWrite(e)

PendingWithinSize == pendingLen <= BatchSize \/ Len(pendingPayloads) = 1

IInv ==
  /\ TypeOK
  /\ MutexInv
  /\ BuffersInStep
  /\ PushInv
  /\ PendingWithinSize
  /\ NoLossNoDuplicate
  /\ PendingIsTimed
  /\ BatchWithinSize

\* A sequence grows by a nonempty suffix.
LEMMA ConcatGrows ==
  ASSUME NEW S, NEW s \in Seq(S), NEW t \in Seq(S), t # << >>
  PROVE  s # s \o t
BY SMT

\* The buffers start empty, with the lock free.
LEMMA InitIInv == Init => IInv
<1> SUFFICES ASSUME Init PROVE IInv
  OBVIOUS
<1>1. TypeOK
  <2>1. << >> \in Seq(Events)
    OBVIOUS
  <2>2. lastBatch \in [payloads : Seq(Events), bytes : Nat]
    BY <2>1 DEF Init
  <2> QED BY <2>1, <2>2 DEF Init, TypeOK, Positions
<1>2. MutexInv
  BY HolderAssumption DEF Init, MutexInv, Inside
<1>3. PushInv
  BY DEF Init, PushInv
<1>4. NoLossNoDuplicate
  BY DEF Init, NoLossNoDuplicate
<1>5. PendingWithinSize /\ BatchWithinSize
  BY SizeAssumption DEF Init, PendingWithinSize, BatchWithinSize
<1> QED
  BY <1>1, <1>2, <1>3, <1>4, <1>5
     DEF Init, IInv, BuffersInStep, PendingIsTimed

\* What a call of flush does to the buffer part of the invariant.
LEMMA FlushIInv ==
  ASSUME IInv, flush, UNCHANGED accepted
  PROVE  /\ pendingLen' = 0
         /\ pendingPayloads' = << >>
         /\ delivered' \in Seq(Events)
         /\ lastBatch' \in [payloads : Seq(Events), bytes : Nat]
         /\ NoLossNoDuplicate'
         /\ BatchWithinSize'
<1>1. CASE pendingLen = 0 /\ UNCHANGED bufferVars
  BY <1>1 DEF IInv, TypeOK, BuffersInStep, NoLossNoDuplicate, BatchWithinSize,
              bufferVars
<1>2. CASE pendingLen # 0 /\ ~ UNCHANGED bufferVars
  <2>1. /\ pendingLen' = 0
        /\ pendingPayloads' = << >>
        /\ delivered' = delivered \o pendingPayloads
        /\ lastBatch' = [payloads |-> pendingPayloads, bytes |-> pendingLen]
    BY <1>2 DEF flush
  <2>2. delivered' \in Seq(Events)
    BY <2>1 DEF IInv, TypeOK
  <2>3. NoLossNoDuplicate'
    BY <2>1, <2>2 DEF IInv, TypeOK, NoLossNoDuplicate
  <2>4. BatchWithinSize'
    BY <2>1 DEF IInv, PendingWithinSize, BatchWithinSize
  <2> QED BY <2>1, <2>2, <2>3, <2>4 DEF IInv, TypeOK
<1> QED BY <1>1, <1>2 DEF flush, bufferVars

\* Steps that change only mx and pc leave the buffer conjuncts alone.
LEMMA StepIInv == IInv /\ [Next]_vars => IInv'
<1> SUFFICES ASSUME IInv, [Next]_vars PROVE IInv'
  OBVIOUS
<1> USE DEF IInv
<1>1. ASSUME NEW e \in Events, PushLock(e) PROVE IInv'
  <2>1. TypeOK'
    BY <1>1 DEF PushLock, Goto, TypeOK, Positions, bufferVars, timerVars
  <2>2. MutexInv'
    BY <1>1, HolderAssumption DEF PushLock, Goto, MutexInv, Inside, TypeOK
  <2>3. PushInv'
    BY <1>1 DEF PushLock, Goto, PushInv, BeforeWrite, Overflows, TypeOK,
                bufferVars, timerVars
  <2> QED
    BY <1>1, <2>1, <2>2, <2>3, HolderAssumption
       DEF PushLock, bufferVars, timerVars, BuffersInStep, PendingWithinSize,
           NoLossNoDuplicate, PendingIsTimed, BatchWithinSize
<1>2. ASSUME NEW e \in Events, PushError(e) PROVE IInv'
  <2>1. TypeOK'
    BY <1>2 DEF PushError, Goto, TypeOK, Positions, bufferVars, timerVars
  <2>2. MutexInv'
    BY <1>2, HolderAssumption DEF PushError, Goto, MutexInv, Inside, TypeOK
  <2>3. PushInv'
    BY <1>2 DEF PushError, Goto, PushInv, BeforeWrite, Overflows, TypeOK,
                bufferVars, timerVars
  <2>4. PendingIsTimed'
    BY <1>2, HolderAssumption
       DEF PushError, Goto, MutexInv, Inside, PendingIsTimed, bufferVars, timerVars
  <2> QED
    BY <1>2, <2>1, <2>2, <2>3, <2>4
       DEF PushError, bufferVars, BuffersInStep, PendingWithinSize,
           NoLossNoDuplicate, BatchWithinSize
<1>3. ASSUME NEW e \in Events, PushFirst(e) PROVE IInv'
  <2>1. TypeOK'
    BY <1>3 DEF PushFirst, Goto, scheduleFlushInterval, TypeOK, Positions, bufferVars
  <2>2. MutexInv'
    BY <1>3 DEF PushFirst, Goto, MutexInv, Inside, TypeOK
  <2>3. PushInv'
    BY <1>3 DEF PushFirst, Goto, scheduleFlushInterval, PushInv, BeforeWrite,
                Overflows, TypeOK, bufferVars
  <2> QED
    BY <1>3, <2>1, <2>2, <2>3
       DEF PushFirst, scheduleFlushInterval, bufferVars, BuffersInStep,
           PendingWithinSize, NoLossNoDuplicate, PendingIsTimed, BatchWithinSize
<1>4. ASSUME NEW e \in Events, PushFits(e) PROVE IInv'
  <2>1. TypeOK'
    BY <1>4 DEF PushFits, Goto, TypeOK, Positions, bufferVars, timerVars
  <2>2. MutexInv'
    BY <1>4 DEF PushFits, Goto, MutexInv, Inside, TypeOK
  <2>3. mx # TimerGo /\ pendingPayloads # << >>
    BY <1>4, HolderAssumption
       DEF PushFits, Goto, MutexInv, Inside, BuffersInStep
  <2>4. PushInv'
    BY <1>4, <2>3 DEF PushFits, Goto, PushInv, BeforeWrite, Overflows, TypeOK,
                      PendingIsTimed, bufferVars, timerVars
  <2> QED
    BY <1>4, <2>1, <2>2, <2>4
       DEF PushFits, bufferVars, timerVars, BuffersInStep, PendingWithinSize,
           NoLossNoDuplicate, PendingIsTimed, BatchWithinSize
<1>5. ASSUME NEW e \in Events, PushFlush(e) PROVE IInv'
  <2>1. /\ pendingLen' = 0
        /\ pendingPayloads' = << >>
        /\ delivered' \in Seq(Events)
        /\ lastBatch' \in [payloads : Seq(Events), bytes : Nat]
        /\ NoLossNoDuplicate'
        /\ BatchWithinSize'
    BY <1>5, FlushIInv DEF PushFlush
  <2>2. TypeOK'
    BY <1>5, <2>1 DEF PushFlush, Goto, TypeOK, Positions, timerVars
  <2>3. MutexInv'
    BY <1>5 DEF PushFlush, Goto, MutexInv, Inside, TypeOK
  <2>4. PushInv'
    BY <1>5, <2>1 DEF PushFlush, Goto, PushInv, BeforeWrite, TypeOK, timerVars
  <2> QED
    BY <2>1, <2>2, <2>3, <2>4, SizeAssumption
       DEF BuffersInStep, PendingWithinSize, PendingIsTimed
<1>6. ASSUME NEW e \in Events, PushSchedule(e) PROVE IInv'
  <2>1. TypeOK'
    BY <1>6 DEF PushSchedule, Goto, scheduleFlushInterval, TypeOK, Positions, bufferVars
  <2>2. MutexInv'
    BY <1>6 DEF PushSchedule, Goto, MutexInv, Inside, TypeOK
  <2>3. PushInv'
    BY <1>6 DEF PushSchedule, Goto, scheduleFlushInterval, PushInv, BeforeWrite,
                Overflows, TypeOK, bufferVars
  <2> QED
    BY <1>6, <2>1, <2>2, <2>3
       DEF PushSchedule, scheduleFlushInterval, bufferVars, BuffersInStep,
           PendingWithinSize, NoLossNoDuplicate, PendingIsTimed, BatchWithinSize
<1>7. ASSUME NEW e \in Events, PushWrite(e) PROVE IInv'
  <2>1. Size[e] \in Nat \ {0}
    BY SizeAssumption
  <2>2. TypeOK'
    BY <1>7, <2>1 DEF PushWrite, Goto, TypeOK, Positions, timerVars
  <2>3. MutexInv'
    BY <1>7, HolderAssumption DEF PushWrite, Goto, MutexInv, Inside, TypeOK
  <2>4. PushInv'
    BY <1>7 DEF PushWrite, Goto, MutexInv, Inside, PushInv, TypeOK
  <2>5. BeforeWrite(e) /\ mx = e
    BY <1>7 DEF PushWrite, Goto, PushInv, MutexInv, Inside
  <2>6. pendingPayloads' # << >> /\ pendingLen' # 0
    <3>1. pendingPayloads \in Seq(Events) /\ pendingLen \in Nat
      BY DEF TypeOK
    <3>2. Append(pendingPayloads, e) # << >> /\ pendingLen + Size[e] # 0
      BY ONLY <2>1, <3>1
    <3> QED BY <1>7, <3>2 DEF PushWrite
  <2>7. PendingWithinSize'
    BY <1>7, <2>1, <2>5, SizeAssumption
       DEF PushWrite, BeforeWrite, Overflows, BuffersInStep, PendingWithinSize, TypeOK
  <2>8. NoLossNoDuplicate'
    <3>1. /\ accepted' = Append(delivered \o pendingPayloads, e)
          /\ pendingPayloads' = Append(pendingPayloads, e)
          /\ delivered' = delivered
      BY <1>7 DEF PushWrite, NoLossNoDuplicate
    <3>2. delivered \in Seq(Events) /\ pendingPayloads \in Seq(Events)
      BY DEF TypeOK
    <3>3. Append(delivered \o pendingPayloads, e) = delivered \o Append(pendingPayloads, e)
      BY ONLY <3>2, e \in Events, SMT
    <3> QED
      BY ONLY <3>1, <3>3 DEF NoLossNoDuplicate
  <2>9. PendingIsTimed' /\ BatchWithinSize'
    BY <1>7, <2>5 DEF PushWrite, BeforeWrite, PendingIsTimed, BatchWithinSize, timerVars
  <2> QED
    BY <2>2, <2>3, <2>4, <2>6, <2>7, <2>8, <2>9 DEF BuffersInStep
<1>8. ASSUME TimerFires PROVE IInv'
  <2>1. waiting' \in Nat /\ waiting' > 0
    BY <1>8 DEF TimerFires, TypeOK
  <2>2. MutexInv' /\ PushInv'
    BY <1>8, <2>1 DEF TimerFires, MutexInv, PushInv, BeforeWrite, Overflows, bufferVars
  <2>3. TypeOK'
    BY <1>8, <2>1 DEF TimerFires, TypeOK, bufferVars
  <2> QED
    BY <1>8, <2>1, <2>2, <2>3
       DEF TimerFires, bufferVars, BuffersInStep, PendingWithinSize,
           NoLossNoDuplicate, PendingIsTimed, BatchWithinSize
<1>9. ASSUME TimerLock PROVE IInv'
  <2>1. TypeOK'
    BY <1>9 DEF TimerLock, TypeOK, bufferVars
  <2>2. MutexInv' /\ PushInv'
    BY <1>9, HolderAssumption DEF TimerLock, MutexInv, Inside, PushInv
  <2> QED
    BY <1>9, <2>1, <2>2
       DEF TimerLock, bufferVars, BuffersInStep, PendingWithinSize,
           NoLossNoDuplicate, PendingIsTimed, BatchWithinSize
<1>10. ASSUME flushOnTimer PROVE IInv'
  <2>1. /\ pendingLen' = 0
        /\ pendingPayloads' = << >>
        /\ delivered' \in Seq(Events)
        /\ lastBatch' \in [payloads : Seq(Events), bytes : Nat]
        /\ NoLossNoDuplicate'
        /\ BatchWithinSize'
    BY <1>10, FlushIInv DEF flushOnTimer
  <2>2. TypeOK'
    BY <1>10, <2>1 DEF flushOnTimer, TypeOK, timerVars
  <2>3. MutexInv' /\ PushInv'
    BY <1>10, HolderAssumption DEF flushOnTimer, MutexInv, Inside, PushInv
  <2> QED
    BY <2>1, <2>2, <2>3, SizeAssumption
       DEF BuffersInStep, PendingWithinSize, PendingIsTimed
<1>11. CASE UNCHANGED vars
  BY <1>11
     DEF vars, TypeOK, MutexInv, PushInv, BeforeWrite, Overflows, bufferVars,
         timerVars, BuffersInStep, PendingWithinSize, NoLossNoDuplicate,
         PendingIsTimed, BatchWithinSize
<1> QED
  BY <1>1, <1>2, <1>3, <1>4, <1>5, <1>6, <1>7, <1>8, <1>9, <1>10, <1>11
     DEF Next, PushStep

\* Every reachable state satisfies the inductive invariant.
LEMMA Invariance == Spec => []IInv
BY InitIInv, StepIInv, PTL DEF Spec

\* Type correctness of the batcher.
THEOREM TypeCorrect == Spec => []TypeOK
BY Invariance, PTL DEF IInv

\* batcher.go:84-127: no accepted event is lost, repeated or reordered.
THEOREM BatcherNeverLoses == Spec => []NoLossNoDuplicate
BY Invariance, PTL DEF IInv

\* batcher.go:103-114: a late Stop never leaves pending events without a timer.
THEOREM BatcherAlwaysTimed == Spec => []PendingIsTimed
BY Invariance, PTL DEF IInv

\* batcher.go:92-97: no batch of two events or more exceeds batchSize.
THEOREM BatchesFit == Spec => []BatchWithinSize
BY Invariance, PTL DEF IInv

\* batcher.go:84-127 implements EventSink, its fairness apart: PushWrite is
\* Take, a flush of pending bytes is HandOver, every other step a stutter.
THEOREM BatcherRefinesSink == Spec => Sink!SinkSafety
<1>1. Init => Sink!SinkInit
  BY DEF Init, Sink!SinkInit
<1>2. IInv /\ [Next]_vars => [Sink!SinkNext]_(Sink!sinkVars)
  <2> SUFFICES ASSUME IInv, [Next]_vars
               PROVE  Sink!SinkNext \/ UNCHANGED <<accepted, delivered>>
    BY DEF Sink!sinkVars
  <2>1. ASSUME flush, UNCHANGED accepted
        PROVE  Sink!HandOver \/ UNCHANGED <<accepted, delivered>>
    <3>1. CASE pendingLen = 0
      BY <2>1, <3>1 DEF flush, bufferVars
    <3>2. CASE pendingLen # 0
      <4>1. pendingPayloads # << >> /\ delivered' = delivered \o pendingPayloads
        BY <2>1, <3>2 DEF flush, IInv, BuffersInStep
      <4>2. delivered \in Seq(Events) /\ pendingPayloads \in Seq(Events)
        BY DEF IInv, TypeOK
      <4>3. delivered # accepted /\ delivered' = accepted
        BY <4>1, <4>2, ConcatGrows DEF IInv, NoLossNoDuplicate
      <4> QED BY <2>1, <4>3 DEF Sink!HandOver
    <3> QED BY <3>1, <3>2
  <2>2. ASSUME NEW e \in Events, PushWrite(e) PROVE Sink!Take(e)
    BY <2>2 DEF PushWrite, Sink!Take
  <2>3. ASSUME NEW e \in Events, PushFlush(e)
        PROVE  Sink!HandOver \/ UNCHANGED <<accepted, delivered>>
    BY <2>1, <2>3 DEF PushFlush
  <2>4. ASSUME flushOnTimer
        PROVE  Sink!HandOver \/ UNCHANGED <<accepted, delivered>>
    BY <2>1, <2>4 DEF flushOnTimer
  <2>5. ASSUME NEW e \in Events,
               \/ PushLock(e) \/ PushError(e) \/ PushFirst(e)
               \/ PushFits(e) \/ PushSchedule(e)
        PROVE  UNCHANGED <<accepted, delivered>>
    BY <2>5 DEF PushLock, PushError, PushFirst, PushFits, PushSchedule, bufferVars
  <2>6. ASSUME TimerFires \/ TimerLock \/ UNCHANGED vars
        PROVE  UNCHANGED <<accepted, delivered>>
    BY <2>6 DEF TimerFires, TimerLock, vars, bufferVars
  <2> QED
    BY <2>2, <2>3, <2>4, <2>5, <2>6 DEF Next, PushStep, Sink!SinkNext
<1> QED
  BY <1>1, <1>2, Invariance, PTL DEF Spec, Sink!SinkSafety
=============================================================================
