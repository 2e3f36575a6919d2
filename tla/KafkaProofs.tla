---------------------------- MODULE KafkaProofs -----------------------------
(***************************************************************************)
(* What the completion reports of each message, for any set of messages,   *)
(* any batching of them, and Async or not.                                 *)
(***************************************************************************)
EXTENDS Kafka, TLAPS

\* A message the Writer was given left KafkaProduce's first part behind, and
\* is in one place.
PlacedInv ==
  /\ \A e \in queued \union acked \union dropped :
       pc[e] \in {"waiting", "wroteNil", "wroteErr", "done"}
  /\ queued \intersect acked = {}
  /\ queued \intersect dropped = {}
  /\ acked \intersect dropped = {}

\* Errors are counted of messages that are neither acknowledged nor may
\* still be: what returns with an error was refused or dropped.
ErrorInv ==
  \A e \in Events :
    /\ pc[e] = "wroteErr" => e \notin queued /\ e \notin acked
    /\ pc[e] \in {"start", "write"} => errors[e] = 0
    /\ e \in queued => errors[e] = 0

IInv == TypeOK /\ PlacedInv /\ ErrorInv /\ OutcomeReported

LEMMA InitIInv == Init => IInv
BY DEF Init, IInv, TypeOK, PlacedInv, ErrorInv, OutcomeReported

\* One more of a count, for the messages in S.
LEMMA Incremented ==
  ASSUME TypeOK, NEW S \in SUBSET Events
  PROVE  /\ incrKafkaSuccessMetrics(S) =>
              /\ oks' \in [Events -> Nat] /\ errors' = errors
              /\ \A e \in Events : oks'[e] >= oks[e] /\ (e \in S => oks'[e] > 0)
         /\ incrKafkaErrorMetrics(S) =>
              /\ errors' \in [Events -> Nat] /\ oks' = oks
              /\ \A e \in Events :
                   /\ errors'[e] >= errors[e]
                   /\ e \in S => errors'[e] > 0
                   /\ e \notin S => errors'[e] = errors[e]
BY DEF TypeOK, incrKafkaSuccessMetrics, incrKafkaErrorMetrics

LEMMA StepIInv == IInv /\ [Next]_vars => IInv'
<1> SUFFICES ASSUME IInv, [Next]_vars PROVE IInv'
  OBVIOUS
<1> USE DEF IInv, PlacedInv, ErrorInv, OutcomeReported
<1>1. CASE UNCHANGED vars
  BY <1>1 DEF vars, TypeOK
<1>2. ASSUME NEW e \in Events, Produce(e) PROVE IInv'
  BY <1>2 DEF Produce, Goto, TypeOK
<1>3. ASSUME NEW e \in Events, MarshalError(e) PROVE IInv'
  <2>1. pc[e] = "unmarshalable" /\ pc' = [pc EXCEPT ![e] = "done"]
        /\ UNCHANGED <<queued, acked, dropped, total>> /\ incrKafkaErrorMetrics({e})
    BY <1>3 DEF MarshalError, Goto
  <2>2. e \notin queued /\ e \notin acked /\ e \notin dropped
    BY <2>1
  <2> QED BY <2>1, <2>2, Incremented DEF TypeOK
<1>4. ASSUME NEW e \in Events, Write(e) \/ WriteRefused(e) PROVE IInv'
  BY <1>4 DEF Write, WriteRefused, Goto, TypeOK
<1>5. ASSUME NEW e \in Events, WriteReturns(e) PROVE IInv'
  BY <1>5 DEF WriteReturns, Goto, TypeOK
<1>6. ASSUME NEW e \in Events, CountWrite(e) PROVE IInv'
  <2>1. pc' = [pc EXCEPT ![e] = "done"] /\ UNCHANGED <<queued, acked, dropped, total>>
    BY <1>6 DEF CountWrite, Goto
  <2>2. CASE pc[e] = "wroteNil" /\ incrKafkaSuccessMetrics({e})
    BY <2>1, <2>2, Incremented DEF TypeOK
  <2>3. CASE pc[e] = "wroteErr" /\ incrKafkaErrorMetrics({e})
    BY <2>1, <2>3, Incremented DEF TypeOK
  <2> QED BY <1>6, <2>2, <2>3 DEF CountWrite, Goto
<1>7. ASSUME NEW batch \in SUBSET queued, NEW failed \in BOOLEAN, CompleteBatch(batch, failed)
      PROVE  IInv'
  <2>1. /\ queued' = queued \ batch
        /\ pc' = pc /\ total' = total
        /\ batch \in SUBSET Events
    BY <1>7 DEF CompleteBatch, TypeOK
  <2>2. CASE failed
    <3>1. acked' = acked /\ dropped' = dropped \union batch /\ incrKafkaErrorMetrics(batch)
      BY <1>7, <2>2 DEF CompleteBatch, handleKafkaCompletion
    <3> QED BY <2>1, <3>1, Incremented DEF TypeOK
  <2>3. CASE ~failed
    <3>1. acked' = acked \union batch /\ dropped' = dropped /\ incrKafkaSuccessMetrics(batch)
      BY <1>7, <2>3 DEF CompleteBatch, handleKafkaCompletion
    <3> QED BY <2>1, <3>1, Incremented DEF TypeOK
  <2> QED BY <2>2, <2>3
<1> QED BY <1>1, <1>2, <1>3, <1>4, <1>5, <1>6, <1>7 DEF Next, Writer, Step

LEMMA AlwaysIInv == Spec => []IInv
BY InitIInv, StepIInv, PTL DEF Spec

(***************************************************************************)
(* How often an event is counted                                           *)
(***************************************************************************)
Once(b) == IF b THEN 1 ELSE 0

\* The completion of its batch counts an event, and so does KafkaProduce when
\* WriteMessages, or json.Marshal, returned: once each, and nobody else.
CountsInv ==
  \A e \in Events :
    oks[e] + errors[e] = Once(e \in acked \union dropped) + Once(pc[e] = "done")

\* Without Async KafkaProduce is told what the batch came to.
ToldInv ==
  ~Async => \A e \in Events : pc[e] = "wroteNil" \/ oks[e] > 0 => e \in acked

LEMMA CountedOneMore ==
  ASSUME TypeOK, NEW S \in SUBSET Events, NEW e \in Events,
         incrKafkaSuccessMetrics(S) \/ incrKafkaErrorMetrics(S)
  PROVE  oks'[e] + errors'[e] = oks[e] + errors[e] + Once(e \in S)
<1>1. oks[e] \in Nat /\ errors[e] \in Nat
  BY DEF TypeOK
<1> QED BY <1>1 DEF incrKafkaSuccessMetrics, incrKafkaErrorMetrics, Once

LEMMA CountsStep == IInv /\ CountsInv /\ [Next]_vars => CountsInv'
<1> SUFFICES ASSUME IInv, CountsInv, [Next]_vars, NEW e \in Events
             PROVE  oks'[e] + errors'[e] =
                      Once(e \in acked' \union dropped') + Once(pc'[e] = "done")
  BY DEF CountsInv
<1> USE DEF IInv, Once
<1>1. oks[e] + errors[e] = Once(e \in acked \union dropped) + Once(pc[e] = "done")
  BY DEF CountsInv
<1>2. CASE UNCHANGED <<acked, dropped, oks, errors>> /\ (pc'[e] = "done" <=> pc[e] = "done")
  BY <1>1, <1>2
<1>3. ASSUME NEW f \in Events,
             Produce(f) \/ Write(f) \/ WriteRefused(f) \/ WriteReturns(f)
      PROVE  UNCHANGED <<acked, dropped, oks, errors>> /\ (pc'[e] = "done" <=> pc[e] = "done")
  BY <1>3 DEF Produce, Write, WriteRefused, WriteReturns, Goto, TypeOK
<1>4. ASSUME NEW f \in Events, MarshalError(f) \/ CountWrite(f)
      PROVE  oks'[e] + errors'[e] =
               Once(e \in acked' \union dropped') + Once(pc'[e] = "done")
  <2>1. /\ pc[f] # "done" /\ pc' = [pc EXCEPT ![f] = "done"]
        /\ UNCHANGED <<acked, dropped>>
        /\ incrKafkaSuccessMetrics({f}) \/ incrKafkaErrorMetrics({f})
    BY <1>4 DEF MarshalError, CountWrite, Goto
  <2>2. oks'[e] + errors'[e] = oks[e] + errors[e] + Once(e \in {f})
    BY <2>1, CountedOneMore
  <2>3. Once(pc'[e] = "done") = Once(pc[e] = "done") + Once(e \in {f})
    BY <2>1 DEF TypeOK
  <2> QED BY <1>1, <2>1, <2>2, <2>3
<1>5. ASSUME NEW batch \in SUBSET queued, NEW failed \in BOOLEAN, CompleteBatch(batch, failed)
      PROVE  oks'[e] + errors'[e] =
               Once(e \in acked' \union dropped') + Once(pc'[e] = "done")
  <2>1. /\ batch \in SUBSET Events /\ pc' = pc
        /\ incrKafkaSuccessMetrics(batch) \/ incrKafkaErrorMetrics(batch)
        /\ acked' \union dropped' = (acked \union dropped) \union batch
    BY <1>5 DEF CompleteBatch, handleKafkaCompletion, TypeOK
  <2>2. oks'[e] + errors'[e] = oks[e] + errors[e] + Once(e \in batch)
    BY <2>1, CountedOneMore
  <2>3. Once(e \in acked' \union dropped') = Once(e \in acked \union dropped) + Once(e \in batch)
    BY <1>5, <2>1 DEF PlacedInv
  <2> QED BY <1>1, <2>1, <2>2, <2>3
<1>6. CASE UNCHANGED vars
  BY <1>2, <1>6 DEF vars
<1> QED BY <1>2, <1>3, <1>4, <1>5, <1>6 DEF Next, Step, Writer

LEMMA ToldStep == IInv /\ ToldInv /\ [Next]_vars => ToldInv'
<1> SUFFICES ASSUME IInv, ToldInv, [Next]_vars, ~Async, NEW e \in Events
             PROVE  pc'[e] = "wroteNil" \/ oks'[e] > 0 => e \in acked'
  BY DEF ToldInv
<1> USE DEF IInv, TypeOK
<1>1. pc[e] = "wroteNil" \/ oks[e] > 0 => e \in acked
  BY DEF ToldInv
<1>2. ASSUME NEW f \in Events, Step(f)
      PROVE  pc'[e] = "wroteNil" \/ oks'[e] > 0 => e \in acked'
  BY <1>1, <1>2 DEF Step, Produce, MarshalError, Write, WriteRefused, WriteReturns, CountWrite,
     Goto, incrKafkaSuccessMetrics, incrKafkaErrorMetrics
<1>3. ASSUME NEW batch \in SUBSET queued, NEW failed \in BOOLEAN, CompleteBatch(batch, failed)
      PROVE  pc'[e] = "wroteNil" \/ oks'[e] > 0 => e \in acked'
  BY <1>1, <1>3 DEF CompleteBatch, handleKafkaCompletion, incrKafkaSuccessMetrics,
     incrKafkaErrorMetrics
<1>4. CASE UNCHANGED vars
  BY <1>1, <1>4 DEF vars
<1> QED BY <1>2, <1>3, <1>4 DEF Next, Writer

(***************************************************************************)
(* Theorems                                                                *)
(***************************************************************************)
\* Type correctness of KafkaProduce and the Writer for any set of events.
THEOREM KafkaTypeCorrect == Spec => []TypeOK
BY AlwaysIInv, PTL DEF IInv

\* handleKafkaCompletion never lets an acknowledged message stand as an error
\* nor a dropped one without its error, whatever KafkaProduce said of it.
THEOREM OutcomeAlwaysReported == Spec => []OutcomeReported
BY AlwaysIInv, PTL DEF IInv

\* How often an event is counted, exactly: once by the completion of its batch
\* and once more by KafkaProduce, so that what was written ends counted twice,
\* and what was refused or not marshalled, once.
THEOREM CountsAreExact == Spec => []CountsInv
<1>1. Init => CountsInv
  BY DEF Init, CountsInv, Once
<1> QED BY <1>1, CountsStep, AlwaysIInv, PTL DEF Spec

\* Without Async the two counts of an event are of the same kind.
THEOREM SyncCountsAgree ==
  ~Async /\ Spec => [](\A e \in Events : oks[e] = 0 \/ errors[e] = 0)
<1> SUFFICES ASSUME ~Async PROVE Spec => [](\A e \in Events : oks[e] = 0 \/ errors[e] = 0)
  OBVIOUS
<1>1. Init => ToldInv
  BY DEF Init, ToldInv
<1>2. IInv /\ ToldInv => \A e \in Events : oks[e] = 0 \/ errors[e] = 0
  BY DEF IInv, TypeOK, ToldInv, OutcomeReported
<1> QED BY <1>1, <1>2, ToldStep, AlwaysIInv, PTL DEF Spec
=============================================================================
