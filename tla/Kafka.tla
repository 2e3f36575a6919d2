------------------------------- MODULE Kafka -------------------------------
(***************************************************************************)
(* outputs/kafka.go: each event's goroutine hands its message to the       *)
(* kafka-go Writer (external), which groups messages into batches, sends   *)
(* them and calls handleKafkaCompletion once per batch.  WriteMessages     *)
(* returns at once if the Writer is Async, else when the batch completed.  *)
(***************************************************************************)
EXTENDS Naturals, FiniteSets

CONSTANTS
  Events,         \* the events, one goroutine each
  Unmarshalable,  \* events json.Marshal fails for
  Async           \* config.Kafka.Async

ASSUME KafkaAssumption ==
  /\ Unmarshalable \subseteq Events
  /\ Async \in BOOLEAN

VARIABLES
  pc,          \* position of each event's goroutine
  queued,      \* messages in the Writer
  acked,       \* messages the broker acknowledged
  dropped,     \* messages of batches that failed for good
  total,       \* c.Stats.Kafka
  oks, errors  \* how often each event was counted ok and error there and in
               \* PromStats; OTLPMetrics, not modelled, gets one per batch

vars == <<pc, queued, acked, dropped, total, oks, errors>>

Init ==
  /\ pc = [e \in Events |-> "start"]
  /\ queued = {}
  /\ acked = {}
  /\ dropped = {}
  /\ total = 0
  /\ oks = [e \in Events |-> 0]
  /\ errors = [e \in Events |-> 0]

Goto(e, from, to) ==
  /\ pc[e] = from
  /\ pc' = [pc EXCEPT ![e] = to]

incrKafkaSuccessMetrics(S) ==
  /\ oks' = [e \in Events |-> IF e \in S THEN oks[e] + 1 ELSE oks[e]]
  /\ UNCHANGED errors

incrKafkaErrorMetrics(S) ==
  /\ errors' = [e \in Events |-> IF e \in S THEN errors[e] + 1 ELSE errors[e]]
  /\ UNCHANGED oks

(***************************************************************************)
(* KafkaProduce                                                            *)
(***************************************************************************)
Produce(e) ==
  /\ Goto(e, "start", IF e \in Unmarshalable THEN "unmarshalable" ELSE "write")
  /\ total' = total + 1
  /\ UNCHANGED <<queued, acked, dropped, oks, errors>>

MarshalError(e) ==
  /\ Goto(e, "unmarshalable", "done")
  /\ incrKafkaErrorMetrics({e})
  /\ UNCHANGED <<queued, acked, dropped, total>>

\* WriteMessages puts the message in a batch; Async, it returns nil then.
Write(e) ==
  /\ Goto(e, "write", IF Async THEN "wroteNil" ELSE "waiting")
  /\ queued' = queued \union {e}
  /\ UNCHANGED <<acked, dropped, total, oks, errors>>

\* Mutant: a refused message leaves the goroutine where nobody takes it on.
MutantWriteRefused(e) ==
  /\ Goto(e, "write", "refused")
  /\ UNCHANGED <<queued, acked, dropped, total, oks, errors>>

\* WriteMessages refuses the message (too large, no metadata, closed).
WriteRefused(e) ==
  /\ Goto(e, "write", "wroteErr")
  /\ UNCHANGED <<queued, acked, dropped, total, oks, errors>>

\* Mutant: only a batch that succeeded is waited for.
MutantWriteReturns(e) ==
  /\ e \in acked /\ Goto(e, "waiting", "wroteNil")
  /\ UNCHANGED <<queued, acked, dropped, total, oks, errors>>

\* Without Async it returns with the outcome of the batch, once completed.
WriteReturns(e) ==
  /\ \/ e \in acked /\ Goto(e, "waiting", "wroteNil")
     \/ e \in dropped /\ Goto(e, "waiting", "wroteErr")
  /\ UNCHANGED <<queued, acked, dropped, total, oks, errors>>

CountWrite(e) ==
  /\ \/ Goto(e, "wroteNil", "done") /\ incrKafkaSuccessMetrics({e})
     \/ Goto(e, "wroteErr", "done") /\ incrKafkaErrorMetrics({e})
  /\ UNCHANGED <<queued, acked, dropped, total>>

(***************************************************************************)
(* The Writer: a batch succeeds or fails as a whole, then Completion runs. *)
(***************************************************************************)
\* Mutant: the error the completion is called with is ignored.
MutantCompletion(batch, failed) == incrKafkaSuccessMetrics(batch)

handleKafkaCompletion(batch, failed) ==
  IF failed THEN incrKafkaErrorMetrics(batch) ELSE incrKafkaSuccessMetrics(batch)

CompleteBatch(batch, failed) ==
  /\ queued' = queued \ batch
  /\ acked' = IF failed THEN acked ELSE acked \union batch
  /\ dropped' = IF failed THEN dropped \union batch ELSE dropped
  /\ handleKafkaCompletion(batch, failed)
  /\ UNCHANGED <<pc, total>>

Writer ==
  \E batch \in SUBSET queued \ {{}}, failed \in BOOLEAN : CompleteBatch(batch, failed)

Step(e) ==
  \/ Produce(e) \/ MarshalError(e) \/ Write(e) \/ WriteRefused(e)
  \/ WriteReturns(e) \/ CountWrite(e)

Next == Writer \/ \E e \in Events : Step(e)

\* Goroutines run and the Writer flushes every batch by its BatchTimeout.
Spec ==
  /\ Init /\ [][Next]_vars
  /\ WF_vars(Writer) /\ \A e \in Events : WF_vars(Step(e))

(***************************************************************************)
(* Properties                                                              *)
(***************************************************************************)
TypeOK ==
  /\ pc \in [Events -> {"start", "unmarshalable", "write", "waiting", "wroteNil",
                        "wroteErr", "done"}]
  /\ queued \subseteq Events /\ acked \subseteq Events /\ dropped \subseteq Events
  /\ total \in Nat
  /\ oks \in [Events -> Nat] /\ errors \in [Events -> Nat]

\* An acknowledged message is never reported as an error, and a dropped one
\* is reported as an error by the completion, whatever was said before.
OutcomeReported ==
  /\ \A e \in acked : oks[e] > 0 /\ errors[e] = 0
  /\ \A e \in dropped : errors[e] > 0

\* "Errors are logged/captured via handleKafkaCompletion function, ignore
\* here" (kafka.go:166): the completion is what counts, so that an event is
\* counted ok or error once.
CountedOnce == \A e \in Events : oks[e] + errors[e] <= 1

\* Every goroutine that writes ends, its event counted, whatever the batch
\* came to, and no message stays in the Writer.
EventuallyReported ==
  \A e \in Events : pc[e] = "write" ~>
    pc[e] = "done" /\ e \notin queued /\ oks[e] + errors[e] > 0
=============================================================================
