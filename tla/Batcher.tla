------------------------------ MODULE Batcher ------------------------------
(***************************************************************************)
(* internal/pkg/batcher/batcher.go: a mutex-protected buffer of serialized *)
(* payloads, flushed by the Push that would overflow it or by a timer.     *)
(*                                                                         *)
(* Two kinds of goroutines compete for b.mx: one per event, which calls    *)
(* Push once with that event's payload, and those the runtime starts when  *)
(* a timer fires.  Timer.Stop cannot call back a timer that has fired: its *)
(* goroutine waits for the lock and then flushes whatever it finds.        *)
(*                                                                         *)
(* A payload is named by its event; its serialization is Size[e] bytes.    *)
(***************************************************************************)
EXTENDS Naturals, Sequences

CONSTANTS
  Events,          \* the events pushed, one goroutine each
  Size,            \* length of an event's serialization
  Unmarshalable,   \* the events marshalFn returns an error for
  BatchSize,       \* WithBatchSize, in bytes
  NoOne            \* mx when no goroutine holds the lock

\* The goroutine of a fired timer, as holder of the lock.
TimerGo == "flushOnTimer"

\* No marshal function in use returns zero bytes: a bulk item starts with
\* its action line.  config.go replaces a BatchSize that is not positive.
ASSUME SizeAssumption ==
  /\ Size \in [Events -> Nat \ {0}]
  /\ BatchSize \in Nat \ {0}
  /\ Unmarshalable \subseteq Events

ASSUME HolderAssumption ==
  /\ NoOne \notin Events
  /\ TimerGo \notin Events
  /\ TimerGo # NoOne

VARIABLES
  mx,               \* holder of b.mx, or NoOne
  pc,               \* position of each event's goroutine in Push
  pendingLen,       \* b.pending.Len()
  pendingPayloads,  \* b.pendingPayloads
  armed,            \* b.curTimer is running
  waiting,          \* goroutines of fired timers that wait for b.mx
  accepted,         \* events Push returned nil for, in order
  delivered,        \* events passed to callbackFn so far, in order
  lastBatch         \* arguments of the last call of callbackFn

bufferVars == <<pendingLen, pendingPayloads, delivered, lastBatch>>
timerVars == <<armed, waiting>>
vars == <<mx, pc, bufferVars, timerVars, accepted>>

\* Push: not called yet, holding the lock, past the flush of line 95, about
\* to write at line 98, returned nil, returned an error.
Positions == {"start", "locked", "schedule", "write", "done", "failed"}

Init ==
  /\ mx = NoOne
  /\ pc = [e \in Events |-> "start"]
  /\ pendingLen = 0
  /\ pendingPayloads = << >>
  /\ armed = FALSE
  /\ waiting = 0
  /\ accepted = << >>
  /\ delivered = << >>
  /\ lastBatch = [payloads |-> << >>, bytes |-> 0]

Goto(e, from, to) ==
  /\ pc[e] = from
  /\ pc' = [pc EXCEPT ![e] = to]

(***************************************************************************)
(* Definitions named Mutant... are the plausible bugs against which each   *)
(* property is tried: none of them is part of the specification.           *)
(***************************************************************************)
\* The payloads are handed over but pendingPayloads is not replaced.
MutantFlush ==
  \/ /\ pendingLen = 0
     /\ UNCHANGED bufferVars
  \/ /\ pendingLen # 0
     /\ pendingLen' = 0
     /\ delivered' = delivered \o pendingPayloads
     /\ lastBatch' = [payloads |-> pendingPayloads, bytes |-> pendingLen]
     /\ UNCHANGED pendingPayloads

\* The buffers are swapped for empty ones and handed to callbackFn; with no
\* pending bytes, callbackFn is not called.
flush ==
  \/ /\ pendingLen = 0
     /\ UNCHANGED bufferVars
  \/ /\ pendingLen # 0
     /\ pendingLen' = 0
     /\ pendingPayloads' = << >>
     /\ delivered' = delivered \o pendingPayloads
     /\ lastBatch' = [payloads |-> pendingPayloads, bytes |-> pendingLen]

\* Stop disarms a running timer but not the goroutines of fired ones;
\* AfterFunc then arms a new one.
scheduleFlushInterval ==
  /\ armed' = TRUE
  /\ UNCHANGED waiting

\* The new item is left out of the comparison.
MutantOverflows(e) == pendingLen > BatchSize

Overflows(e) == pendingLen + Size[e] > BatchSize

(***************************************************************************)
(* Push                                                                    *)
(***************************************************************************)
PushLock(e) ==
  /\ mx = NoOne
  /\ Goto(e, "start", "locked")
  /\ mx' = e
  /\ UNCHANGED <<bufferVars, timerVars, accepted>>

\* marshalFn fails: the deferred Unlock runs, nothing is buffered.
PushError(e) ==
  /\ e \in Unmarshalable
  /\ Goto(e, "locked", "failed")
  /\ mx' = NoOne
  /\ UNCHANGED <<bufferVars, timerVars, accepted>>

\* The first item of a batch does not start the timer.
MutantPushFirst(e) ==
  /\ e \notin Unmarshalable
  /\ pendingLen = 0
  /\ Goto(e, "locked", "write")
  /\ UNCHANGED <<mx, bufferVars, timerVars, accepted>>

PushFirst(e) ==
  /\ e \notin Unmarshalable
  /\ pendingLen = 0
  /\ Goto(e, "locked", "write")
  /\ scheduleFlushInterval
  /\ UNCHANGED <<mx, bufferVars, accepted>>

PushFits(e) ==
  /\ e \notin Unmarshalable
  /\ pendingLen # 0
  /\ ~Overflows(e)
  /\ Goto(e, "locked", "write")
  /\ UNCHANGED <<mx, bufferVars, timerVars, accepted>>

PushFlush(e) ==
  /\ e \notin Unmarshalable
  /\ pendingLen # 0
  /\ Overflows(e)
  /\ Goto(e, "locked", "schedule")
  /\ flush
  /\ UNCHANGED <<mx, timerVars, accepted>>

PushSchedule(e) ==
  /\ Goto(e, "schedule", "write")
  /\ scheduleFlushInterval
  /\ UNCHANGED <<mx, bufferVars, accepted>>

PushWrite(e) ==
  /\ Goto(e, "write", "done")
  /\ pendingLen' = pendingLen + Size[e]
  /\ pendingPayloads' = Append(pendingPayloads, e)
  /\ accepted' = Append(accepted, e)
  /\ mx' = NoOne
  /\ UNCHANGED <<delivered, lastBatch, timerVars>>

\* A step of the goroutine that holds the lock inside Push.
PushStep(e) ==
  \/ PushError(e) \/ PushFirst(e) \/ PushFits(e)
  \/ PushFlush(e) \/ PushSchedule(e) \/ PushWrite(e)

(***************************************************************************)
(* The flush timer                                                         *)
(***************************************************************************)
\* A timer that fires while the lock is held gives up (TryLock).
MutantTimerFires ==
  /\ armed
  /\ armed' = FALSE
  /\ waiting' = IF mx = NoOne THEN waiting + 1 ELSE waiting
  /\ UNCHANGED <<mx, pc, bufferVars, accepted>>

\* flushInterval elapses: the runtime starts a goroutine for flushOnTimer.
TimerFires ==
  /\ armed
  /\ armed' = FALSE
  /\ waiting' = waiting + 1
  /\ UNCHANGED <<mx, pc, bufferVars, accepted>>

\* The goroutine of a stopped timer is started all the same.
MutantTimerLock ==
  /\ mx = NoOne
  /\ mx' = TimerGo
  /\ waiting' = waiting - 1
  /\ UNCHANGED <<pc, armed, bufferVars, accepted>>

TimerLock ==
  /\ waiting > 0
  /\ mx = NoOne
  /\ mx' = TimerGo
  /\ waiting' = waiting - 1
  /\ UNCHANGED <<pc, armed, bufferVars, accepted>>

flushOnTimer ==
  /\ mx = TimerGo
  /\ flush
  /\ mx' = NoOne
  /\ UNCHANGED <<pc, timerVars, accepted>>

Next ==
  \/ \E e \in Events : PushLock(e) \/ PushStep(e)
  \/ TimerFires \/ TimerLock \/ flushOnTimer

\* A goroutine in its critical section keeps running; an armed timer fires
\* unless it is stopped; a Go mutex serves a goroutine that has waited too
\* long first, so that of a fired timer gets the lock however many calls of
\* Push compete for it.  Nothing obliges a caller to push.
Fairness ==
  /\ \A e \in Events : WF_vars(PushStep(e))
  /\ WF_vars(TimerFires)
  /\ SF_vars(TimerLock)
  /\ WF_vars(flushOnTimer)

Spec == Init /\ [][Next]_vars /\ Fairness

(***************************************************************************)
(* Properties                                                              *)
(***************************************************************************)
TypeOK ==
  /\ mx \in Events \union {NoOne, TimerGo}
  /\ pc \in [Events -> Positions]
  /\ pendingLen \in Nat
  /\ pendingPayloads \in Seq(Events)
  /\ armed \in BOOLEAN
  /\ waiting \in Nat
  /\ accepted \in Seq(Events)
  /\ delivered \in Seq(Events)
  /\ lastBatch \in [payloads : Seq(Events), bytes : Nat]

\* Every event Push returned nil for is still pending or was passed to the
\* callback: once, in the order the lock was granted, whoever flushed.
NoLossNoDuplicate == accepted = delivered \o pendingPayloads

\* Events never sit in the buffer with nobody left to flush them: a timer
\* runs, or the goroutine of a fired one is on its way, even when the Stop
\* of scheduleFlushInterval comes after the timer has fired.
PendingIsTimed ==
  pendingPayloads # << >> => armed \/ waiting > 0 \/ mx = TimerGo

\* "max batch size in bytes" (batcher.go:15): a batch exceeds batchSize only
\* if it is a single event that does so on its own.  The limit is of bytes,
\* as Push compares them, and not "a max number of payloads in the batch", as
\* the comment of the type has it (batcher.go:27): payloads are not counted.
BatchWithinSize ==
  lastBatch.bytes <= BatchSize \/ Len(lastBatch.payloads) = 1

Sink == INSTANCE EventSink WITH taken <- accepted, handed <- delivered

\* The batcher implements EventSink, fairness included: an event is taken
\* charge of when Push writes it, a flush hands over all taken so far, and
\* one comes in the end, however the goroutines compete for the lock and
\* although nobody may push again.
ImplementsSink == Sink!SinkSpec
=============================================================================
