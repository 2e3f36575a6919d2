----------------------------- MODULE EventSink -----------------------------
(***************************************************************************)
(* What a batching output promises to its callers, with no lock, no timer  *)
(* and no size: events are accepted one at a time and handed over, in the  *)
(* order of acceptance, in groups that never split, lose or repeat an      *)
(* event, and every accepted event is handed over in the end.  Batcher is  *)
(* shown to implement this specification.                                  *)
(***************************************************************************)
EXTENDS Sequences

CONSTANT Events

VARIABLES
  taken,     \* events taken charge of, in order
  handed     \* events handed over to the consumer, in order

sinkVars == <<taken, handed>>

SinkInit ==
  /\ taken = << >>
  /\ handed = << >>

Take(e) ==
  /\ taken' = Append(taken, e)
  /\ UNCHANGED handed

\* Everything taken charge of so far is handed over at once.
HandOver ==
  /\ handed # taken
  /\ handed' = taken
  /\ UNCHANGED taken

SinkNext == HandOver \/ \E e \in Events : Take(e)

SinkSafety == SinkInit /\ [][SinkNext]_sinkVars

SinkSpec == SinkSafety /\ WF_sinkVars(HandOver)
=============================================================================
