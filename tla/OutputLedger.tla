---------------------------- MODULE OutputLedger ----------------------------
(***************************************************************************)
(* What an HTTP output promises about the events it is given, with no      *)
(* once, mutex, semaphore or cached client: an event is taken and counted, *)
(* its request is out at most once and never with more than Limit others,  *)
(* and it is settled once, ok or error, and not as an error if the server  *)
(* acknowledged it, by one of the statuses the client accepts.             *)
(* OutputClient is shown to implement this specification.                  *)
(***************************************************************************)
EXTENDS Integers, FiniteSets

CONSTANTS
  Events,
  Limit      \* requests that may be out at a time; 0 is unlimited

VARIABLES
  stage,             \* how far each event is
  acked,             \* events the server acknowledged
  total, ok, error   \* the counters of the output

ledgerVars == <<stage, acked, total, ok, error>>

LedgerInit ==
  /\ stage = [e \in Events |-> "new"]
  /\ acked = {}
  /\ total = 0 /\ ok = 0 /\ error = 0

\* e goes from one of the stages from on to the stage to.
Moves(e, from, to) ==
  /\ stage[e] \in from
  /\ stage' = [stage EXCEPT ![e] = to]

Out == {e \in Events : stage[e] = "out"}

TakeOn(e) ==
  /\ Moves(e, {"new"}, "taken")
  /\ total' = total + 1
  /\ UNCHANGED <<acked, ok, error>>

SendOut(e) ==
  /\ Limit # 0 => Cardinality(Out) < Limit
  /\ Moves(e, {"taken"}, "out")
  /\ UNCHANGED <<acked, total, ok, error>>

Acknowledge(e) ==
  /\ stage[e] = "out"
  /\ acked' = acked \union {e}
  /\ UNCHANGED <<stage, total, ok, error>>

\* With or without a request, with or without an acknowledgement.
Return(e) ==
  /\ Moves(e, {"taken", "out"}, "back")
  /\ UNCHANGED <<acked, total, ok, error>>

SettleOk(e) ==
  /\ Moves(e, {"back"}, "ok")
  /\ ok' = ok + 1
  /\ UNCHANGED <<acked, total, error>>

SettleError(e) ==
  /\ e \notin acked
  /\ Moves(e, {"back"}, "error")
  /\ error' = error + 1
  /\ UNCHANGED <<acked, total, ok>>

LedgerNext ==
  \E e \in Events :
    TakeOn(e) \/ SendOut(e) \/ Acknowledge(e) \/ Return(e) \/ SettleOk(e) \/ SettleError(e)

LedgerSafety == LedgerInit /\ [][LedgerNext]_ledgerVars

\* Whatever is taken is settled in the end.
LedgerSpec ==
  LedgerSafety /\ \A e \in Events : stage[e] = "taken" ~> stage[e] \in {"ok", "error"}
=============================================================================
