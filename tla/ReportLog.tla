------------------------------ MODULE ReportLog ------------------------------
(***************************************************************************)
(* What the writers of policy reports promise each other, with no copies,  *)
(* no versions and no conflicts: the result of an event is added to the    *)
(* end of one report in one step, or not at all, and the oldest result     *)
(* makes room for it only if the report is full.  PolicyReport is shown to *)
(* implement this specification.                                           *)
(***************************************************************************)
EXTENDS Naturals, Sequences

CONSTANTS Events, MaxEvents

VARIABLES
  results,   \* the results of each report, in order
  done       \* events that have written, or given up

logVars == <<results, done>>

LogInit ==
  /\ \A r \in DOMAIN results : \A i \in DOMAIN results[r] : results[r][i] \notin Events
  /\ done = {}

Finish(e) == e \notin done /\ done' = done \union {e}

MakeRoom(s) == IF Len(s) > MaxEvents THEN Tail(s) ELSE s

AddTo(e, r) ==
  /\ Finish(e)
  /\ results' = [results EXCEPT ![r] = MakeRoom(Append(results[r], e))]

AddNothing(e) == Finish(e) /\ UNCHANGED results

LogNext == \E e \in Events : AddNothing(e) \/ \E r \in DOMAIN results : AddTo(e, r)

LogSpec == LogInit /\ [][LogNext]_logVars
=============================================================================
