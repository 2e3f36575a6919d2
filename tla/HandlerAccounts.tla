-------------------------- MODULE HandlerAccounts --------------------------
(***************************************************************************)
(* What a handler does when no other runs beside it: an account is what is *)
(* left of its program, what it counted, what reached the service, whether *)
(* a call failed and the connections it has open.  What the accounts of an *)
(* output are to satisfy is stated here of every one of them, so that it   *)
(* can be asked whether it still holds of many handlers at once.           *)
(***************************************************************************)
EXTENDS HandlerSteps, FiniteSets, Integers

CONSTANTS
  Programs,      \* what the goroutine of an output may execute
  Accounts,      \* the accounts that may come of it, by output
  Exempt,        \* backends an output does not count in as it should
  Unreliable,    \* outputs that count ok what may not have been sent
  Repeating,     \* outputs that may send an event twice
  Leaky          \* outputs that do not close their connections

Outputs == DOMAIN Programs

Fallible == {"call", "send", "open", "connect", "publish", "ensure"}

(***************************************************************************)
(* Execution                                                               *)
(***************************************************************************)
Begin(program) ==
  [left |-> program, counted |-> << >>, sent |-> 0, published |-> 0, refused |-> FALSE,
   opened |-> 0]

\* The next step does what it is there for.
Onwards(a) ==
  LET step == Head(a.left)
      One(kinds) == IF step.do \in kinds THEN 1 ELSE 0
  IN  [left      |-> Tail(a.left),
       counted   |-> IF step.do = "count" THEN Append(a.counted, step) ELSE a.counted,
       sent      |-> a.sent + One({"send"}),
       published |-> a.published + One({"publish"}),
       refused   |-> a.refused,
       opened    |-> a.opened + One({"open"}) - One({"close"})]

\* The library sends what it was handed.
Flushed(a) == [Onwards(a) EXCEPT !.sent = @ + 1]

\* The call the next step makes returns an error.
Refused(a) == [a EXCEPT !.left = Head(a.left).else, !.refused = TRUE]

\* Nothing follows a panic.
AfterAlone(a) ==
  IF a.left = << >> \/ Head(a.left).do = "panic" THEN {}
    ELSE {Onwards(a)}
           \union (IF Head(a.left).do \in Fallible THEN {Refused(a)} ELSE {})
           \union (IF Head(a.left).do = "hand" THEN {Flushed(a)} ELSE {})

\* What the goroutine of an output may have left, and the steps it may take.
Remainders(o) == {a.left : a \in Accounts[o]}
Steps(o) == {Head(program) : program \in Remainders(o) \ {<< >>}}
KeptBy(o) == {step.what : step \in {s \in Steps(o) : s.do \in {"ensure", "use"}}}

AccountOf(o) ==
  [left : Seq(Steps(o)), counted : Seq(Steps(o)), sent : Nat, published : Nat,
   refused : BOOLEAN, opened : Int]

\* Accounts is closed under execution.
ASSUME AccountsAssumption ==
  \A o \in Outputs :
    /\ \A program \in Programs[o] : Begin(program) \in Accounts[o]
    /\ Accounts[o] \subseteq AccountOf(o)
    /\ \A a \in Accounts[o] : AfterAlone(a) \subseteq Accounts[o]

(***************************************************************************)
(* What the account of a handler is to satisfy                             *)
(***************************************************************************)
\* The entries with that status that backend b holds for output o.
Entries(o, counts, b, status) ==
  {i \in DOMAIN counts :
     /\ counts[i].status = status
     /\ b \in DOMAIN counts[i].at
     /\ counts[i].at[b] = o}

Says(counts, status) == \E i \in DOMAIN counts : counts[i].status = status

\* Every backend counted the event once as ok or error of this output, expvar
\* once in total, and none under another output.
Balanced(o, counts) ==
  \A b \in Backends \ Exempt[o] :
    /\ Cardinality(Entries(o, counts, b, "ok") \union Entries(o, counts, b, "error")) = 1
    /\ b = "expvar" => Cardinality(Entries(o, counts, b, "total")) = 1
    /\ \A i \in DOMAIN counts : b \in DOMAIN counts[i].at => counts[i].at[b] = o

\* A publication that was queued may still be sent, or lost.
Sound(o, a) ==
  /\ a.opened \in Nat
  /\ Says(a.counted, "ok") /\ o \notin Unreliable => a.sent > 0
  /\ Says(a.counted, "error") => a.refused
  /\ o \notin Repeating => a.sent + a.published <= 1
  /\ a.left = << >> => Balanced(o, a.counted)
  /\ a.left = << >> /\ o \notin Leaky => a.opened = 0

\* Every handler is sound when it runs alone.
ASSUME SoundAssumption ==
  /\ Exempt \in [Outputs -> SUBSET Backends]
  /\ \A o \in Outputs : \A a \in Accounts[o] : Sound(o, a)
=============================================================================
