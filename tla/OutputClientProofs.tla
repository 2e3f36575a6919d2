------------------------- MODULE OutputClientProofs -------------------------
(***************************************************************************)
(* Safety of OutputClient for every finite set of events and every limit:  *)
(* the concurrency limit, the initialisation of the semaphore, the cached  *)
(* client and the balance of the counters.  Each part of the invariant is  *)
(* preserved by itself, given type correctness.                            *)
(***************************************************************************)
EXTENDS OutputClient, FiniteSetTheorems, TLAPS

\* initOnce: one goroutine at most runs the function, and nobody is past
\* the call before it is done.
OnceInv ==
  /\ \A e, f \in Events : pc[e] = "initSem" /\ pc[f] = "initSem" => e = f
  /\ \A e \in Events : pc[e] = "initSem" => once = "running"
  /\ \A e \in Events : pc[e] \notin {"start", "once", "initSem"} => once = "done"
  /\ once = "done" => sem = MaxConcurrentRequests

\* c.mx protects httpcli: whoever configures found it unset and still does.
CliInv ==
  /\ \A e \in Events : pc[e] \in {"locked", "configure"} <=> mx = e
  /\ \A e \in Events : pc[e] = "configure" => ~httpcli
  /\ transports = IF httpcli THEN 1 ELSE 0

Holders == {e \in Events : pc[e] \in {"flight", "answered", "noAnswer", "panicked"}}

\* The permits taken are those of the goroutines that will release them.
PermitInv ==
  /\ inUse = Cardinality(Holders)
  /\ MaxConcurrentRequests # 0 => inUse <= MaxConcurrentRequests

AckInv == \A e \in acked : pc[e] \in {"answered", "returnedNil", "ok"}

IInv == TypeOK /\ OnceInv /\ CliInv /\ PermitInv /\ AccountsBalance /\ AckInv

\* Adding or removing one element of a set of events.
LEMMA OneMore ==
  ASSUME NEW S \in SUBSET Events, NEW e \in Events, e \notin S
  PROVE  Cardinality(S \union {e}) = Cardinality(S) + 1 /\ Cardinality(S) \in Nat
BY ClientAssumption, FS_Subset, FS_AddElement, FS_CardinalityType

LEMMA OneLess ==
  ASSUME NEW S \in SUBSET Events, NEW e \in S
  PROVE  Cardinality(S \ {e}) = Cardinality(S) - 1 /\ Cardinality(S) \in Nat \ {0}
<1>1. IsFiniteSet(S)
  BY ClientAssumption, FS_Subset
<1>2. Cardinality(S \ {e}) = Cardinality(S) - 1 /\ Cardinality(S) \in Nat
  BY <1>1, FS_RemoveElement, FS_CardinalityType
<1>3. Cardinality(S \ {e}) \in Nat
  BY <1>1, FS_Subset, FS_CardinalityType
<1> QED BY <1>2, <1>3

LEMMA InitIInv == Init => IInv
<1> SUFFICES ASSUME Init PROVE IInv
  OBVIOUS
<1>1. TypeOK
  BY ClientAssumption DEF Init, TypeOK, Positions
<1>2. OnceInv /\ CliInv /\ AckInv
  BY ClientAssumption DEF Init, OnceInv, CliInv, AckInv
<1>3. Holders = {} /\ InProgress = {}
  BY DEF Init, Holders, InProgress
<1>4. PermitInv /\ AccountsBalance
  BY <1>3, FS_EmptySet, ClientAssumption DEF Init, PermitInv, AccountsBalance
<1> QED
  BY <1>1, <1>2, <1>4 DEF IInv

\* The counters stay natural numbers because a permit is released only by
\* who holds one.
LEMMA TypeStep == TypeOK /\ PermitInv /\ [Next]_vars => TypeOK'
<1> SUFFICES ASSUME TypeOK, PermitInv, [Next]_vars PROVE TypeOK'
  OBVIOUS
<1> USE DEF TypeOK, Positions, Goto
<1>1. CASE UNCHANGED vars
  BY <1>1 DEF vars, semVars, cliVars, stats
<1>2. ASSUME NEW e \in Events, Release(e) PROVE TypeOK'
  <2>1. e \in Holders
    BY <1>2 DEF Release, Holders
  <2>2. inUse - 1 \in Nat
    <3>1. Holders \in SUBSET Events
      BY DEF Holders
    <3>2. Cardinality(Holders) \in Nat \ {0}
      BY <2>1, <3>1, OneLess
    <3> QED BY <3>2 DEF PermitInv
  <2> QED BY <1>2, <2>2 DEF Release, cliVars, stats
<1>3. ASSUME NEW e \in Events,
             \/ Begin(e) \/ OnceFirst(e) \/ InitSemaphore(e) \/ OncePassed(e)
             \/ Encode(e) \/ BuildRequest(e) \/ PanicEarly(e)
      PROVE  TypeOK'
  BY <1>3 DEF Begin, OnceFirst, InitSemaphore, OncePassed, Encode, BuildRequest,
              PanicEarly, semVars, cliVars, stats
<1>4. ASSUME NEW e \in Events,
             ClientLock(e) \/ ClientCached(e) \/ ClientMissing(e)
      PROVE  TypeOK'
  <2>1. pc' \in [Events -> Positions] /\ mx' \in Events \union {NoOne}
    BY <1>4 DEF ClientLock, ClientCached, ClientMissing, cliVars
  <2> QED
    BY <1>4, <2>1 DEF ClientLock, ClientCached, ClientMissing, semVars, cliVars, stats
<1>6. ASSUME NEW e \in Events, Configure(e) PROVE TypeOK'
  <2>1. httpcli' \in BOOLEAN
    BY <1>6, Zenon DEF Configure
  <2>2. transports' \in Nat
    BY <1>6 DEF Configure
  <2> QED BY <1>6, <2>1, <2>2 DEF Configure, semVars, stats
<1>5. ASSUME NEW e \in Events,
             \/ Acquire(e) \/ Server(e) \/ CountOk(e) \/ CountError(e)
      PROVE  TypeOK'
  BY <1>5 DEF Acquire, Server, Answered, NotAnswered, CountOk, CountError,
              semVars, cliVars, stats
<1> QED
  BY <1>1, <1>2, <1>3, <1>4, <1>5, <1>6 DEF Next, Local

\* sync.Once: the function runs once, everybody else waits for its end.
LEMMA OnceStep == TypeOK /\ OnceInv /\ [Next]_vars => OnceInv'
<1> SUFFICES ASSUME TypeOK, OnceInv, [Next]_vars PROVE OnceInv'
  OBVIOUS
<1> USE DEF TypeOK, OnceInv, Goto
<1>1. CASE UNCHANGED vars
  BY <1>1 DEF vars, semVars
<1>2. ASSUME NEW e \in Events, OnceFirst(e) PROVE OnceInv'
  BY <1>2 DEF OnceFirst
<1>3. ASSUME NEW e \in Events, InitSemaphore(e) PROVE OnceInv'
  BY <1>3 DEF InitSemaphore
<1>4. ASSUME NEW e \in Events, Begin(e) \/ OncePassed(e) \/ Encode(e) PROVE OnceInv'
  BY <1>4 DEF Begin, OncePassed, Encode, semVars
<1>5. ASSUME NEW e \in Events,
             \/ ClientLock(e) \/ ClientCached(e) \/ ClientMissing(e) \/ Configure(e)
      PROVE  OnceInv'
  BY <1>5 DEF ClientLock, ClientCached, ClientMissing, Configure, semVars
<1>6. ASSUME NEW e \in Events,
             \/ BuildRequest(e) \/ PanicEarly(e) \/ Acquire(e) \/ Server(e)
      PROVE  OnceInv'
  BY <1>6 DEF BuildRequest, PanicEarly, Acquire, Server, Answered, NotAnswered, semVars
<1>7. ASSUME NEW e \in Events, Release(e) \/ CountOk(e) \/ CountError(e) PROVE OnceInv'
  BY <1>7 DEF Release, CountOk, CountError, semVars
<1> QED
  BY <1>1, <1>2, <1>3, <1>4, <1>5, <1>6, <1>7 DEF Next, Local

\* c.mx makes check, configuration and caching one step for the others.
LEMMA CliStep == TypeOK /\ CliInv /\ [Next]_vars => CliInv'
<1> SUFFICES ASSUME TypeOK, CliInv, [Next]_vars PROVE CliInv'
  OBVIOUS
<1> USE ClientAssumption DEF TypeOK, CliInv, Goto
<1>1. CASE UNCHANGED vars
  BY <1>1 DEF vars, cliVars
<1>2. ASSUME NEW e \in Events, ClientLock(e) PROVE CliInv'
  BY <1>2 DEF ClientLock
<1>3. ASSUME NEW e \in Events, ClientCached(e) PROVE CliInv'
  BY <1>3 DEF ClientCached
<1>4. ASSUME NEW e \in Events, ClientMissing(e) PROVE CliInv'
  BY <1>4 DEF ClientMissing, cliVars
<1>5. ASSUME NEW e \in Events, Configure(e) PROVE CliInv'
  BY <1>5 DEF Configure
<1>6. ASSUME NEW e \in Events,
             \/ Begin(e) \/ OnceFirst(e) \/ InitSemaphore(e) \/ OncePassed(e)
             \/ Encode(e) \/ BuildRequest(e) \/ PanicEarly(e)
      PROVE  CliInv'
  BY <1>6 DEF Begin, OnceFirst, InitSemaphore, OncePassed, Encode, BuildRequest,
              PanicEarly, cliVars
<1>7. ASSUME NEW e \in Events,
             \/ Acquire(e) \/ Server(e) \/ Release(e) \/ CountOk(e) \/ CountError(e)
      PROVE  CliInv'
  BY <1>7 DEF Acquire, Server, Answered, NotAnswered, Release, CountOk, CountError,
              cliVars
<1> QED
  BY <1>1, <1>2, <1>3, <1>4, <1>5, <1>6, <1>7 DEF Next, Local

\* Acquire adds a holder under the limit, Release removes one, and no other
\* step changes who holds a permit.
LEMMA PermitStep == TypeOK /\ OnceInv /\ PermitInv /\ [Next]_vars => PermitInv'
<1> SUFFICES ASSUME TypeOK, OnceInv, PermitInv, [Next]_vars PROVE PermitInv'
  OBVIOUS
<1> USE DEF TypeOK, Goto, Holders
<1>1. CASE UNCHANGED vars
  BY <1>1 DEF vars, semVars, PermitInv
<1>2. ASSUME NEW e \in Events, Acquire(e) PROVE PermitInv'
  <2>1. e \notin Holders /\ Holders' = Holders \union {e}
    BY <1>2 DEF Acquire
  <2>2. sem = MaxConcurrentRequests
    BY <1>2 DEF Acquire, OnceInv
  <2>3. Cardinality(Holders \union {e}) = Cardinality(Holders) + 1
    BY <2>1, OneMore
  <2> QED
    BY <1>2, <2>1, <2>2, <2>3, ClientAssumption DEF Acquire, PermitFree, PermitInv
<1>3. ASSUME NEW e \in Events, Release(e) PROVE PermitInv'
  <2>1. e \in Holders /\ Holders' = Holders \ {e}
    BY <1>3 DEF Release
  <2>2. Cardinality(Holders \ {e}) = Cardinality(Holders) - 1
    BY <2>1, OneLess
  <2>3. inUse' = inUse - 1
    BY <1>3 DEF Release
  <2> HIDE DEF Holders
  <2> QED
    BY <2>1, <2>2, <2>3, ClientAssumption DEF PermitInv
<1>4. ASSUME NEW e \in Events,
             \/ Begin(e) \/ OnceFirst(e) \/ InitSemaphore(e) \/ OncePassed(e)
             \/ Encode(e) \/ BuildRequest(e) \/ PanicEarly(e)
      PROVE  PermitInv'
  <2>1. Holders' = Holders /\ inUse' = inUse
    BY <1>4 DEF Begin, OnceFirst, InitSemaphore, OncePassed, Encode, BuildRequest,
                PanicEarly, semVars
  <2> QED BY <2>1 DEF PermitInv
<1>5. ASSUME NEW e \in Events,
             \/ ClientLock(e) \/ ClientCached(e) \/ ClientMissing(e) \/ Configure(e)
             \/ Server(e) \/ CountOk(e) \/ CountError(e)
      PROVE  PermitInv'
  <2>1. Holders' = Holders /\ inUse' = inUse
    BY <1>5 DEF ClientLock, ClientCached, ClientMissing, Configure, Server, Answered,
                NotAnswered, CountOk, CountError, semVars
  <2> QED BY <2>1 DEF PermitInv
<1> QED
  BY <1>1, <1>2, <1>3, <1>4, <1>5 DEF Next, Local

\* Begin counts the event it lets in, CountOk and CountError the one they
\* let out.
LEMMA BalanceStep == TypeOK /\ AccountsBalance /\ [Next]_vars => AccountsBalance'
<1> SUFFICES ASSUME TypeOK, AccountsBalance, [Next]_vars PROVE AccountsBalance'
  OBVIOUS
<1> USE DEF TypeOK
<1>1. CASE UNCHANGED vars
  BY <1>1 DEF vars, stats, AccountsBalance, InProgress
<1>2. ASSUME NEW e \in Events, Begin(e) PROVE AccountsBalance'
  <2>1. e \notin InProgress /\ InProgress' = InProgress \union {e}
    BY <1>2 DEF Begin, Goto, InProgress
  <2>2. /\ Cardinality(InProgress \union {e}) = Cardinality(InProgress) + 1
        /\ Cardinality(InProgress) \in Nat
    BY <2>1, OneMore DEF InProgress
  <2>3. total' = total + 1 /\ ok' = ok /\ error' = error
    BY <1>2 DEF Begin
  <2> QED BY <2>1, <2>2, <2>3 DEF AccountsBalance
<1>3. ASSUME NEW e \in Events, CountOk(e) \/ CountError(e) PROVE AccountsBalance'
  <2>1. e \in InProgress /\ InProgress' = InProgress \ {e}
    BY <1>3 DEF CountOk, CountError, Goto, InProgress
  <2>2. /\ Cardinality(InProgress \ {e}) = Cardinality(InProgress) - 1
        /\ Cardinality(InProgress) \in Nat
    BY <2>1, OneLess DEF InProgress
  <2>3. total' = total /\ ok' + error' = ok + error + 1
    BY <1>3 DEF CountOk, CountError, stats
  <2> QED BY <2>1, <2>2, <2>3 DEF AccountsBalance
<1>4. ASSUME NEW e \in Events,
             \/ OnceFirst(e) \/ InitSemaphore(e) \/ OncePassed(e) \/ Encode(e)
             \/ BuildRequest(e) \/ PanicEarly(e) \/ Acquire(e)
      PROVE  AccountsBalance'
  <2>1. InProgress' = InProgress /\ UNCHANGED stats
    BY <1>4 DEF OnceFirst, InitSemaphore, OncePassed, Encode, BuildRequest,
                PanicEarly, Acquire, Goto, InProgress
  <2> QED BY <2>1 DEF AccountsBalance, stats
<1>5. ASSUME NEW e \in Events,
             \/ ClientLock(e) \/ ClientCached(e) \/ ClientMissing(e) \/ Configure(e)
             \/ Server(e) \/ Release(e)
      PROVE  AccountsBalance'
  <2>1. InProgress' = InProgress /\ UNCHANGED stats
    BY <1>5 DEF ClientLock, ClientCached, ClientMissing, Configure, Server, Answered,
                NotAnswered, Release, Goto, InProgress
  <2> QED BY <2>1 DEF AccountsBalance, stats
<1> QED
  BY <1>1, <1>2, <1>3, <1>4, <1>5 DEF Next, Local

\* After an accepted status only the ok path is left.
LEMMA AckStep == TypeOK /\ AckInv /\ [Next]_vars => AckInv'
<1> SUFFICES ASSUME TypeOK, AckInv, [Next]_vars PROVE AckInv'
  OBVIOUS
<1> USE DEF TypeOK, AckInv, Goto
<1>1. CASE UNCHANGED vars
  BY <1>1 DEF vars
<1>2. ASSUME NEW e \in Events, Server(e) \/ Release(e) PROVE AckInv'
  BY <1>2 DEF Server, Answered, NotAnswered, Release
<1>3. ASSUME NEW e \in Events, CountOk(e) \/ CountError(e) PROVE AckInv'
  BY <1>3 DEF CountOk, CountError
<1>4. ASSUME NEW e \in Events,
             \/ Begin(e) \/ OnceFirst(e) \/ InitSemaphore(e) \/ OncePassed(e)
             \/ Encode(e) \/ BuildRequest(e) \/ PanicEarly(e) \/ Acquire(e)
      PROVE  AckInv'
  BY <1>4 DEF Begin, OnceFirst, InitSemaphore, OncePassed, Encode, BuildRequest,
              PanicEarly, Acquire
<1>5. ASSUME NEW e \in Events,
             \/ ClientLock(e) \/ ClientCached(e) \/ ClientMissing(e) \/ Configure(e)
      PROVE  AckInv'
  BY <1>5 DEF ClientLock, ClientCached, ClientMissing, Configure
<1> QED
  BY <1>1, <1>2, <1>3, <1>4, <1>5 DEF Next, Local

LEMMA Invariance == Spec => []IInv
<1>1. IInv /\ [Next]_vars => IInv'
  BY TypeStep, OnceStep, CliStep, PermitStep, BalanceStep, AckStep DEF IInv
<1> QED
  BY InitIInv, <1>1, PTL DEF Spec

\* Type correctness of the HTTP client.
THEOREM ClientTypeCorrect == Spec => []TypeOK
BY Invariance, PTL DEF IInv

\* client.go:264-272, 356-361: never more requests on the wire than
\* MaxConcurrentRequests, for any number of events.
THEOREM LimitHolds == Spec => []ConcurrencyLimit
<1>1. IInv => ConcurrencyLimit
  <2> SUFFICES ASSUME IInv, MaxConcurrentRequests # 0
               PROVE  Cardinality({e \in Events : pc[e] = "flight"})
                        <= MaxConcurrentRequests
    BY DEF ConcurrencyLimit
  <2> DEFINE Flight == {e \in Events : pc[e] = "flight"}
  <2>1. IsFiniteSet(Holders) /\ Flight \in SUBSET Holders
    BY ClientAssumption, FS_Subset DEF Holders
  <2>2. Cardinality(Flight) <= Cardinality(Holders) /\ IsFiniteSet(Flight)
    BY <2>1, FS_Subset
  <2>3. Cardinality(Flight) \in Nat
    BY <2>2, FS_CardinalityType
  <2> QED
    BY <2>2, <2>3, ClientAssumption DEF IInv, TypeOK, PermitInv
<1> QED BY Invariance, <1>1, PTL

\* client.go:264-272: whoever gets past initOnce finds the semaphore.
THEOREM SemaphoreIsReady == Spec => []SemaphoreReady
<1>1. IInv => SemaphoreReady
  BY DEF IInv, OnceInv, SemaphoreReady
<1> QED BY Invariance, <1>1, PTL

\* client.go:432-450: one configured transport at most.
THEOREM TransportIsShared == Spec => []OneTransport
<1>1. IInv => OneTransport
  BY DEF IInv, CliInv, OneTransport
<1> QED BY Invariance, <1>1, PTL

\* slack.go and the handlers of its shape: every event counted in total is
\* counted once more, or is still on its way.
THEOREM AccountsAlwaysBalance == Spec => []AccountsBalance
BY Invariance, PTL DEF IInv

\* What is answered with 200, 201, 202 or 204 can only be counted ok: a body
\* that is read afterwards cannot fail the request, and no other event's
\* request changes its result.
THEOREM AckedNeverError == Spec => []AckedIsNotError
<1>1. IInv => AckedIsNotError
  BY DEF IInv, AckInv, AckedIsNotError
<1> QED BY Invariance, <1>1, PTL

\* No goroutine panics inside sendRequest.
NeverPanics == [][\A e \in Events : ~PanicEarly(e) /\ pc'[e] # "panicked"]_vars

\* The panics sendRequest recovers from are all that makes OkIsAcked false:
\* without one, ok is said of acknowledged events only.
THEOREM OkMeansAcked == Spec /\ NeverPanics => []OkIsAcked
<1> DEFINE NilInv == \A e \in Events : pc[e] # "panicked" /\
                       (pc[e] \in {"answered", "returnedNil", "ok"} => e \in acked)
           Calm == \A e \in Events : ~PanicEarly(e) /\ pc'[e] # "panicked"
<1>1. Init => NilInv
  BY DEF Init
<1>2. IInv /\ NilInv /\ [Next]_vars /\ [Calm]_vars => NilInv'
  <2> SUFFICES ASSUME IInv, NilInv, [Next]_vars, [Calm]_vars PROVE NilInv'
    OBVIOUS
  <2>1. CASE UNCHANGED vars
    BY <2>1 DEF vars
  <2>2. CASE Next /\ Calm
    <3>1. PICK e \in Events : Begin(e) \/ Local(e) \/ ClientLock(e) \/ Acquire(e) \/ Server(e)
      BY <2>2 DEF Next
    <3>2. pc \in [Events -> Positions] /\ acked \subseteq acked'
      BY <3>1 DEF IInv, TypeOK, Begin, Local, OnceFirst, InitSemaphore, OncePassed, Encode,
         ClientCached, ClientMissing, Configure, BuildRequest, PanicEarly, Release, CountOk,
         CountError, ClientLock, Acquire, Server, Answered, NotAnswered
    <3>3. \A f \in Events \ {e} : pc'[f] = pc[f]
      BY <3>1, <3>2 DEF Goto, Begin, Local, OnceFirst, InitSemaphore, OncePassed, Encode,
         ClientCached, ClientMissing, Configure, BuildRequest, PanicEarly, Release, CountOk,
         CountError, ClientLock, Acquire, Server, Answered, NotAnswered
    <3>4. pc'[e] \in {"answered", "returnedNil", "ok"} => e \in acked'
      BY <2>2, <3>1, <3>2 DEF Goto, Begin, Local, OnceFirst, InitSemaphore, OncePassed, Encode,
         ClientCached, ClientMissing, Configure, BuildRequest, PanicEarly, Release, CountOk,
         CountError, ClientLock, Acquire, Server, Answered, NotAnswered
    <3> QED BY <2>2, <3>2, <3>3, <3>4
  <2> QED BY <2>1, <2>2
<1>3. NilInv => OkIsAcked
  BY DEF OkIsAcked
<1> QED BY <1>1, <1>2, <1>3, Invariance, PTL DEF Spec, NeverPanics

(***************************************************************************)
(* The ledger                                                              *)
(***************************************************************************)
stages == [e \in Events |-> Stage(e)]

\* A step of e's goroutine moves the stage of e alone.
LEMMA StageMoves ==
  ASSUME TypeOK, NEW e \in Events, NEW from, NEW to \in Positions, Goto(e, from, to)
  PROVE  /\ stages' = [stages EXCEPT ![e] = Stage(e)']
         /\ pc[e] = from /\ pc'[e] = to
<1>1. pc[e] = from /\ pc' = [pc EXCEPT ![e] = to] /\ DOMAIN pc = Events
  BY DEF TypeOK, Goto
<1>2. \A f \in Events \ {e} : Stage(f)' = Stage(f)
  BY <1>1 DEF Stage, HoldsPermit
<1> QED BY <1>1, <1>2 DEF stages

\* To the prover an instance has a Cardinality of its own.
LEMMA SameCardinality ==
  ASSUME NEW S PROVE Ledger!Cardinality(S) = Cardinality(S)
BY DEF Ledger!Cardinality, Cardinality

\* Requests are out where permits are held.
LEMMA OutIsHeld == Ledger!Out = Holders
BY DEF Ledger!Out, Holders, Stage, HoldsPermit

\* client.go:245-390 implements OutputLedger, its liveness apart: Begin is
\* TakeOn, Acquire SendOut, an answer Acknowledge, Release (and what fails
\* before it) Return, and every other step a stutter.
THEOREM ClientRefinesLedger == Spec => Ledger!LedgerSafety
<1>1. Init => Ledger!LedgerInit
  <2>1. Init => \A e \in Events : Stage(e) = "new"
    BY DEF Init, Stage, HoldsPermit
  <2> QED BY <2>1 DEF Init, Ledger!LedgerInit
<1>2. IInv /\ [Next]_vars => [Ledger!LedgerNext]_(Ledger!ledgerVars)
  <2> SUFFICES ASSUME IInv, [Next]_vars
               PROVE  Ledger!LedgerNext \/ UNCHANGED <<stages, acked, stats>>
    BY DEF Ledger!ledgerVars, stages, stats
  <2> DEFINE Still(e) == UNCHANGED <<stages, acked, stats>>
             Moved(e, from, to) == /\ stages[e] \in from
                                   /\ stages' = [stages EXCEPT ![e] = to]
  <2>1. TypeOK
    BY DEF IInv
  <2>2. ASSUME NEW e \in Events, NEW from, NEW to \in Positions, Goto(e, from, to)
        PROVE  /\ stages' = [stages EXCEPT ![e] = Stage(e)'] /\ pc[e] = from /\ pc'[e] = to
               /\ stages[e] = Stage(e) /\ stages \in [Events -> {Stage(f) : f \in Events}]
    BY <2>1, <2>2, StageMoves DEF stages
  <2>3. ASSUME NEW e \in Events, Begin(e) PROVE Ledger!TakeOn(e)
    <3>1. Moved(e, {"new"}, "taken")
      BY <2>2, <2>3 DEF Begin, Stage, HoldsPermit, Positions
    <3> QED BY <2>3, <3>1 DEF Begin, Ledger!TakeOn, Ledger!Moves, stages
  <2>4. ASSUME NEW e \in Events, Acquire(e) PROVE Ledger!SendOut(e)
    <3>1. Moved(e, {"taken"}, "out")
      BY <2>2, <2>4 DEF Acquire, Stage, HoldsPermit, Positions
    <3>2. MaxConcurrentRequests # 0 => Cardinality(Ledger!Out) < MaxConcurrentRequests
      BY <2>4, OutIsHeld, ClientAssumption
         DEF Acquire, Goto, PermitFree, IInv, PermitInv, OnceInv
    <3> QED BY <2>4, <3>1, <3>2, SameCardinality DEF Acquire, Ledger!SendOut, Ledger!Moves, stages, stats
  <2>5. ASSUME NEW e \in Events, Answered(e) PROVE Ledger!Acknowledge(e)
    <3>1. stages[e] = "out" /\ UNCHANGED stages
      BY <2>2, <2>5 DEF Answered, Stage, HoldsPermit, Positions
    <3> QED BY <2>5, <3>1 DEF Answered, Ledger!Acknowledge, stages, stats
  <2>6. ASSUME NEW e \in Events, NotAnswered(e) PROVE Still(e)
    <3>1. UNCHANGED stages
      BY <2>2, <2>6 DEF NotAnswered, Stage, HoldsPermit, Positions
    <3> QED BY <2>6, <3>1 DEF NotAnswered
  <2>7. ASSUME NEW e \in Events, Release(e) PROVE Ledger!Return(e)
    <3>1. Moved(e, {"taken", "out"}, "back")
      BY <2>2, <2>7 DEF Release, Stage, HoldsPermit, Positions
    <3> QED BY <2>7, <3>1 DEF Release, Ledger!Return, Ledger!Moves, stages, stats
  <2>8. ASSUME NEW e \in Events, Encode(e) \/ BuildRequest(e) \/ PanicEarly(e)
        PROVE  Ledger!Return(e) \/ Still(e)
    <3>1. Moved(e, {"taken", "out"}, "back") \/ UNCHANGED stages
      BY <2>2, <2>8 DEF Encode, BuildRequest, PanicEarly, Stage, HoldsPermit, Positions
    <3> QED BY <2>8, <3>1 DEF Encode, BuildRequest, PanicEarly, Ledger!Return,
                              Ledger!Moves, stages, stats
  <2>9. ASSUME NEW e \in Events, CountOk(e) PROVE Ledger!SettleOk(e)
    <3>1. Moved(e, {"back"}, "ok")
      BY <2>2, <2>9 DEF CountOk, Stage, HoldsPermit, Positions
    <3> QED BY <2>9, <3>1 DEF CountOk, Ledger!SettleOk, Ledger!Moves, stages
  <2>10. ASSUME NEW e \in Events, CountError(e) PROVE Ledger!SettleError(e)
    <3>1. Moved(e, {"back"}, "error") /\ e \notin acked
      BY <2>2, <2>10 DEF CountError, Stage, HoldsPermit, Positions, IInv, AckInv
    <3> QED BY <2>10, <3>1 DEF CountError, Ledger!SettleError, Ledger!Moves, stages
  <2>11. ASSUME NEW e \in Events,
                \/ OnceFirst(e) \/ InitSemaphore(e) \/ OncePassed(e) \/ ClientLock(e)
                \/ ClientCached(e) \/ ClientMissing(e) \/ Configure(e)
         PROVE  Still(e)
    <3>1. UNCHANGED stages
      BY <2>2, <2>11 DEF OnceFirst, InitSemaphore, OncePassed, ClientLock, ClientCached,
                         ClientMissing, Configure, Stage, HoldsPermit, Positions
    <3> QED BY <2>11, <3>1 DEF OnceFirst, InitSemaphore, OncePassed, ClientLock,
                               ClientCached, ClientMissing, Configure
  <2>12. CASE UNCHANGED vars
    BY <2>12 DEF vars, stages, Stage, HoldsPermit
  <2> QED
    BY <2>3, <2>4, <2>5, <2>6, <2>7, <2>8, <2>9, <2>10, <2>11, <2>12
       DEF Next, Local, Server, Ledger!LedgerNext
<1> QED
  BY <1>1, <1>2, Invariance, PTL DEF Spec, Ledger!LedgerSafety
=============================================================================
