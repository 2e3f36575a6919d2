---------------------------- MODULE OutputClient ----------------------------
(***************************************************************************)
(* outputs/client.go: the HTTP client of one output, shared by the         *)
(* goroutines forwardEvent starts, one per event, and the accounting the   *)
(* output's handler does around it (SlackPost stands for the handlers that *)
(* are one Post: total first, then ok or error).                           *)
(*                                                                         *)
(* A request is named by its event.  What travels is abstracted to how it  *)
(* ends: a status sendRequest accepts (200, 201, 202 or 204), any other    *)
(* status, the rest of the 2xx included, or a transport error, or a panic  *)
(* that sendRequest recovers from.                                         *)
(***************************************************************************)
EXTENDS Integers, FiniteSets

CONSTANTS
  Events,                  \* the events, one goroutine each
  MaxConcurrentRequests,   \* cfg.MaxConcurrentRequests; 0 is unlimited
  EnableCompression,       \* the body is gzipped before it is sent
  NoOne                    \* nobody: holder of c.mx, runner of initOnce

\* A negative limit makes every Acquire wait for ever.
ASSUME ClientAssumption ==
  /\ MaxConcurrentRequests \in Nat
  /\ EnableCompression \in BOOLEAN
  /\ NoOne \notin Events
  /\ IsFiniteSet(Events)

VARIABLES
  pc,          \* position of each event's goroutine
  once,        \* c.initOnce: "new", "running" (in its function) or "done"
  sem,         \* permits of c.sem: -1 while c.sem is nil
  inUse,       \* permits taken
  mx,          \* holder of c.mx
  httpcli,     \* c.httpcli is set
  transports,  \* transports configured without error so far
  acked,       \* events answered with a status that sendRequest accepts
  total, ok, error   \* c.Stats.<Output>

stats == <<total, ok, error>>
cliVars == <<mx, httpcli, transports>>
semVars == <<once, sem, inUse>>
vars == <<pc, semVars, cliVars, acked, stats>>

\* The handler, sendRequest line by line, and the handler again.  At
\* "panicked" the goroutine unwinds while it holds a permit.
Positions ==
  {"start", "once", "initSem", "encode", "client", "locked", "configure",
   "build", "acquire", "flight", "answered", "noAnswer", "panicked",
   "returnedNil", "returnedErr", "ok", "error"}

\* sendRequest holds a permit here: Acquire returned and Release is deferred.
HoldsPermit(e) == pc[e] \in {"flight", "answered", "noAnswer", "panicked"}

Init ==
  /\ pc = [e \in Events |-> "start"]
  /\ once = "new"
  /\ sem = -1
  /\ inUse = 0
  /\ mx = NoOne
  /\ httpcli = FALSE
  /\ transports = 0
  /\ acked = {}
  /\ total = 0
  /\ ok = 0
  /\ error = 0

Goto(e, from, to) ==
  /\ pc[e] = from
  /\ pc' = [pc EXCEPT ![e] = to]

(***************************************************************************)
(* Definitions named Mutant... are the plausible bugs against which each   *)
(* property is tried: none of them is part of the specification.           *)
(***************************************************************************)
\* SlackPost: the event is counted before anything can fail.
Begin(e) ==
  /\ Goto(e, "start", "once")
  /\ total' = total + 1
  /\ UNCHANGED <<semVars, cliVars, acked, ok, error>>

\* initOnce.Do: the first caller runs the function, the others wait for it.
OnceFirst(e) ==
  /\ once = "new"
  /\ Goto(e, "once", "initSem")
  /\ once' = "running"
  /\ UNCHANGED <<sem, inUse, cliVars, acked, stats>>

\* A limit of 0 is passed on as "one more than the limit".
MutantInitSemaphore(e) ==
  /\ Goto(e, "initSem", "encode")
  /\ sem' = MaxConcurrentRequests + 1
  /\ once' = "done"
  /\ UNCHANGED <<inUse, cliVars, acked, stats>>

InitSemaphore(e) ==
  /\ Goto(e, "initSem", "encode")
  /\ sem' = MaxConcurrentRequests
  /\ once' = "done"
  /\ UNCHANGED <<inUse, cliVars, acked, stats>>

\* A flag that is set before the semaphore is made stands for sync.Once.
MutantOncePassed(e) ==
  /\ once # "new"
  /\ Goto(e, "once", "encode")
  /\ UNCHANGED <<semVars, cliVars, acked, stats>>

OncePassed(e) ==
  /\ once = "done"
  /\ Goto(e, "once", "encode")
  /\ UNCHANGED <<semVars, cliVars, acked, stats>>

\* An encoding error is only logged; a compression error is returned.
Encode(e) ==
  /\ \/ Goto(e, "encode", "client")
     \/ EnableCompression /\ Goto(e, "encode", "returnedErr")
  /\ UNCHANGED <<semVars, cliVars, acked, stats>>

\* httpClient without its mutex.
MutantClientLock(e) ==
  /\ Goto(e, "client", "locked")
  /\ mx' = e
  /\ UNCHANGED <<semVars, httpcli, transports, acked, stats>>

ClientLock(e) ==
  /\ mx = NoOne
  /\ Goto(e, "client", "locked")
  /\ mx' = e
  /\ UNCHANGED <<semVars, httpcli, transports, acked, stats>>

ClientCached(e) ==
  /\ httpcli
  /\ Goto(e, "locked", "build")
  /\ mx' = NoOne
  /\ UNCHANGED <<semVars, httpcli, transports, acked, stats>>

ClientMissing(e) ==
  /\ ~httpcli
  /\ Goto(e, "locked", "configure")
  /\ UNCHANGED <<semVars, cliVars, acked, stats>>

\* A client whose transport could not be configured serves this request
\* and is not cached.
Configure(e) ==
  /\ Goto(e, "configure", "build")
  /\ mx' = NoOne
  /\ \/ httpcli' = TRUE /\ transports' = transports + 1
     \/ UNCHANGED <<httpcli, transports>>
  /\ UNCHANGED <<semVars, acked, stats>>

\* http.NewRequest, which may fail, and the request options.
BuildRequest(e) ==
  /\ Goto(e, "build", "acquire") \/ Goto(e, "build", "returnedErr")
  /\ UNCHANGED <<semVars, cliVars, acked, stats>>

\* A panic before the permit is taken: recover leaves the unnamed result of
\* sendRequest at nil.
PanicEarly(e) ==
  /\ Goto(e, "encode", "returnedNil") \/ Goto(e, "build", "returnedNil")
  /\ UNCHANGED <<semVars, cliVars, acked, stats>>

\* One permit too many.
MutantPermitFree == sem = 0 \/ inUse <= sem

PermitFree == sem = 0 \/ inUse < sem

Acquire(e) ==
  /\ PermitFree
  /\ Goto(e, "acquire", "flight")
  /\ inUse' = inUse + 1
  /\ UNCHANGED <<once, sem, cliVars, acked, stats>>

\* client.Do ends: with 200, 201, 202 or 204; with another status (203, 205
\* and 206 fall to the default, an error) or without a response, or in a
\* panic.  There is no timeout: it ends when the peer ends it.
Answered(e) ==
  /\ Goto(e, "flight", "answered")
  /\ acked' = acked \union {e}
  /\ UNCHANGED <<semVars, cliVars, stats>>

NotAnswered(e) ==
  /\ Goto(e, "flight", "noAnswer") \/ Goto(e, "flight", "panicked")
  /\ UNCHANGED <<semVars, cliVars, acked, stats>>

\* A body that cannot be read turns an accepted status into an error.
MutantReleaseOk(e) ==
  /\ \/ Goto(e, "answered", "returnedErr")
     \/ Goto(e, "panicked", "returnedNil")
     \/ Goto(e, "noAnswer", "returnedErr")
  /\ inUse' = inUse - 1
  /\ UNCHANGED <<once, sem, cliVars, acked, stats>>

\* Release is called at the end instead of deferred: an error skips it.
MutantRelease(e) ==
  /\ \/ Goto(e, "answered", "returnedNil") /\ inUse' = inUse - 1
     \/ Goto(e, "panicked", "returnedNil") /\ UNCHANGED inUse
     \/ Goto(e, "noAnswer", "returnedErr") /\ UNCHANGED inUse
  /\ UNCHANGED <<once, sem, cliVars, acked, stats>>

\* The deferred Release; after a panic, recover leaves the result at nil.
Release(e) ==
  /\ \/ Goto(e, "answered", "returnedNil")
     \/ Goto(e, "panicked", "returnedNil")
     \/ Goto(e, "noAnswer", "returnedErr")
  /\ inUse' = inUse - 1
  /\ UNCHANGED <<once, sem, cliVars, acked, stats>>

CountOk(e) ==
  /\ Goto(e, "returnedNil", "ok")
  /\ ok' = ok + 1
  /\ UNCHANGED <<semVars, cliVars, acked, total, error>>

\* The missing return after the error branch: ok is counted as well.
MutantCountError(e) ==
  /\ Goto(e, "returnedErr", "error")
  /\ error' = error + 1
  /\ ok' = ok + 1
  /\ UNCHANGED <<semVars, cliVars, acked, total>>

CountError(e) ==
  /\ Goto(e, "returnedErr", "error")
  /\ error' = error + 1
  /\ UNCHANGED <<semVars, cliVars, acked, total, ok>>

Server(e) == Answered(e) \/ NotAnswered(e)

\* The steps of e's goroutine that need nobody else.
Local(e) ==
  \/ OnceFirst(e) \/ InitSemaphore(e) \/ OncePassed(e) \/ Encode(e)
  \/ ClientCached(e) \/ ClientMissing(e) \/ Configure(e)
  \/ BuildRequest(e) \/ PanicEarly(e)
  \/ Release(e) \/ CountOk(e) \/ CountError(e)

Next ==
  \E e \in Events :
    Begin(e) \/ Local(e) \/ ClientLock(e) \/ Acquire(e) \/ Server(e)

\* Goroutines run; the mutex and the weighted semaphore serve those who wait
\* in turn, so whoever waits gets it if it is released over and over.
Fairness ==
  \A e \in Events :
    WF_vars(Local(e)) /\ SF_vars(ClientLock(e)) /\ SF_vars(Acquire(e))

Spec == Init /\ [][Next]_vars /\ Fairness

\* The peer ends every request, one way or another.
ServedSpec == Spec /\ \A e \in Events : WF_vars(Server(e))

(***************************************************************************)
(* Properties                                                              *)
(***************************************************************************)
TypeOK ==
  /\ pc \in [Events -> Positions]
  /\ once \in {"new", "running", "done"}
  /\ sem \in {-1, MaxConcurrentRequests}
  /\ inUse \in Nat
  /\ mx \in Events \union {NoOne}
  /\ httpcli \in BOOLEAN
  /\ transports \in Nat
  /\ acked \subseteq Events
  /\ total \in Nat /\ ok \in Nat /\ error \in Nat

\* "Max concurrent requests at a time per output, unlimited if set to 0"
\* (config.go:26): counted in requests on the wire, whatever way each ends.
ConcurrencyLimit ==
  MaxConcurrentRequests # 0 =>
    Cardinality({e \in Events : pc[e] = "flight"}) <= MaxConcurrentRequests

\* The semaphore initialised "once on first request" (client.go:137) is
\* there for every goroutine that gets past initOnce, the late ones and
\* those that came while it was being made.
SemaphoreReady ==
  \A e \in Events :
    pc[e] \notin {"start", "once", "initSem"} => sem = MaxConcurrentRequests

\* Concurrent first requests configure one transport, not one each: all
\* later requests share its connections.
OneTransport == transports <= 1

InProgress == {e \in Events : pc[e] \notin {"start", "ok", "error"}}

\* Each event counted in total is counted in ok or error once, or is still
\* on its way.
AccountsBalance == total = ok + error + Cardinality(InProgress)

\* An event answered with a status the switch of sendRequest accepts (200,
\* 201, 202, 204) is never reported as an error, whatever happens between the
\* answer and the counting of it.  Of an event answered with another 2xx it is
\* not so: 203, 205 and 206 are errors to the code.
AckedIsNotError == \A e \in acked : pc[e] # "error"

\* An event is reported ok only if it was answered with an accepted status:
\* what a panic that sendRequest recovers from makes false.
OkIsAcked == \A e \in Events : pc[e] = "ok" => e \in acked

\* The ledger of the output: a permit stands for a request that is out.
Stage(e) ==
  CASE pc[e] = "start" -> "new"
    [] pc[e] \in {"ok", "error"} -> pc[e]
    [] HoldsPermit(e) -> "out"
    [] pc[e] \in {"returnedNil", "returnedErr"} -> "back"
    [] OTHER -> "taken"

Ledger == INSTANCE OutputLedger WITH Limit <- MaxConcurrentRequests,
                                     stage <- [e \in Events |-> Stage(e)]

\* The client implements OutputLedger: initOnce, the semaphore, the mutex and
\* the cached client add nothing to see, and every event that reaches the
\* output is counted ok or error in the end: no permit, lock or
\* initialisation is waited for for ever.
ImplementsLedger == Ledger!LedgerSpec
=============================================================================
