--------------------------- MODULE DispatchProofs ---------------------------
(***************************************************************************)
(* Dispatch for every set of configured clients, every minimum and every   *)
(* set of requests: type correctness, the balance of the request counters, *)
(* and, provided that the rows of the table are Matched, that only outputs *)
(* that were enabled are given events.                                     *)
(***************************************************************************)
EXTENDS Dispatch, FiniteSetTheorems, TLAPS

IsSequence(s) == \E S : s \in Seq(S)

LEMMA Concatenation ==
  ASSUME NEW s, NEW t, IsSequence(s), IsSequence(t)
  PROVE  IsSequence(s \o t)
<1>1. PICK S : s \in Seq(S)
  BY DEF IsSequence
<1>2. PICK T : t \in Seq(T)
  BY DEF IsSequence
<1>3. s \in Seq(S \union T) /\ t \in Seq(S \union T)
  BY <1>1, <1>2
<1>4. s \o t \in Seq(S \union T)
  BY <1>3
<1> QED
  BY <1>4 DEF IsSequence

LEMMA Eleven ==
  ASSUME NEW a, NEW b, NEW c, NEW d, NEW e, NEW f, NEW g, NEW h, NEW i, NEW j, NEW k
  PROVE  IsSequence(<<a, b, c, d, e, f, g, h, i, j, k>>)
<1>1. <<a, b, c, d, e, f, g, h, i, j, k>> \in Seq({a, b, c, d, e, f, g, h, i, j, k})
  OBVIOUS
<1> QED
  BY <1>1 DEF IsSequence

\* init() goes over every client, and over nothing else.
LEMMA OrderOfClients ==
  /\ Len(InitOrder) \in Nat /\ DOMAIN InitOrder = 1..Len(InitOrder)
  /\ \A i \in 1..Len(InitOrder) : InitOrder[i] \in Clients
  /\ \A c \in Clients : \E i \in 1..Len(InitOrder) : InitOrder[i] = c
<1>1. IsSequence(FromSlack) /\ IsSequence(FromQuickwit)
  BY Eleven, Zenon DEF FromSlack, FromQuickwit
<1>2. IsSequence(FromCloudEvents) /\ IsSequence(FromOpenfaas)
  BY Eleven, Zenon DEF FromCloudEvents, FromOpenfaas
<1>3. IsSequence(FromZincsearch)
  BY Eleven, Zenon DEF FromZincsearch
<1>4. IsSequence(InitOrder)
  BY <1>1, <1>2, <1>3, Concatenation, Zenon DEF InitOrder
<1>5. DOMAIN InitOrder = 1..Len(InitOrder) /\ Len(InitOrder) \in Nat
  BY <1>4 DEF IsSequence
<1> QED
  BY <1>5 DEF Clients

(***************************************************************************)
(* Type correctness                                                        *)
(***************************************************************************)
\* What init() does to its variables keeps their types.
LEMMA StartTypes == TypeOK /\ Start => TypeOK'
<1> SUFFICES ASSUME TypeOK, Start PROVE TypeOK'
  OBVIOUS
<1> USE DEF TypeOK
<1>1. ASSUME GoOn PROVE current \in Clients /\ next' \in 1..(Len(InitOrder) + 1)
  BY <1>1, OrderOfClients DEF GoOn, current
<1>2. CASE NotConfigured
  BY <1>1, <1>2 DEF NotConfigured, GoOn, countVars
<1>3. CASE Created
  <2>1. OutputsOf(current) \subseteq Outputs /\ current \in Clients
    BY <1>1, <1>3 DEF Created, Outputs
  <2> QED
    BY <1>1, <1>3, <2>1 DEF Created, GoOn, countVars
<1>4. CASE NotCreated
  BY <1>1, <1>4 DEF NotCreated, GoOn, countVars
<1>5. CASE TemplateFails
  BY <1>1, <1>5 DEF TemplateFails, GoOn, countVars
<1>6. CASE Serve
  BY <1>6 DEF Serve, initVars, countVars
<1> QED
  BY <1>2, <1>3, <1>4, <1>5, <1>6 DEF Start

\* A step of a request's handler moves it to another position.
LEMMA GotoTypes ==
  ASSUME TypeOK, NEW r \in Requests, NEW from, NEW to \in Positions, Goto(r, from, to)
  PROVE  pc' \in [Requests -> Positions]
BY DEF TypeOK, Goto

LEMMA HandleTypes ==
  ASSUME TypeOK, NEW r \in Requests, Receive(r) \/ Handle(r)
  PROVE  TypeOK'
<1> USE DEF TypeOK, initVars, countVars
<1>1. CASE Receive(r)
  <2>1. pc' \in [Requests -> Positions]
    BY <1>1, GotoTypes DEF Receive, Positions
  <2>2. request' \in [Requests -> Kind \union {NotReceived}]
    BY <1>1, DispatchAssumption DEF Receive
  <2> QED
    BY <1>1, <2>1, <2>2 DEF Receive
<1>2. CASE Refuse(r)
  <2>1. pc' \in [Requests -> Positions]
    BY <1>2, GotoTypes DEF Refuse, Positions
  <2> QED
    BY <1>2, <2>1 DEF Refuse, Reject
<1>3. CASE PanicOnField(r)
  <2>1. pc' \in [Requests -> Positions]
    BY <1>3, GotoTypes DEF PanicOnField, Positions
  <2> QED
    BY <1>3, <2>1 DEF PanicOnField
<1>4. CASE Count(r)
  <2>1. pc' \in [Requests -> Positions]
    BY <1>4, GotoTypes DEF Count, Positions
  <2> QED
    BY <1>4, <2>1 DEF Count
<1>5. CASE CheckFails(r)
  <2>1. pc' \in [Requests -> Positions]
    BY <1>5, GotoTypes DEF CheckFails, Positions
  <2> QED
    BY <1>5, <2>1 DEF CheckFails, Reject
<1>6. CASE Accept(r)
  <2>1. pc' \in [Requests -> Positions]
    BY <1>6, GotoTypes DEF Accept, Positions
  <2> QED
    BY <1>6, <2>1 DEF Accept
<1>7. CASE Forward(r)
  <2>1. pc' \in [Requests -> Positions]
    BY <1>7, GotoTypes DEF Forward, Positions
  <2> QED
    BY <1>7, <2>1 DEF Forward
<1> QED
  BY <1>1, <1>2, <1>3, <1>4, <1>5, <1>6, <1>7 DEF Handle

LEMMA RunTypes ==
  ASSUME TypeOK, NEW r \in Requests, NEW o \in DeployedOutputs, Run(r, o)
  PROVE  TypeOK'
BY DEF TypeOK, Run, initVars, countVars

LEMMA TypeStep == TypeOK /\ [Next]_vars => TypeOK'
<1> SUFFICES ASSUME TypeOK, [Next]_vars PROVE TypeOK'
  OBVIOUS
<1>1. CASE UNCHANGED vars
  BY <1>1 DEF TypeOK, vars, initVars, countVars
<1>2. CASE Next
  BY <1>2, StartTypes, HandleTypes, RunTypes DEF Next
<1> QED
  BY <1>1, <1>2

LEMMA InitTypes == Init => TypeOK
<1> SUFFICES ASSUME Init PROVE TypeOK
  OBVIOUS
<1> USE DEF Init, TypeOK
<1>1. next \in 1..(Len(InitOrder) + 1)
  BY OrderOfClients
<1>2. pc \in [Requests -> Positions]
  BY DEF Positions
<1> QED
  BY <1>1, <1>2

\* The variables keep their types: what init() lists as enabled are outputs,
\* and no counter is negative (Dispatch!TypeOK).
THEOREM DispatchTypeCorrect == Spec => []TypeOK
BY InitTypes, TypeStep, PTL DEF Spec

(***************************************************************************)
(* Only enabled outputs are served                                         *)
(***************************************************************************)
AllMatched == \A c \in Deployed : Matched(c)

\* Of the clients init() has passed, every output that forwardEvent would
\* still forward to is listed, unless the process has ended.
EnabledSoFar ==
  \A i \in 1..Len(InitOrder) : i < next /\ InitOrder[i] \in Deployed =>
    \A o \in OutputsOf(InitOrder[i]) :
      Wants(o) \subseteq config => o \in enabled \/ process = "dead"

ServedInv ==
  /\ TypeOK
  /\ EnabledSoFar
  /\ process = "serving" => next > Len(InitOrder)
  /\ OnlyEnabledServed

\* A step of init() that leaves the current client's outputs listed, or not
\* forwarded to, or the process dead, keeps the invariant.
LEMMA GoOnServed ==
  ASSUME ServedInv, TypeOK', GoOn, process' \in {"init", "dead"},
         config' \subseteq config, enabled \subseteq enabled',
         current \in Deployed =>
           \A o \in OutputsOf(current) :
             Wants(o) \subseteq config' => o \in enabled' \/ process' = "dead"
  PROVE  ServedInv'
<1> USE DEF ServedInv, GoOn
<1>1. EnabledSoFar'
  <2> SUFFICES ASSUME NEW i \in 1..Len(InitOrder), i < next', InitOrder[i] \in Deployed,
                      NEW o \in OutputsOf(InitOrder[i]), Wants(o) \subseteq config'
               PROVE  o \in enabled' \/ process' = "dead"
    BY DEF EnabledSoFar
  <2>1. CASE i < next
    BY <2>1 DEF EnabledSoFar
  <2>2. CASE ~(i < next)
    <3>1. i = next
      BY <2>2, OrderOfClients DEF TypeOK
    <3> QED
      BY <3>1 DEF current
  <2> QED
    BY <2>1, <2>2
<1>2. OnlyEnabledServed'
  BY DEF OnlyEnabledServed
<1> QED
  BY <1>1, <1>2

LEMMA StartServed == AllMatched /\ ServedInv /\ TypeOK' /\ Start => ServedInv'
<1> SUFFICES ASSUME AllMatched, ServedInv, TypeOK', Start PROVE ServedInv'
  OBVIOUS
<1>1. current \in Deployed =>
        \A o \in OutputsOf(current) :
          /\ Wants(o) \subseteq config => Configured(current)
          /\ current \in LogsThroughNil \union CannotFail
               \/ ~(Wants(o) \subseteq config \ Clears(current))
  BY DEF AllMatched, Matched, Configured
<1>2. CASE NotConfigured
  BY <1>1, <1>2, GoOnServed DEF NotConfigured, GoOn
<1>3. CASE Created
  BY <1>3, GoOnServed DEF Created, GoOn
<1>4. CASE NotCreated
  <2>1. process' \in {"init", "dead"}
    BY <1>4 DEF NotCreated, GoOn
  <2> QED
    BY <1>1, <1>4, <2>1, GoOnServed DEF NotCreated
<1>5. CASE TemplateFails
  <2>1. current \notin LogsThroughNil \union CannotFail
    BY <1>5 DEF TemplateFails, SecondStep, LogsThroughNil, CannotFail
  <2> QED
    BY <1>1, <1>5, <2>1, GoOnServed DEF TemplateFails, GoOn
<1>6. CASE Serve
  BY <1>6 DEF Serve, ServedInv, EnabledSoFar, OnlyEnabledServed, initVars
<1> QED
  BY <1>2, <1>3, <1>4, <1>5, <1>6 DEF Start

\* When requests are served every output that is forwarded to is listed.
LEMMA ForwardServed ==
  ASSUME ServedInv, TypeOK', NEW r \in Requests, Forward(r)
  PROVE  ServedInv'
<1>1. ASSUME NEW o \in DeployedOutputs, Forwards(r, o) PROVE o \in enabled
  <2>1. PICK c \in Deployed : o \in OutputsOf(c)
    BY DEF DeployedOutputs
  <2>2. PICK i \in 1..Len(InitOrder) : InitOrder[i] = c
    BY OrderOfClients, DispatchAssumption
  <2>3. i < next /\ process = "serving"
    BY <2>2, OrderOfClients DEF ServedInv, TypeOK, Forward, Goto
  <2>4. Wants(o) \subseteq config
    BY <1>1 DEF Forwards
  <2> QED
    BY <2>1, <2>2, <2>3, <2>4, Zenon DEF ServedInv, EnabledSoFar
<1>2. OnlyEnabledServed'
  BY <1>1 DEF Forward, initVars, ServedInv, OnlyEnabledServed
<1> QED
  BY <1>2 DEF ServedInv, Forward, initVars, EnabledSoFar

LEMMA ServedStep == AllMatched /\ ServedInv /\ [Next]_vars => ServedInv'
<1> SUFFICES ASSUME AllMatched, ServedInv, [Next]_vars PROVE ServedInv'
  OBVIOUS
<1>1. TypeOK'
  BY TypeStep DEF ServedInv
<1>2. CASE Start
  BY <1>1, <1>2, StartServed
<1>3. ASSUME NEW r \in Requests, Forward(r) PROVE ServedInv'
  BY <1>1, <1>3, ForwardServed
<1>4. ASSUME UNCHANGED <<initVars, process, spawned, handled>> PROVE ServedInv'
  BY <1>1, <1>4 DEF ServedInv, EnabledSoFar, OnlyEnabledServed, initVars
<1>5. ASSUME NEW r \in Requests, Receive(r) PROVE ServedInv'
  BY <1>4, <1>5 DEF Receive
<1>6. ASSUME NEW r \in Requests, Handle(r) PROVE ServedInv'
  BY <1>3, <1>4, <1>6
  DEF Handle, Refuse, PanicOnField, Count, CheckFails, Accept
<1>7. ASSUME NEW r \in Requests, NEW o \in DeployedOutputs, Run(r, o) PROVE ServedInv'
  <2>1. EnabledSoFar'
    BY <1>7 DEF Run, ServedInv, EnabledSoFar, initVars
  <2>2. OnlyEnabledServed'
    BY <1>7 DEF Run, ServedInv, OnlyEnabledServed, initVars
  <2> QED
    BY <1>1, <1>7, <2>1, <2>2 DEF Run, ServedInv, initVars
<1>8. CASE UNCHANGED vars
  BY <1>4, <1>8 DEF vars
<1> QED
  BY <1>2, <1>5, <1>6, <1>7, <1>8 DEF Next

\* If forwardEvent looks at the settings init() looks at, and a failure
\* clears one of them or ends the process, then whatever is configured,
\* whichever clients fail and however requests interleave, no event is
\* handed to an output that was not enabled (Dispatch!OnlyEnabledServed).
THEOREM MatchedServed ==
  ASSUME AllMatched
  PROVE  Spec => []OnlyEnabledServed
<1>1. Init => ServedInv
  BY InitTypes DEF Init, ServedInv, EnabledSoFar, OnlyEnabledServed
<1>2. ServedInv /\ [Next]_vars => ServedInv'
  BY ServedStep
<1>3. ServedInv => OnlyEnabledServed
  BY DEF ServedInv
<1> QED
  BY <1>1, <1>2, <1>3, PTL DEF Spec

(***************************************************************************)
(* The request counters                                                    *)
(***************************************************************************)
One(b) == IF b THEN 1 ELSE 0

\* A handler that moves leaves one set of positions and enters another.
LEMMA Moves ==
  ASSUME TypeOK, NEW r \in Requests, NEW from, NEW to, Goto(r, from, to), NEW S
  PROVE  /\ At(S) \in Nat
         /\ At(S)' = At(S) - One(from \in S) + One(to \in S)
<1> DEFINE There == {q \in Requests : pc[q] \in S}
           Then == {q \in Requests : pc'[q] \in S}
           Rest == {q \in Requests \ {r} : pc[q] \in S}
<1>1. IsFiniteSet(Rest) /\ r \notin Rest
  <2>1. IsFiniteSet(Requests) /\ Rest \subseteq Requests
    BY DispatchAssumption
  <2> QED
    BY <2>1, FS_Subset
<1>2. There = IF from \in S THEN Rest \union {r} ELSE Rest
  BY DEF Goto
<1>3. Then = IF to \in S THEN Rest \union {r} ELSE Rest
  BY DEF Goto, TypeOK
<1>4. Cardinality(Rest) \in Nat
  BY <1>1, FS_CardinalityType
<1>5. Cardinality(Rest \union {r}) = Cardinality(Rest) + 1
  BY <1>1, FS_AddElement
<1>6. At(S) = Cardinality(There) /\ At(S)' = Cardinality(Then)
  BY DEF At
<1> HIDE DEF There, Then, Rest
<1> QED
  BY <1>2, <1>3, <1>4, <1>5, <1>6 DEF One

\* An event that is not judged yet has been counted already, which keeps the
\* priorities ahead of the accepted events.
BalanceInv ==
  /\ TypeOK
  /\ total = accepted + rejected + At({"received", "decoded", "panicked"})
  /\ accepted + At({"decoded"}) <= counted

LEMMA HandleBalance ==
  ASSUME BalanceInv, TypeOK', NEW r \in Requests, Receive(r) \/ Handle(r)
  PROVE  BalanceInv'
<1> DEFINE Open == {"received", "decoded", "panicked"}
<1>1. ASSUME NEW from, NEW to, Goto(r, from, to)
      PROVE  /\ At(Open) \in Nat /\ At({"decoded"}) \in Nat
             /\ At(Open)' = At(Open) - One(from \in Open) + One(to \in Open)
             /\ At({"decoded"})' =
                  At({"decoded"}) - One(from = "decoded") + One(to = "decoded")
  BY <1>1, Moves DEF BalanceInv
<1>2. /\ total = accepted + rejected + At(Open)
      /\ accepted + At({"decoded"}) <= counted
      /\ total \in Nat /\ accepted \in Nat /\ rejected \in Nat /\ counted \in Nat
  BY DEF BalanceInv, TypeOK
<1>3. /\ total' = accepted' + rejected' + At(Open)'
      /\ accepted' + At({"decoded"})' <= counted'
  <2>1. CASE Receive(r)
    BY <1>1, <1>2, <2>1 DEF Receive, One
  <2>2. CASE Refuse(r)
    BY <1>1, <1>2, <2>2 DEF Refuse, Reject, One
  <2>3. CASE PanicOnField(r)
    BY <1>1, <1>2, <2>3 DEF PanicOnField, countVars, One
  <2>4. CASE Count(r)
    BY <1>1, <1>2, <2>4 DEF Count, One
  <2>5. CASE CheckFails(r)
    BY <1>1, <1>2, <2>5 DEF CheckFails, Reject, One
  <2>6. CASE Accept(r)
    BY <1>1, <1>2, <2>6 DEF Accept, One
  <2>7. CASE Forward(r)
    BY <1>1, <1>2, <2>7 DEF Forward, countVars, One
  <2> QED
    BY <2>1, <2>2, <2>3, <2>4, <2>5, <2>6, <2>7 DEF Handle
<1> QED
  BY <1>3 DEF BalanceInv

LEMMA BalanceStep == BalanceInv /\ [Next]_vars => BalanceInv'
<1> SUFFICES ASSUME BalanceInv, [Next]_vars PROVE BalanceInv'
  OBVIOUS
<1>1. TypeOK'
  BY TypeStep DEF BalanceInv
<1>2. ASSUME UNCHANGED <<pc, countVars>> PROVE BalanceInv'
  BY <1>1, <1>2 DEF BalanceInv, countVars, At
<1>3. CASE Start
  BY <1>2, <1>3
  DEF Start, NotConfigured, Created, NotCreated, TemplateFails, GoOn, Serve
<1>4. ASSUME NEW r \in Requests, NEW o \in DeployedOutputs, Run(r, o) PROVE BalanceInv'
  BY <1>2, <1>4 DEF Run
<1>5. CASE UNCHANGED vars
  BY <1>2, <1>5 DEF vars
<1> QED
  BY <1>1, <1>3, <1>4, <1>5, HandleBalance DEF Next

LEMMA InitBalance == Init => BalanceInv
<1> SUFFICES ASSUME Init PROVE BalanceInv
  OBVIOUS
<1>1. ASSUME NEW S, "start" \notin S PROVE At(S) = 0
  <2>1. {r \in Requests : pc[r] \in S} = {}
    BY <1>1 DEF Init
  <2> QED
    BY <2>1, FS_EmptySet DEF At
<1>2. At({"received", "decoded", "panicked"}) = 0 /\ At({"decoded"}) = 0
  BY <1>1
<1> QED
  BY <1>2, InitTypes DEF Init, BalanceInv

\* For any set of concurrent requests, each one in total is accepted or
\* rejected once, still on its way, or ended in a panic, and never more were
\* accepted than counted by priority (Dispatch!RequestsBalance).
THEOREM RequestsAlwaysBalance == Spec => []RequestsBalance
<1>1. BalanceInv => RequestsBalance
  <2> SUFFICES ASSUME BalanceInv PROVE RequestsBalance
    OBVIOUS
  <2>1. At({"decoded"}) \in Nat
    <3>1. IsFiniteSet({r \in Requests : pc[r] \in {"decoded"}})
      BY DispatchAssumption, FS_Subset
    <3> QED
      BY <3>1, FS_CardinalityType DEF At
  <2> QED
    BY <2>1 DEF BalanceInv, TypeOK, RequestsBalance
<1> QED
  BY <1>1, InitBalance, BalanceStep, PTL DEF Spec

(***************************************************************************)
(* The test event                                                          *)
(***************************************************************************)
\* init() has gone past the client that lists o.
ListedBy(c, o) ==
  /\ o \in OutputsOf(c)
  /\ c \in clients
  /\ Wants(o) \subseteq config
  /\ \E i \in 1..Len(InitOrder) : i < next /\ InitOrder[i] = c

\* What is listed stays configured, and its client is there.
ListedInv == \A o \in enabled : \E c \in Deployed : ListedBy(c, o)

\* Nothing is forwarded before init() is done, nor but by Forward.
ForwardedInv ==
  /\ process = "init" => \A r \in Requests : pc[r] = "start"
  /\ \A r \in Requests, o \in DeployedOutputs :
       <<r, o>> \in spawned \union handled => pc[r] = "done"

TestInv == TypeOK /\ ListedInv /\ ForwardedInv /\ TestReachesAll

\* The test event's source is one no output asks for.
LEMMA InternalRefused ==
  ASSUME NEW o \in DOMAIN SourcesOf PROVE "internal" \notin SourcesOf[o]
BY DEF SourcesOf

LEMMA WantsAreSettings ==
  ASSUME NEW c, NEW o \in OutputsOf(c) PROVE Wants(o) \subseteq SettingsOf(c)
<1> SUFFICES ASSUME NEW x \in Wants(o) PROVE x \in SettingsOf(c)
  OBVIOUS
<1>1. x \in UNION {Wants(p) : p \in OutputsOf(c)}
  OBVIOUS
<1> QED BY <1>1 DEF SettingsOf

\* What is configured is of the deployed clients.
LEMMA ConfiguredIsDeployed ==
  ASSUME TypeOK, NEW c \in Clients, Configured(c)
  PROVE  c \in Deployed
<1>1. PICK needed \in Creates(c) : needed \subseteq config
  BY DEF Configured
<1>2. PICK s : s \in needed
  BY TableAssumption DEF OnItsOwn
<1>3. PICK d \in Deployed : s \in SettingsOf(d)
  BY <1>1, <1>2 DEF TypeOK
<1>4. s \in SettingsOf(c)
  BY <1>1, <1>2 DEF SettingsOf
<1>5. d \in Clients
  BY DispatchAssumption
<1>6. d # c => SettingsOf(d) \intersect SettingsOf(c) = {}
  BY <1>5, TableAssumption DEF OnItsOwn
<1> QED BY <1>3, <1>4, <1>6

\* A step of init() that clears at most what belongs to the current client
\* and lists at most outputs of its own that are configured.
LEMMA GoOnListed ==
  ASSUME TypeOK, TypeOK', ListedInv, GoOn,
         config' = config \/ config' = config \ Clears(current),
         clients \subseteq clients',
         \A o \in enabled' \ enabled :
           /\ current \in Deployed /\ o \in OutputsOf(current) /\ current \in clients'
           /\ Wants(o) \subseteq config'
  PROVE  ListedInv'
<1> SUFFICES ASSUME NEW o \in enabled' PROVE \E c \in Deployed : ListedBy(c, o)'
  BY DEF ListedInv
<1>1. /\ next \in 1..Len(InitOrder) /\ next' = next + 1 /\ Len(InitOrder) \in Nat
      /\ current = InitOrder[next] /\ current \in Clients
  BY OrderOfClients DEF TypeOK, GoOn, current
<1>2. CASE o \in enabled
  <2>1. PICK c \in Deployed : ListedBy(c, o)
    BY <1>2 DEF ListedInv
  <2>2. PICK i \in 1..Len(InitOrder) : i < next /\ InitOrder[i] = c
    BY <2>1 DEF ListedBy
  <2>3. c # current
    <3>1. DOMAIN InitOrder = 1..Len(InitOrder)
      BY OrderOfClients
    <3> QED BY <1>1, <2>2, <3>1, TableAssumption
  <2>4. Clears(current) \intersect SettingsOf(c) = {}
    BY <1>1, <2>3, DispatchAssumption, TableAssumption DEF OnItsOwn
  <2>5. Wants(o) \subseteq config'
    <3>1. Wants(o) \subseteq config /\ Wants(o) \subseteq SettingsOf(c)
      BY <2>1, WantsAreSettings DEF ListedBy
    <3>2. \A x \in Wants(o) : x \in config /\ x \notin Clears(current)
      BY <2>4, <3>1
    <3>3. \A x \in Wants(o) : x \in config'
      <4>1. CASE config' = config
        BY <3>2, <4>1
      <4>2. CASE config' = config \ Clears(current)
        BY <3>2, <4>2
      <4> QED BY <4>1, <4>2
    <3> QED BY <3>3
  <2>6. i < next'
    BY <1>1, <2>2
  <2> QED BY <2>1, <2>2, <2>5, <2>6 DEF ListedBy
<1>3. CASE o \notin enabled
  <2>1. next < next'
    BY <1>1
  <2> QED BY <1>1, <1>3, <2>1 DEF ListedBy
<1> QED BY <1>2, <1>3

LEMMA StartTested == TestInv /\ TypeOK' /\ Start => TestInv'
<1> SUFFICES ASSUME TestInv, TypeOK', Start PROVE TestInv'
  OBVIOUS
<1>1. process = "init" /\ UNCHANGED <<request, pc, spawned, handled>>
  BY DEF Start, NotConfigured, Created, NotCreated, TemplateFails, GoOn, Serve
<1>2. ForwardedInv' /\ TestReachesAll'
  BY <1>1 DEF TestInv, ForwardedInv, TestReachesAll
<1>3. TypeOK /\ ListedInv
  BY DEF TestInv
<1> SUFFICES ListedInv'
  BY <1>2 DEF TestInv
<1>4. CASE NotConfigured
  BY <1>3, <1>4, GoOnListed DEF NotConfigured
<1>5. CASE Created
  <2>1. current \in Clients
    BY <1>3, <1>5, OrderOfClients DEF Created, GoOn, TypeOK, current
  <2>2. current \in Deployed
    BY <1>3, <1>5, <2>1, ConfiguredIsDeployed DEF Created
  <2>3. ASSUME NEW o \in OutputsOf(current), current \in Shared => Wants(o) \subseteq config
        PROVE  Wants(o) \subseteq config
    <3>1. PICK needed \in Creates(current) : needed \subseteq config
      BY <1>5 DEF Created, Configured
    <3>2. current \in Shared \/ Wants(o) \subseteq needed
      BY <2>1, <3>1, TableAssumption DEF OnItsOwn
    <3> QED BY <2>3, <3>1, <3>2
  <2>4. GoOn /\ config' = config /\ clients' = clients \union {current}
        /\ enabled' = enabled \union
             {o \in OutputsOf(current) : current \in Shared => Wants(o) \subseteq config}
    BY <1>5 DEF Created
  <2> QED BY <1>3, <2>2, <2>3, <2>4, GoOnListed
<1>6. CASE NotCreated
  BY <1>3, <1>6, GoOnListed DEF NotCreated
<1>7. CASE TemplateFails
  BY <1>3, <1>7, GoOnListed DEF TemplateFails
<1>8. CASE Serve
  BY <1>3, <1>8 DEF Serve, initVars, ListedInv, ListedBy
<1> QED BY <1>4, <1>5, <1>6, <1>7, <1>8 DEF Start

LEMMA ForwardTested ==
  ASSUME TestInv, TypeOK', NEW r \in Requests, Forward(r)
  PROVE  TestInv'
<1>1. /\ process = "serving" /\ pc[r] = "accepted" /\ pc' = [pc EXCEPT ![r] = "done"]
      /\ UNCHANGED <<initVars, process, request, handled>> /\ TypeOK
      /\ spawned' = spawned \union
           {<<r, o>> : o \in {p \in DeployedOutputs : Forwards(r, p)}}
  BY DEF Forward, Goto, TestInv
<1>2. ListedInv'
  BY <1>1 DEF TestInv, initVars, ListedInv, ListedBy
<1>3. \A q \in Requests : pc'[q] = IF q = r THEN "done" ELSE pc[q]
  BY <1>1 DEF TypeOK
<1>4. ForwardedInv'
  BY <1>1, <1>3 DEF TestInv, ForwardedInv
<1>5. ASSUME NEW q \in Requests, pc'[q] = "done", request[q].test, NEW o \in enabled
      PROVE  <<q, o>> \in (spawned \union handled)' <=> o \notin DOMAIN SourcesOf
  <2>1. CASE q # r
    <3>1. pc[q] = "done" /\ (<<q, o>> \in spawned' <=> <<q, o>> \in spawned)
      BY <1>1, <1>3, <1>5, <2>1
    <3> QED BY <1>1, <1>5, <3>1 DEF TestInv, TestReachesAll
  <2>2. CASE q = r
    <3>1. PICK c \in Deployed : ListedBy(c, o)
      BY DEF TestInv, ListedInv
    <3>2. o \in DeployedOutputs /\ Wants(o) \subseteq config
      BY <3>1 DEF ListedBy, DeployedOutputs
    <3>3. <<r, o>> \notin spawned \union handled
      BY <1>1, <3>2 DEF TestInv, ForwardedInv
    <3>4. Forwards(r, o) <=> o \notin DOMAIN SourcesOf
      <4>1. SourceOf(r) = "internal"
        BY <1>5, <2>2 DEF SourceOf
      <4>2. o \in DOMAIN SourcesOf => "internal" \notin SourcesOf[o]
        BY InternalRefused
      <4> QED BY <1>5, <2>2, <3>2, <4>1, <4>2 DEF Forwards
    <3> QED BY <1>1, <2>2, <3>2, <3>3, <3>4
  <2> QED BY <2>1, <2>2
<1>6. TestReachesAll'
  BY <1>1, <1>5 DEF TestReachesAll, initVars
<1> QED BY <1>2, <1>4, <1>6 DEF TestInv

LEMMA TestStep == TestInv /\ [Next]_vars => TestInv'
<1> SUFFICES ASSUME TestInv, [Next]_vars PROVE TestInv'
  OBVIOUS
<1>1. TypeOK' /\ TypeOK
  BY TypeStep DEF TestInv
<1>2. ASSUME UNCHANGED initVars PROVE ListedInv'
  BY <1>2 DEF TestInv, initVars, ListedInv, ListedBy
<1>3. CASE Start
  BY <1>1, <1>3, StartTested
<1>4. ASSUME NEW r \in Requests, NEW from, NEW to, Goto(r, from, to), from # "done", to # "done",
             UNCHANGED <<initVars, process, spawned, handled>>,
             \A q \in Requests \ {r} : request'[q] = request[q]
      PROVE  TestInv'
  <2>1. pc[r] = from /\ \A q \in Requests : pc'[q] = IF q = r THEN to ELSE pc[q]
    BY <1>1, <1>4 DEF Goto, TypeOK
  <2>2. ForwardedInv' /\ TestReachesAll'
    BY <1>4, <2>1 DEF TestInv, ForwardedInv, TestReachesAll, initVars, Goto
  <2> QED BY <1>1, <1>2, <1>4, <2>2 DEF TestInv
<1>5. ASSUME NEW r \in Requests, Receive(r) PROVE TestInv'
  <2>1. \A q \in Requests \ {r} : request'[q] = request[q]
    BY <1>1, <1>5 DEF Receive, TypeOK
  <2> QED BY <1>4, <1>5, <2>1 DEF Receive
<1>6. ASSUME NEW r \in Requests, Refuse(r) \/ PanicOnField(r) \/ Count(r) \/ CheckFails(r)
                                   \/ Accept(r)
      PROVE  TestInv'
  BY <1>4, <1>6 DEF Refuse, PanicOnField, Count, CheckFails, Accept
<1>7. ASSUME NEW r \in Requests, Handle(r) PROVE TestInv'
  BY <1>1, <1>6, <1>7, ForwardTested DEF Handle
<1>8. ASSUME NEW r \in Requests, NEW o \in DeployedOutputs, Run(r, o) PROVE TestInv'
  <2>1. /\ UNCHANGED <<initVars, request, pc>> /\ <<r, o>> \in spawned
        /\ spawned' = spawned \ {<<r, o>>} /\ process = "serving" /\ process' # "init"
        /\ IF ClientOf(o) \in clients THEN handled' = handled \union {<<r, o>>}
                                      ELSE UNCHANGED handled
    BY <1>8 DEF Run
  <2>2. o \in enabled => ClientOf(o) \in clients
    <3> SUFFICES ASSUME o \in enabled PROVE ClientOf(o) \in clients
      OBVIOUS
    <3>1. PICK c \in Deployed : ListedBy(c, o)
      BY DEF TestInv, ListedInv
    <3>2. c \in Clients /\ c \in clients /\ o \in OutputsOf(c)
      BY <3>1, DispatchAssumption DEF ListedBy
    <3> QED BY <3>2, TableAssumption DEF OnItsOwn
  <2>3. /\ (spawned \union handled)' \subseteq spawned \union handled
        /\ \A p \in enabled, q \in Requests :
             <<q, p>> \in spawned \union handled => <<q, p>> \in (spawned \union handled)'
    BY <2>1, <2>2
  <2>4. ForwardedInv' /\ TestReachesAll'
    BY <2>1, <2>3 DEF TestInv, ForwardedInv, TestReachesAll, initVars
  <2> QED BY <1>1, <1>2, <2>1, <2>4 DEF TestInv
<1>9. CASE UNCHANGED vars
  BY <1>1, <1>2, <1>9 DEF vars, TestInv, ForwardedInv, TestReachesAll, initVars
<1> QED BY <1>3, <1>5, <1>7, <1>8, <1>9 DEF Next

\* For every set of configured clients, whichever of them cannot be created,
\* the test event goes to all enabled outputs but those that refuse its source
\* (Dispatch!TestReachesAll).
THEOREM TestAlwaysReachesAll == Spec => []TestReachesAll
<1>1. Init => TestInv
  BY InitTypes DEF Init, TestInv, ListedInv, ForwardedInv, TestReachesAll
<1>2. TestInv => TestReachesAll
  BY DEF TestInv
<1> QED BY <1>1, <1>2, TestStep, PTL DEF Spec
=============================================================================
