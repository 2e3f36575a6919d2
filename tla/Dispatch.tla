------------------------------ MODULE Dispatch ------------------------------
(***************************************************************************)
(* main.go init() creates the clients of the configured outputs one after  *)
(* the other; then handlers.go takes requests concurrently: mainHandler    *)
(* decodes a request and counts its event, and forwardEvent starts one     *)
(* goroutine per output that wants it.  A panic in a handler is recovered  *)
(* by net/http; one in init() or in an output's goroutine ends the process.*)
(***************************************************************************)
EXTENDS OutputTable, Naturals, FiniteSets

CONSTANTS
  Deployed,      \* the clients that may be configured: no setting of the
                 \* others is there, init() skips them
  Minimum,       \* MinimumPriority of each output, 0 for ""
  Requests,      \* the requests received
  Kinds          \* what a request may be, a subset of Kind

\* shape: "notPost", "notJSON", "badField" (a Kubernetes name that is not a
\* string), "incomplete" (Check fails), "event"; priority 0 is none.
Kind == [shape : {"notPost", "notJSON", "badField", "incomplete", "event"},
         priority : 0..8,
         test : BOOLEAN,      \* Rule is "Test rule"
         source : {"", "syscall", "syscalls", "k8saudit", "other"}]

NotReceived == [shape |-> "none", priority |-> 0, test |-> FALSE, source |-> ""]

ASSUME DispatchAssumption ==
  /\ Deployed \subseteq Clients
  /\ Minimum \in [Outputs -> 0..8]
  /\ Kinds \subseteq Kind
  /\ IsFiniteSet(Requests)

\* What the table says of every client; init() creates each of them once.
ASSUME TableAssumption ==
  /\ \A c \in Clients : OnItsOwn(c)
  /\ \A i, j \in DOMAIN InitOrder : InitOrder[i] = InitOrder[j] => i = j

VARIABLES
  config,      \* the settings that are not empty
  dotted,      \* a custom or templated field has a dot in its name: it is
               \* declared as a Prometheus label and never given a value
  next,        \* the client init() looks at next, by its place in InitOrder
  clients,     \* the clients that are not nil
  enabled,     \* outputs.EnabledOutputs
  process,     \* "init", "serving" or "dead"
  request,     \* what each request is
  pc,          \* position of each request's handler
  total, accepted, rejected,   \* stats.Requests
  counted,     \* stats.Khulnasoft, over all priorities
  spawned,     \* goroutines forwardEvent has started, not yet run
  handled      \* <<request, output>>: the output's handler got the event

Positions ==
  {"start", "received", "decoded", "accepted", "rejected", "panicked", "done"}

initVars == <<config, dotted, next, clients, enabled>>
countVars == <<total, accepted, rejected, counted>>
vars == <<initVars, process, request, pc, countVars, spawned, handled>>

Init ==
  /\ config \in SUBSET UNION {SettingsOf(c) : c \in Deployed}
  /\ dotted \in BOOLEAN
  /\ next = 1
  /\ clients = {}
  /\ enabled = {}
  /\ process = "init"
  /\ request = [r \in Requests |-> NotReceived]
  /\ pc = [r \in Requests |-> "start"]
  /\ total = 0 /\ accepted = 0 /\ rejected = 0 /\ counted = 0
  /\ spawned = {}
  /\ handled = {}

(***************************************************************************)
(* init()                                                                  *)
(***************************************************************************)
Configured(c) == \E needed \in Creates(c) : needed \subseteq config

current == InitOrder[next]

\* init() goes on with the client after the current one.
GoOn ==
  /\ process = "init"
  /\ next <= Len(InitOrder)
  /\ next' = next + 1
  /\ UNCHANGED <<dotted, request, pc, countVars, spawned, handled>>

NotConfigured ==
  /\ GoOn
  /\ ~Configured(current)
  /\ UNCHANGED <<config, clients, enabled, process>>

\* Mutant: the client is listed as if it were its only output.
MutantCreated ==
  /\ GoOn
  /\ Configured(current)
  /\ clients' = clients \union {current}
  /\ enabled' = enabled \union {current}
  /\ UNCHANGED <<config, process>>

\* The client of several outputs enables those that are configured.
Created ==
  /\ GoOn
  /\ Configured(current)
  /\ clients' = clients \union {current}
  /\ enabled' = enabled \union
       {o \in OutputsOf(current) : current \in Shared => Wants(o) \subseteq config}
  /\ UNCHANGED <<config, process>>

\* Mutant: the settings of a client that cannot be created stay.
MutantNotCreated ==
  /\ GoOn
  /\ Configured(current)
  /\ current \notin CannotFail
  /\ process' = IF current \in LogsThroughNil THEN "dead" ELSE process
  /\ UNCHANGED <<config, clients, enabled>>

NotCreated ==
  /\ GoOn
  /\ Configured(current)
  /\ current \notin CannotFail
  /\ config' = config \ Clears(current)
  /\ process' = IF current \in LogsThroughNil THEN "dead" ELSE process
  /\ UNCHANGED <<clients, enabled>>

\* The client is there, but its index template, or its index, is not.
TemplateFails ==
  /\ GoOn
  /\ current \in SecondStep
  /\ Configured(current)
  /\ clients' = clients \union {current}
  /\ config' = config \ Clears(current)
  /\ UNCHANGED <<enabled, process>>

Serve ==
  /\ process = "init"
  /\ next > Len(InitOrder)
  /\ process' = "serving"
  /\ UNCHANGED <<initVars, request, pc, countVars, spawned, handled>>

(***************************************************************************)
(* mainHandler                                                             *)
(***************************************************************************)
Goto(r, from, to) ==
  /\ process = "serving"
  /\ pc[r] = from
  /\ pc' = [pc EXCEPT ![r] = to]

Reject(r) ==
  /\ rejected' = rejected + 1
  /\ UNCHANGED <<total, accepted, counted>>

Receive(r) ==
  /\ Goto(r, "start", "received")
  /\ request' \in {[request EXCEPT ![r] = k] : k \in Kinds}
  /\ total' = total + 1
  /\ UNCHANGED <<initVars, process, accepted, rejected, counted, spawned, handled>>

\* Wrong method, or a body that cannot be decoded.
Refuse(r) ==
  /\ request[r].shape \in {"notPost", "notJSON"}
  /\ Goto(r, "received", "rejected")
  /\ Reject(r)
  /\ UNCHANGED <<initVars, process, request, spawned, handled>>

\* newKhulnasoftPayload asserts the Kubernetes names to be strings ...
PanicOnField(r) ==
  /\ request[r].shape = "badField"
  /\ Goto(r, "received", "panicked")
  /\ UNCHANGED <<initVars, process, request, countVars, spawned, handled>>

\* ... counts the event by its priority, whether it is complete or not, and
\* gives the Prometheus counter its labels: With panics unless they are
\* those it was declared with.
Count(r) ==
  /\ request[r].shape \in {"incomplete", "event"}
  /\ Goto(r, "received", IF dotted THEN "panicked" ELSE "decoded")
  /\ counted' = counted + 1
  /\ UNCHANGED <<initVars, process, request, total, accepted, rejected, spawned, handled>>

\* Mutant: an incomplete event is refused but not counted as rejected.
MutantCheckFails(r) ==
  /\ request[r].shape = "incomplete"
  /\ Goto(r, "decoded", "rejected")
  /\ UNCHANGED <<initVars, process, request, countVars, spawned, handled>>

CheckFails(r) ==
  /\ request[r].shape = "incomplete"
  /\ Goto(r, "decoded", "rejected")
  /\ Reject(r)
  /\ UNCHANGED <<initVars, process, request, spawned, handled>>

Accept(r) ==
  /\ request[r].shape = "event"
  /\ Goto(r, "decoded", "accepted")
  /\ accepted' = accepted + 1
  /\ UNCHANGED <<initVars, process, request, total, rejected, counted, spawned, handled>>

(***************************************************************************)
(* forwardEvent                                                            *)
(***************************************************************************)
\* The test rule makes the source "internal", no source makes it "syscalls".
SourceOf(r) ==
  IF request[r].test THEN "internal"
  ELSE IF request[r].source = "" THEN "syscalls" ELSE request[r].source

\* Mutant: the minimum itself is not enough.
MutantReaches(r, o) == request[r].priority > Minimum[ThresholdOf(o)]

Reaches(r, o) == request[r].priority >= Minimum[ThresholdOf(o)]

\* Mutant: the test rule is held to the minimum of the output.
MutantForwards(r, o) ==
  /\ Wants(o) \subseteq config
  /\ o \in DOMAIN SourcesOf => SourceOf(r) \in SourcesOf[o]
  /\ o \in Unfiltered \/ Reaches(r, o)

Forwards(r, o) ==
  /\ Wants(o) \subseteq config
  /\ IF o \in DOMAIN SourcesOf
       THEN Reaches(r, o) /\ SourceOf(r) \in SourcesOf[o]
       ELSE o \in Unfiltered \/ Reaches(r, o) \/ request[r].test

DeployedOutputs == UNION {OutputsOf(c) : c \in Deployed}

Forward(r) ==
  /\ Goto(r, "accepted", "done")
  /\ spawned' = spawned \union {<<r, o>> : o \in {p \in DeployedOutputs : Forwards(r, p)}}
  /\ UNCHANGED <<initVars, process, request, countVars, handled>>

\* The goroutine of an output: a method of a nil client panics.
Run(r, o) ==
  /\ process = "serving"
  /\ <<r, o>> \in spawned
  /\ spawned' = spawned \ {<<r, o>>}
  /\ IF ClientOf(o) \in clients
       THEN handled' = handled \union {<<r, o>>} /\ UNCHANGED process
       ELSE process' = "dead" /\ UNCHANGED handled
  /\ UNCHANGED <<initVars, request, pc, countVars>>

Start == NotConfigured \/ Created \/ NotCreated \/ TemplateFails \/ Serve

Handle(r) ==
  \/ Refuse(r) \/ PanicOnField(r) \/ Count(r) \/ CheckFails(r)
  \/ Accept(r) \/ Forward(r)

Next ==
  \/ Start
  \/ \E r \in Requests : Receive(r) \/ Handle(r)
  \/ \E r \in Requests, o \in DeployedOutputs : Run(r, o)

\* init() and goroutines run.  Nothing obliges a client to send a request.
Spec ==
  /\ Init /\ [][Next]_vars
  /\ WF_vars(Start)
  /\ \A r \in Requests : WF_vars(Handle(r))
  /\ \A r \in Requests, o \in DeployedOutputs : WF_vars(Run(r, o))

(***************************************************************************)
(* Properties                                                              *)
(***************************************************************************)
TypeOK ==
  /\ config \subseteq UNION {SettingsOf(c) : c \in Deployed}
  /\ dotted \in BOOLEAN
  /\ next \in 1..(Len(InitOrder) + 1)
  /\ clients \subseteq Clients
  /\ enabled \subseteq Outputs
  /\ process \in {"init", "serving", "dead"}
  /\ request \in [Requests -> Kind \union {NotReceived}]
  /\ pc \in [Requests -> Positions]
  /\ total \in Nat /\ accepted \in Nat /\ rejected \in Nat /\ counted \in Nat
  /\ spawned \subseteq Requests \X DeployedOutputs
  /\ handled \subseteq Requests \X DeployedOutputs

At(positions) == Cardinality({r \in Requests : pc[r] \in positions})

\* However requests interleave, each one counted in total is accepted or
\* rejected once, is still being decoded, or ended in a panic; and an event
\* is counted by priority before it is judged, so that the priorities may
\* add up to more than was accepted, never to less.
RequestsBalance ==
  /\ total = accepted + rejected + At({"received", "decoded", "panicked"})
  /\ accepted <= counted

\* An event is handed to an output only if init() listed it as enabled: the
\* settings init() clears are those forwardEvent looks at.
OnlyEnabledServed ==
  \A r \in Requests, o \in DeployedOutputs :
    <<r, o>> \in spawned \union handled => o \in enabled

\* "send a test event to all enabled outputs" (README.md:381): whatever their
\* minimum, but for the outputs that are particular about the source, which
\* refuse the source "internal" the test event is given.
TestReachesAll ==
  \A r \in Requests : pc[r] = "done" /\ request[r].test =>
    \A o \in enabled :
      <<r, o>> \in spawned \union handled <=> o \notin DOMAIN SourcesOf

\* An accepted event reaches every enabled output whose minimum it meets.
\* PolicyReport and OTLPTraces, which choose by the source as well, are left
\* out.
EventuallyServed ==
  \A r \in Requests, o \in DeployedOutputs \ DOMAIN SourcesOf :
    pc[r] = "accepted" /\ o \in enabled /\ request[r].priority >= Minimum[o]
      ~> <<r, o>> \in handled
=============================================================================
