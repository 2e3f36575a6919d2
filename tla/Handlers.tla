----------------------------- MODULE Handlers ------------------------------
(***************************************************************************)
(* The goroutines forwardEvent starts, one per output of an event, running *)
(* the handlers of HTTPHandlers and ServiceHandlers.                       *)
(*                                                                         *)
(* Goroutines of one event share its tags and its map of fields; those of  *)
(* one output share its client.  A map access that meets an unfinished     *)
(* write may end the process, as may the read of a value another goroutine *)
(* is storing, or the assertion that the value of a key collected before   *)
(* is a string when the key was removed since; a panic outside sendRequest *)
(* does.                                                                   *)
(***************************************************************************)
EXTENDS HandlerAccounts

CONSTANTS
  Goroutines,
  Events,
  Jobs,          \* [output, event]: what the goroutines are started for
  ReceivedTags,  \* the tags of an event as decoded
  Editing,       \* outputs that change the fields of the event
  Deleting,      \* outputs that remove keys from them
  Asserting,     \* outputs that assert what they read of keys they collected
  Panicking,     \* outputs that panic on some events
  Caching        \* outputs that keep what their first event created

ASSUME HandlersAssumption ==
  /\ \A job \in Jobs :
       job.output \in [Goroutines -> Outputs] /\ job.event \in [Goroutines -> Events]
  /\ ReceivedTags \in Seq(Nat)

Kept == {"LogStream", "CloudEventsClient"}
Changes == {"rename", "drop", "hostname"}
Removals == {"rename", "drop"}

Store(what) == <<[do |-> "store", what |-> what]>>

\* Only the outputs named panic, edit, remove, assert or keep, no two keep the
\* same, and what is stored was ensured.
ASSUME ExceptionsAssumption ==
  \A o \in Outputs :
    /\ \A step \in Steps(o) :
         /\ step.do = "panic" => o \in Panicking
         /\ step.do = "edit" => o \in Editing /\ step.change \in Changes
         /\ step.do = "edit" /\ step.change \in Removals => o \in Deleting
         /\ step.do = "values" => o \in Asserting
         /\ step.do # "store"
    /\ KeptBy(o) \subseteq Kept
    /\ KeptBy(o) # {} => o \in Caching
    /\ \A q \in Outputs \ {o} : KeptBy(o) \intersect KeptBy(q) = {}

VARIABLES
  output, event,  \* of each goroutine
  code,           \* what each has left to execute
  counted,        \* what it counted, in order
  sent,           \* how often its event reached the service
  refused,        \* some call it made failed
  opened,         \* connections it made and did not close
  readTags,       \* the tags it last read
  tags,           \* khulnasoftpayload.Tags of each event
  swapping,       \* stores a sort has left to do, of each goroutine
  edits,          \* changes made to khulnasoftpayload.OutputFields
  writers,        \* goroutines in the middle of a change
  stale,          \* goroutines that hold keys of which some were removed
  kept,           \* what a client keeps: unset, torn while stored, set
  missing,        \* goroutines that found it unset and are to create it
  existing,       \* what was created
  connected,      \* the connection of the MQTT client
  queue,          \* goroutines whose publication waits to be written to it
  dead            \* why the process ended, or "no"

eventVars == <<tags, swapping, readTags, edits, writers, stale>>
clientVars == <<kept, missing, existing, connected, queue>>
accountVars == <<counted, sent, refused, opened>>
vars == <<output, event, code, accountVars, eventVars, clientVars, dead>>

Ascending(s) == \A i \in 1..(Len(s) - 1) : s[i] <= s[i + 1]

\* A rearrangement of s.
Rearranged(s) == {[i \in DOMAIN s |-> s[p[i]]] :
                    p \in {q \in [DOMAIN s -> DOMAIN s] : \A i, j \in DOMAIN s : q[i] = q[j] => i = j}}

\* So for every sequence of numbers; the proofs, which cannot use induction,
\* take it from here.
ASSUME SortableAssumption == \E s \in Rearranged(ReceivedTags) : Ascending(s)

(***************************************************************************)
(* Definitions named Mutant... are the plausible bugs against which each   *)
(* property is tried: none of them is part of the specification.           *)
(***************************************************************************)
\* The tags are left to the handlers that need them sorted.
MutantPayloadTags(received) == received

\* newKhulnasoftPayload sorts the tags before forwardEvent.
PayloadTags(received) == CHOOSE s \in Rearranged(received) : Ascending(s)

Init ==
  /\ \E job \in Jobs : output = job.output /\ event = job.event
  /\ code \in [Goroutines -> UNION {Programs[output[g]] : g \in Goroutines}]
  /\ \A g \in Goroutines : code[g] \in Programs[output[g]]
  /\ counted = [g \in Goroutines |-> << >>]
  /\ sent = [g \in Goroutines |-> 0]
  /\ refused = [g \in Goroutines |-> FALSE]
  /\ opened = [g \in Goroutines |-> 0]
  /\ readTags = [g \in Goroutines |-> PayloadTags(ReceivedTags)]
  /\ tags = [e \in Events |-> PayloadTags(ReceivedTags)]
  /\ swapping = [g \in Goroutines |-> << >>]
  /\ edits = [e \in Events |-> {}]
  /\ writers = [e \in Events |-> {}]
  /\ stale = {}
  /\ kept = [k \in Kept |-> "unset"]
  /\ missing = {}
  /\ existing = {}
  /\ connected = FALSE
  /\ queue = {}
  /\ dead = "no"

(***************************************************************************)
(* Steps                                                                   *)
(***************************************************************************)
\* The next step of g is one of the given kinds.
At(g, kinds) ==
  /\ dead = "no"
  /\ code[g] # << >>
  /\ Head(code[g]).do \in kinds

Proceed(g) == code' = [code EXCEPT ![g] = Tail(@)]

\* Mutant: it returns before it counts the error.
MutantFailUncounted(g) ==
  /\ code' = [code EXCEPT ![g] = << >>]
  /\ refused' = [refused EXCEPT ![g] = TRUE]

\* Mutant: the error is counted, and there is no return.
MutantFailNoReturn(g) ==
  /\ code' = [code EXCEPT ![g] = Head(@).else \o Tail(@)]
  /\ refused' = [refused EXCEPT ![g] = TRUE]

\* if err != nil, count the error and return; before that, what was deferred.
Fail(g) ==
  /\ code' = [code EXCEPT ![g] = Head(@).else]
  /\ refused' = [refused EXCEPT ![g] = TRUE]

Dies(why) ==
  /\ dead' = why
  /\ UNCHANGED <<output, event, code, accountVars, eventVars, clientVars>>

Count(g) ==
  /\ At(g, {"count"})
  /\ counted' = [counted EXCEPT ![g] = Append(@, Head(code[g]))]
  /\ Proceed(g)
  /\ UNCHANGED <<output, event, sent, refused, opened, eventVars, clientVars, dead>>

\* A type assertion or a dereference fails, with nobody to recover.
Panic(g) == At(g, {"panic"}) /\ Dies("panic")

(***************************************************************************)
(* Tags                                                                    *)
(***************************************************************************)
ReadTags(g) ==
  /\ At(g, {"tags"})
  /\ readTags' = [readTags EXCEPT ![g] = tags[event[g]]]
  /\ Proceed(g)
  /\ UNCHANGED <<output, event, accountVars, tags, swapping, edits, writers, stale, clientVars,
                 dead>>

\* sort.Strings compares, and exchanges two neighbours that are out of order
\* by two stores of what it loaded; there is nothing to store when all are
\* in order, as they are after newKhulnasoftPayload (theorem TagsUntouched).
Inversions(s) == {i \in 1..(Len(s) - 1) : s[i] > s[i + 1]}

Exchange(s, i) == <<[at |-> i, tag |-> s[i + 1]], [at |-> i + 1, tag |-> s[i]]>>

SortTags(g) ==
  LET now == tags[event[g]] IN
  /\ At(g, {"sort"})
  /\ IF swapping[g] # << >>
       THEN /\ tags' = [tags EXCEPT ![event[g]][Head(swapping[g]).at] = Head(swapping[g]).tag]
            /\ swapping' = [swapping EXCEPT ![g] = Tail(@)]
            /\ UNCHANGED code
       ELSE IF Inversions(now) # {}
       THEN /\ \E i \in Inversions(now) : swapping' = [swapping EXCEPT ![g] = Exchange(now, i)]
            /\ UNCHANGED <<code, tags>>
       ELSE /\ Proceed(g)
            /\ UNCHANGED <<tags, swapping>>
  /\ UNCHANGED <<output, event, accountVars, readTags, edits, writers, stale, clientVars, dead>>

(***************************************************************************)
(* Fields                                                                  *)
(***************************************************************************)
Writing(g) == g \in writers[event[g]]

\* Mutant: every request is decoded into the same map.
MutantOthersWrite(g) == \E e \in Events : writers[e] \ {g} # {}

\* The map a request was decoded into is that of the event.
OthersWrite(g) == writers[event[g]] \ {g} # {}

ReadFields(g) ==
  /\ At(g, {"fields"})
  /\ Proceed(g)
  /\ UNCHANGED <<output, event, accountVars, eventVars, clientVars, dead>>

BeginEdit(g) ==
  /\ At(g, {"edit"})
  /\ ~Writing(g)
  /\ writers' = [writers EXCEPT ![event[g]] = @ \union {g}]
  /\ UNCHANGED <<output, event, code, accountVars, tags, swapping, readTags, edits, stale,
                 clientVars, dead>>

\* Goroutines between the collection of the keys of that event and the last
\* of their values.
HoldKeys(e) == {h \in Goroutines : event[h] = e /\ At(h, {"values"})}

EndEdit(g) ==
  /\ At(g, {"edit"})
  /\ Writing(g)
  /\ writers' = [writers EXCEPT ![event[g]] = @ \ {g}]
  /\ edits' = [edits EXCEPT ![event[g]] = @ \union {Head(code[g]).change}]
  /\ stale' = IF Head(code[g]).change \in Removals THEN stale \union HoldKeys(event[g]) ELSE stale
  /\ Proceed(g)
  /\ UNCHANGED <<output, event, accountVars, tags, swapping, readTags, clientVars, dead>>

\* "concurrent map read and map write": the runtime ends the process when it
\* notices, which it need not.
MapThrow(g) ==
  /\ At(g, {"fields", "values", "edit"})
  /\ ~Writing(g)
  /\ OthersWrite(g)
  /\ Dies("map")

\* The values of the keys collected are read and asserted, without a panic
\* if those that were removed were read before.
ReadValues(g) ==
  /\ At(g, {"values"})
  /\ stale' = stale \ {g}
  /\ Proceed(g)
  /\ UNCHANGED <<output, event, accountVars, tags, swapping, readTags, edits, writers, clientVars,
                 dead>>

\* g is in the middle of removing keys.
Removing(g) == Writing(g) /\ At(g, {"edit"}) /\ Head(code[g]).change \in Removals

\* A removed key has no value, and nil is no string.
StaleValue(g) ==
  /\ At(g, {"values"})
  /\ g \in stale \/ \E h \in Goroutines : event[h] = event[g] /\ Removing(h)
  /\ Dies("stale")

(***************************************************************************)
(* Calls                                                                   *)
(***************************************************************************)
CallReturns(g) ==
  /\ At(g, {"call"})
  /\ Proceed(g)
  /\ UNCHANGED <<output, event, refused, counted, sent, opened, eventVars, clientVars, dead>>

SendReturns(g) ==
  /\ At(g, {"send"})
  /\ sent' = [sent EXCEPT ![g] = @ + 1]
  /\ Proceed(g)
  /\ UNCHANGED <<output, event, refused, counted, opened, eventVars, clientVars, dead>>

\* The library takes the event, and sends it or loses it.
HandReturns(g) ==
  /\ At(g, {"hand"})
  /\ sent' \in {sent, [sent EXCEPT ![g] = @ + 1]}
  /\ Proceed(g)
  /\ UNCHANGED <<output, event, refused, counted, opened, eventVars, clientVars, dead>>

OpenReturns(g) ==
  /\ At(g, {"open"})
  /\ opened' = [opened EXCEPT ![g] = @ + 1]
  /\ Proceed(g)
  /\ UNCHANGED <<output, event, refused, counted, sent, eventVars, clientVars, dead>>

\* Mutant: the connection is closed where the publication succeeded.
MutantCloseConnection(g) ==
  /\ At(g, {"close"})
  /\ opened' = [opened EXCEPT ![g] = IF refused[g] THEN @ ELSE @ - 1]
  /\ Proceed(g)
  /\ UNCHANGED <<output, event, counted, sent, refused, eventVars, clientVars, dead>>

CloseConnection(g) ==
  /\ At(g, {"close"})
  /\ opened' = [opened EXCEPT ![g] = @ - 1]
  /\ Proceed(g)
  /\ UNCHANGED <<output, event, counted, sent, refused, eventVars, clientVars, dead>>

\* Mutant: a failed publication closes the connection, as the deferred Close
\* does.
MutantCallFails(g) ==
  /\ At(g, {"call", "send", "open"})
  /\ Fail(g)
  /\ opened' = [opened EXCEPT ![g] = IF @ > 0 THEN @ - 1 ELSE @]
  /\ UNCHANGED <<output, event, counted, sent, eventVars, clientVars, dead>>

CallFails(g) ==
  /\ At(g, {"call", "send", "open"})
  /\ Fail(g)
  /\ UNCHANGED <<output, event, counted, sent, opened, eventVars, clientVars, dead>>

(***************************************************************************)
(* What a client keeps from its first event on                             *)
(***************************************************************************)
What(g) == Head(code[g]).what

\* The check takes a value that is being stored for one or the other.
EnsureFound(g) ==
  /\ At(g, {"ensure"})
  /\ g \notin missing
  /\ kept[What(g)] # "unset"
  /\ Proceed(g)
  /\ UNCHANGED <<output, event, accountVars, eventVars, clientVars, dead>>

EnsureMissing(g) ==
  /\ At(g, {"ensure"})
  /\ g \notin missing
  /\ kept[What(g)] # "set"
  /\ missing' = missing \union {g}
  /\ UNCHANGED <<output, event, code, accountVars, eventVars, kept, existing, connected, queue,
                 dead>>

\* Created, or already there: both are the success of this call.
EnsureCreate(g) ==
  /\ At(g, {"ensure"})
  /\ g \in missing
  /\ missing' = missing \ {g}
  /\ existing' = existing \union {What(g)}
  /\ code' = [code EXCEPT ![g] = Store(What(g)) \o Tail(@)]
  /\ UNCHANGED <<output, event, accountVars, eventVars, kept, connected, queue, dead>>

EnsureFails(g) ==
  /\ At(g, {"ensure"})
  /\ g \in missing
  /\ missing' = missing \ {g}
  /\ Fail(g)
  /\ UNCHANGED <<output, event, counted, sent, opened, eventVars, kept, existing, connected,
                 queue, dead>>

\* Two words are stored one after the other, without a lock; storing the
\* same again changes neither.
StoreFirst(g) ==
  /\ At(g, {"store"})
  /\ kept[What(g)] = "unset"
  /\ kept' = [kept EXCEPT ![What(g)] = "torn"]
  /\ UNCHANGED <<output, event, code, accountVars, eventVars, missing, existing, connected, queue,
                 dead>>

StoreSecond(g) ==
  /\ At(g, {"store"})
  /\ kept[What(g)] # "unset"
  /\ kept' = [kept EXCEPT ![What(g)] = "set"]
  /\ Proceed(g)
  /\ UNCHANGED <<output, event, accountVars, eventVars, missing, existing, connected, queue,
                 dead>>

UseKept(g) ==
  /\ At(g, {"use"})
  /\ Proceed(g)
  /\ UNCHANGED <<output, event, accountVars, eventVars, clientVars, dead>>

UseTorn(g) == At(g, {"use"}) /\ kept[What(g)] = "torn" /\ Dies("torn")

(***************************************************************************)
(* The MQTT client                                                         *)
(***************************************************************************)
\* Connecting a connected client does nothing.
ConnectReturns(g) ==
  /\ At(g, {"connect"})
  /\ connected' = TRUE
  /\ Proceed(g)
  /\ UNCHANGED <<output, event, accountVars, eventVars, kept, missing, existing, queue, dead>>

\* The token of a publication that was queued has no error yet.
PublishReturns(g) ==
  /\ At(g, {"publish"})
  /\ connected
  /\ queue' = queue \union {g}
  /\ Proceed(g)
  /\ UNCHANGED <<output, event, accountVars, eventVars, kept, missing, existing, connected,
                 dead>>

MQTTFails(g) ==
  /\ At(g, {"connect", "publish"})
  /\ ~connected
  /\ Fail(g)
  /\ UNCHANGED <<output, event, counted, sent, opened, eventVars, clientVars, dead>>

\* What still waits after 100 ms is lost, whoever published it.
DisconnectClient(g) ==
  /\ At(g, {"disconnect"})
  /\ connected' = FALSE
  /\ queue' = {}
  /\ Proceed(g)
  /\ UNCHANGED <<output, event, accountVars, eventVars, kept, missing, existing, dead>>

\* The client's own goroutine writes a publication to the connection.
Written(g) ==
  /\ dead = "no"
  /\ g \in queue
  /\ queue' = queue \ {g}
  /\ sent' = [sent EXCEPT ![g] = @ + 1]
  /\ UNCHANGED <<output, event, code, counted, refused, opened, eventVars, kept, missing,
                 existing, connected, dead>>

Next ==
  \E g \in Goroutines :
    \/ Count(g) \/ Panic(g)
    \/ ReadTags(g) \/ SortTags(g)
    \/ ReadFields(g) \/ BeginEdit(g) \/ EndEdit(g) \/ MapThrow(g)
    \/ ReadValues(g) \/ StaleValue(g)
    \/ CallReturns(g) \/ SendReturns(g) \/ HandReturns(g) \/ OpenReturns(g)
    \/ CloseConnection(g) \/ CallFails(g)
    \/ EnsureFound(g) \/ EnsureMissing(g) \/ EnsureCreate(g) \/ EnsureFails(g)
    \/ StoreFirst(g) \/ StoreSecond(g) \/ UseKept(g) \/ UseTorn(g)
    \/ ConnectReturns(g) \/ PublishReturns(g) \/ MQTTFails(g)
    \/ DisconnectClient(g) \/ Written(g)

Spec == Init /\ [][Next]_vars

(***************************************************************************)
(* Properties                                                              *)
(***************************************************************************)
HandlersTypeOK ==
  /\ output \in [Goroutines -> Outputs]
  /\ event \in [Goroutines -> Events]
  /\ sent \in [Goroutines -> Nat]
  /\ refused \in [Goroutines -> BOOLEAN]
  /\ opened \in [Goroutines -> Nat]
  /\ tags \in [Events -> Seq(Nat)]
  /\ readTags \in [Goroutines -> Seq(Nat)]
  /\ edits \in [Events -> SUBSET Changes]
  /\ writers \in [Events -> SUBSET Goroutines]
  /\ stale \subseteq Goroutines
  /\ kept \in [Kept -> {"unset", "torn", "set"}]
  /\ missing \subseteq Goroutines
  /\ existing \subseteq Kept
  /\ connected \in BOOLEAN
  /\ queue \subseteq Goroutines
  /\ dead \in {"no", "panic", "map", "stale", "torn"}

Ended(g) == code[g] = << >>

\* "Metrics are recorded for all errors to track reliability"
\* (docs/architecture/data_flow.md:162): whatever fails, on every path to the
\* end of a handler, every backend has counted the event once as ok or error
\* of this output, expvar once in total, and none under another output.
\* Exempt names the backends of which that is not so; for StatsD, that the
\* handler called CountMetric.  A handler whose panic ends the process does
\* not come to its end.
Accounted == \A g \in Goroutines : Ended(g) => Balanced(output[g], counted[g])

\* ok is said of an event that was sent, error of one for which a call
\* failed, and no event is sent twice, but for the outputs named: Unreliable
\* holds those that count ok on an error, or on having put the event in the
\* buffer of a library (MQTT, NATS, Wavefront, OTLP traces).
ReportsResult ==
  \A g \in Goroutines :
    /\ Says(counted[g], "ok") /\ output[g] \notin Unreliable => sent[g] > 0
    /\ Says(counted[g], "error") => refused[g]
    /\ output[g] \notin Repeating => sent[g] <= 1

\* The tags a handler reads are those of the event, none lost or repeated,
\* although other goroutines sort the slice meanwhile; the fields change only
\* if an output that edits them is enabled.
SeesTheEvent ==
  /\ \A g \in Goroutines : readTags[g] \in Rearranged(ReceivedTags)
  /\ \A e \in Events : edits[e] # {} =>
       \E g \in Goroutines : event[g] = e /\ output[g] \in Editing

\* "Non-critical errors (single output failure) are logged but don't affect
\* other processing" (docs/architecture/data_flow.md:159): the process ends
\* only by an output that panics on some events, by one that edits the fields
\* beside another of the same event, by one that removes fields beside one
\* that collects keys and asserts their values later, or by two first events
\* of one that keeps what it creates.
Survives ==
  /\ dead = "panic" => \E g \in Goroutines : output[g] \in Panicking
  /\ dead = "map" => \E g, h \in Goroutines :
       g # h /\ event[g] = event[h] /\ output[g] \in Editing
  /\ dead = "stale" => \E g, h \in Goroutines :
       g # h /\ event[g] = event[h] /\ output[g] \in Asserting /\ output[h] \in Deleting
  /\ dead = "torn" => \E g, h \in Goroutines :
       g # h /\ output[g] = output[h] /\ output[g] \in Caching

KeptExists == \A k \in Kept : kept[k] # "unset" => k \in existing

\* A handler that ends leaves no connection behind, on whatever path, and
\* what clients keep exists.
ResourcesKept ==
  /\ \A g \in Goroutines : Ended(g) /\ output[g] \notin Leaky => opened[g] = 0
  /\ KeptExists
=============================================================================
