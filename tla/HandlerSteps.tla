--------------------------- MODULE HandlerSteps ----------------------------
(***************************************************************************)
(* The vocabulary in which the handlers of the outputs are written: what   *)
(* the body of a handler does to the state that goroutines share, to the   *)
(* counters and to the service behind the output, in the order of the code.*)
(*                                                                         *)
(* A program is a sequence of steps.  A step that may fail carries in      *)
(* "else" what is left to do when it does.  Every operator here is a       *)
(* program of one step, or of a few, so that they are joined with \o.      *)
(***************************************************************************)
EXTENDS Sequences, TLC

(***************************************************************************)
(* Counting                                                                *)
(***************************************************************************)
Backends == {"expvar", "statsd", "prometheus", "otlp"}

\* at: under which output each of the backends concerned counts.
Counted(status, at) == <<[do |-> "count", status |-> status, at |-> at]>>

In(backends, o) == [b \in backends |-> o]
Everywhere(o) == In(Backends, o)

\* c.Stats.X.Add(Total, 1): only expvar has a total.
Total(o) == Counted("total", In({"expvar"}, o))
Ok(o) == Counted("ok", Everywhere(o))
Failed(o) == Counted("error", Everywhere(o))

(***************************************************************************)
(* The event, whose Tags and OutputFields the goroutines of its outputs    *)
(* share: KhulnasoftPayload is passed by value, slices and maps are not.   *)
(***************************************************************************)
Tags == <<[do |-> "tags"]>>
Fields == <<[do |-> "fields"]>>

\* getSortedStringKeys collects the keys whose values are strings; then the
\* value of each key is looked up and asserted to be one.
StringFields == Fields \o <<[do |-> "values"]>>

\* Marshalled, or given to a template.
Whole == Fields \o Tags

\* sort.Strings(khulnasoftpayload.Tags), in place.
SortedTags == <<[do |-> "sort"]>> \o Tags

\* An assignment to, or a deletion from, the map OutputFields.
Edit(change) == <<[do |-> "edit", change |-> change]>>

\* A type assertion or a dereference outside sendRequest's recover fails.
Panics == <<[do |-> "panic"]>>

(***************************************************************************)
(* The service                                                             *)
(***************************************************************************)
\* A call the handler looks at the error of, and the one that hands over
\* the event.
Call(else) == <<[do |-> "call", else |-> else]>>
Send(else) == <<[do |-> "send", else |-> else]>>

\* Handing the event to a library that buffers it, and does not say what
\* becomes of it.
Hand == <<[do |-> "hand"]>>

\* A connection made for this event.
Open(else) == <<[do |-> "open", else |-> else]>>
Close == <<[do |-> "close"]>>

\* The MQTT client, one connection for all events.
Connect(else) == <<[do |-> "connect", else |-> else]>>
Publish(else) == <<[do |-> "publish", else |-> else]>>
Disconnect == <<[do |-> "disconnect"]>>

\* What the first event that misses it creates and keeps in the client, and
\* the use of it.
Ensure(what, else) == <<[do |-> "ensure", what |-> what, else |-> else]>>
Use(what) == <<[do |-> "use", what |-> what]>>

(***************************************************************************)
(* The body most handlers have: count, lay the message out, Post, count.   *)
(***************************************************************************)
Posted(o, layouts) == {Total(o) \o l \o Send(Failed(o)) \o Ok(o) : l \in layouts}

\* A message template may be configured, after or before the layout.
Nothing == << >>
ThenTemplate(layouts) == layouts \union {l \o Whole : l \in layouts}
TemplateThen(layouts) == layouts \union {Whole \o l : l \in layouts}
=============================================================================
