----------------------------- MODULE MCDispatch -----------------------------
(* A few clients at a time, one or two requests.                           *)
EXTENDS Dispatch

CONSTANTS r1, r2

\* Of all clients, those whose settings are not the same for init() and for
\* forwardEvent: OnlyEnabledServed holds without them.
ASSUME MatchedAssumption ==
  {c \in Clients : ~Matched(c)} = {"SMTP", "GCPCloudRun", "Kafka", "Grafana"}

OneRequest == {r1}
TwoRequests == {r1, r2}

\* A client that several outputs share, with two settings for one of them,
\* one whose set-up has a second step, and one that looks at the source.
SoundClients == {"GCP", "Elasticsearch", "PolicyReport"}
NilClients == {"Grafana", "SMTP"}

Event(p, t, s) == [shape |-> "event", priority |-> p, test |-> t, source |-> s]
Other(sh) == [shape |-> sh, priority |-> 4, test |-> FALSE, source |-> ""]

MCMinimum ==
  [o \in Outputs |-> CASE o \in {"GCPStorage", "PolicyReport"} -> 4 [] OTHER -> 0]
AllKinds ==
  {Event(3, FALSE, "other"), Event(4, FALSE, ""), Event(1, TRUE, "syscall"),
   Other("notJSON"), Other("badField"), Other("incomplete")}
OneEvent == {Event(4, FALSE, "syscall")}
=============================================================================
