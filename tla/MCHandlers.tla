---------------------------- MODULE MCHandlers -----------------------------
(* Every output beside the three that disturb the others of an event most: *)
(* one sorts its tags, two change its fields as well; two hosts of         *)
(* Alertmanager; and two events of each output that changes its client or  *)
(* the fields.                                                             *)
EXTENDS Handlers, HandlerTable

CONSTANTS g1, g2

MCGoroutines == {g1, g2}
Of(x, y) == (g1 :> x) @@ (g2 :> y)

Beside(p) == {[output |-> Of(o, p), event |-> Of(1, 1)] : o \in Outputs \ {p}}

MCJobs ==
  UNION {Beside(p) : p \in {"Slack", "Elasticsearch", "Pagerduty"}}
  \union
  {[output |-> Of("Alertmanager", "Alertmanager"), event |-> Of(1, 1)]}
  \union
  {[output |-> Of(o, o), event |-> Of(1, 2)] :
     o \in {"MQTT", "AWSCloudWatchLogs", "CloudEvents", "Elasticsearch"}}

\* No program has more than 20 steps left: AccountsAssumption checks it.
MCAccounts ==
  LET From(programs) ==
        LET after[n \in 0..20] ==
              IF n = 0 THEN {Begin(program) : program \in programs}
                ELSE UNION {AfterAlone(a) : a \in after[n - 1]}
        IN  UNION {after[n] : n \in 0..20}
  IN  [o \in DOMAIN Handlers |-> From(Handlers[o])]

MCTags == <<2, 1>>
=============================================================================
