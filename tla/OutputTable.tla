---------------------------- MODULE OutputTable ----------------------------
(***************************************************************************)
(* The table main.go and handlers.go spell out, output by output: which    *)
(* settings make init() create a client, which it clears when that fails,  *)
(* and which settings and which minimum priority forwardEvent looks at.    *)
(*                                                                         *)
(* A setting is named by its path in the configuration; one that is alone  *)
(* in switching an output on is named like the output.  StatsD, DogStatsD  *)
(* and OTLPMetrics are not in the table: no event is forwarded to them.    *)
(***************************************************************************)
EXTENDS Sequences, TLC

(***************************************************************************)
(* The clients, in the order init() creates them                           *)
(***************************************************************************)
FromSlack ==
  <<"Slack", "Cliq", "Rocketchat", "Mattermost", "Teams", "Webex", "Datadog",
    "DatadogLogs", "Discord", "Alertmanager", "Elasticsearch">>

FromQuickwit ==
  <<"Quickwit", "Loki", "SumoLogic", "Nats", "Stan", "Influxdb", "AWS", "SMTP",
    "Opsgenie", "Webhook", "NodeRed">>

FromCloudEvents ==
  <<"CloudEvents", "EventHub", "GCP", "GCPCloudRun", "Googlechat", "Kafka",
    "KafkaRest", "Pagerduty", "Kubeless", "WebUI", "PolicyReport">>

FromOpenfaas ==
  <<"Openfaas", "Tekton", "Rabbitmq", "Wavefront", "Fission", "Grafana",
    "GrafanaOnCall", "YandexS3", "YandexDataStreams", "Syslog", "MQTT">>

FromZincsearch ==
  <<"Zincsearch", "Gotify", "Spyderbat", "TimescaleDB", "Redis", "Telegram",
    "N8N", "OpenObserve", "Dynatrace", "OTLPTraces", "Talon">>

InitOrder ==
  FromSlack \o FromQuickwit \o FromCloudEvents \o FromOpenfaas \o FromZincsearch

Clients == {InitOrder[i] : i \in DOMAIN InitOrder}

(***************************************************************************)
(* Clients that serve several outputs                                      *)
(***************************************************************************)
SecurityLake ==
  {"SecurityLake.Bucket", "SecurityLake.Region", "SecurityLake.AccountID"}

OutputsOf(c) ==
  CASE c = "AWS" -> {"AWSLambda", "AWSSQS", "AWSSNS", "AWSCloudWatchLogs",
                     "AWSS3", "AWSSecurityLake", "AWSKinesis"}
    [] c = "GCP" -> {"GCPPubSub", "GCPStorage", "GCPCloudFunctions"}
    [] OTHER -> {c}

Shared == {"AWS", "GCP"}

Outputs == UNION {OutputsOf(c) : c \in Clients}

ClientOf(o) ==
  IF \E c \in Shared : o \in OutputsOf(c)
    THEN CHOOSE c \in Shared : o \in OutputsOf(c) ELSE o

(***************************************************************************)
(* init(): settings, as alternatives of settings that must all be there    *)
(***************************************************************************)
Several ==
  "Stan"        :> {"Stan.HostPort", "Stan.ClusterID", "Stan.ClientID"} @@
  "SMTP"        :> {"SMTP.HostPort", "SMTP.From", "SMTP.To"} @@
  "GCPCloudRun" :> {"CloudRun.Endpoint", "CloudRun.JWT"} @@
  "Kafka"       :> {"Kafka.HostPort", "Kafka.Topic"} @@
  "Kubeless"    :> {"Kubeless.Namespace", "Kubeless.Function"} @@
  "Rabbitmq"    :> {"Rabbitmq.URL", "Rabbitmq.Queue"} @@
  "Wavefront"   :> {"Wavefront.EndpointType", "Wavefront.EndpointHost"} @@
  "Grafana"     :> {"Grafana.HostPort", "Grafana.APIKey"} @@
  "Telegram"    :> {"Telegram.ChatID", "Telegram.Token"} @@
  "Dynatrace"   :> {"Dynatrace.APIToken", "Dynatrace.APIUrl"}

Creates(c) ==
  CASE c = "AWS" -> {{"AWSLambda"}, {"AWSSQS"}, {"AWSSNS"}, {"AWSCloudWatchLogs"},
                     {"AWSS3"}, {"AWSKinesis"}, SecurityLake}
    [] c = "GCP" -> {{"PubSub.ProjectID", "PubSub.Topic"}, {"GCPStorage"},
                     {"GCPCloudFunctions"}}
    [] c \in DOMAIN Several -> {Several[c]}
    [] OTHER -> {{c}}

\* What is cleared when the client cannot be created.
Clears(c) ==
  CASE c \in Shared \union {"Stan", "Kubeless", "Grafana", "Telegram", "Dynatrace"} ->
         UNION Creates(c)
    [] c \in {"SMTP", "Kafka"} -> {c \o ".HostPort"}
    [] c = "GCPCloudRun" -> {"CloudRun.Endpoint"}
    [] c = "Rabbitmq" -> {"Rabbitmq.URL"}
    [] c = "Wavefront" -> {"Wavefront.EndpointHost"}
    [] c \in {"Openfaas", "Tekton", "Fission"} -> {}
    [] OTHER -> {c}

\* The failure is logged under the name kept in the client that is nil; the
\* process ends there (main.go:566, 598, 608, 628, 639, 674, 687, 700, 744,
\* 755, 781).  NewMQTTClient never fails.
LogsThroughNil ==
  {"Openfaas", "Tekton", "Fission", "Kubeless", "Wavefront", "YandexS3",
   "YandexDataStreams", "Syslog", "Spyderbat", "TimescaleDB", "Telegram"}

CannotFail == {"MQTT"}

\* Once there is a client, an index template or an index is to be created.
SecondStep == {"Elasticsearch", "Quickwit"}

(***************************************************************************)
(* forwardEvent                                                            *)
(***************************************************************************)
\* The settings that must be there for an event to be forwarded to o.
Wants(o) ==
  CASE o = "AWSSecurityLake" -> SecurityLake \union {"SecurityLake.Prefix"}
    [] o = "GCPPubSub" -> {"PubSub.ProjectID", "PubSub.Topic"}
    [] o \in {"SMTP", "Kafka", "Grafana"} -> {o \o ".HostPort"}
    [] o = "GCPCloudRun" -> {"CloudRun.Endpoint"}
    [] o \in DOMAIN Several -> Several[o]
    [] OTHER -> {o}

\* The output whose MinimumPriority is compared.
ThresholdOf(o) == IF o = "Rabbitmq" THEN "Openfaas" ELSE o

\* Outputs without a threshold, outputs the test rule does not lift over
\* theirs, and the sources the latter accept.
Unfiltered == {"WebUI"}

SourcesOf ==
  [o \in {"PolicyReport", "OTLPTraces"} |->
     {"syscalls", "syscall"} \union IF o = "PolicyReport" THEN {"k8saudit"} ELSE {}]

\* Every output of c that forwardEvent forwards to makes init() create c, and
\* is switched off, or ends the process, when that fails.
Matched(c) ==
  \A o \in OutputsOf(c) :
    /\ \E needed \in Creates(c) : needed \subseteq Wants(o)
    /\ c \in LogsThroughNil \union CannotFail \/ Clears(c) \intersect Wants(o) # {}

SettingsOf(c) == (UNION Creates(c)) \union (UNION {Wants(o) : o \in OutputsOf(c)})

\* No other client is created or switched off by the settings of c; what
\* creates c is what forwardEvent looks at, unless several outputs share c and
\* init() looks at each of them.
OnItsOwn(c) ==
  /\ {} \notin Creates(c)
  /\ \A d \in Clients \ {c} : (SettingsOf(d) \union Clears(d)) \intersect SettingsOf(c) = {}
  /\ \A o \in OutputsOf(c) :
       /\ ClientOf(o) = c
       /\ c \in Shared \/ \A needed \in Creates(c) : Wants(o) \subseteq needed
=============================================================================
