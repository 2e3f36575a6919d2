--------------------------- MODULE HandlerTable ----------------------------
(***************************************************************************)
(* The handlers by output, as forwardEvent calls them, and the outputs     *)
(* whose handlers depart from what the others do.  An output is named as   *)
(* its counters in expvar are.                                             *)
(***************************************************************************)
EXTENDS HTTPHandlers, ServiceHandlers

Handlers ==
  [Slack |-> SlackPost, Cliq |-> CliqPost, Rocketchat |-> RocketchatPost,
   Mattermost |-> MattermostPost, Teams |-> TeamsPost, Webex |-> WebexPost,
   Datadog |-> DatadogPost, DatadogLogs |-> DatadogLogsPost, Discord |-> DiscordPost,
   Alertmanager |-> AlertmanagerPost, Elasticsearch |-> ElasticsearchPost,
   Quickwit |-> QuickwitPost, Influxdb |-> InfluxdbPost, Loki |-> LokiPost,
   SumoLogic |-> SumoLogicPost, Nats |-> NatsPublish, Stan |-> StanPublish,
   AWSLambda |-> InvokeLambda, AWSSQS |-> SendMessage, AWSSNS |-> PublishTopic,
   AWSCloudWatchLogs |-> SendCloudWatchLog, AWSS3 |-> UploadS3, AWSKinesis |-> PutRecord,
   SMTP |-> SendMail, Opsgenie |-> OpsgeniePost, Webhook |-> WebhookPost,
   NodeRed |-> NodeRedPost, CloudEvents |-> CloudEventsSend,
   AzureEventHub |-> EventHubPost, GCPCloudFunctions |-> GCPCallCloudFunction,
   GCPCloudRun |-> CloudRunFunctionPost, GCPPubSub |-> GCPPublishTopic,
   GCPStorage |-> UploadGCS, GoogleChat |-> GooglechatPost, KafkaRest |-> KafkaRestPost,
   Pagerduty |-> PagerdutyPost, Kubeless |-> KubelessCall, Openfaas |-> OpenfaasCall,
   Tekton |-> TektonPost, Rabbitmq |-> RabbitmqPublish, Wavefront |-> WavefrontPost,
   Fission |-> FissionCall, Grafana |-> GrafanaPost, GrafanaOnCall |-> GrafanaOnCallPost,
   WebUI |-> WebUIPost, YandexS3 |-> UploadYandexS3,
   YandexDataStreams |-> UploadYandexDataStreams, Syslog |-> SyslogPost,
   MQTT |-> MQTTPublish, Zincsearch |-> ZincsearchPost, Gotify |-> GotifyPost,
   Spyderbat |-> SpyderbatPost, TimescaleDB |-> TimescaleDBPost, Redis |-> RedisPost,
   Telegram |-> TelegramPost, N8N |-> N8NPost, OpenObserve |-> OpenObservePost,
   Dynatrace |-> DynatracePost, OTLPTraces |-> OTLPTracesPost, Talon |-> TalonPost]

(***************************************************************************)
(* Where handlers depart from the rule                                     *)
(***************************************************************************)
Miscounted ==
  "AWSS3"             :> {"expvar"} @@
  "YandexS3"          :> {"expvar"} @@
  "YandexDataStreams" :> {"expvar", "otlp"} @@
  "GCPCloudFunctions" :> {"expvar", "prometheus", "otlp"} @@
  "SMTP"              :> {"expvar", "prometheus", "otlp"} @@
  "Wavefront"         :> {"statsd"} @@
  "KafkaRest"         :> {"statsd"} @@
  "Webex"             :> {"expvar"} @@
  "GrafanaOnCall"     :> {"expvar"} @@
  "MQTT"              :> {"prometheus"} @@
  "Redis"             :> Backends

MiscountedBackends ==
  [o \in DOMAIN Handlers |-> IF o \in DOMAIN Miscounted THEN Miscounted[o] ELSE {}]

\* Errors that do not end the handler, or are taken for a success; a
\* publication nobody waits for; libraries that only buffer what they take.
UnreliableOutputs == {"Redis", "Elasticsearch", "MQTT", "Nats", "OTLPTraces", "Wavefront"}

RepeatingOutputs == {"AzureEventHub"}
LeakyOutputs == {"SMTP", "Syslog"}
EditingOutputs == {"Elasticsearch", "Pagerduty"}
DeletingOutputs == {"Elasticsearch"}
AssertingOutputs == {"Slack", "Cliq", "Mattermost", "Rocketchat", "Teams", "GoogleChat"}
PanickingOutputs ==
  {"Alertmanager", "Dynatrace", "Spyderbat", "OTLPTraces", "AWSLambda", "Fission", "SMTP"}
CachingOutputs == {"AWSCloudWatchLogs", "CloudEvents"}
=============================================================================
