--------------------------- MODULE HTTPHandlers ----------------------------
(***************************************************************************)
(* The handlers of the outputs that hand their event to Client.Post (see   *)
(* OutputClient), each with the layout of its message: the alternatives    *)
(* are the settings and the kinds of events it tells apart.                *)
(***************************************************************************)
EXTENDS HandlerSteps

(***************************************************************************)
(* Chats                                                                   *)
(***************************************************************************)
newSlackPayload == ThenTemplate({Nothing, SortedTags \o StringFields})
SlackPost == Posted("Slack", newSlackPayload)

newCliqPayload == TemplateThen({Nothing, StringFields})
CliqPost == Posted("Cliq", newCliqPayload)

newMattermostPayload == ThenTemplate({Nothing, SortedTags \o StringFields})
MattermostPost == Posted("Mattermost", newMattermostPayload)

newRocketchatPayload == ThenTemplate({Nothing, SortedTags \o StringFields})
RocketchatPost == Posted("Rocketchat", newRocketchatPayload)

newTeamsPayload == {Nothing, StringFields \o SortedTags}
TeamsPost == Posted("Teams", newTeamsPayload)

\* The text format is the template's text alone.
newGooglechatPayload == TemplateThen({Nothing, StringFields \o SortedTags})
GooglechatPost == Posted("GoogleChat", newGooglechatPayload)

newDiscordPayload == {Fields \o SortedTags}
DiscordPost == Posted("Discord", newDiscordPayload)

newTelegramPayload == {Whole}
TelegramPost == Posted("Telegram", newTelegramPayload)

\* Counted by expvar under Webhook, total apart.
newWebexPayload == {Whole}
WebexPost ==
  LET As(status) == Counted(status, [Everywhere("Webex") EXCEPT !["expvar"] = "Webhook"])
  IN  {Total("Webex") \o l \o Send(As("error")) \o As("ok") : l \in newWebexPayload}

(***************************************************************************)
(* Alerts and logs                                                         *)
(***************************************************************************)
newDatadogPayload == {Fields \o SortedTags}
DatadogPost == Posted("Datadog", newDatadogPayload)

newDatadogLogsPayload == {SortedTags \o Whole}
DatadogLogsPost == Posted("DatadogLogs", newDatadogLogsPayload)

\* The json format marshals the event.
newLokiPayload == ThenTemplate({Fields \o SortedTags})
LokiPost == Posted("Loki", newLokiPayload)

\* A drop counter that is not a string fails the assertion.
newAlertmanagerPayload == {Fields \o SortedTags, Fields \o Panics}
AlertmanagerPost == Posted("Alertmanager", newAlertmanagerPayload)

newOpsgeniePayload == {Fields \o Tags}
OpsgeniePost == Posted("Opsgenie", newOpsgeniePayload)

newInfluxdbPayload == {Fields \o Tags}
InfluxdbPost == Posted("Influxdb", newInfluxdbPayload)

newGotifyPayload == {Whole}
GotifyPost == Posted("Gotify", newGotifyPayload)

\* AllFieldsAsTags.
newGrafanaPayload == {Nothing, Fields \o Tags}
GrafanaPost == Posted("Grafana", newGrafanaPayload)

\* Counted by expvar under Grafana, total apart.
newGrafanaOnCallPayload == {Nothing}
GrafanaOnCallPost ==
  LET As(status) ==
        Counted(status, [Everywhere("GrafanaOnCall") EXCEPT !["expvar"] = "Grafana"])
  IN  {Total("GrafanaOnCall") \o l \o Send(As("error")) \o As("ok")
         : l \in newGrafanaOnCallPayload}

\* Eight fields are asserted to be strings and span.id an int, which no
\* decoded number is.  The fields themselves are marshalled by Post.
newDynatracePayload == {Whole \o Fields, Fields \o Panics}
DynatracePost == Posted("Dynatrace", newDynatracePayload)

\* An event without evt.time or proc.pid is refused, one whose fields have
\* other types fails the assertions.
newSpyderbatPayload == {Fields, Fields \o Panics}
SpyderbatPost ==
  {Total("Spyderbat") \o l \o Call(Failed("Spyderbat")) \o Send(Failed("Spyderbat"))
     \o Ok("Spyderbat") : l \in newSpyderbatPayload}

(***************************************************************************)
(* Outputs that post the event itself                                      *)
(***************************************************************************)
newWebUIPayload == {Whole}
WebUIPost == Posted("WebUI", newWebUIPayload)

QuickwitPost == Posted("Quickwit", {Whole})
WebhookPost == Posted("Webhook", {Whole})
NodeRedPost == Posted("NodeRed", {Whole})
N8NPost == Posted("N8N", {Whole})
TalonPost == Posted("Talon", {Whole})
TektonPost == Posted("Tekton", {Whole})
ZincsearchPost == Posted("Zincsearch", {Whole})
OpenObservePost == Posted("OpenObserve", {Whole})
CloudRunFunctionPost == Posted("GCPCloudRun", {Whole})

\* The URL is parsed for every event.
SumoLogicPost ==
  {Total("SumoLogic") \o Call(Failed("SumoLogic")) \o Whole \o Send(Failed("SumoLogic"))
     \o Ok("SumoLogic")}

\* A failure to marshal is not reported to StatsD.
KafkaRestPost ==
  LET Unmarshalled == Counted("error", In(Backends \ {"statsd"}, "KafkaRest"))
  IN  {Total("KafkaRest") \o Whole \o Call(Unmarshalled) \o Send(Failed("KafkaRest"))
         \o Ok("KafkaRest")}

\* Through the API server when there is a kubeconfig, or the function's URL.
ViaKubernetes(o) == {Total(o) \o Whole \o Send(Failed(o)) \o Ok(o)}
KubelessCall == ViaKubernetes("Kubeless")
OpenfaasCall == ViaKubernetes("Openfaas")

\* The client made for the URL has no OTLP metrics to count in: the last thing
\* every event does is to dereference them.
FissionCall ==
  LET Dying(status) == Counted(status, In(Backends \ {"otlp"}, "Fission")) \o Panics IN
  ViaKubernetes("Fission")
    \union {Total("Fission") \o Whole \o Send(Dying("error")) \o Dying("ok")}

(***************************************************************************)
(* Elasticsearch without batching                                          *)
(***************************************************************************)
\* With flattened fields or an index template, keys with dots are renamed
\* in the map of the event.
buildESPayload == {Nothing, Fields \o Edit("rename")}

\* What is done about an answer that is not a success: an error that is not
\* JSON, or whose field is not found, is counted; for a field that cannot be
\* mapped, its keys are deleted from the map of the event and the event is
\* posted again, as it is; any other error Elasticsearch explains in JSON
\* falls through to the counting of a success.
esRetry ==
  {Failed("Elasticsearch"),
   Ok("Elasticsearch")}
  \union {Fields \o drop \o Whole \o Send(Failed("Elasticsearch")) \o Ok("Elasticsearch")
            : drop \in {Nothing, Edit("drop")}}

ElasticsearchPost ==
  {l \o Whole \o Total("Elasticsearch") \o Call(Failed("Elasticsearch"))
     \o Send(answer) \o Ok("Elasticsearch") : l \in buildESPayload, answer \in esRetry}
=============================================================================
