-------------------------- MODULE ServiceHandlers --------------------------
(***************************************************************************)
(* The handlers of the outputs that reach their service through a library, *)
(* each counting for itself: AWS, GCP, Azure and Yandex, message queues,   *)
(* mail, databases and tracing.  Kafka, PolicyReport and the Security Lake *)
(* have modules of their own.                                              *)
(***************************************************************************)
EXTENDS HandlerSteps

\* Counted everywhere but in some of the backends.
But(missing, status, o) == Counted(status, In(Backends \ missing, o))

(***************************************************************************)
(* AWS                                                                     *)
(***************************************************************************)
\* With debugging, LogResult is dereferenced, which only some log types fill.
InvokeLambda ==
  {Whole \o Total("AWSLambda") \o Send(Failed("AWSLambda")) \o after
     : after \in {Ok("AWSLambda"), Panics}}

SendMessage == {Whole \o Total("AWSSQS") \o Send(Failed("AWSSQS")) \o Ok("AWSSQS")}

\* Nothing in expvar.
UploadS3 ==
  {Whole \o Send(But({"expvar"}, "error", "AWSS3")) \o But({"expvar"}, "ok", "AWSS3")}

\* RawJSON, or message attributes made of tags and fields.
PublishTopic ==
  {l \o Total("AWSSNS") \o Send(Failed("AWSSNS")) \o Ok("AWSSNS")
     : l \in {Whole, Tags \o Fields}}

PutRecord ==
  {Total("AWSKinesis") \o Whole \o Send(Failed("AWSKinesis")) \o Ok("AWSKinesis")}

\* The log stream is configured, or created by the first event and kept.
\* putLogEvents starts over with the expected token when that was wrong.
putLogEvents(failed) == Send(failed)
SendCloudWatchLog ==
  LET failed == Failed("AWSCloudWatchLogs") IN
  {Whole \o Total("AWSCloudWatchLogs") \o stream \o putLogEvents(failed)
     \o Ok("AWSCloudWatchLogs")
     : stream \in {Nothing, Ensure("LogStream", failed) \o Use("LogStream")}}

(***************************************************************************)
(* GCP, Azure, Yandex                                                      *)
(***************************************************************************)
\* An error is counted by expvar under GCPPubSub, a success by expvar and
\* StatsD only.
GCPCallCloudFunction ==
  LET o == "GCPCloudFunctions"
      failed == Counted("error", [Everywhere(o) EXCEPT !["expvar"] = "GCPPubSub"])
  IN  {Total(o) \o Whole \o Send(failed) \o Counted("ok", In({"expvar", "statsd"}, o))}

GCPPublishTopic ==
  {Total("GCPPubSub") \o Whole \o Send(Failed("GCPPubSub")) \o Ok("GCPPubSub")}

\* The object exists once Close succeeds.
UploadGCS ==
  LET failed == Failed("GCPStorage") IN
  {Total("GCPStorage") \o Whole \o Call(failed) \o Send(failed) \o Ok("GCPStorage")}

\* The batch is sent twice, the first time with its error ignored.
EventHubPost ==
  LET o == "AzureEventHub"
      quit == Failed(o) \o Close
      last == Send(quit) \o Ok(o) \o Close
  IN  {Total(o) \o Call(Failed(o)) \o Open(Failed(o)) \o Whole
         \o Call(quit) \o Call(quit) \o Call(quit) \o Send(last) \o last}

UploadYandexS3 ==
  {Whole \o Send(But({"expvar"}, "error", "YandexS3")) \o But({"expvar"}, "ok", "YandexS3")}

\* No total, a failure is not in expvar, and OTLP counts under yandexs3.
UploadYandexDataStreams ==
  LET o == "YandexDataStreams"
      As(backends, status) ==
        Counted(status, [In(backends, o) EXCEPT !["otlp"] = "YandexS3"])
  IN  {Whole \o Send(As(Backends \ {"expvar"}, "error")) \o As(Backends, "ok")}

\* A connection per event, which the deferred Close ends on every path.
\* Publish puts the event in the buffer of the connection: it is written, or
\* not, by Close, whose error nobody sees, after ok was counted.
NatsPublish ==
  LET failed == Failed("Nats") IN
  {Total("Nats") \o Open(failed) \o Whole \o Call(failed \o Close)
     \o Call(failed \o Close) \o Ok("Nats") \o Hand \o Close}

StanPublish ==
  LET failed == Failed("Stan") IN
  {Total("Stan") \o Open(failed) \o Whole \o Call(failed \o Close)
     \o Send(failed \o Close) \o Ok("Stan") \o Close}

RabbitmqPublish ==
  {Total("Rabbitmq") \o Whole \o Send(Failed("Rabbitmq")) \o Ok("Rabbitmq")}

\* All goroutines share one connection: each connects it, and ends it 100 ms
\* after publishing, without waiting for the token of the publication.  A
\* failed connection has the text of the error for a Prometheus status.
MQTTPublish ==
  LET unconnected == But({"prometheus"}, "error", "MQTT") IN
  {Total("MQTT") \o Connect(unconnected) \o Whole
     \o Publish(Failed("MQTT") \o Disconnect) \o Ok("MQTT") \o Disconnect}

\* The client is created by the first event; an error of SetData is logged.
CloudEventsSend ==
  LET failed == Failed("CloudEvents") IN
  {Total("CloudEvents") \o Ensure("CloudEventsClient", failed) \o Whole
     \o Use("CloudEventsClient") \o Send(failed) \o Ok("CloudEvents")}

(***************************************************************************)
(* Mail, databases and the rest                                            *)
(***************************************************************************)
\* A reported error does not end the handler: the event is counted ok too.
RedisPost ==
  {Total("Redis") \o Whole \o Send(Failed("Redis") \o Ok("Redis")) \o Ok("Redis")}

\* expvar and StatsD only, and in total only once the dialogue has begun.
\* The connection made for the event is not closed.
newSMTPPayload == {Whole}
\* An empty mechanism gives a nil client, which Auth calls.
GetAuth(failed) == {Nothing, Call(failed), Panics}
SendMail ==
  LET As(status) == Counted(status, In({"expvar", "statsd"}, "SMTP")) IN
  {l \o Open(As("error")) \o auth \o Total("SMTP") \o Send(As("error")) \o As("ok")
     : l \in newSMTPPayload, auth \in GetAuth(As("error"))}

newTimescaleDBPayload == {Tags \o Fields}
TimescaleDBPost == Posted("TimescaleDB", newTimescaleDBPayload)

\* The cef format, or the event marshalled.  The connection made for the
\* event is not closed.
SyslogPost ==
  {Total("Syslog") \o Open(Failed("Syslog")) \o l \o Send(Failed("Syslog")) \o Ok("Syslog")
     : l \in {Fields \o Tags, Whole}}

\* SendMetric puts the metric in the buffer of a sender all goroutines share,
\* which any of them, or its timer, may flush; Flush follows at once, and says
\* whether what it found there was sent.  StatsD is not told.
WavefrontPost ==
  LET failed == But({"statsd"}, "error", "Wavefront") IN
  {Fields \o Tags \o Total("Wavefront") \o Call(failed) \o Hand \o Call(failed)
     \o But({"statsd"}, "ok", "Wavefront")}

\* The host is added to the map of the event, and the tags are sorted.
createPagerdutyEvent ==
  {host \o tags : host \in {Nothing, Edit("hostname")}, tags \in {SortedTags}}
PagerdutyPost ==
  {Total("Pagerduty") \o l \o Fields \o Send(Failed("Pagerduty")) \o Ok("Pagerduty")
     : l \in createPagerdutyEvent}

\* An event without a field to make an identifier of is refused; fields of
\* other types fail the assertions.  At End the span goes to the queue of
\* the exporter, which sends it later or drops it.
generateTraceID == {Fields, Fields \o Panics}
newTrace ==
  {id \o Call(Failed("OTLPTraces")) \o Tags \o Fields \o Hand : id \in generateTraceID}
OTLPTracesPost == {Total("OTLPTraces") \o l \o Ok("OTLPTraces") : l \in newTrace}
=============================================================================
