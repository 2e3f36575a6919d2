# A TLA+ development of Fanal

Fanal is a Go daemon that receives security events over HTTP and forwards each
of them to whichever of some seventy outputs are configured. This directory
holds TLA+ modules of the parts of it whose correctness depends on
interleavings, partial failures or agreement between distant pieces of code,
TLC configurations that check them on small instances, and proofs, checked by
TLAPS, of what matters most for every value of the constants.

Paths without a directory are those of the repository's root (`main.go`,
`handlers.go`, ...); `client.go`, `kafka.go` and the other outputs are in
`outputs/`, `batcher.go` in `internal/pkg/batcher/`.

    tlc -workers 2 -config MCElasticsearchBulk.cfg MCElasticsearchBulk.tla
    tlapm BatcherProofs.tla

## 1. The system

### Components

| Component | State it keeps | Operations | Module |
|---|---|---|---|
| Start-up, `main.go` `init()` | configuration, one client pointer per output, `EnabledOutputs` | for each output: look at its settings, create its client, enable it, or clear the settings when that fails | `OutputTable`, `Dispatch` |
| Request handlers, `handlers.go` | expvar and Prometheus counters | `mainHandler`, `newKhulnasoftPayload`, `forwardEvent` (one goroutine per output), `testHandler`, ping, health | `Dispatch` |
| HTTP client of an output, `client.go` | `initOnce`, `sem`, `mx`, `httpcli`, counters of the output | `sendRequest` (Post, Put, Get), `httpClient` | `OutputLedger`, `OutputClient` |
| Batcher, `batcher.go` | mutex, two buffers, the current timer | `Push`, `flush`, `flushOnTimer`, `scheduleFlushInterval` | `EventSink`, `Batcher` |
| Elasticsearch, `elasticsearch.go` | the batcher, counters | `ElasticsearchPost`, the callback, `elasticsearchPost` on a batch or on one event, `ElasticsearchCreateIndexTemplate` | `ElasticsearchBulk` (batches), `HTTPHandlers` (one event) |
| AWS Security Lake, `awssecuritylake.go` | in-memory log, write and read offset | `EnqueueSecurityLake`, `StartSecurityLakeWorker`, `processNextBatch`, `writeParquet` | `SecurityLake` |
| PolicyReport, `policyreport.go` | none of its own; resources in the API server | `UpdateOrCreatePolicyReport` and its two `createOrUpdate...` functions | `ReportLog`, `PolicyReport` |
| Kafka, `kafka.go` | the writer of kafka-go | `KafkaProduce`, `handleKafkaCompletion` | `Kafka` |
| Handlers of the outputs over HTTP: chat, alerting, logs, functions | none | count, lay the event out, `Post`, count | `HTTPHandlers` |
| Handlers of the outputs over a library: AWS, GCP, Azure, Yandex, message queues, SMTP, TimescaleDB, Syslog, OTLP traces | sessions, connections; the CloudWatch log stream, the CloudEvents client and the MQTT client, shared | one or a few calls each | `ServiceHandlers` |
| The goroutines of an event's handlers | the tags and the map of fields of the event | read, sort and edit them while the others run | `HandlerSteps`, `HandlerTable`, `HandlerAccounts`, `Handlers` |
| Statistics: expvar, Prometheus, StatsD, OTLP | counters | increments | `Handlers` for what each is told of an event; `Dispatch`, `OutputClient`, `Kafka`, `ElasticsearchBulk` for the counters they keep |
| Configuration, `config.go` | -- | reads and defaults settings once | constants of the modules |
| Event type, `types/` | -- | `Check`, order of priorities | `Dispatch`, `PolicyReport` |
| Web UI, `ui/` | Redis search index | queries over HTTP | not modelled |
| `test-infra/` | -- | configuration of a CI | not modelled |

### How they interact

`init()` runs once, before anything is served, and leaves behind clients and
settings. `net/http` then runs one goroutine per request. `mainHandler` decodes
and counts the event and calls `forwardEvent`, which starts one goroutine per
output the event is for and returns. From there on nothing synchronises the
goroutines of an event, or of several events at one output, except what the
output brings along: the client's `sync.Once`, mutex and semaphore; the
batcher's mutex; the log of Security Lake; the API server's versions; the
writer of kafka-go. Background goroutines are the batcher's timers and the
worker of Security Lake. A panic in a request handler is recovered by
`net/http`, one in `sendRequest` by its `defer`, and one anywhere else in the
goroutine of an output ends the process.

### What is hard

*Concurrency*: first requests of an output arriving together (`initOnce`,
cached client); a push racing a timer that has already fired; reports read and
written back by several goroutines; a log that is overwritten while it is read;
a slice and a map that all the goroutines of an event share and some change in
place; clients that keep what the first event created, without a lock.
*Failure*: items of a bulk request that fail inside a 200; calls carried out
whose answer is lost; panics that are recovered with a nil result, and panics
nobody recovers; errors after which a handler goes on; clients that cannot be
created. *Ordering*: Kafka's completion before or after
`WriteMessages` returns; bulk requests that overlap. *Agreement of distant
code*: what `init()` checks for an output and what `forwardEvent` checks for
it; four backends told by hand on every path of sixty handlers. *Limits*: the
permits of a client, the size of a batch, the segment of the log, the results in
a report.

PROJECT.json lists all of these as hazards, each at the line where it bites.

### What makes each component correct

- Start-up and dispatch: only outputs that were enabled are given events; an
  accepted event reaches each of them whose minimum it meets; the request
  counters balance.
- HTTP client: never more requests at once than configured; one semaphore and
  one transport; every event counted once, and truthfully; no permit lost.
- Batcher: every accepted event is delivered, once, in order, in batches of at
  most the size configured, and without waiting for another event.
- Elasticsearch: the counters tell what was indexed.
- Security Lake: the read offset passes a record only when it is stored.
- PolicyReport: concurrent writers lose and repeat no result; reports stay
  within their limit and their summary tells what they hold.
- Kafka: what became of a message is what is reported of it.
- Handlers: whatever fails, every backend counts the event once, truthfully and
  under its own output; every handler reads the event that was received; no
  connection is left behind; one output's failure is not that of the others.

## 2. The modules

An event is a model value throughout: none of the properties depends on its
content except for its size (`Batcher`), its priority and source (`Dispatch`,
`PolicyReport`) and whether it can be serialised. A goroutine is the position
`pc[e]` of an event in the function that handles it; one step is what happens
between two points where another goroutine can interfere: a lock, a call to
another process, an update of a shared variable.

Every module holds definitions named `Mutant...`, next to the definition they
vary. They are plausible bugs, used one at a time to see that each property can
fail, and are no part of any specification.

**EventSink** is the abstract specification of a batching output: events are
taken charge of one at a time (`Take`), all those taken are handed over at once
(`HandOver`), and this happens in the end. **Batcher** implements it under the
mapping `taken <- accepted, handed <- delivered`. It has a step for each stretch
of `Push` in which another goroutine can do something (a timer can fire while
`Push` holds the lock), for a timer that fires, for its goroutine taking the
lock and for its flush. `waiting` counts the goroutines of fired timers that
have not got the lock: `Stop` cannot call them back, which is the race the
properties are about. `accepted` and `delivered` are history: what `Push`
returned nil for, what the callback was given.

**OutputClient** is `sendRequest` and `httpClient` line by line, from the
handler that counts the event in `total` to the same handler counting it in
`ok` or `error`. `SlackPost` stands for the handlers that are one `Post`. How a
request ends is chosen freely: one of the statuses `sendRequest` accepts (200,
201, 202, 204; `acked`), any other status, the rest of the 2xx included, or a
transport error, a panic, or never.

**OutputLedger** is what remains of it without the once, the semaphore, the
mutex and the cached client: an event is taken and counted, its request is out,
with fewer than `Limit` others, it comes back and is settled, once, ok or error,
not as an error if it was answered with an accepted status; and what is taken is
settled in the end. `Stage` maps the positions of OutputClient to these stages; a request
is out from the moment it has a permit to the moment it gives it back.

**ElasticsearchBulk** EXTENDS Batcher: `Batching(step)` is a step of the
batcher in which a call of the callback also starts the goroutine of a bulk
request, and `PostStep` are the steps of these goroutines. The server indexes
any subset of the items, whatever the client then reads.

**SecurityLake** has one goroutine per event that writes to the log and then
stores the write offset, and the worker: read a batch, upload it, move the read
offset, sleep. memlog (a library) is external: it is modelled by its offsets,
its two segments, and the three ways its batch read ends.

**PolicyReport** has the reads and writes of both `createOrUpdate` functions as
separate steps against an API server that is external: a version per report, an
update with another version refused, a creation refused if there is a report, a
call that fails with or without having been carried out. Two kinds of event end
the process: one whose `ka.resp.name` is looked at and is no string
(`Unchecked`, which the value decides, so that the step is a choice), and one
without a subject whose namespace does not exist.

**ReportLog** is what the writers promise each other, with no copies and no
versions: in one step an event adds its result to the end of one report, from
which the oldest one goes if the report is full, or it adds nothing, and it does
either once. PolicyReport implements it under the mapping `results <-` those of
the stored reports, `done <-` the goroutines that have counted ok or error.

**Kafka** has the goroutines of `KafkaProduce` and the writer of kafka-go
(external), which completes batches of any messages in any order.

**OutputTable** is the table that some 1300 lines of `main.go` and
`handlers.go` spell out: for each client the settings that create it and those
that are cleared when that fails, for each output the settings, the threshold
and the sources `forwardEvent` looks at. **Dispatch** runs `init()` over the
table and then any interleaving of requests. `Deployed` restricts which clients
may be configured, since the product of all settings is out of reach; `init()`
still walks over all of them.

**HandlerSteps** is a vocabulary: a handler is a sequence of steps (count, read
the fields or the tags, sort, edit the map, call, send, open, close, ...), and a
step that may fail carries what is left of the handler when it does. The
layouts that show string fields read the map twice, the keys first and then
their values (`StringFields`), and a library that buffers what it is given
(`Hand`) sends it or loses it. A `return`
after an error is an `else` that ends; an error the handler goes on after is one
that does not. **HTTPHandlers** and **ServiceHandlers** write each handler of
`outputs/` in it, as the set of the programs it may run: one for each outcome of
the settings and of the kind of event it branches on. The settings are the same
for all events in the code and are chosen per event here, which only adds
behaviours. **HandlerTable** is the table of the handlers by output, followed by
the outputs that depart from the rule, one definition for each way to do so
(section 6). **HandlerAccounts** is what becomes of a handler that runs alone:
an account holds what is left of its program, what it counted, sent and
published, whether a call failed and the connections it has open; `AfterAlone`
are the accounts one step later, and `Sound` is what an account is to satisfy.
`Accounts` are those of each output. `AccountsAssumption` says that they are
closed under execution, which tells the proofs all they need to know of the
programs of a table. **Handlers** runs the goroutines of several outputs and events:
`code[g]` is what is left of the handler of `g`, and one step of it is one
action. What goroutines share is explicit: `tags` (a sort stores two elements,
one at a time), `writers` and `edits` of the map of fields, `stale` (who holds
keys of which some were removed meanwhile), `kept` (what a client
keeps from its first event, two words stored one after the other), `connected`
and `queue` of the MQTT client. `counted` is what each goroutine told the
counters, in order, with the backends it told; for StatsD that is a call of
`CountMetric`. A panic, a throw of the Go runtime, the assertion that the value of
a removed key is a string, or the use of a value half stored ends the process
(`dead`).

## 3. The runs

All runs are exhaustive. Those marked * check one property that the code does
not have (section 6).

| Run | Distinct states | Question |
|---|---|---|
| MCOutputClient | 10 268 | Do concurrent first requests share one semaphore and one transport, do the counters balance, does a permit leak: does the client implement OutputLedger? |
| MCOutputClientPanic * | | Is an event counted ok one the server acknowledged? |
| MCElasticsearchBulk | 375 654 | From `Push` to the counters: does the batcher lose, repeat, reorder or forget an event, does it implement EventSink, is each event posted once and counted once, and does `ok` claim too much? |
| MCSecurityLake | 268 780 | Does the read offset pass a record that is not stored; is one confirmed twice, or half a file stored twice; is one left behind? |
| MCSecurityLakeLapped * | | Does a reader that was lapped read again? |
| MCPolicyReport | 13 082 | Do concurrent read-modify-write cycles lose, repeat or miscount results, or exceed the limit: do they implement ReportLog? |
| MCPolicyReportOk * | | Is an event counted ok in a report? |
| MCKafka | 3 993 | Does the completion report what became of each message, and does each goroutine end? |
| MCKafkaTwice * | | Is a message counted once? |
| MCDispatch | 113 566 | Are exactly the enabled outputs served, whatever clients could not be created, and do the counters balance? |
| MCDispatchNil * | | The same for outputs that `init()` and `forwardEvent` enable by different settings. |
| MCHandlers | 104 818 | Does every handler count its event once, truthfully and everywhere, read the event as it was received beside handlers that change it, close what it opens, and leave the process alive? |

### Bounds, and why they are enough

No state constraint is used: the models are finite because the sets of events
and requests are, each event being handled once.

- MCElasticsearchBulk has 4 events and `BatchSize` 2: two small events fill a
  batch, one exceeds it, one cannot be marshalled. Two batches overlap, one of
  them with two items (the least that tells a partial failure from a failure),
  while a timer that has fired waits for the lock and another is set.
- MCHandlers has two goroutines, since every hazard it is about needs two: the
  one that changes something and the one that meets the change. `Jobs` pairs
  every output with each of the three that change the event most (Slack sorts
  the tags; Elasticsearch and Pagerduty edit the map), so that every handler
  runs to each of its ends beside a writer; two hosts of Alertmanager, which is
  one goroutine per host; and two events at each output that changes its client
  or the fields. The pairs left out share nothing one of them writes. There are
  two tags, out of order as received (`MCTags`). No program has more than 20
  steps: `AccountsAssumption` fails if one has.
- MCOutputClient has 3 events and `MaxConcurrentRequests` 2: one waits while two
  hold permits, and a semaphore of two is not a mutex. `EnableCompression` is
  TRUE, which adds an error path and removes none. Limit 0 (unlimited) is
  covered by the proofs.
- MCSecurityLake has 4 events, one `Unparsable`, `Segment` 1 and `BatchSize` 2:
  the log holds two records, so that batches can be full, partial and empty and
  the reader be lapped. The record at offset 0 is one the reader skips, which
  leaves a full batch and a partial one. `MaxFailures` 2 lets one batch fail
  twice or two batches fail; S3 refusing for ever is left out, since nothing
  can then be uploaded.
- MCPolicyReport has 4 events, one of them cluster-wide and one without a
  subject (these two may also have a response name that is no string), `MaxEvents` 2 and one result left by an earlier run (`Older`), so that
  a report is trimmed while up to three writers are at it. There is a priority
  for each status. MCPolicyReportOk has a limit nothing
  reaches (9), so that no result may be missing.
- MCKafka has 4 messages, one of which cannot be marshalled: the other three
  make every combination of batches that fail and succeed. `Async` is FALSE in
  MCKafka and TRUE in MCKafkaTwice.
- MCDispatch has 2 `Requests` of 6 `Kinds` (each way a request ends, an event
  below and one at the minimum, the test event) and `Deployed` is a client that
  three outputs share, with two settings for one of them, one whose set-up has a
  second step that may fail (the index template of Elasticsearch; the index of
  Quickwit is the other one of `SecondStep`) and one that looks at the source of the event. The configuration is any subset of their
  settings, and every client may or may not be created. Other clients differ
  from these in their row of the table only;
  `MatchedAssumption` evaluates the condition that makes the property hold,
  `Matched`, for all rows, and names the four that fail it: SMTP, GCP Cloud Run,
  Kafka and Grafana. The numbers of `Minimum` are those of `types/priority.go`.

No run uses symmetry. Deadlock is checked in MCSecurityLake, whose worker never
stops; in the others every goroutine comes to its end, after which the system
rests, and `CHECK_DEADLOCK` is FALSE.

### Fairness

- A goroutine that can take a step takes it (weak fairness per goroutine): the
  Go scheduler is preemptive.
- A goroutine that waits for a `sync.Mutex` or for `semaphore.Weighted` gets it
  if it is released over and over (strong fairness of the acquiring step): a Go
  mutex hands itself to a goroutine that has waited for a millisecond, and the
  semaphore serves its queue in order.
- A timer that is armed fires unless it is stopped.
- Nobody is obliged to send an event: no fairness for `PushLock`, `Begin`,
  `Enqueue`, `Receive`.
- `ServedSpec` of OutputClient adds that the peer ends each request. The code
  does not guarantee this (section 6), and `Spec` does not assume it.
- SecurityLake: its worker is weakly fair as a whole and S3 fails at most
  `MaxFailures` times. Kafka: the writer flushes by `BatchTimeout`.
  PolicyReport: calls to the API server return. ElasticsearchBulk: posts are
  answered.
- Handlers states safety only and assumes no fairness.

## 4. What is proved

Each component has a module of proofs, `BatcherProofs` to `PolicyReportProofs`.
They prove, for every value of the constants, safety properties that the runs of
section 3 check on their instances. The assumptions are those the modules state,
and TLC evaluates them in every run of the module.

**Batcher** (`SizeAssumption`: serializations are not empty and `BatchSize` is
positive, which `config.go` sees to; `HolderAssumption`: the names of holders of
the lock are distinct). The properties are not inductive by themselves. `IInv`
adds what `Push` relies on between two of its steps: the lock is held exactly
between Lock and Unlock (`MutexInv`), no bytes are pending exactly when no
payloads are (`BuffersInStep`, without which `flush` could drop payloads of no
bytes), and a goroutine about to write has a timer and room (`PushInv`). From it
follow `TypeCorrect`, `BatcherNeverLoses`, `BatcherAlwaysTimed` and
`BatchesFit`, and `BatcherRefinesSink`: the initial state is one of EventSink,
the write of `Push` is a `Take`, a flush of pending payloads is a `HandOver`,
and every other step stutters.

**OutputClient** (`ClientAssumption`: finitely many events, a limit that is not
negative). `IInv` has one part per mechanism, each preserved by itself:
`OnceInv` (one goroutine runs the function of `initOnce`, and nobody is past it
before it is done), `CliInv` (who configures a client holds the mutex and found
none), `PermitInv` (the permits taken are those of the goroutines that will
release them), `AccountsBalance`, `AckInv` (where an event answered with an
accepted status can be).
The two that count goroutines rest on `OneMore` and `OneLess`, about the
cardinality of a finite set. From `IInv` follow `ClientTypeCorrect`,
`LimitHolds`, `SemaphoreIsReady`, `TransportIsShared`, `AccountsAlwaysBalance`
and `AckedNeverError`. `OkMeansAcked` is the other half of the finding of
MCOutputClientPanic: in a behaviour in which no request panics (`NeverPanics`),
`ok` is said only of events answered with an accepted status. `ClientRefinesLedger` says that every
step of the client is one of OutputLedger or a stutter. The step that matters is
the one that takes a permit: `OutIsHeld` identifies the requests that are out
with the holders of permits, of which `PermitInv` knows the number. (An instance
has its own `Cardinality` for the prover; `SameCardinality` says it is the same.)

**Dispatch** (`DispatchAssumption`: finitely many requests, the deployed clients
are clients of the table). `DispatchTypeCorrect` rests on `OrderOfClients`:
`InitOrder` is a sequence that goes over every client. `RequestsAlwaysBalance`
is about any number of concurrent requests: `Moves` says what a step of one of
them does to the number of requests at a set of positions, and `BalanceInv` adds
that an event not yet judged is counted already. `MatchedServed` assumes
`Matched` of every deployed client (`forwardEvent` looks at the settings `init()`
looks at, and a failure clears one of them or ends the process) and concludes
`[]OnlyEnabledServed`, for any combination of clients and not only the three of
the run. Its invariant, `EnabledSoFar`, follows `init()`: of the clients passed,
every output that would still be forwarded to is listed. The hypothesis is
needed: TLC evaluates it for all 55 rows (`MatchedAssumption`), and MCDispatchNil
shows what happens with one of the four that fail it. `TestAlwaysReachesAll`
needs no hypothesis but `TableAssumption`, which every run evaluates for the
whole table: the settings of a client belong to no other, and what creates it is
what `forwardEvent` looks at. So what is listed stays configured and keeps its
client (`ListedInv`), however the clients after it fail, and the source
"internal" is the only thing that can stop a test event.

**Handlers** (`HandlersAssumption`; `AccountsAssumption`, section 2;
`SoundAssumption`: every handler is sound when it runs alone;
`ExceptionsAssumption`: only the outputs named panic, edit or remove fields,
assert values of keys collected before, or keep something. TLC evaluates all of them for the table of all 60 outputs). The theorems hold for
any number of goroutines and events and any table that keeps to its exceptions.
`IInv` has `CodeInv` (a goroutine has left what an account of its output has
left, or a store before it), `TagsInv` (nobody ever moves a tag: the payload was
sorted before there were goroutines, so that the sorts of the handlers find
nothing to store), `FieldsInv` (who is in the middle of a change of the map
belongs to an output that edits), `StaleInv` (who holds keys that were removed
belongs to an output that asserts, beside one that removes), `KeptInv` (what is stored was created, and who
is about to store it is an output that keeps it), `Survives` and `AccountInv`,
which carries what is known of one handler over to many: whatever the others do,
each goroutine has come to an account of its own output. The exception is what
others may do on its behalf, which is to send or to lose what it published on the
shared client of MQTT (`Pending`). What a library does with what it was handed is
part of the handler's own account (`Flushed`). `TagsUntouched`, `EventSeen` and
`ProcessSurvives` are about the state that is shared; `AlwaysAccounted`,
`ResultsAlwaysReported` and `ResourcesAlwaysKept` say that what is sound alone is
sound among others. `SortableAssumption` says that a sequence of numbers can be
sorted: true of all of them, but an induction over their length, which is out of
the prover's reach.

**ElasticsearchBulk** (the assumptions of Batcher, and no others). Its proofs
are built on those of the batcher: `IInv` of BatcherProofs holds of every step,
a step that is not the batcher's leaves it alone, and what is delivered at a
flush is what was pending. `PendingInv` and `PostsInv` say that an event is
pending once or in one post, never both; `CountInv` bounds `ok` by the number of
events settled, those of batches done that the server indexed and those of
batches whose answer was read as empty. `AlwaysPostedOnce` needs that a batch
without repetitions has as many events as it is long (`SizeIsCardinality`), and
`OkNeverOverclaims` follows from `CountInv`. `CountersAreExact` is the safety
half of `AllAccounted`: `ok + error <= total <= Len(accepted)` always, and all
three are equal when nothing is pending and no bulk request is under way.
Its invariant, `ExactInv`, counts events by where they are: `total` is the number
of those in posts past their counting, `ok + error` of those in posts done.

**Kafka** (`KafkaAssumption`). `PlacedInv` puts each message in one place, with
the Writer, acknowledged or dropped; `ErrorInv` says that what has an error was
refused or dropped, and is not with the Writer any more. `OutcomeAlwaysReported`
follows, for `Async` or not and any batches of the Writer, and whichever comes
first, its completion or the return of `WriteMessages`. The code violates
`CountedOnce` (section 6), and two theorems say by how much: by `CountsAreExact`
an event is counted once for its completion and once for the return of
`KafkaProduce`, and by `SyncCountsAgree` the two are the same verdict unless
`Async`.

**SecurityLake** (`LakeAssumption`: a segment and a batch have room for one
record). The worker and the writers share the two offsets only. `WrittenInv` says
that a goroutine which found no error wrote its record, `ReadInv` that the read
offset is one of the log, `BatchInv` that a batch starts there, `BehindInv` that
what S3 confirmed is behind it. They make `ReadMeansUploaded` and `ConfirmedOnce`
inductive: `ReadIsUploaded` and `AlwaysConfirmedOnce`, for any number of failed
uploads. `RetriesCover` says that the file of an upload that failed although S3
stored it is contained in the next file; `RetryInv` follows what that file holds
from the failure to the next read, during which the offset stands still while
the log grows and loses its oldest records.
`LappedForEver` and `LappedUploadsNothing` are the finding of
MCSecurityLakeLapped for a log of any size: once lapped, always lapped, and
nothing is uploaded from then on. `OffsetsOnlyGrow` is the action property
beneath them.

**PolicyReport** (`OlderAssumption`: what earlier runs left is in the report once,
and is of none of the present events). The invariant that carries the others is
`CopyInv`: as long as the version a goroutine read is that of the report, its
copy is the report with its own result added, and one dropped if it was full, or
the report as it is. So a write that the API server accepts changes a report by
one result, and since `StoredInv` finds results only of goroutines that have
written, that result is new. `AlwaysRecordedOnce`, `SummaryAlwaysMatches` and
`WritesAreAtomic`, the refinement of ReportLog, hold for any number of
goroutines, whatever calls fail or lose their answer; `ReportsStayBounded` if the
report of the earlier run was within `MaxEvents`. `OkIsThere` bounds the finding
of MCPolicyReportOk from the other side: where every result fits (`Roomy`), an
event counted ok is in a report and stays there unless its own create was told
"already exists". It rests on a pigeonhole argument (`OneFits`): a report without
repetitions that lacks a result has room for it.

**Only model-checked**: the liveness properties, since neither fairness nor
ENABLED is within the prover's reach, the liveness of EventSink in
`ImplementsSink` and of OutputLedger in `ImplementsLedger` included. Every
invariant and action property that a passing run checks is proved as well.

## 5. What is not modelled

- The layout of messages (Slack, Teams, Discord, ...), templates, the fields of
  findings and reports, JSON: data that no property tells apart.
- `config.go`: a sequence of assignments; the models take its results as
  constants.
- StatsD, Prometheus and OTLP exporters: increments that are sent elsewhere. The
  counters themselves appear where a property relates them to something.
- SDKs and servers (AWS, GCP, Azure, Kubernetes, kafka-go, memlog,
  Elasticsearch): external, modelled by how the code uses them.
- The second step of Security Lake's set-up (main.go:405-409): `memlog.New`
  refuses bad options only, and those it is given are fixed.
- The Web UI, a separate program that queries Redis.
- Loss at process exit: `main()` flushes neither the batcher nor the log of
  Security Lake (main.go:978). Nothing is kept over a restart that could be recovered.
- Pushes refused by the batcher: `ElasticsearchPost` ignores Push's error
  (elasticsearch.go:74), so that an event that cannot be marshalled is in no
  counter. The accounting of ElasticsearchBulk starts at what was accepted.
- The footer of a Parquet file: WriteStop's error is only logged
  (awssecuritylake.go:350). What S3 stores is taken to be readable.
- The constructors of the clients beyond whether they succeed (`Created`,
  `NotCreated` of Dispatch), and the index template of Elasticsearch and the
  index of Quickwit beyond whether they could be created (`TemplateFails`).
- The OTLP counters of Kafka and of bulk requests: they are incremented once per
  completion and once per post and outcome, whatever the number of events
  (kafka.go:194, 203; elasticsearch.go:225, 285), and so are no counts of events.
- The metrics StatsD sends: `Handlers` takes a call of `CountMetric` for the
  count. In fact the arguments of the clients are built before the StatsD
  clients exist (main.go:127-133), so that the outputs made by `NewClient`
  hold nil ones and send nothing; the client of StatsD is stored as that of
  DogStatsD (main.go:142), and a DogStatsD that cannot be created clears the
  setting of StatsD (main.go:150). It is the order of a few assignments, the same
  on every run.
- `ContentType`, which Loki, KafkaRest, Kubeless, Fission, Grafana and Dynatrace
  store in their client for every event: each stores one value only (Grafana and
  Grafana OnCall have a client each).

## 6. Where the code differs from what it says

Shown by a run:

- **A recovered panic counts as success** (MCOutputClientPanic): `sendRequest`
  has no named result, so after the recover of client.go:276 its caller sees nil.
- **A lapped reader never comes back** (MCSecurityLakeLapped): the read offset is
  reset in `processNextBatch`'s own copy of the configuration
  (awssecuritylake.go:228, 263), and the worker loops without sleeping.
- **A result is dropped and counted ok** (MCPolicyReportOk): when two goroutines
  create a report, the one told it exists writes back what it reads without its
  own result (policyreport.go:230-241).
- **Kafka messages are counted twice** (MCKafkaTwice): by `KafkaProduce` and by
  the completion, which the comment at kafka.go:166 says is the one that counts.
- **An output that was not enabled is served** (MCDispatchNil): Grafana with a
  host and no key, likewise SMTP, GCP Cloud Run and Kafka, have no client, and the
  goroutine that uses it ends the process.

Seen while modelling, and excepted by name in HandlerTable, each exception
necessary (without it TLC finds the property violated, or
`ExceptionsAssumption` false). The two sentences they depart from are "Metrics are recorded for all errors to track reliability"
(docs/architecture/data_flow.md:162, `Accounted`) and "Non-critical errors
(single output failure) are logged but don't affect other processing" (:159,
`Survives`):

- `Miscounted`: S3 tells expvar nothing, Yandex S3 neither; Yandex Data Streams
  counts under Yandex S3 in OTLP (yandex.go:116, 126) and errors not at all in
  expvar; Cloud Functions counts errors under Pub/Sub in expvar (gcp.go:127)
  and a success in expvar and StatsD only; SMTP tells neither Prometheus nor OTLP, and counts errors
  before `total`; Wavefront never calls `CountMetric`, and KafkaRest not for
  every error (kafkarest.go:41); Webex counts as Webhook (webex.go:63, 73) and
  Grafana OnCall as Grafana (grafana.go:121, 130) in expvar; MQTT gives Prometheus
  the text of the error as a status (mqtt.go:62).
- `UnreliableOutputs`: Redis reports an error, goes on and counts ok as well
  (redis.go:62-79). Elasticsearch, posting one event, counts ok what was refused
  with an error that is no mapping error (elasticsearch.go:194); its retry after a
  mapping error sends the struct and not the document, which has no @timestamp
  (:212). MQTT looks at the token of a publication without waiting for it, and
  one goroutine disconnects the client another has published on (mqtt.go:68-69).
  Three count ok what a library has only buffered: NATS, whose `Publish` fills the
  buffer of the connection, which is closed, and then flushed in vain, after ok
  was counted (nats.go:39-40, 49-59), the errors of both dropped; Wavefront, whose
  `Flush` tells whether it sent what it found in the buffer all goroutines share,
  be it this event or not (wavefront.go:99-115); OTLP traces, whose exporter sends
  the span later or drops it (otlp_traces.go:80). For RabbitMQ, which asks for no
  confirmations, sent means written to the connection (rabbitmq.go:56).
- `RepeatingOutputs`: Azure Event Hub sends each batch twice, the first time with
  the error ignored (azure.go:80-81).
- `LeakyOutputs`: SMTP and Syslog dial for every event and never close
  (smtp.go:146, syslog.go:89).
- `EditingOutputs`: Elasticsearch deletes and renames fields (elasticsearch.go:208,
  293-295) and Pagerduty adds the host name (pagerduty.go:59), in the map that the
  handlers of the event's other outputs iterate over.
- `AssertingOutputs`: Slack, Cliq, Mattermost, Rocket.Chat, Teams and Google Chat
  collect the keys whose values are strings and then assert the value of each to
  be one (slack.go:78-81), outside the recover of `sendRequest`. Beside
  Elasticsearch (`DeletingOutputs`), which deletes and renames keys of the same map
  (elasticsearch.go:208, 295-296), the value may be gone by then, and the process
  ends (`StaleValue`).
- `PanickingOutputs`: Alertmanager asserts a drop counter, a number in JSON, to be
  a string (alertmanager.go:77); Dynatrace asserts the ID of a span to be an int
  (dynatrace.go:96); Spyderbat and OTLP traces assert fields to be there and
  strings (spyderbat.go:172, otlp_traces.go:118); Lambda, in debug mode,
  dereferences a log it is given only for the right `LogType` (aws.go:153);
  Fission without a kubeconfig is given no OTLP metrics (fission.go:56-62) and
  dereferences them at the end of every event (:103, :113), after it has counted
  it everywhere else; SMTP with an empty mechanism calls a nil client
  (smtp.go:109-110, 161).
- `CachingOutputs`: CloudWatch Logs and CloudEvents check and store what their
  first event creates without a lock (aws.go:339, cloudevents.go:21).

Seen while modelling, and excepted by the properties where they touch them:

- A peer that never answers keeps its permit for ever, since `sendRequest` has no
  timeout (client.go:363). Nothing obliges such an event to be settled, and
  `ImplementsLedger` holds under `ServedSpec` only.
- The record at offset 0 is never uploaded: reading starts at `ReadOffset+1`
  (awssecuritylake.go:233). `ReadMeansUploaded` speaks of the others.
- A 200 whose body cannot be decompressed, or a request that panicked, yields an
  empty answer, and the batch is counted ok as a whole (elasticsearch.go:153).
  `Claimable` excepts these batches.
- Only one result is dropped per event, so a report that an earlier run left
  longer than `MaxEvents` stays too long (policyreport.go:222).
- In a namespace that does not exist, an event without a subject ends the process
  (policyreport.go:204), and so does one that names a resource and neither a pod
  nor a target, if its `ka.resp.name` is not a string (:397). `EventuallyCounted`
  excepts the two (`EndsAll`).
- Of the statuses that mean success, `sendRequest` accepts four, 200, 201, 202
  and 204 (client.go:375). An event answered with any other 2xx, 203, 205 or 206,
  is counted as an error (client.go:422-424). `AckedIsNotError` speaks of the four.
- The comment of the batcher says that `batchSize` is "a max number of payloads in
  the batch" and that the callback runs "when the number of payloads reaches the
  batchSize" (batcher.go:27-28). `Push` compares bytes (batcher.go:94), which is
  what docs/outputs/elasticsearch.md:37 says too; payloads are not counted.
  `BatchWithinSize` is about bytes.
- The failure of eleven clients is logged through the client that is nil, which
  ends the process at start-up (main.go:566, 598, 608, 628, 639, 674, 687, 700,
  744, 755, 781): `LogsThroughNil`.
- The test event's source is "internal", which PolicyReport and OTLP traces
  refuse (handlers.go:122, 486, 544), although README.md:381 says it goes to all
  enabled outputs. `TestReachesAll` excepts them.
- RabbitMQ is filtered by the minimum priority of OpenFaaS (handlers.go:463):
  `ThresholdOf`.
- With a custom or templated field whose name has a dot, the labels the
  Prometheus counter is given are not those it was declared with, and every
  event ends in a panic (handlers.go:207, stats_prometheus.go:58-70): `dotted`.

## 7. Plan

The order was: what every event passes through first (Batcher and EventSink,
OutputClient, Dispatch), then the outputs with a protocol of their own
(Elasticsearch on top of Batcher, SecurityLake, PolicyReport, Kafka), then the
handlers of all outputs and what they share (Handlers). Next:

1. Abstract specifications: a counting output (each event taken once and
   reported once) that Kafka implements (synchronous, up to its double counting);
   a read cursor that SecurityLake implements.
2. Elasticsearch: the creation of the index template as steps of `init()`.
