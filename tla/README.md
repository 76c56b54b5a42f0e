# Verification of baetyl-go

TLA+ models of baetyl-go (`src/`), a Go library for the modules of an edge
computing framework, with TLC configurations and TLAPS proofs. Each module is
translated from the source; `PROJECT.json` maps every definition to the lines it
models and lists the runs, the hazards of the code and the theorems.

Contents: 1 the system, 2 the modules, 3 the runs, 4 bounds and fairness,
5 proofs, 6 where code and documentation disagree, 7 what is not modelled,
8 plan.

## 1. The system

baetyl-go is a library: the program that uses it supplies goroutines, callbacks and
peers. The parts with logic of their own:

| Part | State | Operations | Talks to |
|---|---|---|---|
| MQTT client (`mqtt/client.go`, `stream.go`) | channel of packets, one stream at a time, per stream a connection, two futures, a tracker, a `sync.Once` and a tomb | `Start`, `Send`, `SendOrDrop`, `Publish`, `Close`; goroutines connecting, receiving, pinging | broker over gomqtt; the user's `Observer` is called from receiving and from `die` |
| Task queue (`task/`) | broker channel, backend map of results, per worker a table of functions | `AddTask`, `AddTaskWithKey`, `Register`, `StartWorker`, `StopWorker`, `Get`, `AsyncGet` | producers and workers share broker and backend |
| Hub (`pubsub/pubsub.go`) and processor (`processor.go`) | topic to set of channels; processor with timer and tomb | `Publish`, `Subscribe`, `Unsubscribe`, `Close`; `Start`, `Close`, the handler's callbacks | publishers, subscribers |
| Device context (`dmcontext/`) | channel per device, table of response channels, callbacks, baseline of reported properties | `Start`, `Close`, `GetDeviceProperties`, reports, callbacks; one processing goroutine per device | MQTT client (as its observer), the driver |
| Response cache (`cache/`) | store of responses, singleflight group, forget timers | the gin handler made by `MCache` and `WCache` | HTTP handlers, in-memory or Redis store |
| Service mapping, ports (`native/`) | the mapping file, per process a table with an offset per service; allocator offset | `SetServicePorts`, `DeleteServicePorts`, `GetServiceNextPort`, `WatchFile`, `Close`; `Allocate` | other processes through the file and its events |
| Property values (`dmcontext/device.go`, `format.go`, `expression.go`, `spec/v1/lazy_value.go`) | none | typing of a delta, `ParseValue`, `ParseExpression`, `SolveExpression`, `ExecExpression` and its mappings | drivers and the device context |
| Node (`spec/v1/node.go`) | desire and report documents | `Merge`, `Diff`, `DiffWithNil`, `Patch`; `View`, which rewrites the report it shows; `SetAppInfos`, `AppInfos` | cloud and edge |
| PKI (`pki/`) and certificate tool (`tools/`) | none; the files of `output/` | issue root, intermediate and other certificates; a run of the tool | `x509`; services read the files |
| Service context (`context/`) | the system configuration | `NewContext`, `CheckSystemCert`, `New...Client` | configuration file, environment, certificate files |
| Plugins (`plugin/`) | tables of factories and of instances | `RegisterFactory`, `GetPlugin`, `ClosePlugins` | any goroutine |
| Topics and packet ids (`mqtt/topic.go`, `gomqtt.go`, `counter.go`) | the next id | `CheckTopic`, `MatchTopicQOS`, the parsing of a device's topic; `NextID` | MQTT client, device context |
| Tomb, trigger, HTTP, logging, archives | small tables, or none | | |

What is hard in it, and what makes each part correct:

- **MQTT client.** Three goroutines per stream and the user race to tear a stream
  down while `connecting` waits for futures; a packet whose send failed is carried over
  to the next stream; callbacks may send. Correct: a packet that `Send` accepted is handed
  to a connection once, in order, or still held; a stream is torn down once and its error
  reported once, and not at all if the client closed it; established streams do not overlap; nothing
  happens after a `Close` of the started client; a dead
  stream is replaced; `Close` returns. Pings are counted before they are sent, a silent
  peer is noticed, an answering one never killed.
- **Task queue.** Polling readers race for a result that can be read once; workers stop
  with a task in hand and are started again; a full broker refuses. Correct: an accepted task is in
  one place and is served by a worker that goes on running.
- **Hub.** `Publish` ranges over a map that others change, and waits at most 10 ms for a
  full subscriber. Correct: an answer of nil means every subscriber it met took the message.
- **Processor.** A stale timer tick, a close during the handler. Correct: messages handled
  once, in order, none after a `Close` that had something to wait for; silence ends it.
- **Device context.** A request is published before its answer can be received, answers
  are matched by device only and thrown away if nobody is listening at that moment, and
  callbacks run on the goroutine that delivers answers. Publishing waits while the client's
  cache is full, before the call has its timer. Correct: the table names the one
  call that waits; each call whose request was taken ends; no answer ends two.
- **Filtered reports.** Small changes that add up, and silence, must get through; the baseline is
  moved before the report is sent, and is shared by devices.
- **Response cache.** A forgotten run may store an old response late; timers race runs.
  Correct: failures are not cached, expired entries not served, everyone is answered.
- **Service mapping.** Files are truncated before they are written, saves fail and leave the
  table changed, writers restart with an empty table. Correct: a torn read loses nothing, changes arrive, ports are used in turn.
- **Property values.** A JSON number may not fit the property's type; a value is formatted by
  the driver and again on its way; two code paths round. Correct: an integer of a delta arrives exact and a float
  as the nearest of its type, or nothing arrives; formatting twice is formatting once, the solution solves.
- **Node.** Merges that fail midway in Go's map order; a delta must settle. `View` replaces
  parts of the report by Go structures over which the next report is merged. Correct: after a
  report the view shows it, whatever was shown, stored and loaded before.
- **Certificates.** A run of the tool fails between two files; a service checks the files and
  reads them later, one by one; paths are inherited one by one. Correct: what a sound parent
  issues verifies; after a run that ended well the files belong together; a client holds the key of
  its certificate.
- **Plugins.** Two goroutines make the same plugin. Correct: all get one instance, the other
  is closed.
- **Ports and packet ids.** Other processes take ports during a scan; both wrap. Correct: a
  number comes again only after all the others, and a scan gives up only after a full turn.
- **Topics.** Wildcards and system topics. Correct: a filter that is accepted matches some topic
  that is, a message gets the lowest QoS (which the code caps at 1), a device's topic is routed to that device.

`PROJECT.json` lists the hazards with their lines and the properties that cover them.

## 2. The modules

| Module | Models | State and actions |
|---|---|---|
| `MqttClient` | `mqtt/client.go`, `stream.go` | program counters of connecting (`cpc`), receiving (`rcv`), pinging (`png`); `cache`, `curr`, futures, `once`/`stage` for `die`. One action per select case, call or statement between which another goroutine may act |
| `SendQueue` | the promise of `Send` | a bounded FIFO queue: `Put`, `HandOver`, `Close`; `MqttClient` implements it with `queue <- InHand \o cache` |
| `MqttKeepAlive` | `stream.pinging`, gomqtt's tracker | a clock, the tracker's time and unsigned counter (`PingMod`), a peer that answers within `AnswerWithin` or falls silent |
| `TaskQueue` | `task/` | broker sequence, backend, workers' program counters, getters |
| `Pubsub` | `pubsub.go` | one topic; the map object a publisher holds and the current one are told apart, so that `Close` and `Subscribe` during a `Publish` are visible; a concurrent change of the map while it is ranged over may end the process (`MapFault`) |
| `PubsubProcessor` | `processor.go` | both loops, timer, tomb |
| `Hub` | a processor on one of the hub's channels | composes the two: the channel the processor takes from is the buffer `Publish` fills (`INSTANCE PubsubProcessor WITH channel <- buffer[Proc]`) |
| `DmContext` | `dmcontext/context.go`, `observer.go` | device channels, processing goroutines, `response`, callers of `GetDeviceProperties` step by step, with the client's cache (`outbox`) that their requests wait for. `processEvent` and `processPropertyGet` have the shape of `processDelta` and are the same class of message |
| `DmReport` | `ReportDevicePropertiesWithFilter` | clock, `lastReportProperties`, reports that fail; values are integers or one text |
| `DmExpression` | `ParseExpression`, `SolveExpression`, `ExecExpression` and its mappings | operators on syntax trees, rationals for `float64`; the reference is the evaluation of the tree. `solved` is the last call; the values that are mapped are those of `DmFormat` |
| `DmFormat` | `parsePropertyValue`, `LazyValue`, `ParseValue` | operators on typed values `[type, v]`, integer types with any limits, float types with any finite set of numbers, to which values are rounded; strings by what they say (digits, a date and its separator, a clock time, a word). `done` is the last call |
| `ResponseCache` | `cache/cache.go`, `reply.go`, `persist/` | one key: store, singleflight map, runs of the handler, forget timers, requests step by step. A response is the run that made it, with its class of status; headers and body go with it |
| `ServiceMapping` | `native/mapping.go` | the file, tables, pending file events, watch state; a save is two steps, truncate and write, and may fail before either or leave a cut file |
| `NodeShadow` | `merge`, `diff`, `clean`, `patch` | pure operators over JSON documents, which are functions on the paths of their values, so that the code's recursion becomes a quantifier over the paths above a path; a state machine that merges documents. A failing merge is any of the partial results Go's map order allows |
| `NodeView` | `View`, `SetAppInfos`, `AppInfos` | a node whose report is merged, viewed (and rewritten), stored and loaded, with a clock; quantities are a number and a unit |
| `Pki` | `pki/pki.go`, `utils.go` | operators for keys, PEM and the ways to issue; an action per call with any parent the caller holds. A key is a number and a kind, a signature the number of the key that made it |
| `CertTool` | `tools/issue_certificate.go` | an action per certificate and per file, each of which may fail; runs are repeated |
| `AppContext` | `context/`, `utils/config.go`, options of `mqtt/` and `http/` | `NewContext` with loading, defaults, templates and the cascade of paths; `New...` calls up to the reads of CA, certificate and key, an action per read, over the files of `CertTool` |
| `Plugins` | `plugin/register.go` | both tables; `RegisterFactory` and `GetPlugin` one access of a table per action |
| `Allocators` | `native/port.go`, `utils/port.go`, `mqtt/counter.go` | the allocator's offset and scan, an action per port probed, other processes that open and close ports; the counter with its width (`IdSpace`) |
| `TopicRules` | `mqtt/topic.go`, `gomqtt.go`, `dmcontext/observer.go` | operators on topics as sequences of levels; `topicCall` is the last call |
| `TaskQueueProofs`, `HubProofs`, `ResponseCacheProofs` | | theorems about the module they are named after |
| `DocumentProofs` | | theorems about `ServiceMapping`, `NodeShadow` and `NodeView` |
| `MqttClientProofs` | | theorems about `MqttClient` and `MqttKeepAlive` |
| `DmContextProofs` | | theorems about `DmContext` and `DmFormat` |
| `CertProofs` | | theorems about `Pki`, `CertTool` and `AppContext` |
| `SupportProofs` | | theorems about `Allocators`, `Plugins`, `TopicRules` and `DmReport` |
| `MCTaskQueue`, `MCServiceMapping` | | values for constants |
| `MCClient` | | the client and the keep-alive, in behaviours of their own |
| `MCHub` | | the bound on publishers and channels of the `hub` run, which `Hub` itself does not have |
| `MCDmValues` | | values for the constants of `DmReport`, `DmExpression` and `DmFormat`, which share no state, and the three side by side |
| `MCNode` | | documents and reports for `NodeShadow` and `NodeView`, in behaviours of their own |
| `MCSystem` | | configurations, environments and certificates; the tool and the service interleaved; other callers of `Pki`, the plugins, the allocators and the topic rules in behaviours of their own |

Code outside the repository is modelled from how the repository uses it and marked
external in the map: gomqtt's connection, futures and tracker, `time`, fsnotify,
singleflight, the JSON merge patch library, goexpr, `spf13/cast`, `x509`, `tlsconfig`.

Definitions marked "Faulty variant" are plausible bugs of the definition that follows
them. They are not used by any specification: replacing the definition by its faulty
variant must make TLC report the property that `PROJECT.json` names under `mutants`.

## 3. The runs

| Run | Question | Result |
|---|---|---|
| `client` | teardown, handshake and error reporting over two streams; what becomes of accepted packets | `OldStreamsReaped`, `SendsOnAckedStream`, `DeathIsComplete` and the refinement `ImplementsSendQueue` hold |
| `client_live` | is a dead stream given up, does `Close` return; pings | hold for callbacks that do not send, `Close` except when `die` re-enters itself; `HealthyStreamLives`: a peer that answers in time is never given up, pings are counted before they are sent; `SilenceDetected`: on a stream that sends nothing else silence is noticed within two windows, and the broker hears within the keep-alive |
| `client_close` | does `Close` always return | violated, section 6 |
| `task` | where tasks and results are; are tasks served; do stopped workers quit | hold |
| `hub` | what `Publish` answers, delivers and the handler gets; silence; `Close` | `NilMeansDelivered`, `AcceptedIsHandled` (once, in order), `QuietAfterClose`, `SilenceEndsProcessor` hold |
| `dm_context` | requests and answers; do requests and goroutines end | the table is sound, an answer ends one call, goroutines end, and so do calls once the client took their request or was closed |
| `dm_values` | is a suppressed sample near the last published one; does a solution solve; do values survive typing, formatting and mapping | hold; `SuppressedIsNearPublished` says after which reports a sample may be withheld though nothing near it was published, `FormatStable` leaves out one layout, section 6 |
| `response_cache` | what a request is answered with, how many handlers run (`RepliesAreRecent`), when an old response overwrites a newer one (`StoreMovesOn`), is everyone answered | hold: an old response wins only after a run was forgotten |
| `mapping` | offsets, saves that work and that fail, turns, torn reads; do readers learn changes | hold |
| `node` | do deltas lead from report to desire (`DeltaSettles`); does the view show the last report (`ViewShowsReport`), are percentages and statuses consistent, do application lists survive | hold, except that a cluster's report stays hidden while fields of a single node are in the document, which `ViewShowsReport` says |
| `system` | issued certificates, the tool's files after any failures, clients made while the files are replaced; plugins; the rules of topics; ports and packet ids in turn | `IssuedVerifies`, `OutputConsistent`, `ClientsTrusted`, `PluginsShared`, `TopicsSound`, `NumbersInTurn` hold |
| `topic_qos` | does `MatchTopicQOS` return the lowest QoS | violated, section 6 |

The types of a module's variables (`TypeOK`) are the first conjunct of the module's main
invariant (`TaskLedger`, `NilMeansDelivered`, `HealthyStreamLives`, ...). Those of `MqttClient`
and `DmContext` are theorems instead, for every value of the constants, and no run repeats them.

Deadlock checking is off where the system may stop: a library at rest after `Close`, or
with the bound on calls used up, has no next step.

## 4. Bounds and fairness

Every bound is a constant of its module. They are chosen so that the cases that matter
happen:

- `MqttClient`: two streams (an old and a new one may overlap), capacity one (a full
  channel is reached) and two packets, one in the channel and one in connecting's hands or
  lost with a stream; larger capacities and more packets are covered by the proof of
  `ImplementsSendQueue`. Liveness uses one stream and gives every goroutine its
  step; a second stream adds nothing to the question whether a dead one is given up.
- `MqttKeepAlive`: a window of four ticks and a counter modulo four, so that the counter
  would wrap; `MaxIdle` is beyond two windows and the keep-alive.
- `TaskQueue`: two workers with different registrations, a function and an `AsyncTask`,
  two tasks, a broker that can be full; workers are stopped and started any number of times.
- `Hub`: two channels with room for one message, two generations of the topic's map, three
  calls of `Publish`; either two publishers race on the processor's channel or one ranges over
  both channels (`Bounded` in `MCHub`), since the product of both is too large and a third publisher adds
  no new pair of steps. The specification the theorems are about has no such limit. Any number of ticks.
- `DmContext`: one device (devices share nothing but the code), two clients and a
  callback, a cache with room for one request (`CacheSize`), so that it is full, two calls (`MaxGets`):
  an answer can be late by one call and be taken by the next. More calls are covered by the proofs.
- `DmReport`: two devices with the same property name and different templates, negative,
  zero and positive values, pauses beyond both windows, reports that work and that fail.
- `DmExpression`: all trees of two operator levels over two variables, three literals and
  an unsupported node, except those that divide by zero.
- `DmFormat`: integer types of three to five bits (`NarrowLimits`), in the order of Go's widths,
  with numbers on, just inside and just outside their limits; floats of two and three binary digits down to
  an eighth (`SmallFloats`), whose shortest texts have one decimal, so that numbers are rounded, twice where
  the code does that, and to infinity; every layout of `timeFormats`
  and one that is not there; arrays and objects of two members.
- `ResponseCache`: three requests: a leader, one that waits or overtakes, one that finds
  the result; the clock passes the expiry of the first entry.
- `ServiceMapping`: a writer that watches its own file and a second reader, two services,
  lists of zero, one and two ports, each what is left when the next is cut; `Users`, the instances that
  ask for ports, is the second reader.
- `NodeShadow`: documents of up to five levels with the code's limit of five, so that the limit
  is met by some merges and not by others.
- `NodeView`: a clock that passes the timeout (`MaxNow` 1 and `Timeout` 1: a node that reported at
  time 0 is offline at 1), reports of both shapes, partial ones and ones
  without statistics, with and without versions, zero and unparsable quantities.
- `CertTool` and `AppContext`: two runs of the tool, so that old and new files mix; a clock
  on which certificates expire; a configuration file that is missing, one that loads partly, one that
  inherits two of three paths and one with a variable that is unset or has a `=` in its value. Other callers of `Pki` make two calls: a parent of any kind and
  what it issues.
- `Plugins`: one name in two spellings, two goroutines, two factories, three calls.
- `Allocators`: ranges of two and three ports at either end of what is allowed, and ranges just
  outside; `MaxProbes` (8) and `MaxDraws` (8) are more than two turns through them and through the
  ids of `IdSpace` 4.
- `TopicRules`: `MaxTopicLevels` 2 and `MaxTopicLength` 7 instead of 9 and 255, and topics of up to
  two levels more than accepted (one of them a system level); every kind of level. Topics that are parsed for a device have up to `MaxParsedLevels` (6), so
  that the words of the pattern may come twice, also as the end of a level. `Subscriptions` has filters of two levels with every QoS.

Fairness is weak fairness of the steps of a goroutine that is able to go on, which Go's
scheduler gives, and of timers that are armed. Strong fairness is
assumed where a `select` has several ready cases again and again, because Go chooses among
them at random (the cases of a dying tomb in connecting and processing, a callback's `Send`
when room comes and goes), and of reading from a connection that was closed. Nothing is assumed of peers: brokers,
subscribers and file systems may never answer. Callbacks and handlers are assumed to
return (a handler of the response cache may panic); in `client_live` callbacks do not call
`Send`, because one that does may wait for the library itself (section 6).

Some liveness properties are stated as `[]<>P`, "again and again nobody waits". With
finitely many calls, and since a call that has ended stays so, that says the same as one
leads-to per call, and it is much cheaper to check.

## 5. Proofs

TLAPS proves the safety properties below for every value of the constants: any number of
goroutines, packets, tasks, devices and so on, and every capacity. Each rests on an inductive
invariant, since none of the properties is inductive by itself; TLC has checked these
invariants on the instances of the runs too. Proofs have one lemma per action or group
of actions that touch the same state, a lemma that collects them (`[Next]_vars`), and a
temporal step.

- `MqttClientProofs`, packets: `ClientTypeCorrect` (`Spec => []TypeOK`), `ClientLedger`
  (`Spec => []Ledger`) and `ClientImplementsSendQueue` (`Spec => ImplementsSendQueue`).
  The invariant is `ClientInv == TypeOK /\ HandInv`: `HandInv` says what the
  goroutines hold where they are (connecting has a packet in hand exactly while it tries to
  send it, a stream while it has one), without which `Ledger` is not preserved by the
  action that puts the packet back. The
  refinement adds the lemma that every step is a `Put`, a `HandOver`, a `Close` or a stutter
  of the queue.
- `MqttClientProofs`, streams: `ClientReapsStreams`, `ClientSendsOnAcked` and `ClientDiesOnce`
  (`OldStreamsReaped`, `SendsOnAckedStream`, `DeathIsComplete`). `StreamInv` adds what connecting
  knows of the stream in its hands (`ConnInv`: it leaves its loop only when the stream is killed or
  the client dying) and how far `die` has got on each stream and what it has done by then
  (`DieInv`). The three properties need each other: a stream is reaped because `die` was
  complete, and `die` runs once because only the holder of the `sync.Once` moves it on. `DieInv` keeps with
  each stream whether it died of an error or was closed (`cause`), which tells whether `OnError` is due.
- `MqttClientProofs`, pings: `KeepAliveSparesHealthy` and `KeepAliveFindsSilence`. `AnswerInv`: while a
  peer owes an answer, the tracker's age is not above the time the answer has taken so far, so the
  window cannot end first. `SilenceInv`: the age and the timer add up to the window, and silence is at
  most the age plus one window.
- `TaskQueueProofs`: `TasksAccounted` (`TaskLedger`). `LedgerInv` says that five sets (in the
  channel, in a worker's hands, in the backend, delivered, discarded) split what was accepted;
  `HandInv` that no task is twice in the channel or with two workers, so that taking
  one out of a place takes it out for good.
- `HubProofs`: `PublishDelivers` (`NilMeansDelivered`), `ProcessorHandlesAll` (`AcceptedIsHandled`)
  and `ProcessorQuiet` (the action property `QuietAfterClose`). `CallInv`: calls under way have different
  messages, and what a call owes is in the map object it ranges over, also after `Close` dropped
  that map. `SentInv`: a call's message is in a channel only if the call is through with it,
  and in all that are owed unless the call has failed. `ProcInv`: what came is what was handled
  followed by what is in the channel.
- `DmContextProofs`: `ContextTypeCorrect`, `ContextTableSound` (`EntryHasItsCaller`) and
  `ContextAnswersOnce` (`AnswerEndsOneCall`). `TableInv` adds `CallsDistinct`:
  calls under way have different numbers. It is needed because a returning call deletes
  its device's entry by name; the entry is its own only if no other call has its number.
  For answers, `AnswerInv`: an answer is in the client's cache as a request, at the broker, in a channel, in a goroutine's hands or at a
  call, in one of these places, once, and not before it was asked for.
- `DmContextProofs`, values: `DeltasTyped` (`DeltaExact`) and `FormattedOnce` (`FormatStable`), for
  integer types of any width and float types with any set of numbers. What was rounded to a type is a number of the
  type, which rounding to it again does not change. The invariant `DoneWell` gives, for the last call, the type of the value
  that came out and the range it is in: an integer that was wrapped is within the limits of its
  type, where wrapping it again changes nothing, and a formatted text parses by the layout it was
  formatted with.
- `ResponseCacheProofs`: `CacheServesRecent` (`RepliesAreRecent`) and `CacheMovesOn` (the action
  property `StoreMovesOn`). `RunInv`: a run has one leader, whose place tells the run's
  status. `ServeInv`: the store holds a good response with the time it was given. `FlightInv`
  counts: there are no more runs than requests that have come so far, and the
  runs outside the singleflight group are at most those whose timer has fired.
- `DocumentProofs`, mapping: `MappingTablesSound` (`TablesSound`) and `MappingReadersKeep` (the action property
  `ReadersKeepServices`). `RoundInv` is stronger than even use: the places before the offset were
  used exactly once more than those after it, so that the next one is right to take. A list that a failed save
  has cut (`Cut`) is read with its offset at zero.
- `DocumentProofs`, shadow: `ShadowSettles` (`DeltaSettles`), for documents of any depth and size and any
  level limit. `ShadowInv` is that both sides are documents, that the last report holds, and that after
  a delta was merged the next one asks for no value. The argument is about one path at a time: of a path that
  is reported but not desired, the first path on the way down to it that is not desired is either to be
  removed or below a value that is changed, and the patch removes it with all that is below (`PatchReaches`); every
  desired value that is not null is in the report once the cleaned delta was merged (`DeltaReaches`), and of a report
  that has them all the delta holds only objects (`NothingAsked`).
- `DocumentProofs`, view: `AppsSurvive` (`InfosSurvive`), `ShownConsistent` (`ViewConsistent`) and
  `ReportShown` (`ViewShowsReport`). `ViewInv`: the report is a document of values that decode, also after a
  merge that failed midway (`PartsDoc`) and after `View` rewrote it (`CompatDoc`), and its list of apps is the one
  that was set or reported last, as it is or encoded. `StatusInv` is about the view returned last, and `CpuIs`
  says that a CPU quantity is shown in thousandths rounded up, from which its share is exact up to a
  thousandth. `ShownInv`: the report is in one of the two shapes (`Shaped`), because a merge that fails has
  merged the node whole or not at all, and in its shape it has what the last report said (`LastShown`); the
  rewriting changes nothing the second time (`CompatTwice`).
- `SupportProofs`: `AllocatorsInTurn` (`NumbersInTurn`): the invariant reads off the offset when
  each port was last come to, and off the next id when each was last drawn, and bounds what was
  handed out by it. `PluginsOnePerName` (`PluginsShared`): an instance in a goroutine's hands is in
  no other's, not in the table and not closed (`HandsInv`), and what was given out is in
  the table for good (`StoreInv`). `FilterStaysNear` (the action property
  `SuppressedIsNearPublished`): the baseline of a property is what was last let through of it, with its time,
  whether or not it was then published.
  `TopicsJudged` (`TopicsSound`), for topics of any length and any limits: a filter and a topic it matches
  differ only at wildcards (`MatchFills`), so that a filter that is accepted has an instance that
  is; the regular expression of a device's topic cuts greedily, and a cut that leaves
  one level to each text but the first is the only one if the parts are single levels.
- `CertProofs`: `PkiIssues` (`IssuedVerifies`), `ToolOutput` (`OutputConsistent`) and `CtxTrusted`
  (`ClientsTrusted`). A chain of certificates verifies if every set that is closed under "signed by a CA
  in the set" contains its end, which needs no recursion. `PkiInv`: a key and a subject belong to one
  certificate, so that the parent a signature leads to is the parent it was made with. `ToolInv`: what each
  step of a run has made and written is still there in the steps after it (`MadeInv`, `WrittenInv`), also after
  the run has ended. `CtxInv` adds that the cascade of paths leaves a key with its own certificate
  (`ScInv`) and that a client whose files were read while no run began has
  those of the last run (`MakingInv`, `ClientInv`).

The assumptions are those named in the modules, which TLC evaluates in their runs: capacities and
durations are positive naturals, bounds are naturals, a counter has at least two values, a peer
that is up answers within the keep-alive, ports are lists of naturals, requests are finite,
devices are not clients, and deviations and windows are naturals. Of certificates: those that callers
bring along have keys of their own (`GivenAssumption`), the root lives longer than what the tool
issues with it (`DaysAssumption`; 50 and 20 years in the code), and a configuration names files of the tool's
output, the key with its certificate (`ConfsAssumption`). Topics are sequences of strings
(`TopicsAssumption`); what is typed and formatted are JSON and Go values (`FormatAssumption`); of floats: those of 64 bits
include those of 32 bits and the integers of up to 32, and each type has zero, one and an infinity of either sign (`FloatAssumption`). Of nodes: what is merged
are documents (`DocsAssumption`); a report has values that the code can decode, in one of the two shapes, with a node
object not as deep as the level limit and a list of apps whose names and versions may be left out (`ReportsAssumption`); `JsonKeys`
contains the keys the code uses (`KeysAssumption`).

Only model-checked:

- every liveness property (fairness and `ENABLED` are beyond this prover);
- what rests on recursion over data, whose induction is beyond it too: `SolutionSolves` and
  `MappingsAgree` (`DmExpression`, on syntax trees).

## 6. Where code and documentation disagree

`Close` of the client may hang (`client_close`): `die` sends `Disconnect` inside its
`sync.Once`; if that send fails, `send` calls `die`, and `Once.Do` waits for itself.

`MatchTopicQOS` (`topic_qos`): "if topic matched, return the lowest qos" (`mqtt/gomqtt.go:236`), but the
search starts at 1, so that subscriptions of QoS 2 alone are answered with 1. `TopicsSound` has what
does hold: the lowest matching QoS or 1, whichever is less.

More observations; TLC finds those about modelled code with a change of constants or one
invariant more:

- The client may stop reconnecting: `Send` from `OnPublish` waits for room in the channel,
  and `stream.close` waits for that callback. `DeadStreamReplaced` fails when
  `CallbackSends = TRUE` and the channel can be filled.
- "first report" (`dmcontext/context.go:393`) is the first of a property name, whatever the
  device: the first report of a second device may be left out. The baseline is also moved before the
  report is sent (lines 397, 411 and 415): after a report that failed, samples are withheld for a window though
  nothing was published.
- A processor or client that is closed before it was started can still be started
  (`utils/tomb.go:64-71`; `tomb_test.go:47-73` wants it so), and its goroutine then handles messages or connects
  until its `select` takes the dying tomb. `QuietAfterClose` and `OldStreamsReaped` begin with the
  `Close` that waited.
- `GetDeviceProperties` waits for ever, without its one-second timer, while the client has no
  connection and its cache is full: `Publish` comes before the timer is made (`dmcontext/context.go:440`).
- A stream that sends more often than the keep-alive never pings, and notices a peer that has fallen silent
  only when a send fails: `SilenceDetected` is about a stream that sends nothing else.
- `SetServicePorts` and `DeleteServicePorts` that could not save return the error but keep the change,
  which the next save publishes (`native/mapping.go:114`, `130`).
- `AppInfos` panics on a report whose applications have no version, which JSON leaves out
  (`spec/v1/sync_report.go:61-64`, `node.go:656`), as it does on a list without names that was stored and loaded.
- The expressions for a device's topic are not anchored (`dmcontext/observer.go:17-18`): a topic that begins with
  `something/` is read like one that begins with `thing/`.
- Numbers are rounded in expressions: an `int64` beyond 2^53 to the next `float64`, a `float32` to what
  its shortest text says. `DeltaExact` excepts these two types.
- An environment variable's value is cut at its first `=` (`utils/config.go:39`).
- A counter made by `NewCounterWithNext(0)` draws 0 once, which means no id.
- "the max level of json" (`spec/v1/node.go:20`) is looked at only where two objects meet: a
  document may be accepted once and refused when it is repeated.
- The layout of `"mm-dd-yyyy"` is `"06-01-2020"` (`dmcontext/format.go:16`), of which Go
  reads `06` as the year, `01` as the month and `2020` as the day, the day again and a zero: what it
  formats is no date, and `FormatStable` leaves it out.
- A number that does not fit its integer type is refused in a delta and wrapped by
  `ParseValue`.
- `NewSystemBrokerClientConfig` copies the configured subscriptions into an empty slice
  (`context/context.go:284-295`), so that none is copied: `SystemBrokerTopics`.
- After `ClosePlugins`, `GetPlugin` still returns the closed instances, and an instance that is
  stored while `ClosePlugins` ranges may never be closed. A factory registered with capital
  letters is never found, since only `GetPlugin` lowers the name.
- `trigger.SyncExec` passes its parameters on as one slice, not one by one
  (`trigger/trigger.go:75`), so that the call fails unless the function takes a slice there.
- With `IgnoreQueryOrder` the cache key is made of unescaped query values: two requests that
  differ only in escaped `&` or `=` share a key (`cache/config.go:100`).

## 7. What is not modelled

- Generated code, HTTP wrappers, logging, archives, file locks: no state of their own, or
  third-party behaviour.
- Triggers: single calls whose results nothing
  else in the repository depends on, so that there is nothing to relate them to. Cache keys
  are the user's strategy; `ResponseCache` is about one key. Concurrent calls of `Allocate`,
  which has no lock: nothing in the repository shares an allocator.
- A worker of the task queue started again while its first goroutine is still there: it would have two goroutines,
  which act as two workers do.
- Messages that the broker delivers twice in `DmContext`.
- Data races whose outcome is a crash of the process, except where it is part of the
  question (`Pubsub`). They are listed as hazards.
- Floating point: `DmFormat` rounds to the numbers of the float type (which of two equally near ones is left open);
  in `DmExpression` the arithmetic itself is exact, on rationals, and in `DmReport` on integers.
- Sharing of nested maps between documents in `NodeShadow`.
- Several writers of the service mapping file.
- Of certificates: serial numbers, alternative names, the strength of keys.
- `ResetClient`: a broker of the model may refuse any connection, whatever its credentials.
- A composition of `DmContext` with the client: it would multiply the two largest state
  spaces, and the device context needs of the client only what `SendQueue` promises.

## 8. Plan

What is left: the type invariants of the modules that have them only as a conjunct, as
theorems of their own. An abstract specification of the task queue, which `LedgerInv` nearly
states, with the refinement proved like that of the client. A module for the tomb would let
its users share lemmas.
