# Verification of the metrics collector

TLA+ specifications of `stolostron/metrics-collector`, model-checked with TLC and
proved with TLAPS. The collector scrapes a Prometheus server, rewrites the
metric families, serves the last ones over HTTP, pushes them to a remote-write
endpoint, and reports how that went in the `ObservabilityAddon`.

## 1. The system

| Component | State | Operations | Source |
|---|---|---|---|
| Worker | the clients, URLs, rules, transformer and interval of its configuration; `lastMetrics`; `lock`; the channel `reconfigure` | `Run` (a loop of forwards and sleeps), `Reconfigure`, `LastMetrics`, `forward` | `pkg/forwarder/forwarder.go` |
| Configuration | the rules and recording rules, in arrays that all configurations share; salt and token files, client certificates | `New`, `createClients` | `pkg/forwarder/forwarder.go` |
| Scrape client | none between calls | `Retrieve`, `RetrievRecordingMetrics`, `Send`, `withCancel` | `pkg/metricsclient/metricsclient.go` |
| Remote write | per call: offset, back-off clock | `RemoteWrite`, `convertToTimeseries`, `sendRequest` | `pkg/metricsclient/metricsclient.go` |
| Status report | the conditions of the addon, in the API server | `UpdateStatus` | `pkg/status/status.go` |
| Metric families | a slice of pointers, rewritten in place | transformers, `Filter`, `Pack`, `MergeSortedWithTimestamps` | `pkg/metricfamily/` |
| Size limit | bytes left | `LimitedReader.Read` | `pkg/reader/reader.go` |
| Process | run group, SIGHUP channel, HTTP handlers | `/federate`, `/-/reload`, `/metrics`, `/healthz` | `cmd/metrics-collector/main.go`, `pkg/http/routes.go` |
| Simulation | none | `SimulateMetrics`, `FetchSimulatedTimeseries` | `pkg/simulator/simulator.go` |

**Interaction.** `main` builds one Worker and three actors: the goroutine of
`Run`, the SIGHUP loop and the HTTP server. The last two call
`Worker.Reconfigure`, with a configuration that shares its URL object, the arrays
of its rules and its transformer with the one in force; the server also calls `LastMetrics` and goes
on reading the families after the lock is released. `forward` holds the lock
from its first read of the configuration to its return: across the scrape, the
recording queries, the transformers, `RemoteWrite` with its retries, and the
calls of `UpdateStatus`.

**What is hard.** Wake-ups that come while the loop does not sleep; a value read
in one critical section and used after another; eight assignments that have to
look like one; families handed out without a lock; a URL object that every
request changes; rules that are trimmed and compacted in place while they are in
use; errors while another error is being reported; a report that waits for the
API server without a deadline, with the lock held; pushes that are
partly delivered, repeated or late; retries that must not
outlast the interval; an object in the API server with other writers. The full
list, at the lines where each one bites, is `hazards` in `PROJECT.json`.

**What makes each component correct.**

- Worker: a forward uses one configuration, the installed one; no wake-up is
  lost; what is served is fully processed and never changes; the addon tells how
  the last forward ended; a new configuration is used, cancelled runs return,
  callers of `Reconfigure` get the lock, the senders they leave do not pile up,
  unless the API server stops to answer.
- Remote write: success means that every series was delivered; delivery follows
  the order of the chunks; the retries fit the interval; the call returns.
- Status report: at most one condition is True, one condition per type, the
  latest last; when a call returns without an error its message is in force.
- Scrape client: after `withCancel` returns nobody writes the families any more;
  the error of a bad status wins; the exchange ends although the server stalls.
- Metric families: compaction in place keeps exactly the live entries in their
  order; the chain of transformers and the conversion lose no valid sample, leave
  no invalid one, and fail for an unsupported type only; elided labels are gone,
  anonymized ones are hashed; no label but the name is repeated; merging keeps all
  samples, sorted; what one transformer of the package leaves, another accepts.
- Process: no SIGHUP is lost, only a reload over HTTP can leave older files in
  force, the process ends only for a cause, and then all of it ends, unless the API
  server stops to answer.
- Configuration: a forward asks for the installed rules and for nothing else, each
  request on its own path and query; reloading does not disturb the running rules;
  the answers to the recording rules are forwarded all or none.

## 2. Modules

| Module | Models |
|---|---|
| `AbstractWorker` | what a Worker promises: whole configurations, replaced at once; `Run` returns after a cancellation |
| `Worker` | the goroutines of a Worker, step by step, under its lock |
| `WorkerProofs` | theorems about `Worker` |
| `Delivery` | what one call of `RemoteWrite` promises `forward` |
| `RemoteWrite` | one call of `RemoteWrite`, the network and the endpoint |
| `RemoteWriteProofs` | theorems about `RemoteWrite` |
| `AddonStatus` | what `UpdateStatus` promises `forward` |
| `StatusReport` | `UpdateStatus` and the API server |
| `StatusReportProofs` | theorems about `StatusReport` |
| `Answer` | what one scrape promises `forward`: one outcome, and families that nobody touches any more |
| `Scrape` | one exchange through `withCancel`, the goroutine that decodes, the context |
| `ScrapeProofs` | theorems about `Scrape` |
| `Pack` | the compaction in place of `Pack`, `PackMetrics` and `PackLabels` |
| `Pipeline` | `Filter` with the collector's transformers, `Pack`, and the conversion to series; and the other transformers of the package |
| `PipelineProofs` | theorems about `Pipeline` |
| `Merge` | `MergeSortedWithTimestamps`, with the steps of `Pack` |
| `MergeProofs` | theorems about `Pack` and `Merge` |
| `Rules` | the rules from the flags and the match file, through `New` and `Reconfigure`, to the requests of a forward |
| `RulesProofs` | theorems about `Rules` |
| `Collector` | the process: run group, SIGHUP, reloads over HTTP |
| `CollectorProofs` | theorems about `Collector` |
| `MCWorker`, `MCRemoteWrite`, ... | instances for TLC |

How they fit: `StatusReport` is checked to implement `AddonStatus`, and `Worker`
uses the actions `Call` and `Return` of `AddonStatus` wherever `forward` calls
`UpdateStatus` and waits for it. `Worker` takes `RemoteWrite` as one step with two outcomes that
always comes to an end; the run `remote_write` checks that it does, and `scrape` that
the exchanges do. `Collector` is built on the actions of `AbstractWorker`, which
`Worker` implements. `Merge` ends with the steps of `Pack`, of which it is an
instance with a larger state; `Pipeline` compacts slices in one step (`Packed`), as
`Pack` is proved to do. `Rules` takes the lock, the channel and the other fields as `Worker`
models them, and refines what `Worker` does in the steps `CallReconfigure` to
`NewSucceeds` and `BeginFederate` to `QueryRecordingRules`.

### Worker

A configuration is abstracted to a *generation*: 1 is what `New` installed, and
every `Reconfigure` installs the next number. `field[f]` is the generation that
last assigned the field `f`; `used` collects the generations that the current or
last forward has read, which is all that the properties need to know of what the
fields contain. A slice of families is abstracted to the stage it has reached
(raw, absent, rewritten in part, filtered, packed, empty); slices have identities,
because the handlers of `/federate` keep a reference to one without the lock.
Slices that nobody can reach any more are reused.

- `pc` follows `Run` and `forward`; every point of `forward` where the lock is
  held and something can fail or be read is a step of its own. `ReadInterval` and
  `BeginForward` are the two critical sections of a round; `Stop`, `TimerFires`
  and `Wake` are the cases of the `select`.
- `rpc` follows the callers of `Reconfigure`: `New` outside the lock, the lock,
  one step per assignment in the order of the code (`FieldOrder`), the sender,
  the unlock. `pending` counts the senders blocked on the unbuffered channel.
- `reader` and `snap` follow the handlers of `/federate`.
- `mode` is where the families come from: the simulation file, `SIMULATE`, or
  scraping. It cannot change while the process runs.
- `report`, `status` and `stale` belong to `AddonStatus`: `UpdateStatus(message)`
  begins a call, `UpdateStatusReturns` ends it, and in between (`pc` is "reporting")
  `forward` waits with the lock held. The model is of a collector that
  runs as an addon, since with `STANDALONE` there is nothing to report to.

### Rules

`main` fills one `Config` with the slices that the flags made, and every call of
`New` starts from them: `array` is the array behind each of them, with the
capacity that appending one flag after the other gives it (`Capacity`, the first of
`Sizes` that is large enough). A slice
that still lies in it has no `copy`; `append` in `AppendFile` makes one if the
lines of the match file do not fit. `job[c]` is the call of `New` that goroutine
`c` is in: the loop reads a rule (`TrimRule`), then writes it back (`KeepRule`) or
moves the rest down over it (`DropRule`). All this happens without the lock;
`Install` takes it. `worker` holds the slices, not the strings, of the Worker in
use, so that what it reads is what the arrays hold at that moment, and `wanted`
remembers what they should be, by a loop on a sequence that nobody else touches
(`Kept`). `forward` builds its requests on one URL object,
`url`; `sent` are the requests of the current forward, and `recorded` the answers to
its recording queries. An answer that cannot be decoded is an answer, without families
and without an error, as in `metricsclient.go:120`.

A string is read and written as a whole, and so is what one `append` moves; in Go
these are races, which may show even less of order than the model does.

### RemoteWrite

A series is its index, a request is the offset of its chunk, time is counted in
ticks. `elapsed` is the clock of the back-off of the current chunk, `total` that
of the call. An attempt may be accepted, answered 409, rejected after the
endpoint has stored a part, or not answered at all: then the request was lost,
or its answer was, or it is on its way (`late`) and arrives at any later time,
even after the call has returned. `MarshalFails` is the error return before the
first attempt of a chunk. The back-off stops when more than
`MaxElapsedTime` has passed, unless that is 0: version 2.2.1, the one in
`go.mod`. Neither the retries nor the requests look at the context, so the model
has no cancellation.

### StatusReport

The conditions are a list of records, as in the object; what the first call finds
there comes from the API server. `Call` begins a call with one message, which
`message` keeps until the next one. `Get` and the
recomputation are one step, because the recomputation is local; between it and
the `Update` another writer may change the object, and then the API server
rejects the update. An update that fails otherwise may still have been stored.
The other writers are external, and do not change the conditions that are
modelled here.

### Scrape

A body is the number of its families, and the limit how many families it has
room for. `pc` follows `withCancel`, `fn` the goroutine that runs the function it
is given; both share the variable `err`, as in the code. A `select` that blocks
(`parked`) is woken by what happens first; one that finds both cases ready takes
either. `RetrievRecordingMetrics` is the format `json`, which is decoded as a
whole and not limited; the kind `send` is `Send`, which reads the body after any
status and forgets it. With `--verbose` the transport reads the body inside
`client.Do`, and panics if that fails (`DumpFails`). `vector` says whether the
results of a recording query have the form that `metricsclient.go:131` asserts; if
not, the goroutine panics and the process ends (`DecodePanics`), with or without
`--verbose`.

### Pack, Pipeline, Merge

`Pack` is the algorithm that the package has three times, one round of the loop
per action; the search of the inner loop is the quantifier in `Fill`. An entry is
the position it came from, so that order and identity can be told.

`Pipeline` applies the transformers that `main` and `createClients` install, in
the order in which `MultiTransformer` calls them. Label pairs are objects with an
identity, because the label transformer puts one pair into all metrics of a
family and the anonymizer writes into pairs; `hashes` counts how often. A label
value is long, blank or neither by its name (`TooLong`, `Blank`), a sample has a
time, is typed as its family or not, and may have another value than a required
label demands (`other`). A name of a family may be too long (`LongNames`). `sort.Sort` is not stable, so any order
that `Less` allows may come out. The checking transformers of the package, which
the collector does not use, serve as a reference for what is left at the end
(`AcceptedByChecks`). `Convert` is a round of the loop of `convertToTimeseries` over
the families: a series for each sample, with the number of labels it has of each
name, the `__name__` that the conversion prepends included (`LabelCounts`), appended to
`series`, unless the type is not supported; `EndConvert` is its end. The transformers that the collector does not use form a chain of
their own (`LibraryStages`), one of the possible ones; `latest` is the field in
which `DropUnsorted` keeps a timestamp. A matcher of the whitelist is abstracted to
the names or to the label that it matches. The transformers that rewrite and accept
every family share the action `RewriteStep`.

`Merge` has one action per branch of the loop (`Begin`, `Differ`, `MergeBlock`,
`BeginZip`) and one per branch of the zip (`TakeFromDst`, `TakeFromSrc`, `EndZip`);
`zip` holds its two positions and what it has made. A sample remembers in `from`
where it came from. `return Pack(families)` is `Pack`, step by step, on positions.

### Collector

The files that a configuration is read from have a version, the number of edits;
an edit may leave files that `New` does not accept. `call` follows each caller of
`Reconfigure`: it reads the files outside the lock and installs what it has read
later. `New` reads several files one after the other, so that an edit in between
gives a mixture, which is known by the oldest version in it (`oldest`) and may be
accepted or not (`Accepts`, `Refuses`). `Stall` and `Recover` are a forward that
begins and ends to wait for the API server: meanwhile nobody gets the lock, and `Run`
does not return. The channel of signals has room for one (`buffer`), and a signal that
finds it full is dropped. The run group is the one of `oklog/run` v1.1.0, modelled
from its documented use: when the first member returns, all are interrupted in
turn and waited for.

## 3. Runs

| Run | Question | Bounds |
|---|---|---|
| `worker` | does a forward ever mix configurations, can a wake-up be lost, is what is served processed and immutable, does the addon tell the outcome, does Worker implement AbstractWorker? | 2 callers, 2 reconfigurations, 1 reader, 3 slices, all modes, symmetry |
| `progress` | is a new configuration used, does a cancelled `Run` return, does `Reconfigure` return, do its senders come to an end, whatever the API server does but hang for ever? | 1 caller, 2 reconfigurations, simulated families, no symmetry |
| `remote_write` | what does a result of `RemoteWrite` mean, when does it come, does it come if the endpoint never answers? | up to 7 series in chunks of 3, interval 6, requests of 0 to 1 tick, pauses of 1 or 2 |
| `status` | are the conditions consistent, is the message of a call in force when it returns? | all 7 messages; initially no condition, `Ready` or `Disabled` |
| `scrape` | which outcome has an exchange, who touches the families, does it end? | bodies of up to 4 families, room for 3, three formats and `Send`, recording answers that are a vector or not, with and without `--verbose` |
| `pipeline` | which series come from a slice after all transformers, when does the conversion fail, do the other transformers agree with each other? | one family of up to 3 of 12 samples and the empty one that `Retrieve` appends, or two families; valid, renamed, unnamed, named at too great length, untyped and composite; for the other transformers one family of up to 3 of 7 samples and one of up to 1 |
| `merge` | does a merge keep all samples, sorted, and does the compaction return what is left in order? | up to 3 families of up to 3 samples, 2 names, 3 times, in any order; 4 families of one sample |
| `rules` | what does a forward ask for while two goroutines reload, and what becomes of the answers to recording rules that fail or cannot be decoded? | 18 combinations of flags with and without blank rules, 3 match files that do not fit behind them, 2 reloads |
| `collector` | is every SIGHUP served, which files are in force, why and how does the process end? | 1 handler, 2 edits, no new reload after one was installed |
| `oversize` | is an answer over the limit rejected? (violated) | as `scrape` |
| `shared` | is a value hashed at most once? (violated) | one family of up to 2 samples |
| `rules_room` | do the rules in use change only when a Worker is installed? (violated) | 3 flags, a match file of one line, 1 reload |

**Why the bounds are enough.** Two callers suffice to have one wait for the lock
while the other one assigns, and two reconfigurations to have one of three
generations skipped entirely; the proofs cover any number. One reader holds a slice while `lastMetrics` is another
one and the forward works on a third, so three slices are all that can be in use
(one more than the readers plus two would stay unused). `NoUpload = {2}` makes
the second configuration take the branch without upload. Seven series in chunks
of three give no chunk, a short one, full ones, and a last chunk of one; the
share of the interval takes the values 2, 3 and 4. `Pack` meets every
choice of up to four entries, and the proofs cover any length. Three samples put one that is dropped before, between and after
others. Three families give every sequence of equal and different names that the
two states of `dst` can tell apart, and two samples against two or three overlap
in all ways. `progress` uses simulated
families because where they come from makes no difference to who waits for whom.
Flags with a blank rule at the front, in the middle and at the end, and arrays of
one, two and four that are full, are all there is to tell apart for a compaction
in place; two reloads overlap in all ways and both meet what an earlier one left in
the arrays. Two edits let a signal be dropped while a reload is between reading
and installing, and be followed by another one, and let files change while `New` reads
them; a reload over HTTP and one for a signal, with a second signal in the channel, are
under way before the first is installed. Deadlock checking is off only
where the modelled part really ends: after `Run` has returned and the callers
have made their calls, after a call has returned, a forward's families are
packed, or the process has ended.

**Symmetry** is used only in `worker`, over callers and slices,
which are interchangeable (`Init`, `Next` and every property treat all of them
alike; no `CHOOSE` picks one). Their temporal properties are of the form
`[][A]_v`, for which a symmetry reduction is sound; the runs with liveness use
none.

**Fairness.** A goroutine that can take a step takes it (weak fairness): the scrape
and the recording queries have deadlines (`scrape`), and `RemoteWrite` returns
(`remote_write`). `UpdateStatus` has none: it uses `context.TODO()`
(`status.go:67`, `123`) and a client without a timeout, and `forward` calls it with the
lock held. So `UpdateStatusReturns` has no fairness, nor has `Recover` in `Collector`,
and the promises of `progress`, `EndsTogether` and `SignalIsServed` say `WaitsForAPIServer`
for the one exception: a forward that waits for the API server for ever. Then the next
round, every `Reconfigure`, every `/federate` and the end of the process wait with it.
`sync.Mutex` hands the lock to a waiter that has starved for a millisecond, and
`select` chooses uniformly among its ready cases, hence strong fairness for
taking the lock, for receiving from a sender and for leaving once the context is
done. Nothing is assumed of
the timer: a configuration takes effect because of the sender, even if the
interval were endless. Nothing makes a caller call, a client read its response,
the owner cancel, or the network deliver. In `Scrape` the timer of the context
fires, and after that a request and a read of its body fail, as `net/http` has it;
nothing is assumed of the server. In `Collector` the Worker keeps the promises
that `progress` checks (a call of `Reconfigure` gets the lock, `Run` returns once
cancelled, unless a forward is stalled for ever: strong fairness, because it may
stall again and again), goroutines run, a closed listener ends `http.Serve`, and the `select`
of the SIGHUP loop is strongly fair; nobody has to send a signal or a request.

**Findings.**

1. (`shared`) A label that `--label` adds and `--anonymize-labels` names is one
pair in all samples of a family, and its value is hashed once per sample, so it
changes with the number of samples; `anonymize.go:19` expects values to be stable.
2. (`oversize`) An error while a body is decoded is only logged
(`metricsclient.go:219`). An answer over `--limit-bytes`, which `main.go:54` calls
the maximum acceptable size, is cut off and then forwarded as if complete.
3. (`rules_room`) `New` appends the lines of the match file to `cfg.Rules`
(`forwarder.go:229`), without the lock. Flags are appended one by one, so three
`--match` leave room for a fourth, in the array that the rules of the running
Worker lie in: its rules change before the reload has the lock, and stay changed
if the reload fails. `forwarder.go:88` says that all access to shared fields is
synchronized.

Observations that no run is spent on, or that no text of the repository
contradicts:

- `Reconfigure` copies eight fields and not `simulatedTimeseriesFile`
  (`forwarder.go:275`). In this repository all callers pass the same file.
- `Reconfigure` reads the files before it takes the lock (`forwarder.go:267`): a
  reload over HTTP that began before a SIGHUP may install older files after the
  reload of the signal, and they stay in force. `SignalInForce` allows for it, and
  for nothing else.
- A blank rule that `New` removes leaves the last one in the shared array twice
  (`forwarder.go:234`), and the next reload, which starts from all flags again,
  asks for it twice (`RepeatsOf` in `AsksForInstalledRules` allows for it).
- `MergeSortedWithTimestamps` sets `dst` to nil when names differ (`sort.go:52`)
  and so skips a family: `a, b, b` stays as it is, although the comment at
  `sort.go:41` promises one family per name. No code outside the package calls it.
- `UpdateStatus` has no deadline (see Fairness): an API server that accepts a
  connection and never answers stops the collector, and a cancelled `Run` does not
  return (`WaitsForAPIServer`).
- A recording answer that is not a vector panics at `metricsclient.go:131`, in a
  goroutine that recovers nothing, and ends the process (`DecodePanics`).
- A recording answer that cannot be decoded is logged (`metricsclient.go:123`) and
  counts as one without families; the families of the other rules are forwarded
  (`AllAnsweredOrNone` is about answers for that reason).
- The conversion prepends `__name__` (`metricsclient.go:429`) to labels that may
  have one already, from a recording rule or from `--label`: the series then has it
  twice (`OnlyNameRepeats`).
- A recording query that fails makes the addon `Degraded`, and the end of the same
  forward overwrites that (`forwarder.go:346`, `398`).
- One histogram or summary with a valid sample makes the conversion, and with it
  every forward that retrieves it, fail (`FailsForUnsupported`).
- With `--verbose` a connection that is lost while a body is read ends the process
  (`roundtripper.go:68`), and the whole body is read whatever `--limit-bytes` is.
- `--log-level` is read before the flags are parsed (`main.go:80`), so that it has
  no effect.
- A success on simulated time series is not reported (`forwarder.go:397`), so a
  `Degraded` from an earlier failure stays (`StatusTellsOutcome` excludes that
  mode).
- With between one and one and a half chunks of series, both chunks may spend
  half the interval on retries, so that a call may take the whole interval.

## 4. Proofs

All theorems are about `Spec`, for every value of the constants that satisfies
the assumption of the module:

- `WorkerAssumption`: identities are distinct and a minute is not a generation.
- `RemoteWriteAssumption`: chunks are not empty and the interval can be divided
  among them, which in nanoseconds it can.
- `ScrapeAssumption`, `CollectorAssumption`: bounds are numbers, the SIGHUP loop is
  not an HTTP handler.
- `StatusReportAssumption`: the other writer's conditions are neither of the two
  types that the collector reports.
- `MergeAssumption`: families come with at least one sample and in order of time,
  as the comment of `MergeSortedWithTimestamps` demands; a nil pointer is no family.
- `RulesAssumption`: a trimmed string is trimmed already, the empty one too; a file has
  at least one line; there is a capacity for each array of flags.
- `PipelineAssumption`: the sets of labels are sets of labels, a nil pointer is
  neither a family nor a metric, no timestamp is not a timestamp, and now minus 24
  hours is after 1970 (a missing timestamp counts as 0). What is retrieved is any
  sequence of families of any length.

In every module the invariant `Invariance` establishes is inductive, and the
properties follow from it; there is one lemma, or one step of a lemma, per action.

`WorkerProofs`:

- `TypeCorrectness`: `TypeOK`, one step per action.
- `Invariance`: `IndInv`. `NoTornConfig` and `StaleSleepIsInterrupted` are not
  inductive. The strengthening says who holds the lock (`LockDiscipline`), which
  fields a Reconfigure in progress has already assigned (`FieldsFollowLock`),
  and that whatever the loop has read of an older generation came with a sender
  that it has not yet received from (`StaleReadsHaveSender`). The lemma
  `ForwardReads` tells what all the steps of `forward` have in common;
  `FieldOrderInjective` is what makes an assignment leave the other fields alone.
- `NeverTorn`, `NoLostWakeUp`: the two properties.
- `OnlyProcessedServed`, `ServedNeverModified`: from `ServingInv`, an inductive
  invariant of its own. Its core is `Ownership`: the slice that a forward works on
  can be reached by nobody else. The argument never mentions the lock: readers
  are safe because a slice is published after the last write to it, and each
  forward starts a new one.
- `OutcomeTold`: `StatusTellsOutcome` is inductive as it stands, because a call of
  `UpdateStatus` that returns without an error has put its own message in force.
- `Refinement`: every step maps to a step of `AbstractWorker` or to a stutter;
  `Signal` is the step at which a configuration is installed.

`RemoteWriteProofs`:

- `Invariance`: `IndInv`, which adds to the properties where the offset and the
  result can be at each point (`Progress`) and how long a chunk has taken at most
  (`ChunkTime`).
- `SuccessMeansDelivered`, `InOrder`: the properties.
- `FitsInterval`: `RetriesFitInterval`, from `TimeUsed`, which counts the chunks that
  are done and bounds the time of each; that the shares of all chunks together are
  at most the interval is arithmetic (`SharesFit`).
- `Refinement`: RemoteWrite implements Delivery.

`StatusReportProofs`:

- `Recursion`, `Induction`: functions that are defined by recursion on an initial
  segment of the numbers exist, and induction over a set of numbers. They are proved
  from the least element of a set of numbers (`LeastNatural`), and they are what
  `KeptRecursion` and `KeptIsLowered` need to tell what the loop over the
  conditions returns.
- `Invariance`, `ListDoesNotGrow`, `OneIsTrue`: the properties, with what an update
  in progress is about to write (`WriteInv`); the list may be replaced between the
  `Get` and the `Update`.
- `Refinement`: StatusReport implements AddonStatus, whose `Return` is bound to the
  message of the call. It rests on `WriteInv`: what an update is about to write ends with
  the condition of this very message.

`ScrapeProofs`:

- `Invariance`: `IndInv` says where the goroutine can be at each point of
  `withCancel` (`Phases`) and that a bad status is in the shared variable `err` from
  the moment the goroutine has seen it (`StatusSeen`).
- `StatusDecides`: `StatusErrorIsReturned`.
- `Refinement`: Scrape implements Answer; nobody touches the families after the
  return because `withCancel` waits for the goroutine on every path.

`CollectorProofs`:

- `Invariance`: `IndInv`, of `GroupInv` (nobody is interrupted before a member has
  ended for a cause of its own) and `ReloadInv` (once the loop has read the files
  for the last signal, and none waits, it has read what was there at that signal).
- `EndsOnlyForCause`, `SignalTakesEffect`: the properties, for any number of edits,
  signals and handlers.

`MergeProofs`, first about `Pack` alone, with slices of every length:

- `PackInvariance`: `IndInv` of `Pack`. Its core is `NothingLost`: at every step the
  entries to keep are in the array, once and in order. It adds that there are only
  entries before `i` and only holes from `i` up to `next` (`Scanned`), and what `length`
  is (`Returned`). Swapping the first entry after `i` into the hole keeps the
  order because everything between them is a hole.
- `NoEntryLost`, `PacksInOrder`: the properties.

and then about `Merge`:

- `Invariance`: `IndInv`. Every sample is one that came in (`Authentic`), all of them
  are there (`Complete`), and those of one family stay in one (`Together`), which is
  why none is there twice and why ties are in order. `Ahead` says that the families
  from the position of the loop on are untouched; `ZipInv` what the zip has made:
  exactly what lies before its two positions, in order, and all of it may stand
  before what lies after them. `PackInv` is the invariant of `Pack`, whose
  preservation is the lemma `PackNext`.
- `KeepsSamples`, `MergesInOrder`, `ReturnsInOrder`: the properties.

`PipelineProofs`, whose first section is the inductive invariant:

- `Invariance`: `IndInv`. `FamiliesInv` says what the first n transformers have made of
  a family, for every n: which samples are left, with which times and labels
  (`CollectorFamily`), that label pairs belong to the metric or to the family, with
  different names (`OwnLabels`), and where nil metrics can be. `PlacesInv` says that
  families keep their places up to `Pack` and that those to be left are there,
  `HashesInv` that a value is hashed after everything else was done to its family,
  `SeriesInv` what the conversion has made. There is a lemma for each transformer
  (`Labelled`, `Renamed`, ...), which is about the family and not about the state.
- `KeepsSamples`, `ChecksAccept`, `FailsAsAWhole`, `Anonymizes`: the properties of the
  collector's chain from end to end. `NilIsNotFollowed`, `NamesDiffer`: those of both
  chains.
- `LibraryInvariance`, `OthersAgree`: `LibraryInv`, which is to the other chain what
  `CollectorFamily` is to the collector's. After n transformers a family has exactly the
  samples of `LeftAfter`, in the order in which they came (`LibrarySamples`); the order is
  what relates a comparison of metrics at positions, as `DropUnsorted` makes it, to one of
  samples (`SamplesBefore`). A family that is rejected has no sample that was to be left, and
  the chain fails only in `Require`, exactly at an `Unfit` family: `FitInv`, an invariant of
  its own (`FitInvariance`), says that none before it was unfit. That `errorOnUnsorted`
  accepts whatever `DropUnsorted` leaves is the lemma `SamplesInOrder`. That the field of `DropUnsorted` is 0
  whenever the loop starts is part of the invariant. What the field is after n
  rounds is the recursive function `LastKept`; `LastKeptIsLatest` shows that it is the
  latest time so far, by the lemmas `Induction` and `Recursion`, which are as in
  `StatusReportProofs`.

`RulesProofs`:

- `Invariance`, `RecordedTogether`: `BaseInv`, which is that slices stay within their
  arrays (`Fits`) and that without an error so far there is an answer to every rule
  so far (`RecordedInv`). From it follows `AllAnsweredOrNone`, whatever the flags and
  the match file are.
- `AsksForTheRules`, `TheRulesStay`: `AsksForInstalledRules` and `InstalledRulesStay`,
  for every number of reloads at a time, on the hypothesis `NoRoom`: no match file fits
  behind the flags. Without it they are false, which is the finding `rules_room`; the
  setups of the run `rules` satisfy it. A match file then always gets an array of its
  own, and the arrays of the flags are written by the loops of `New` alone.
  Still every `New` writes into an array that the rules in use are in, and
  neither property is inductive. `IndInv` adds what each array holds. The first `New` finds
  what the flags gave, and the
  elements before `i` are the rules as they should be, the others what was given, moved
  down by as many as were removed (`Looped`). When it is done, the array holds the rules
  as they should be and after them only the last one that was given, trimmed or not
  (`Clean`). A later `New` starts over on such an array: while it trims it stores what is
  there, and it finds a blank one, if at all, only behind the rules that should be there
  (`Again`), so that it moves nothing down over these; other calls of `New` may be
  between their own reading and writing meanwhile (`Stable`, `AgainAfter`). Hence the
  slices of a Worker have the rules they should have, and may repeat the last one
  (`Done`), whatever is written behind them; `Asked` is how far the requests have come.
- `LeastNatural`, `Induction`, `Recursion` are as in `StatusReportProofs`; `UpTo` is a
  recursive function.

**Only model-checked.** The liveness properties (`ConfigApplied`, `CancelStopsRun`,
`ReconfigureReturns`, `SendersDrain`, `CallReturns`, `ExchangeEnds`, `SignalIsServed`,
`EndsTogether`), which need fairness: what is enabled, and what must happen in the end,
is out of reach of the prover.

## 5. Plan

The model is complete but for what is listed below, and every invariant, action property
and refinement that a run checks is proved. What would be left are the liveness properties,
for a prover that knows fairness.

## 6. Not modelled

- The header of the bearer token, the instrumentation of transports, the logger,
  the health and debug routes: they keep no state and only format or count.
- The transports that `createClients` builds from certificates and token files:
  that they can fail is `NewFails`; what they do is up to the libraries.
- The text of simulated metrics, the encoding of `Read` and `Write`, the hash of
  the anonymizer: data that no property tells apart.
- The parsing of flags: its results are the constants of `Pipeline` and the setups
  of `Rules`.
- The panics of `--verbose` and of a recording answer that is not a vector, outside
  `Scrape`: the other modules are of a process that goes on.
- An update of the addon that the API server processes after the call of
  `UpdateStatus` has failed: an update that fails is stored at once or never.
