# A verification project for unilog

unilog is a structured logging library for Go. A log call passes through
interceptors and processors to a tree of sinks; some of the sinks queue, batch,
retry, break circuits, count or fan out. This directory holds TLA+ models of
the library, TLC configurations that check them on small instances, and theorems
about them that TLAPS has checked.

Every module is a translation of the code in `src/`; `PROJECT.json` ("map") names
the lines each definition stands for.

    tlasany M.tla                          parses a module
    tlc -config Async.cfg MCAsyncSink      model-checks one instance
    tlapm SinkQueueProofs.tla              checks the proofs of a module

## The system

| component | state it keeps | operations | module |
|---|---|---|---|
| `AsyncSink` (`async_sink.go`) | channel of jobs, `closing`, `closed`, `done`, worker errors, counters | Write, Sync, Close, worker | `SinkQueue`, `AsyncSink` |
| `BatchSink` (`batch_sink.go`) | the same queue, and the worker's batch | Write, Sync, Close, worker, ticker | `SinkQueue`, `BatchSink` |
| `CircuitBreakerSink` | state, consecutive failures, `openUntil`, behind a mutex | Write (Sync and Close pass through) | `CircuitBreakerSink` |
| `RetrySink` | none; each call has its loop and pauses | Write, Sync, Close, all by `do` | `RetrySink` |
| `HTTPSink` | none; the server keeps what it accepts | Write, WriteBatch (Sync and Close do nothing) | `HTTPSink` |
| `FileSink` over `WriterSink` (also JSON and text sinks) | two mutexes, `closed`, the file | Write, Sync, Close | `FileSink` |
| `logger`: control flow, interceptors, sampler, fan-out, level filter, metrics | atomic counters | LogErr, Sync, Close, Snapshot | `LogPipeline` |
| `logger`: data (`With`, fields, redaction, enricher, encoders, payload) | the arrays behind the slices of fields | With, WithName, WithContext, LogErr, Process, encode | `EventFields`, `Redaction` |
| registry, builder, config loader | registered factories | Register, Load, BuildFromConfig, and the tree built: log, Close | `SinkBuilder` |

How they interact. A goroutine of the application runs `LogErr` up to the sinks;
everything is a plain call except the two queueing sinks, whose worker goroutine
calls the next sink later. Callers and worker meet in the channel of jobs, in the
flags under `mu`, in the response channel of a Sync or Close, and in `done`. The
goroutines of the application meet in the sampler's and the metrics' counters,
the breaker's mutex and the file sink's two mutexes; and in memory, wherever two
slices are windows on one array. The builder puts the sinks together and hands
the tree to the logger, whose Close must get to all of it.

What is hard here: the queueing sinks check their flags under a lock and send
after letting go of it; Sync and Close may time out while the worker still works
for them; outcomes of concurrent writes reach the breaker in any order; a fan-out
has failing, dropping and panicking children at once; a Snapshot loads four
counters one after the other; a file is synced and closed while lines are being
written, and the machine may go down; a request that was given up may still be
accepted; the redaction works in place while slices are shared by `append`; a
configuration fails half way. `PROJECT.json` ("hazards") lists these at their
lines, with the properties that cover them.

## The modules

`OrderedDelivery` is the abstract specification of a queueing sink: it accepts
events, delivers them in order and once each, may be sealed at one point, delivers
what was accepted up to the seal, then shuts. It has no queue and no callers.

`SinkQueue` is the protocol that `AsyncSink` and `BatchSink` repeat line for line.
A step is what one goroutine does between two points where another can see it: a
critical section, one channel operation, one atomic counter. A Write is
`Write` (flags read by `enqueue` under the read lock), `SendJob` or `Drop` or
`GiveUp` (the select), `Acknowledge` (the counter and the return). A Close is
`Close` (the claim of `closing`), `EnqueueClose` (the flags again), the select,
`ResetClosing` when that failed, `TakeResponse` or `AbandonResponse`, and `Join`
(waiting for `done`). A second Close is `WaitDone`. The worker is `Receive`, one of
`FinishEvent`, `FinishFlush`, `FinishClose`, and at the end `MarkClosed` and
`CloseDone`, the two deferred calls in the order they run. Contexts end at any
moment of a call (`Expire`).

`AsyncSink` extends it with what the handlers do to the worker's errors: a failed
write is recorded, a Sync or Close collects the errors and its own next sink's
error is joined by `joinErrors`, which keeps the first only. `BatchSink` extends it
with the batch, the ticker and the counters; the batch is a value, so that the copy
`toFlush` (batch_sink.go:204-205) is not seen; `batchWriter`, chosen at the start,
is whether the next sink has `WriteBatch`. What the code does there is kept: a
batch that `WriteBatch` takes counts as flushed twice, its failure is reported to
`OnError` twice, and without `WriteBatch` a batch that fails in part counts as
not flushed at all.

`CircuitBreakerSink`: `Admit` is `beforeWrite`, `NextWrites` the call of the next sink
outside the mutex, `OnSuccess` and `OnFailure` the report. The clock appears as what is
left of the open window. `healthy` is the outside world.

`RetrySink` is the loop of `do`: `CheckContext`, `Attempt`, `Pause`, then `WakeUp` or
`Interrupt`. `Attempt` is what the loop does with an attempt that has ended (`EndAttempt`)
under an assumption on the next sink (`Honest`): that may carry an operation out
and fail all the same, but reports success only for what it has done, or once closed.
`HTTPSink` extends it with one such next sink: an attempt is the encoding of the
event, one request (`SendWrite`) and its end (`WriteReturns`), by an answer, the
client's timeout or the context. The network delivers a request when it likes,
also after its client has left; a proxy may answer badly for a request that was
accepted. Beside the retried writes the worker of a batch sink calls `WriteBatch`:
one array of events with the JSON encoder, which one event that cannot be
encoded spoils, one request per event with the text encoder.
`HTTPSink` takes `EndAttempt` alone (`Report`): what it reports follows from requests and
answers, and that this is always `Honest` is what `HTTPImplementsRetry` proves.

`FileSink` has both mutexes, lines that take two system calls, a cache that the
system writes back when it likes, and a crash with a restart on the same file
(`NewFileSink` opens it for appending).

`LogPipeline` is a log call through the logger, an interceptor chain, a rejecting
processor, the sampler, `MetricsSink`, `FanoutSink` and children behind level filters;
Sync and Close go to every child. `answers` records what each child said. The sampler's
lookup of its counter (`Sample`, by `LoadOrStore`) and its count (`Count`) are two steps, for
another goroutine may come in between. Only log calls panic in a child: a panic in a Sync
or Close goes through to the program, since no interceptor is around those.

`EventFields` is about the memory behind the fields. A slice is an array and a
length; `GoAppend` writes into spare room when the array has some, else it makes a
new array with as much room as it likes. `With` and its sisters clone and
append; `LogErr` copies the logger's fields and appends the call's (`NewFields`); `Redact`
writes into the event's array, `Enrich` appends to it, `TextSorts` sorts a clone,
`WriteAsync` queues a clone that the worker encodes later (`Deliver`). Maps and
slices inside a field (`boxes`) stay the caller's and may change between calls. An
interceptor may call its handler twice (`CallAgain`). `Redaction` holds the walk of
the redaction through a value level by level (`Walk`, `RedactValue`) and what it should do,
told from the paths to the leaves (`Leaves`, `Covered`, `RedactsByPath`); the values are those of
the constant `Nesting`, where a container holds what is ahead of it.

`SinkBuilder` goes from a configuration to a tree of sinks and back. A tree, of sinks or of
values in a parameter, is a function from its places, which are sequences: `<<2, 0, 1>>` is the
first of the Sinks (1) of the Next (0) of the second configured sink. `Register` happens
beside everything else, `Load` is the types JSON and YAML give to values and the expansion of
environment variables at every depth (`Visits` says where a recursion comes to that may skip
places), `BuildFromConfig` the recursion that carries along what has been opened (`Built`, from the
deepest places up), then come `Log` and `Close` of the tree. A Close may have a context that
ends with the call of any sink (`Late`): from there on retrying sinks make no attempt
(`WithoutAttempt`) and workers may not get their close job (`MayGiveUp`), and what is below these is
not closed; but a worker that did get the job closes what is below it with a context of its
own. A Close that was given up leaves the phase `unclosed`, and may be called again. `WrapperParams`,
`SinkParams` and `ProcessorParams` are the parameters the code reads and `Kinds` the Go types
its getters take.

Abstractions: an event is identified by the call that made it; errors by the job
that produced them; time by ticks. `OnDrop`, `OnError` and `OnStateChange` are the user's
and do not call back into the sink. In `LogPipeline` events have no fields; in
`EventFields` two of the thirteen attributes of an event, its logger's name and its
error, stand for all. In `SinkBuilder` a parameter is its Go type, with its text where
that decides something.

## What is checked

Each run checks the type invariant of its module, except where that is proved below
and the run is for other questions: `CircuitBreakerSink`, `LogPipeline` and `FileSink`.
The same goes for five properties that are stated in the modules and proved for every
value of the constants: `PerCallerOrder`, `OpenAdmitsNothing`, `PausesBounded`,
`MetricsBalance` and `TimingObserves`.

A deadlock check is off where calls are bounded (`MaxCalls` and the like): every
caller may have used them up, which is no deadlock. The breaker never stops, and
is checked.

| run | bounds | shows |
|---|---|---|
| `async` | 2 callers, 2 calls each, channel of 2, one with a deadline, policy block | the protocol, whose errors reach whom, refinement of `OrderedDelivery`, and under fairness that calls return |
| `batch` | 2 callers, 2 calls each, channel of 1, policy drop_newest, batches of 2, both kinds of next sink | nothing lost, repeated or reordered; barrier; accounting of jobs and failures; refinement and its liveness |
| `breaker` | 3 writers, threshold 2, window 2 | agreement of count and state, who may cut the window short, recovery |
| `pipeline` | 3 goroutines, 1 call each, 2 children, 3 levels, 2 messages with a counter each, 1 Snapshot beside 2 of the goroutines | isolation of children, which failures are told and which are hidden, Snapshots, sampling |
| `remote` | 1 writer with 3 attempts, pauses 1 and 2 (the cap), and a deadline; 1 batch of 2; both encoders; up to 2 spoilt events | results, pauses and deadlines of the retry; what is acknowledged is stored; order, copies and wholeness; nobody is kept for ever |
| `file` | 2 callers, 2 calls each, 1 crash | whole lines, synced lines survive, no deadlock of the two mutexes |
| `builder` | 13 configurations, `Depth` 3, Closes with a context that ends at any sink and repeated Closes, 3 loaders, 2 environments, 4 sets of files that cannot be opened, 2 registrations | what builds, what is left open, where events go, what Close reaches |
| `fields` | 2 goroutines, 4 loggers and events together, 2 events at most, 2 slices, 2 containers | no shared memory that anybody writes to; records say what was logged and nothing below a sensitive key; the redaction's walk on 2,000 values, up to four levels deep |

Why the bounds are enough. The protocol has three kinds of calls, and the cases
that matter need two of them in progress (a Write or Sync in the gap that a Close
uses) or a Sync timed out in one call and a late answer in the next, which needs
two calls of one caller. A channel of 1 is full with one job, a channel of 2 can
be reordered. Batches of 2 have a full, a partial and an empty state. The breaker
needs one writer to trip the circuit, one to be late and one to probe. In the
pipeline no goroutine carries anything from one call to the next, so three calls
are one of each of three goroutines. Sampling every second call sees a keep, a drop and
a keep, two goroutines that look up a counter nobody has made yet, and with two
messages calls that count beside each other; both children pass or skip a level. A Snapshot
changes nothing for the goroutines, and one call is enough to be counted between two of its
loads; so a state constraint (`BesideSnapshot`) leaves out Snapshots beside a third call, and what
happens after the last load. Three attempts have a first
pause, a capped one and a last attempt; a request may overtake or outlive any of
them. Sharing of memory is between two: a logger and the one derived from it, two
derived from one (which takes three), two events of one logger or of its heir; the
spare room of 2 is enough for either field set to fit. The configurations have
every sink and processor type, every kind of value in the getters' type switches,
every wrapper, nesting of depth three, and each way to fail.

Properties worth knowing:

- `ClosingOwned`: `closing` always has exactly one owner that will clear it, so a
  Close that fails takes back its own claim and nobody else's.
- `ResponseIsBarrier`, `AnswerIsBarrier`: the answer to a Sync or Close comes after
  everything acknowledged before the call began, also after calls were abandoned.
- `ErrorsReportedOnce`, `AnswerCoversErrors`: no write error reaches two callers, and
  an answer leaves none behind of writes acknowledged before.
- `CallsReturn` (queue): calls with a deadline return; a Write or Close with a
  Background context does too. Two calls are left out because the code leaves them:
  a Sync without deadline behind the close job (see `SyncSeesEnd`), and a Close
  without deadline that waits for another Close which then gives up. The second
  waits on `done`, and the first has taken `closing` back without telling it.
- `ClosedBelowThreshold`, `EarlyCloseIsStale`: late outcomes cannot make the count and
  the state disagree, and only a write from before the trip ends a window early.
- `FailuresReported`: with a fan-out, panics and drops in any mixture, Sync and Close
  return every failure. A failed log call reaches `OnInternalError` if and only if no child
  dropped the same event and none panicked; a panic reaches `onPanic` if and only if an
  interceptor recovers. The two exceptions are what README.md:380 of the library does not
  allow for: `FailuresRouted` states its words, and a run refutes it (below).
- `SamplingKeeps`: however the goroutines interleave between the lookup of a counter and
  the count, all calls with one level, logger and message are counted on one counter,
  so that the sampler lets through one for every period begun.
- `SnapshotInFlight`: loading `writes` first is what keeps a Snapshot from
  showing outstanding writes that never were.
- `SyncedSurvive`: what a Sync of an open file covered is there after a crash.
- `AckedStored`, `CopiesExplained`: what is acknowledged is with the server; there
  is a second copy only from an attempt that was given up or badly answered.
- `BatchesIntact`: what is stored of a batch is in its order; a JSON batch is accepted
  as a whole or not at all, and one event that cannot be encoded keeps the others
  back, for good.
- `StatsAccounted`: the batch sink's counters agree with the jobs queued and served and
  with the failures. `OnError` hears of a failed batch once, and with `WriteBatch` twice, which is
  what lines 217 and 230 do; `WriteErrors` counts failed batches with `WriteBatch` and nothing
  without; `Flushed` counts the events of the other batches, twice with `WriteBatch`.
- `LoggersImmutable`, `CallerUntouched`: neither `With`, nor the redaction in place,
  nor the sorting of the text encoder changes a logger or a caller's slice.
- `RecordsFaithful`, `OnlyOpaqueShared`: a record shows the event as it was logged,
  however late, and its attributes under keys of their own, whatever a field is called; after a redaction only containers that the redaction does not look
  into (a `map[string]string`, a struct) are still the caller's to change.
- `RedactionComplete`: behind a redaction that comes after the enrichers no record shows
  anything below a sensitive key, however deep; a container of another type is passed over.
  That nothing else is touched is `RedactsByPath`, which TLC evaluates as an assumption of
  MCEventFields, and `RecordsFaithful`.
- `BuildOutcome`: a build succeeds exactly when every part
  is sound, and what it opens is what stands ahead of the first bad part. When it
  fails, that stays open, with nobody to close it.
- `CloseReleasesAll`: a Close that no sink gives up leaves no file open and no worker
  running, also after Closes that were given up half way. After one of those what is still
  open stands below a retrying sink or belongs to a worker that runs, so that a later Close gets to it; a
  worker that has ended, where no Close passes any more, leaves nothing open below it.
- `EnvExpandedOnce`: each reference in a file is expanded wherever it stands, and
  what came from the environment is not expanded again.

### Fairness

Weak fairness on the worker and on each caller's continuation: the Go scheduler
runs every runnable goroutine, the next sinks are assumed to return, a mutex in
starvation mode and the queue of waiting senders of a channel serve in turn. A
caller with a deadline has a context that ends (`WF(Expire)`), which is what a
deadline is; a Background context has no such assumption. The ticker of the batch
sink and the breaker's clock tick. Nobody has to call: Writes, Syncs and Closes are
not fair, except in the breaker, where recovery means nothing without
further writes. Fairness on `Receive` together with bounded calls makes weak
fairness enough for a sender that waits for room. In `HTTPSink` a request ends, which
the timeout of the default client (five seconds, http_sink.go:43) justifies; the
server owes nothing. With a `Client` of the user's that has no timeout `NobodyIsKept` has
no ground, for the contexts of the batch worker never end.

## What the code does against its own words

Four runs end in a counterexample on purpose (`PROJECT.json`, "findings"):

- `acked_lost`: a Write that read the flags before a Close sends behind the close
  job, returns nil and is never delivered (both queueing sinks).
- `sync_hangs`: a Sync in the same gap waits for ever when it has no deadline.
- `breaker_window`: with two writers a late success ends the open window at once. With
  one writer the window is kept, which is proved (`SoloWindowRespected`).
- `failures_hidden`: "Internal pipeline failures are routed to `OnInternalError`"
  (README.md:380), but logger.go:152 returns before that when the joined error of a
  fan-out contains `ErrDropEvent`: one child that drops the event hides that another
  failed to write it. The run has no panics; a recovered one goes against these words
  too, for it hides the failures of the children before it: only `onPanic` is told, and only of
  the panic (see `FailuresReported`).

A disagreement without a run of its own: README.md:273-276 promises "every 10th debug event"
and "every 5th info event". The sampler's key is level, logger and message
(sampling_processor.go:70), so ten debug events with ten messages all pass. `SamplingKeeps` states
what the code does, for each key.

Met while modelling, with no document that says otherwise, and kept in the models:

- A Sync that times out takes the worker's collected errors with it: they are in a
  response nobody reads.
- The sampler's counters, one for each message ever logged, are kept for ever.
- A Close whose context is done may leave things open: the select of async_sink.go:116-120
  may give up (line 158), a retrying sink makes no attempt (retry_sink.go:76-80). The logger
  passes the error on, and a later Close gets to what was left.
- JSON numbers are `float64`, which the getters for integers refuse (builder.go:844), so that a
  configuration with an integer builds from YAML and not from JSON.
- The message at retry_sink.go:99 always names `MaxAttempts`, also when an error that
  is not retryable ended the call after one attempt.
- A write that fails half way leaves a torn line, and the next one is glued to it.
- `OnError` runs on the worker and `OnStateChange` under the breaker's mutex: a callback
  that calls the sink it belongs to blocks (not modelled).
- `ExpandEnvConfig` writes into the `Sinks` slices of the configuration it was given.
- With keys that are not case-insensitive the result of `TrimSpace` in
  redact_processor.go:72 is thrown away: a field " token " is not masked by "token".
- The getters in builder.go:572-704 have no caller.

## What is proved

TLAPS proves the theorems listed in `PROJECT.json` for every set of callers, any
number of calls, every capacity, threshold, window, number of attempts, size of
batch, pipeline and set of loggers. The assumptions are the named ones of each
module, which state what the constructors' normalisation of options guarantees.

`SinkQueueProofs`. `QueueTypeCorrect` stands on its own. `ClosingCorrect` (`ClosingInv`):
the ownership of `closing` is inductive together with the types and `CloserKind`, that
only a Close is in the places `check`, `reset`, `join` and `waitdone`.
`PerCallerOrderCorrect` (`OrderInv`) needs that a caller's jobs in the trail are no
newer than its current one, and older as long as it has not sent that one.
`BarrierCorrect` (`BarrierInv`) needs that what a caller may rely on is in the trail and
stands ahead of the caller's own job, and that an answer belongs to a served job: what
was served is a prefix of the trail, so what stands ahead was served before.
`ServesInOrderOfQueue` is the refinement of `OrderedDelivery`: each step of the protocol is
one of the abstract specification or a stutter. It rests on laws of `EventsOf` (of a
concatenation, of an appended job, of a sequence without repetition) and on `SealInv`: a
running worker has served no close job, so what it serves next stands before the seal.
`StatsBalanceCorrect` (`StatsInv`): the jobs counted and those sent and not counted yet are the
trail; that these last are finitely many is part of the invariant, for the set of
callers may be infinite.

`AsyncSinkProofs` first shows that a step of `AsyncSink` is a step of `SinkQueue` or
leaves its variables alone, so that the queue's invariants carry over
(`AsyncClosingCorrect`, `AsyncBarrierCorrect`, `ServesInOrderCorrect`).
`ErrorsReportedOnceCorrect` and `AnswerCoversErrorsCorrect` rest on `ErrorInv`: uncollected errors
are of refused events, errors anywhere are of served jobs, and no error is in two
places. The job in the worker's hand is not served yet (a consequence of
`PerCallerOrder`), so its error is new in all of them.

`BatchSinkProofs` starts alike. `BatchKept` is the link between the queue and the next sink:
the events served are those delivered followed by the batch, in this order. With the
queue's barrier and the empty batch of an answer it gives `AnswerIsBarrierCorrect`. With
`SealInv` it gives the refinement `DeliversInOrderCorrect`: a flush is one step of
`OrderedDelivery`, which may deliver several events at once. `StatsAccountedCorrect` rests on
`StatsInv` and `CountsInv`, which keeps beside the counters how many batches failed and how many of
their events were withheld from `Flushed`; that a flush refuses events never refused before needs that no
job is served twice (`ServedDistinct`).

`SinkBuilderProofs` has two parts. The first is about `SinkBuilder`, for configurations whose
sinks and parameters nest in any way, down to any `Depth`. Its recursions are given a closed form
first. A recursion over places comes to those all of whose prefixes it may go to (`VisitsIs`;
`TreeRooted`: to all, if none is barred). A sink with all below it is built if every one
of them is sound, and opens what stands ahead of the first that is not (`BuiltIs`, from `BuildAllIs`
for one level and `BuildSinkIs` for the sink on top): the order of a build is the order `Ahead` of
the places, since two branches are built in the order of their first different step (`AheadBetween`)
and a sink after all that is below it (`AheadOfParent`). So `BuildIs` says of the whole configuration
what `BuildOutcomeCorrect` claims. `BuilderInv` has the properties and what they need: a built-in name
keeps its factory, for a registration never replaces one, and any other name has one of the
program's (`RegistryInv`; `BuilderAssumption` keeps the two kinds of factories apart); the sinks that run are the configured ones that count, with their types and
levels, and what is open belongs to one of them (`TreeInv`). `RoutesByPathCorrect` then is
`ReachesIs`. `CloseReleasesAllCorrect` begins with `ClosesIs`: a Close gets to the sinks that have nothing
above them that gave up or has ended. What it does not get to stands at or below a sink
that gave up, which stands below no worker (`Cut`), so no worker ends with something open
below it; and what stands below another sink's prefix is ordered with it (`BelowPrefix`).
`EnvExpandedOnceCorrect` is `LoadOneIs` for a sink
and its parameters, which asks that a file's maps and lists have the general types that the
decoders make of them (`WellFormed`).

The second part is about the circuit breaker. `BreakerInv` is the types, `ClosedBelowThreshold` and
`OpenAdmitsNothing`, inductive as they stand; `EarlyCloseIsStale` follows, since only a
success closes an open circuit. With one writer no write is in progress while the
circuit is open (`SoloInv`), so the window is kept.

`HTTPSinkProofs` begins with `RetrySink`. `RetryInv` ties the loop to its history: how many
attempts and pauses there have been at each place of `do`, that the next pause is at
least as long as the last, and that a caller about to try was seen with its context not
done. `RetryTypeCorrect`, `ResultMatchesCorrect`, `PausesBoundedCorrect` and `ExpiryStopsCorrect` are
its conjuncts. `HTTPImplementsRetry` is the refinement `HTTPSpec => Spec`. A step that ends an
attempt has to be shown `Honest`: a good answer is only given to a stored request, and the
answer a client holds belongs to the request it waits for (`WireInv`), whatever becomes of
requests that were given up; so no error means that the server has the event. With
the refinement the theorems about the loop hold of the HTTP sink (`HTTPRetriesCorrect`).
`AckedStoredCorrect` rests on `HTTPInv`: a good answer to a client belongs to the one
request it waits for, which is stored (`WireInv`), a write's request carries that
write's event (`WriteInv`), and unless a batch has met an error each of its events is
stored or still to be sent (`BatchInv`). `CopiesExplainedCorrect` and `BatchesIntactCorrect` need
`IntactInv` on top: the number of a request names it and the server has it once at most
(`IdInv`); a request carries one write's event or a body of one batch (`PayloadInv`); the
requests with the event of the current write are no more than its attempts (`CallInv`); and
as long as a batch has met no error only the request waited for may still be on its way,
so it is stored in the order sent (`TodoInv`, `SentInOrder`, `StoredInOrder`).

`EventFieldsProofs`. `FieldsInv`: no array that an event's call may write to (its `fields`
and `base`) is a logger's or a caller's, which gives `LoggersImmutableCorrect` and
`CallerUntouchedCorrect`. `append` and `cloneFields` write into the slice's own array or into a
new one (`GoAppendFrame`, `CloneFrame`), for any spare room. `RecordsFaithfulCorrect` and
`OnlyOpaqueSharedCorrect` need `StoryInv`, which says what is in those arrays: a logger's are the
fields it was given (`WasInv`); an event under way has what the processors passed so
far make of its fields, and in `base`, to which an interceptor may come back, its fields with
or without their redaction (`RightInv`), which makes no difference since a redaction changes
nothing the second time; no two calls share an array or an event (`ApartInv`);
a queued event has an array that no call in progress writes to and that holds what is to be
written of it, but for the containers it shares (`QueueInv`). The bound on the queue in `FieldsTypeCorrect` is
`PlacesInv`: each queued event has a place of its own among the children of the two rounds
that a call may make, so there are no more than that.

`RedactsByPathCorrect` is about the walk alone, for any values whose nesting is finite. After n
steps into a value and into what the walk has made of it the places reached correspond
(`LeavesRedacted`): the mask where the path has a sensitive key, else what the levels left make
of the place (`IntoTurned`). From it come `CoveredTwice`, and `WalkTwice`: a redaction
changes nothing the second time, which `RecordsFaithfulCorrect` needs.
`RedactionCompleteCorrect` (`MaskedInv`): what an event is to look like shows nothing below a
sensitive key, since behind the last redaction only identifiers are added that are not to be
masked (`StepsMasked`), and sorting (`SortedIs`) and the payload's choice among fields of one
key (`PayloadMasked`) bring in nothing new; by `RecordsFaithful` a record looks as promised.

What these proofs ask of the constants: the values that fields may hold are closed under
the redaction; keys are ordered by numbers; no reserved key becomes `logger_name` or `error`
(event_payload.go:61 puts "field." before it); and a container keeps its Go type when its
owner changes what is in it.

`FileSinkProofs`. `FileInv`: a place in Sync or Close goes with the one hold on the sink's
mutex, a half-written line with the one hold on the writer's, and then its head is the
last thing in the file, so that its tail comes right behind it. A line that is whole
in the part on the disk stays so when more is written or written back (`StaysWhole`),
and a crash leaves just that part.

`LogPipelineProofs`. `PipelineInv` says place by place what the history knows of a call in
progress: nothing before the sampler; in the fan-out that the children behind the
loop have answered and that their failures are in the joined error; at the end that a
failure is in the result or a child has dropped the event. A step of one goroutine
tells the history of its own call only (`TellsOf`), since calls differ by caller and
number (`NewCall`), so the others keep theirs (`OthersKeep`). `FailuresReportedCorrect` holds with any
interceptors; `TimingObservesCorrect` assumes that a timing interceptor stands outside of one
that recovers (`Times`). `BalanceInv` adds the counting: only the two
counters of the metrics sink open and close a write (`OpenStays`), and what a Snapshot has
yet to load can only have grown (`SnapshotInv`). `SamplingKeepsCorrect` needs `SamplerInv`: a key has one counter for good, and a goroutine that has
looked one up holds the one of its key, so that its tally is the number of calls counted
for the key. One call more is then either the
first of a period, which is kept and begins a new one, or dropped (`PeriodsBegun`, from the
laws of division by a constant), and calls differ, so each drop counts.

How the sequences were done: the installed provers cannot use the library's induction
theorems, whose parameter is an operator. `SetInduction` states induction for a set instead (one
with 0 and with the successors of its members is all of Nat), from the least member of
what is left out; with it the laws of recursive functions over sequences
(`EventsOf`, `After`), over levels and steps (`Walk`, `Behind`) and over the places of a tree
(`Visits`, `Built`) could be proved: the wanted function satisfies the recursive equation, and
any other that does is equal to it.

Left to TLC: all liveness (`CallsReturn`, `DeliversAll`, `Recovers`,
`NobodyIsKept`) and `ENABLED`, which the prover does not do. Every invariant and every action
property that a run checks and that holds is proved.

## Not modelled

- Interfaces, options and `NopSink`: declarations, and a sink that always succeeds.
- Quoting, number and time formats of the encoders; the caller's position and the
  stack of an event; the constructors of `Field`.
- Reading the configuration file, the choice of the loader by its extension and
  syntax errors: each ends in an error or in what `Load` models.
- Callbacks that call back into their sink (see above), and an `http.Client` of the
  user's own.
- Options given to the constructors outside their range: the models begin after the
  normalisation.

## Plan

The components are modelled; what is left is to compose and to prove more.

1. A composition of retry, breaker and fan-out, where a retry repeats what some
   children have done already, over the tree that `SinkBuilder` builds.
2. The safety half of the liveness: that each step of the worker brings a waiting caller
   nearer to its answer, as an action property that TLAPS can check.
