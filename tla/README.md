# A verification project for prosody-js

prosody-js is the Node.js binding of Prosody, a Kafka client written in Rust.
The repository holds two layers: a JavaScript API (`lib/`) and a napi-rs addon
(`src/`) that connects it to the external `prosody` crate. The crate is the core
of the system (consumer framework, producer, keyed-state store, timers, request
client). It is not in this repository, so everything here that concerns it is
modelled from how the addon uses it and is marked external.

The models are about what the binding itself must get right: promises, bounded
queues between threads, cancellation, errors that cross a language boundary,
iterators, and state that outlives the call that made it.

## Inventory

| Component | Code | State | Operations | Interacts with |
| --- | --- | --- | --- | --- |
| Event bridge | `src/handler.rs`, `lib/client.js` (`subscribe`), `lib/errors.js` | three handler queues and the `isPermanent` queue (thread-safe functions), the `completed` flag and `AbortController` of each call, the native task | `onMessage`, `onExcise`, `onTimer`, `isPermanent`, cancellation | consumer framework (attempts, verdicts, cancellation), application handlers, logger and Sentry |
| State scans | `lib/state/iterator.js`, `src/state/cursor.rs` | generator, its request queue, the held chunk, the `failed` flag, the native cursor | `next`, `return`, `throw`; `nextChunk`, `close` | callers, the store's cursor |
| Abortable calls | `lib/client.js` (`withAbort`, `send`, `excise`, `request`, `requestExcise`), `src/client/mod.rs` | the abort promise and listener, the native `select!` | start, abort, answer | caller's `AbortSignal`, the core's producer and requester |
| Logging bridge | `lib/logging.js`, `src/logging/` | `currentLogger` per environment, the process-wide `LOGGER`, five queues per logger, one cleanup hook | load, `setLogger`, `setLoggerIfUnset`, `loggerIsSet`, log event, environment teardown | native threads, every environment of the process |
| Keyed state | `lib/state/{handle,value,map,set,deque}.js`, `src/state/` | buffered writes of an attempt over committed contents (in the core) | reads, writes, `commit`, `rollback`, scans | event context, the core's store |
| Published state | `lib/state/published.js`, `src/published.rs` | none of its own | reads and scans of committed contents by key | the core's readers, while owners write |
| Queries and numbers | `lib/state/query.js`, `src/state/query.rs`, `src/number.rs` | none | option checks, conversions, `at` positions | scans |
| Codec and errors | `lib/state/codec.js`, `lib/state/bridge.js`, `lib/errors.js` | a message's payload, parsed once | encode, decode, error category over the boundary | all state operations |
| Event context | `lib/context.js`, `src/context.rs`, `src/timer.rs` | cache of state handles, cache of demands | timers, `state`, `onCancel` | the core's event context |
| Client lifecycle | `lib/client.js`, `src/client/mod.rs` | `shutdownPromise`; the consumer state in the core | `create`, `subscribe`, `unsubscribe`, `shutdown`, `state` | everything above |
| Requests | `lib/client.js`, `src/client/transport.rs` | none | one outcome per subsystem | responders |
| Configuration | `src/client/config/`, `lib/state/definitions.js` | none | parse and validate options, register collections | client creation |
| Admin client | `src/admin.rs` | none | create and delete a topic | Kafka |

What is hard in it:

- *Two schedulers.* Native tasks run on a thread pool; JavaScript runs on one
  thread per environment. They meet in bounded queues that refuse calls instead
  of waiting, and in promises that settle later than the event they report.
- *Late answers.* A cancellation, an abort or a close may arrive when the thing
  it is about has already finished.
- *Errors that decide.* A permanent error drops an event for good, a transient
  one retries it. The category passes through a catch block that calls
  application code, through a second queue and through a conversion.
- *Unawaited calls.* Nothing stops an application from calling `next()` twice,
  from popping while it reads, or from keeping a handle for too long.
- *Process-wide state behind per-environment state*, in logging.

The hazards list of `PROJECT.json` places each of these at its line.

## Modules

| Module | Role |
| --- | --- |
| `EventBridge` | one event from the framework to its handler and back |
| `Delivery` | what the bridge promises the framework; `EventBridge` implements it |
| `EventBridgeProofs` | theorems about `EventBridge` |
| `MCEventBridge` | workloads for its runs |
| `StateScan` | the async generator over a native cursor |
| `Scan` | what a scan promises its caller; `StateScan` implements it |
| `StateScanProofs` | theorems about `StateScan` |
| `AbortableCall` | calls that an `AbortSignal` can stop |
| `AbortableCallProofs`, `MCAbortableCall` | theorems, and the calls of a run |
| `JsNumbers` | JavaScript numbers and their conversion to native integers and durations |
| `ClientConfig` | options, builders and collection definitions; extends `JsNumbers` |
| `Queries` | the options of a scan, from JavaScript to the core's selection; extends `JsNumbers` |
| `Client` | the life of a client; extends `AbortableCall`, `ClientConfig` and `Queries` |
| `ClientProofs`, `MCClient` | theorems about the calls and the shutdown of `Client`; its configurations and scans |
| `ClientDataProofs` | theorems about the numbers, configurations, queries and responses of `Client`; extends `ClientProofs` |
| `EventContext`, `MCEventContext` | state handles, timers and published readers over the attempts of a key, and its requests |
| `EventContextProofs` | theorems about `EventContext` |
| `LoggingBridge` | loggers of several environments over one native logger |
| `LoggingBridgeProofs` | theorems about `LoggingBridge` |
| `KeyedDeque`, `MCKeyedDeque` | one key's deque under handlers and published readers, and its workload |
| `KeyedDequeProofs` | theorems about `KeyedDeque` |

### EventBridge

An attempt is a pair `<<event, number>>`. `pc[a]` follows its native task:
`queued` (in a handler queue, `call_async` pending), `running` (its promise is
pending), `settled`, `classifying` (in the `isPermanent` queue), `ended`.
`StartAttempt` is `on_message`, `on_excise` and `on_timer` up to the first await:
an internal timer is answered at once, a call the queue refuses is a transient
verdict, anything else waits in the queue of its kind. `DispatchCallback` is the
JavaScript thread taking a call and starting the handler. `HandlerReturns`,
`ResultUnencodable` and `HandlerThrows` are the ways through `runHandler` with
its catch and finally blocks; `Rethrown` says what leaves the catch block, which
is the handler's error or whatever the logger or the Sentry client throws.
`TaskResumes` is `run_callback` with the settled promise, `Classify` is
`isPermanent`. `RequestCancel` and `OnCancelResolves` are the two ends of
`onCancel`. `CloseEnv` is the teardown of the environment. The framework
(`KeyIsFree`, `MayStart`, `Decided`, `RequestCancel`) is external: it serializes
a key, bounds the attempts in flight, and tries an event again only after a
transient verdict. `MaxAttempts` bounds the retries of the model.

Properties. `HonestVerdicts`: a verdict that ends an event is true of what the
handler did. `NoOverlap`: handlers of one key never run together.
`QueuesMatchTasks`: no callback is lost or doubled. `PermanentIsFinal`: a
permanent error is not retried, under the conditions below. `LateCancelIsQuiet`:
a late cancellation leaves a finished handler alone. `EveryEventDecided` and
`CancelReachesHandler` under fairness. `Implements`: the bridge refines
`Delivery`, where an attempt is begun, handled at most once and decided.

### StateScan

`gen` is where the generator rests or waits; `requests` is the request queue the
language keeps for an async generator. `StartOrSkip`, `ResumeNext`,
`ResumeReturn`, `ResumeThrow` and `AnswerAfterEnd` take the oldest request;
`ChunkArrives`, `PullFails`, `ScanExhausted` and `CloseSettles` are native
settlements. `Leave` is the way out of the try block through the finally block.
The generator is written for any cursor, so a close may fail, although the
native `close` of today returns nothing. Items are numbers in scan order;
`SCAN_READY_CHUNK_SIZE` is the constant `ChunkSize`.

Properties. `CursorDiscipline` is the claim of the module's comment that no close
runs during a pull and that a cursor sees one call at a time.
`EndedScanIsClosed`. `ItemsInOrder`: items come in order, each once, and `next()` is
told `done` only after the last of them or after an answer that ended the scan, so a
short chunk is no end. `FailureNotHidden`, and under fairness `EveryCallAnswered` and
`ReturnCloses`. `Implements`: the generator refines
`Scan`. One thing the code does not do is visible in the model: `return()` before
the first `next()` ends the generator without running any of its code, so the
cursor, which was opened when the iterator was made, is not closed by it.

### AbortableCall

A call is `idle`, `native` (its `select!` is polled), `settled` or `done`.
`Watch` and `Finish` are the two halves of `withAbort`; `RefuseArguments` is a
native call that throws synchronously. `HearAbort` is the rejection crossing to
the runtime. `HandOff` happens only while the call's future is polled;
`Publish` is the producer, which no longer depends on the call. `SelectAnswer`
and `SelectAbort` are the arms of the unbiased `select!`.

Properties. `HonestOutcomes`: a call that resolves has its record published, one that
rejects with the abort reason was aborted by its own signal, one whose arguments are
refused has sent nothing. `ListenersMatchCalls`: a signal has a
listener of exactly the calls in flight that it can still abort. `SettledCallsSendNothing`: a
record is handed off only while its call is under way. `AbortEndsCalls`, under
fairness: an aborted call settles though the core never answers.

### JsNumbers, ClientConfig, Queries

These modules are functions, evaluated by the actions of `Client`.

A JavaScript number is NaN, an infinity or a count of halves, where the halves
stand for every number that is not whole. The native integer types are scaled
down to a few values each: only the order of their limits matters, so `MaxOf`
keeps it (`u16 < u32 < MaxSafe <= i64 < usize`, in the run). `Whole`, `Seconds` and
`Milliseconds` are the conversions of `src/number.rs`.

A configuration is a function from the options that are given to their values.
A text is one that parses or one that does not; which text it is matters to the place
where it arrives. Each builder of `src/client/config/` is a sequence of fields, and a
field converts one option into one setting of the core (`Build`, which stops at the
first option that does not convert). A read cache option becomes a policy that keeps
the duration it asks for (`ReadCachePolicy`). `register_state_collection` is the registration of a
definition with its time to live, key-set limit, capacity and publication, and
`Vended` is what the factories of `client.js` and `context.js` later ask for.

`keyQuery` and `positionQuery` are the checks of `lib/state/query.js`, `half_open`
and the two `IntoQuery` operators the conversion of `src/state/query.rs`. `Select`
is the core (external): edges are read in the order of the query, a range ascends.

`IsConfiguration`, `IsDefinition` and `IsOptions` say what types these inputs have: those
of the fields of `Configuration` and `StateCollectionConfig`, which napi enforces, and for
a query any number, string, `null` or `undefined`, with a list as the range. A range that is
no list is left out.

### Client

`Create` converts a configuration; `CoreBuilds` is the core, which takes it or turns
it down. `CallStep` and `FinishCall` are the steps of `AbortableCall` on an open
client: once the core is closing it turns records down, and a request that resolves
builds one outcome for each subsystem (`responseOutcomes`). `RefuseRequest` is the
native half refusing a subsystem name or a timeout. `AskControl`, `Subscribe`,
`Unsubscribe` and `consumer_state` go through native calls, so a second one may
start before the first is answered; `RefuseHandler` is the check made before any.
`CallShutdown` shares `shutdownPromise`; `CoreShutsDown` ends well or leaves the
consumer; `ReturnShutdown` answers each of the calls that wait. `OpenReader` is
`state()` with the error categories of `open_error`; `ScanMap`, `ScanSet` and
`ScanDeque` put a query through both sides.

Properties. `ConfigurationArrives`: what the caller asked for is what the core is
given, or the option that is refused means nothing in its unit. What was asked for is
stated without the builders: `Documented` is a table written section by section from
`CONFIGURATION.md`, which says of each option for which part of the core it is
meant, which setting it is there and in what unit, and `Meaning` what a value is worth
in a unit. So a setting that takes another option of the same type, an option
that reaches one of its two settings only, a text that arrives as another and a duration
that is not the one asked for are all violations, and each setting that is not asked
for must be left alone. `QueriesSelect`: a query
that passes the checks of JavaScript never fails in native code and selects the
members it asks for, each once, in order, up to the limit. `ShutdownShared` and, under
fairness, `ShutdownAnswered`. `ResponsesKept`: a reply that is no JSON takes no
other outcome with it. The properties of `AbortableCall` hold here too.
`ClientAssumption` says that configurations and scans are typed as above, that a
subsystem replies once, and that a scanned collection is a finite set of integers, which
stand for keys or positions.

### EventContext

Attempts of one key follow one another. The core keeps `committed[col]` and
`view[col]` for each collection; a success or the `commit()` of a handle keeps what
the view has (`Keep`), a failure or `rollback()` drops it (`Drop`). A call is made
through a handle that the context caches per definition (`State`, which may fail to
vend one), takes effect natively and is answered, and none need be awaited, so a
call may reach the core after its attempt has ended (`FenceCall`). `JsonValue`,
`MessageValue`, `JsonMap`, `MessageMap` and `MemberSet` are the methods of the five
handle classes; `PublishedValue`, `PublishedMap` and `PublishedSet` those of the
readers, which are 0 in `by` and see `committed`. `RefuseItem` is a value or message
that does not convert; `StoreFails` is the core failing a call. Timers are no part of
an attempt: `schedule` and its siblings take effect at once and for good, and a
clearing that fails may have begun. Their times are rounded to whole seconds on the
way (`At`; `Second` is the rounding), so two times can be one timer. The history
variables `fresh` and `kept` follow, from the answers alone, which writes ought to be
durable, and `written` is the order of all writes.

Properties. `ReadsHonest` is exact: it works out from the histories what the last
write that a read is to see (those that were kept, and for a handler those of its own
attempt) has left under each key. `get` and `getMany` must answer with these items at
their places, `has`, `hasMany` and `isEmpty` with whether there are any, and a `get`
must fail for good just if one of its items has no JSON form. So no retry and no
reader sees what a failed attempt has written, whichever read it uses. `DurableEntriesAreKept`: the
durable entries are exactly the work of the writes that were kept, collection by
collection. `RetriesAddNoTimer`: without `schedule` there is never a second timer,
whatever fails or is retried.

### LoggingBridge

`installs` lists the native loggers in the order they were stored, each with its
environment; `native` is the one `LOGGER` holds. `Load` is the first `require` of
the module in an environment. A native thread first reads the swappable logger
(`ReadLogger`) and then calls it (`CallLogger`), so loggers can be swapped and
environments closed in between. An event ends as delivered, on stderr,
discarded with its environment, or ignored because there is no logger.

`Store` is `set_logger`, and `StoreFails` is the same call when a thread-safe function
cannot be created: it throws after `lib/logging.js` has already assigned
`currentLogger`. While the module is being loaded the throw makes the `require` fail,
so a later one loads the module anew. In a `setLogger` it leaves the two sides apart:
`getCurrentLogger()` and `loggerIsSet()` report the new logger, native code keeps the
old one, and trying again with `setLoggerIfUnset` returns `false` and repairs nothing.
`logging.d.ts` announces the throw and says nothing of this, so it is recorded here
and is no finding.

Properties. `EventsAccounted`: an accepted event is once in the queue of the logger its
thread read, or delivered; it is lost only with an environment that was torn down,
which is Node's doing; a refused one is on stderr; and only an event that found no
logger is passed over. `JsAndNativeAgree`: for the environment that set a logger last,
both sides have the same one whenever no call is under way, except after a call that
threw and until one that does not. `OwnLoggerKept`: a logger that is set only
because none is set takes the place of none the application has set in that
environment.

### KeyedDeque

The core keeps `committed`, the durable contents, and `view`, the contents as the
running attempt sees them; `dirty` says whether the attempt has buffered
operations. This part is external and modelled from what `src/src/state/mod.rs`,
`handle.d.ts` and the README's "When keyed-state changes become visible" rely on.
A call is made by JavaScript (`CallMethod`, `CallAt`), takes effect natively
(`Push`, `Pop`, `Clear`, ...) and is answered; calls are not awaited, so any number
of them are under way, also when their attempt ends. `by[c]` is the attempt whose
handle a call uses, which may be an earlier one that leaked (then `FenceCall`
answers it), or 0 for a published reader, which sees `committed`. An `at()` with an
index below -1 takes two native reads (`CountForAt`, then `ReadAt`). A position
crosses the boundary as a u32, scaled down to `MaxPosition`: one that does not fit is
answered as absent, never as the element it would wrap around to. The history
variable `seen` collects the contents that were there while an `at()` ran; `fresh`
and `kept` follow, from the answers alone, which pushes ought to be durable.

Properties. `AtReadsOneState`: an `at()` that takes a single read, or during which
nothing changes, answers the element that was at its index at one moment of the call.
`DurableItemsAreKept`: the pushed items that are durable are those that a success or
a commit kept, less the ones taken out. `NothingLost`: a durable item disappears only
with an attempt that took it out itself. `FailedCallsChangeNothing`: a call that fails
changes nothing, except that a pop or shift has removed the item it cannot read.

## Runs

| Run | Question | Bounds |
| --- | --- | --- |
| `EventBridgeOneKey` | do taking turns, retries, late cancels, broken reporters and teardown keep the promise of `Delivery`? | two events of one key (a message and a timer), two attempts each, queues of one slot |
| `EventBridgeQueues` | what happens when queues are full? | three events of three keys in flight together, handler queues of one slot, three slots for `isPermanent` |
| `EventBridgeLive` | is everything decided in the end? | three events of one key, one of them an internal timer, two attempts |
| `EventBridgePermanentRetried` | is a permanent error never retried? *No:* see findings | two attempts in flight, one slot for `isPermanent` |
| `StateScan` | the generator's contract | three items, chunks of one or two, five calls |
| `Client` | outcomes, listeners and hand-off of calls, beside creation, subscription and shutdown; do options, definitions, queries and responses arrive as they were meant? | two calls of which one is a request, sharing a signal; two control calls; two shutdown calls; every option at, around and past the limits of its type; every definition of a collection with every combination of its options; every combination of edges, range, prefix, direction and limit over four members, and queries with one fault |
| `AbortableCallPreAborted` | does an aborted signal always reject? *No:* see findings | two calls sharing a signal, one without |
| `LoggingWorkers` | are events accounted for while loggers and environments come and go? | two environments, four stored loggers, two events, queues of one slot |
| `LoggingHostReplaced` | does the host's logger stay? *No:* see findings | two environments, two loggers |
| `KeyedDeque` | what is durable, what is lost, and what does `at()` see, when nothing is awaited? | two stored items, one of which has no JSON form; three calls; two attempts; the indexes -2, -1, 0 and one past the largest position |
| `KeyedDequePublished` | does nothing change between the reads of `at()`? *No:* see findings | the same |
| `EventContext` | what is durable, what do handlers, retries and readers see, and which timers are left, when nothing is awaited? | a collection of each of five classes; three calls out of 19 requests that use every kind of method; two attempts; two keys; three times, two of which are the same second; a stored item that has no JSON form; symmetry over the calls, whose names nothing tells apart |

The bounds are the smallest at which every interesting case happens: a queue
that is full and a queue that is not, an attempt beside another and an attempt
after another, a chunk that is full and one that is not, a call answered while
another waits, an environment that closes while another lives, a commit of one
collection beside the buffered writes of another. Three calls are what it takes to
write, keep or drop, and read; two attempts to fail and retry. In `Client`, calls and
the subscription are tried apart (`NoCalls`, `NoControls`) and readers on a client
that does nothing else (`Idle`): they share nothing but the core and its shutdown,
which meets each of the first two. In `EventContext` every call is made once, so what
it stores can carry its name, and a value is a map of one key. `LoggingWorkers`
switches the deadlock check off because its process may simply stop logging.

Every property of a passing run has a mutant: a definition of the same module
whose comment begins with "Mutant", which stands in for one definition of the
model the way a plausible mistake would stand in for the code.

### Fairness

`EventBridge!Fairness`: the event loop serves every queue and every resolved
promise, the runtime polls every task, the framework offers work, and it
cancels a handler that overruns its timeout (README, "Handler Timeout"). Of the
application it is only assumed that a handler settles once its signal is
aborted. `StateScan`: the language serves the request queue, and native calls
settle. `Client!ClientFairness`: the two threads make progress on the calls, the
core need never answer them; a shutdown of the core ends, well or not, which is
an assumption about the external core, and a settled promise resumes whoever awaits
it.

### Findings

1. `PermanentIsFinal`. `categorize_error` calls `isPermanent` through a queue of
   its own bound. When it is full, the `?` at `src/handler.rs:234` turns the error
   into a transient one and the event is retried, although `errors.d.ts` says that
   a permanent error "should not be retried". Nothing relates the bound to the
   configured concurrency. The property holds, and is proved, when the queue has
   a slot for every attempt in flight and reporting an error does not throw.
2. `AbortedSignalRejects`. `withAbort` makes the call even when the signal is
   aborted already and `select!` picks either ready arm, so `send` can succeed
   where `client.d.ts` says that the promise rejects.
3. `HostLoggerKept`. The logger is process-wide but the knowledge that one is set
   is per environment, so a worker that loads the module takes logging over with
   its console logger. The cleanup hook has the same flaw: it belongs to the
   first environment and clears the logger of the others when that one ends. With one
   environment alone the property holds, and is proved.

4. `NothingChangesBetweenReads`. `dequePosition` reads the length and `at` then
   reads the element, in two native calls. The comment at `query.js:183` argues
   that the handler owns the deque. `PublishedDeque.at` uses the same function on a
   deque that another consumer group owns and commits to, and a handler that does
   not await an `unshift`, `shift` or `clear` gets there by itself: the answer is an
   element that was at that index at no moment. `AtReadsOneState` is what does hold.

## What is proved

The proofs hold for every value of the constants that satisfies the named
assumptions of each module.

`EventBridgeProofs`. `BridgeInv` is inductive: type correctness, `StageInv`
(what is known of an attempt at each stage of its task), `QueueInv` (each entry
of a queue is a waiting task of that queue's kind, once), `OneTaskPerKey`,
`RetryInv` (attempts are made in order, each after a transient verdict) and
`HonestVerdicts`. `QueueInv` is needed because a queue's head decides which task
moves; `OneTaskPerKey` because `NoOverlap` alone says nothing of the tasks that
will run next. From it: `TypeCorrect`, `VerdictsAreHonest`,
`HandlersNeverOverlap`, `LateCancellation`, and `BridgeImplementsDelivery`, where
each step of the bridge is mapped to a step of `Delivery` or to a stutter.
`PermanentErrorsAreFinal` adds `CapacityInv` and the assumptions
`PermQueueSize >= MaxConcurrency`, no throwing reporter and no teardown: the
entries of the `isPermanent` queue are distinct tasks in flight, hence fewer than
its slots when another task arrives.

`StateScanProofs`. `ScanInv` joins `CursorInv` (native calls are under way only
where the generator waits for them), `RequestInv` (the request being served and
its completion) and `ItemInv` (the held items are the last ones pulled, and those
before them were answered). From it the type invariant, the three safety
invariants, `FailureNotHidden` and the refinement of `Scan`.

`AbortableCallProofs`. `CallInv` adds to the invariants what `select!` has chosen
and what the abort promise implies of the signal. From it `OutcomesAreHonest`,
`ListenersAreReleased` and `SettledCallsAreDone`.

`KeyedDequeProofs`. The parts of the invariant were first checked with TLC.
`CallInv` and `ReadInv` say what is known of a call at each stage: a running
`at()` has seen the present contents, and the position it is about to read was
right for some contents it has seen. They give `AtReadsAreExact`. `BufferInv`
accounts for the items of the view as `DurableItemsAreKept` does for the durable
ones, which is needed because the view becomes durable in one step, and says that
whatever the two differ in is the work of the running attempt; it gives
`OnlyKeptItemsAreDurable` and `NothingIsLost`. `FailuresChangeNothing` needs the
types only. The proofs assume what `DequeAssumption` states and, like the model,
that the core fences handles and that a failed native operation has no effect.

`EventBridgeProofs` ends with `NoCallIsLost` (`QueuesMatchTasks`). `QueueInv` says
that an entry is a waiting task; `CallsWait` is its converse, that a waiting task has
an entry, and the library's facts on finite sets turn the two into the equation.

`ClientProofs`. Each step of the client is a step of `AbortableCall`, a refused
request, or leaves the calls alone (`ClientStepOfCalls`), so `CallInv` and with it
`ClientOutcomesAreHonest`, `ClientListenersAreReleased` and
`ClientSettledCallsAreDone` carry over to the larger specification.
`ShutdownInv` relates the promise to the core and each caller to the promise; it is
what makes `ShutdownIsShared` inductive.

`ClientDataProofs`. What a client makes of its inputs, for any limits of the integer
types (`NumberAssumption` orders only `usize` above the others, and `QueryAssumption` puts
`Number.MAX_SAFE_INTEGER` below `usize`) and any inputs that satisfy `ClientAssumption`.

- `NumbersConvertExactly`: a number converts if and only if it has an exact form in
  the target type, and then into that form.
- `ConfigurationIsKept`. `FieldsFit` compares the fields of all builders with the table
  `Documented`: each field is an entry of the table and each entry has a field, no two
  fields set the same setting of a builder, and a field has a form for the type of its
  option. It is put together from one fact for each builder (`Builders`, `JoinIsTable`).
  `Build` finds the first field that is refused, which exists because the numbers of the
  refused fields have a least one (`LeastElement`). `ConvertedArrives` says that a value
  converts just if it means something in the unit of its option, and then to what it
  means (`NumberMeans`, `CachePolicyConverts`, `CollectionsRegister`); `BuildArrives`
  puts the two together. The inductive invariant `BuildInv` says that what create has converted is a
  typed configuration and that the outcome is its `Build`.
- `ResponsesAreKept`. `OutcomesMatchReplies` is about `responseOutcomes`; `ResponseInv`
  with `CallInv` says that a request that has resolved holds exactly these, and that
  no other call holds any.
- `QueriesAreHonoured`. In the order of a query, the rank of a member is the number of
  members before it. Ranks grow along the order (`RanksGrow`), so they are
  distinct and less than the number of members; being as many as the members, they are
  all of these numbers, and `InOrder` enumerates the members each once
  (`InOrderEnumerates`, from the library's facts on finite sets). `SelectTakesFirst` adds
  the limit, `LetThroughConverts` that a count which passes the checks of JavaScript
  converts, and `WithinIsAsked` that the bounds of the core's query are those of the
  options, edges exchanged when the direction is backward. `ScanInv` says
  that the scan shown is that of a typed query over the contents.

`LoggingBridgeProofs`. `EnvInv` relates what JavaScript knows of its logger, and
whether the last call to set it threw, to what was installed for it, and gives
`BothSidesAgree` and `OwnLoggersAreKept`. `QueueInv` says that the queues of live
environments, and no others, hold exactly the queued events, each in one slot of the
queue of the logger its thread read; with `LostWithEnv`, which says that what is
discarded went with its environment, it gives `EventsAreAccounted`. `GivenInv` says that once a
logger other than the console is stored for an environment, none is being set politely
there; with a single environment it gives `HostLoggerIsKeptAlone`, so the third
finding is about the second environment and nothing else.

`EventContextProofs`. Every step makes a call, serves one, or begins or ends an
attempt (`StepKinds`). `CallInv` is what is known of a call at each stage. `TimerInv`
gives `TimersAreAskedFor`. `StoreInv` says that the durable contents are what the writes
in `kept`, in the order of `written`, have left, and the view what those in `kept` and
`fresh` have; the second is needed because the view becomes durable in one step. It
gives `DurableEntriesAreAccounted`. The step that keeps it rests on facts about the
last write of a set that covers a key: a write that is not in the set, or covers
another key, changes nothing (`LeftBefore`), one that covers it is the last
(`LeftAfter`), and there is only one such item (`LeftOnce`). With the latter
`LookupOwed` says that a lookup in contents that some writes have left answers what is
owed to a call that is to see these writes, which is `ReadsAreHonest`. `HandleInv`
describes the cache of handles (`ContextTypeCorrect`). The proofs assume
`ContextAssumption`, which says that requests are well formed, that a whole second is
its own rounding, and that stored items, calls and collections have distinct names,
and, like the model, that the core fences a retained handle.

Only model-checked:

- liveness (`EveryEventDecided`, `CancelReachesHandler`, `EveryCallAnswered`,
  `ReturnCloses`, `AbortEndsCalls`, `ShutdownAnswered`), which is out of the prover's
  reach, as is ENABLED.

Every other property of the passing runs, invariant or action property, is the
statement of a theorem.

No module declares a RECURSIVE operator.

## Not modelled, and why

- *Admin client, counters* (`src/admin.rs`, `assignedPartitionCount`, `isStalled`):
  each operation is one call that is forwarded and awaited, with no state here.
- *Messages and demands* (`src/message.rs`, `lib/context.js`): read-only views of
  what the core delivered. Reading a payload parses it once and keeps the document;
  one that does not parse fails again at each read.
- *Telemetry*: its flush and shutdown are forwarded to the exporter; spans, carriers
  and metrics decide nothing. Sentry is modelled only as far as reporting an error may
  throw.
- *Texts*: of errors, log lines and log fields. Of an error the models keep the
  category, which decides what happens to an event or a call.
- *Time to live, read caches, `readUncommitted`*: the binding passes them on
  (`ClientConfig`), the core acts on them.
- *Build, packaging, types and examples*: no behaviour at run time.

The core crate is external. Its steps are modelled from how the addon uses it, and
the models give it as much freedom as the binding has to cope with: it may fail any
operation it does not promise to complete, answer late or never, and turn down what
it is given.

What a next step could add: the composition of `EventBridge` with `EventContext`,
which would tie an attempt's success to the verdict that the bridge reports (here
`Succeed` and `Fail` stand for it), and scans over a collection while an attempt writes
to it, which depends on what the core promises of a cursor.
