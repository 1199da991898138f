------------------------------- MODULE Client -------------------------------
(***************************************************************************)
(* The life of a client: lib/client.js over src/src/client/. It is created *)
(* from a configuration, makes calls that a signal can abort               *)
(* (AbortableCall), subscribes and unsubscribes, opens published readers   *)
(* and scans them, and is shut down, by any number of shutdown calls.      *)
(*                                                                         *)
(* The core (external) builds the client, runs its consumer and stops all  *)
(* services on a shutdown, from whose beginning it turns records down.     *)
(***************************************************************************)
EXTENDS AbortableCall, ClientConfig, Queries

CONSTANTS Configs,     \* the configurations that create is tried with
          Requests,    \* the calls that are request or requestExcise
          Replies,     \* what the subsystems reply, as pairs
          Controls,    \* the subscribe, unsubscribe and consumerState calls
          Closers,     \* the shutdown calls
          Scans,       \* the scans of published readers: pairs of kind, options
          Contents     \* the members of a published collection

\* The inputs have the types that index.d.ts declares; a subsystem replies once.
ASSUME ClientAssumption ==
    /\ Requests \subseteq Calls
    /\ \A config \in Configs : IsConfiguration(config)
    /\ \A s \in Scans : s[1] \in {"map", "set", "deque"} /\ IsOptions(s[2])
    /\ IsFiniteSet(Contents) /\ Contents \subseteq Int
    /\ \A i \in DOMAIN Replies : Replies[i][2] \in
         {"json", "text", "bytes", "handler", "timeout", "formatMismatch"}
    /\ \A i, j \in DOMAIN Replies : Replies[i][1] = Replies[j][1] => i = j

VARIABLES
    client,     \* "none", "building", "failed" or "open"
    tried,      \* the configuration that create has converted
    built,      \* what became of it
    core,       \* "up", "closing", "down" or, if its shutdown fails, "stuck"
    consumer,   \* the state of the consumer
    control,    \* control[u]: "idle", "native" or "done"
    asked,      \* asked[u]: the method that was called
    told,       \* told[u]: how it was answered
    shutdowns,  \* history: how often the native shutdown was called
    promise,    \* shutdownPromise: "none", "pending", "ok" or "failed"
    closer,     \* closer[d]: "idle", "waiting", "ok" or "failed"
    response,   \* response[c]: the outcomes that a request resolves to
    reader,     \* a published reader, or how opening it failed
    scan        \* the last scan of the reader

buildVars == <<client, tried, built>>
closeVars == <<shutdowns, promise, closer>>
controlVars == <<control, asked, told>>
readVars == <<reader, scan>>
clientVars == <<client, tried, built, core, consumer, control, asked, told,
                shutdowns, promise, closer, response, reader, scan>>
allVars == <<vars, clientVars>>

NoReader == [is |-> "none", kind |-> "none"]
NoScan == [is |-> "none"]

ClientInit ==
    /\ Init
    /\ client = "none" /\ tried = << >> /\ built = Build(<< >>)
    /\ core = "up" /\ consumer = "unconfigured"
    /\ control = [u \in Controls |-> "idle"]
    /\ asked = [u \in Controls |-> "none"]
    /\ told = [u \in Controls |-> "none"]
    /\ shutdowns = 0 /\ promise = "none"
    /\ closer = [d \in Closers |-> "idle"]
    /\ response = [c \in Calls |-> << >>]
    /\ reader = NoReader /\ scan = NoScan

-----------------------------------------------------------------------------
(***************************************************************************)
(* create.                                                                 *)
(***************************************************************************)
Create ==
    /\ client = "none"
    /\ \E config \in Configs :
          /\ tried' = config
          /\ built' = Build(config)
          /\ client' = IF Build(config).error = "none" THEN "building" ELSE "failed"
    /\ UNCHANGED <<vars, core, consumer, controlVars, closeVars, response, readVars>>

\* The core validates what it was given and takes the builders with it.
CoreBuilds ==
    /\ client = "building"
    /\ \/ /\ client' = "open" /\ tried' = << >> /\ built' = Build(<< >>)
          /\ consumer' \in {"unconfigured", "configured", "configurationFailed"}
       \/ client' = "failed" /\ UNCHANGED <<tried, built, consumer>>
    /\ UNCHANGED <<vars, core, controlVars, closeVars, response, readVars>>

Ready == client = "open" /\ reader = NoReader

\* A bound: calls and the subscription share nothing but the core and its
\* shutdown, so either is used while the other is not.
NoCalls == \A c \in Calls : call[c] = "idle"
NoControls == \A u \in Controls : control[u] = "idle"

-----------------------------------------------------------------------------
(***************************************************************************)
(* Calls. The core turns records down once it is closing.                  *)
(***************************************************************************)
\* native_outcome: a reply is text, or an error of some kind.
native_outcome(reply) ==
    IF reply \in {"json", "text"} THEN reply
    ELSE IF reply = "bytes" THEN "malformedResponse" ELSE reply

\* Mutant: a reply that does not parse fails the whole request.
StrictOutcomes(replies) ==
    IF \E i \in DOMAIN replies : native_outcome(replies[i][2]) = "text" THEN << >>
    ELSE [s \in {replies[i][1] : i \in DOMAIN replies} |->
            LET i == CHOOSE j \in DOMAIN replies : replies[j][1] = s IN
            IF native_outcome(replies[i][2]) = "json" THEN "ok"
            ELSE native_outcome(replies[i][2])]

\* responseOutcomes: one outcome for each subsystem; text must be JSON.
responseOutcomes(replies) ==
    [s \in {replies[i][1] : i \in DOMAIN replies} |->
       LET i == CHOOSE j \in DOMAIN replies : replies[j][1] = s
           native == native_outcome(replies[i][2]) IN
       IF native = "json" THEN "ok"
       ELSE IF native = "text" THEN "malformedResponse" ELSE native]

request_parameters(names, timeout) ==
    (\A name \in names : Parsed(name).ok) /\ Milliseconds(timeout).ok

\* The native half of a request refuses its parameters; nothing is sent.
RefuseRequest(c) ==
    /\ c \in Requests
    /\ call[c] = "native" /\ record[c] = "unsent"
    /\ \E names \in SUBSET {Text("a"), BadText("a")}, timeout \in {Num(1), Num(-1), NaN} :
          ~request_parameters(names, timeout)
    /\ call' = [call EXCEPT ![c] = "settled"]
    /\ record' = [record EXCEPT ![c] = "lost"]
    /\ result' = [result EXCEPT ![c] = "failed"]
    /\ UNCHANGED <<signal, listener, aborted, outcome, early>>

CallStep(c) ==
    /\ Ready /\ NoControls
    /\ \/ StartCall(c) \/ RefuseArguments(c) \/ RefuseRequest(c)
       \/ HearAbort(c) \/ Publish(c) \/ SelectAnswer(c) \/ SelectAbort(c)
       \/ HandOff(c) /\ (core # "up" => record'[c] = "lost")
    /\ UNCHANGED clientVars

FinishCall(c) ==
    /\ Ready
    /\ Finish(c)
    /\ response' = [response EXCEPT ![c] =
                      IF c \in Requests /\ outcome'[c] = "ok"
                        THEN responseOutcomes(Replies) ELSE @]
    /\ UNCHANGED <<buildVars, core, consumer, controlVars, closeVars, readVars>>

AbortCalls == Ready /\ Abort /\ UNCHANGED clientVars

-----------------------------------------------------------------------------
(***************************************************************************)
(* The subscription.                                                       *)
(***************************************************************************)
AskControl(u) ==
    /\ Ready /\ NoCalls /\ control[u] = "idle"
    /\ control' = [control EXCEPT ![u] = "native"]
    /\ \E m \in {"subscribe", "unsubscribe", "consumerState"} :
          asked' = [asked EXCEPT ![u] = m]
    /\ UNCHANGED <<vars, buildVars, core, consumer, told, closeVars, response, readVars>>

\* A handler that lacks a method is refused before any native call.
RefuseHandler(u) ==
    /\ Ready /\ NoCalls /\ control[u] = "idle"
    /\ control' = [control EXCEPT ![u] = "done"]
    /\ asked' = [asked EXCEPT ![u] = "subscribe"]
    /\ told' = [told EXCEPT ![u] = "refused"]
    /\ UNCHANGED <<vars, buildVars, core, consumer, closeVars, response, readVars>>

Tell(u, m, answer) ==
    /\ Ready /\ control[u] = "native" /\ asked[u] = m
    /\ control' = [control EXCEPT ![u] = "done"]
    /\ told' = [told EXCEPT ![u] = answer]
    /\ UNCHANGED <<vars, buildVars, core, asked, closeVars, response, readVars>>

Subscribe(u) ==
    \/ /\ core = "up" /\ consumer = "configured"
       /\ consumer' = "running"
       /\ Tell(u, "subscribe", "ok")
    \/ Tell(u, "subscribe", "failed") /\ UNCHANGED consumer

Unsubscribe(u) ==
    \/ /\ core = "up" /\ consumer = "running"
       /\ consumer' = "configured"
       /\ Tell(u, "unsubscribe", "ok")
    \/ Tell(u, "unsubscribe", "failed") /\ UNCHANGED consumer

\* A consumer whose configuration has failed is an error.
consumer_state(u) ==
    /\ Tell(u, "consumerState",
            IF consumer = "configurationFailed" THEN "failed" ELSE consumer)
    /\ UNCHANGED consumer

-----------------------------------------------------------------------------
(***************************************************************************)
(* Shutdown.                                                               *)
(***************************************************************************)
\* Mutant: a client that is closing counts as closed.
CallShutdownFlag(d) ==
    /\ Ready /\ closer[d] = "idle"
    /\ closer' = [closer EXCEPT ![d] = IF promise = "none" THEN "waiting" ELSE "ok"]
    /\ promise' = IF promise = "none" THEN "pending" ELSE promise
    /\ shutdowns' = IF promise = "none" THEN shutdowns + 1 ELSE shutdowns
    /\ core' = IF promise = "none" THEN "closing" ELSE core
    /\ UNCHANGED <<vars, buildVars, consumer, controlVars, response, readVars>>

\* shutdown: the first call starts the native shutdown, all await it.
CallShutdown(d) ==
    /\ Ready /\ closer[d] = "idle"
    /\ closer' = [closer EXCEPT ![d] = "waiting"]
    /\ IF promise = "none"
         THEN promise' = "pending" /\ shutdowns' = shutdowns + 1 /\ core' = "closing"
         ELSE UNCHANGED <<promise, shutdowns, core>>
    /\ UNCHANGED <<vars, buildVars, consumer, controlVars, response, readVars>>

\* The core stops its services, or fails to and leaves the consumer anyhow.
CoreShutsDown ==
    /\ Ready /\ core = "closing"
    /\ \/ core' = "down" /\ promise' = "ok" /\ consumer' = "shutdown"
       \/ core' = "stuck" /\ promise' = "failed" /\ UNCHANGED consumer
    /\ UNCHANGED <<vars, buildVars, controlVars, shutdowns, closer, response, readVars>>

\* Mutant: whoever awaits a shutdown that fails is forgotten.
ReturnShutdownOk(d) ==
    /\ Ready /\ closer[d] = "waiting" /\ promise = "ok"
    /\ closer' = [closer EXCEPT ![d] = promise]
    /\ UNCHANGED <<vars, buildVars, core, consumer, controlVars, shutdowns, promise,
                   response, readVars>>

ReturnShutdown(d) ==
    /\ Ready /\ closer[d] = "waiting" /\ promise \in {"ok", "failed"}
    /\ closer' = [closer EXCEPT ![d] = promise]
    /\ UNCHANGED <<vars, buildVars, core, consumer, controlVars, shutdowns, promise,
                   response, readVars>>

-----------------------------------------------------------------------------
(***************************************************************************)
(* Published readers. They touch nothing else, so they are tried on a      *)
(* client that does nothing else (a bound).                                *)
(***************************************************************************)
Idle == /\ client = "open" /\ core = "up" /\ signal = "quiet"
        /\ consumer = "unconfigured"
        /\ NoCalls /\ NoControls
        /\ \A d \in Closers : closer[d] = "idle"

\* open_error: an error of the state reader keeps its category, any other has
\* none.
open_error(error) == IF error \in {"permanent", "transient"} THEN error ELSE "untyped"

\* state(): a definition that is never published, or a read cache option that
\* does not convert, is refused before the core opens the reader.
OpenReader ==
    /\ Idle /\ reader = NoReader
    /\ \E constructor \in Constructors,
          cache \in {Flag(TRUE), Flag(FALSE), CacheObject({Num(1)}, FALSE),
                     CacheObject({NaN}, FALSE)},
          opened \in {"open", "permanent", "transient", "other"} :
          reader' = [kind |-> Kind(constructor),
                     is |-> IF constructor \notin JsonConstructors THEN "typeError"
                            ELSE IF ~ReadCachePolicy(cache).ok THEN "untyped"
                            ELSE IF opened = "open" THEN "open"
                            ELSE open_error(opened)]
    /\ UNCHANGED <<vars, buildVars, core, consumer, controlVars, closeVars, response, scan>>

ScanReader(kind) ==
    /\ reader.is = "open" /\ reader.kind = kind /\ scan = NoScan
    /\ \E s \in Scans :
          /\ s[1] = kind
          /\ scan' = [is |-> "scan", kind |-> kind, options |-> s[2],
                      answer |-> Scan(kind, s[2], Contents)]
    /\ UNCHANGED <<vars, buildVars, core, consumer, controlVars, closeVars, response, reader>>

ScanMap == ScanReader("map")
ScanSet == ScanReader("set")
ScanDeque == ScanReader("deque")

\* The application drops the reader.
DropReader ==
    /\ reader # NoReader
    /\ reader' = NoReader /\ scan' = NoScan
    /\ UNCHANGED <<vars, buildVars, core, consumer, controlVars, closeVars, response>>

-----------------------------------------------------------------------------
AtRest == /\ client # "none"
          /\ UNCHANGED allVars

ClientNext ==
    \/ Create \/ CoreBuilds
    \/ \E c \in Calls : CallStep(c) \/ FinishCall(c)
    \/ AbortCalls
    \/ \E u \in Controls : \/ AskControl(u) \/ RefuseHandler(u) \/ Subscribe(u)
                           \/ Unsubscribe(u) \/ consumer_state(u)
    \/ \E d \in Closers : CallShutdown(d) \/ ReturnShutdown(d)
    \/ CoreShutsDown
    \/ OpenReader \/ ScanMap \/ ScanSet \/ ScanDeque \/ DropReader
    \/ AtRest

ClientSpec == ClientInit /\ [][ClientNext]_allVars

\* As in AbortableCall; a shutdown of the core ends, if not always well.
ClientFairness ==
    /\ \A c \in Calls :
          /\ WF_allVars(HearAbort(c) /\ UNCHANGED clientVars)
          /\ WF_allVars((SelectAbort(c) \/ SelectAnswer(c)) /\ UNCHANGED clientVars)
          /\ WF_allVars(FinishCall(c))
    /\ WF_allVars(CoreShutsDown)
    /\ \A d \in Closers : WF_allVars(ReturnShutdown(d))

ClientFairSpec == ClientSpec /\ ClientFairness

-----------------------------------------------------------------------------
Subsystems == {Replies[i][1] : i \in DOMAIN Replies}

\* Type correctness of the client and of its calls.
ClientTypeOK ==
    /\ TypeOK
    /\ client \in {"none", "building", "failed", "open"}
    /\ core \in {"up", "closing", "down", "stuck"}
    /\ consumer \in {"unconfigured", "configured", "configurationFailed", "running",
                     "shutdown"}
    /\ control \in [Controls -> {"idle", "native", "done"}]
    /\ asked \in [Controls -> {"none", "subscribe", "unsubscribe", "consumerState"}]
    /\ told \in [Controls -> {"none", "ok", "failed", "refused", "unconfigured",
                              "configured", "running", "shutdown"}]
    /\ shutdowns \in Nat
    /\ promise \in {"none", "pending", "ok", "failed"}
    /\ closer \in [Closers -> {"idle", "waiting", "ok", "failed"}]
    /\ reader.is \in {"none", "open", "typeError", "untyped", "permanent", "transient"}
    /\ scan.is \in {"none", "scan"}

\* However many shutdown calls there are, and whenever they are made, the
\* services are stopped once, and every call tells what became of that: one
\* that resolves leaves no consumer behind, one that rejects leaves none that
\* resolved (shutdownPromise in client.js).
ShutdownShared ==
    /\ shutdowns <= 1
    /\ \A d \in Closers :
          /\ closer[d] = "ok" => core = "down" /\ consumer = "shutdown"
          /\ closer[d] = "failed" => core = "stuck"
          /\ closer[d] = "waiting" => core # "up" /\ shutdowns = 1

\* Every shutdown call is answered, the ones that only joined in as well.
ShutdownAnswered == \A d \in Closers :
    closer[d] = "waiting" ~> closer[d] \in {"ok", "failed"}

\* A request that resolves has one outcome for each subsystem that replied,
\* which depends on the reply of that subsystem alone: a reply that is no JSON
\* is an error of its own and takes no other outcome with it.
ResponsesKept ==
    \A c \in Requests :
        IF outcome[c] # "ok" THEN response[c] = << >>
        ELSE /\ DOMAIN response[c] = Subsystems
             /\ \A i \in DOMAIN Replies :
                  LET reply == Replies[i][2]  got == response[c][Replies[i][1]] IN
                  /\ got = "ok" <=> reply = "json"
                  /\ got = "malformedResponse" <=> reply \in {"text", "bytes"}
                  /\ reply \in {"handler", "timeout", "formatMismatch"} => got = reply

\* The number that a value denotes in a form, as halves, if it denotes one.
Exact(v, form) ==
    CASE form \in IntTypes \cup {"port"} ->
           {h \in {v.halves} : /\ v.is = "finite" /\ h % 2 = 0 /\ h >= 0
                               /\ h <= 2 * MaxOf[IF form = "port" THEN "u16" ELSE form]
                               /\ form = "nonZeroUsize" => h > 0}
      [] form = "ms" -> {h \in {v.halves} : v.is = "finite" /\ h >= 0 /\ h <= MaxDuration}
      [] form = "s" -> {h \in {1000 * v.halves} :
                          v.is = "finite" /\ h >= 0 /\ h <= MaxDuration}

NumberForms == IntTypes \cup {"port", "ms", "s"}

\* A collection arrives as it was defined, and the factory of its constructor
\* asks for exactly the kind and payload that it was registered with.
CollectionArrives(c, r) ==
    /\ r.name = c.name
    /\ \E constructor \in Constructors :
          Vended(constructor) = <<r.kind, r.payload>> /\ c.kind = r.kind
    /\ \A pair \in {<<"ttlSeconds", r.def.ttl, "u32">>, <<"keysetLimit", r.keyset, "usize">>,
                    <<"capacity", r.capacity, "nonZeroUsize">>} :
          IF pair[1] \in DOMAIN c.options
            THEN {2 * n : n \in pair[2]} = Exact(c.options[pair[1]], pair[3])
                 /\ pair[2] # {}
            ELSE pair[2] = {}
    /\ r.def.uncommitted <=> /\ "readUncommitted" \in DOMAIN c.options
                             /\ c.options["readUncommitted"].on
    /\ r.def.published = {c.options[o].on : o \in {"published"} \cap DOMAIN c.options}

\* The bounds of a collection: option, unit, and the kinds that take it.
BoundsOf == {<<"ttlSeconds", "u32", {"value", "map", "set", "deque"}>>,
             <<"keysetLimit", "usize", {"map", "set"}>>,
             <<"capacity", "nonZeroUsize", {"deque"}>>}

Registrable(c) ==
    \A b \in BoundsOf : b[1] \in DOMAIN c.options =>
        c.kind \in b[3] /\ Exact(c.options[b[1]], b[2]) # {}

\* The policy that a read cache option asks for, if it asks for one at all.
PolicyMeant(v) ==
    IF v.is = "flag" THEN IF v.on THEN {} ELSE {Policy("disabled", {})}
    ELSE CASE v.disabled /\ v.ttl = {} -> {Policy("disabled", {})}
           [] v.disabled /\ v.ttl # {} -> {}
           [] ~v.disabled /\ v.ttl = {} -> {Policy("inherit", {})}
           [] ~v.disabled /\ v.ttl # {} ->
                {Policy("ttl", {ms}) : ms \in Exact(CHOOSE x \in v.ttl : TRUE, "ms")}

\* What a value means in a unit, as a set of at most one value of a setting.
Meaning(v, unit) ==
    CASE unit = "port" /\ v = Null -> {v}
      [] unit \in IntTypes \cup {"port"} /\ v # Null -> {h \div 2 : h \in Exact(v, unit)}
      [] unit \in {"ms", "s"} -> Exact(v, unit)
      [] unit = "cache" -> PolicyMeant(v)
      [] unit = "parsed" -> {x \in {v} : x.is # "badText"}
      [] unit = "asIs" -> {v}

Meaningless(v, unit) ==
    IF unit = "collections" THEN \E k \in DOMAIN v.list : ~Registrable(v.list[k])
                            ELSE Meaning(v, unit) = {}

Arrives(v, unit, setting) ==
    IF unit = "collections"
      THEN /\ DOMAIN setting = DOMAIN v.list
           /\ \A k \in DOMAIN v.list :
                Registrable(v.list[k]) /\ CollectionArrives(v.list[k], setting[k])
      ELSE Meaning(v, unit) = {setting}

\* What each option is for, section by section of CONFIGURATION.md: the part of
\* the core it is meant for, the setting there, and the unit of its value. The
\* servers, the mock and the size of the idempotence caches are for two parts.
Documented ==
    \* Core
    {<<"bootstrapServers", "producer", "bootstrap_servers", "asIs">>,
     <<"bootstrapServers", "consumer", "bootstrap_servers", "asIs">>,
     <<"groupId", "consumer", "group_id", "asIs">>,
     <<"subscribedTopics", "consumer", "subscribed_topics", "asIs">>,
     <<"allowedEvents", "consumer", "allowed_events", "asIs">>,
     <<"sourceSystem", "producer", "source_system", "asIs">>,
     <<"mock", "producer", "mock", "asIs">>, <<"mock", "consumer", "mock", "asIs">>,
     <<"mode", "client", "mode", "asIs">>}
    \* Consumer
    \cup {<<"maxConcurrency", "scheduler", "max_concurrency", "usize">>,
          <<"maxUncommitted", "consumer", "max_uncommitted", "usize">>,
          <<"timeoutMs", "timeout", "timeout", "ms">>,
          <<"commitIntervalMs", "consumer", "commit_interval", "ms">>,
          <<"pollIntervalMs", "consumer", "poll_interval", "ms">>,
          <<"shutdownTimeoutMs", "consumer", "shutdown_timeout", "ms">>,
          <<"stallThresholdMs", "consumer", "stall_threshold", "ms">>,
          <<"probePort", "consumer", "probe_port", "port">>,
          <<"statisticsIntervalMs", "consumer", "statistics_interval", "ms">>,
          <<"failureTopic", "failure_topic", "failure_topic", "asIs">>,
          <<"idempotenceCacheSize", "producer", "idempotence_cache_size", "usize">>,
          <<"idempotenceCacheSize", "dedup", "cache_capacity", "usize">>,
          <<"idempotenceVersion", "dedup", "version", "asIs">>,
          <<"idempotenceTtlSeconds", "dedup", "ttl", "s">>,
          <<"slabSizeMs", "consumer", "slab_size", "ms">>,
          <<"messageSpans", "consumer", "message_spans", "parsed">>,
          <<"timerSpans", "consumer", "timer_spans", "parsed">>}
    \* Producer, Requests, Retry
    \cup {<<"sendTimeoutMs", "producer", "send_timeout", "ms">>,
          <<"peerBindAddress", "peer", "bind_address", "parsed">>,
          <<"peerAdvertisedConnect", "peer", "advertised_connect", "parsed">>,
          <<"peerNetworkName", "peer", "network_name", "asIs">>,
          <<"peerCacheCapacity", "peer", "peer_cache_capacity", "usize">>,
          <<"peerRegistrationTtlSeconds", "peer", "registration_ttl", "s">>,
          <<"maxRetries", "retry", "max_retries", "u32">>,
          <<"retryBaseMs", "retry", "base", "ms">>,
          <<"maxRetryDelayMs", "retry", "max_delay", "ms">>}
    \* Deferral, Kafka Message Loader
    \cup {<<"deferEnabled", "defer", "enabled", "asIs">>,
          <<"deferBaseMs", "defer", "base", "ms">>,
          <<"deferMaxDelayMs", "defer", "max_delay", "ms">>,
          <<"deferFailureThreshold", "defer", "failure_threshold", "asIs">>,
          <<"deferFailureWindowMs", "defer", "failure_window", "ms">>,
          <<"deferStoreCacheSize", "defer", "store_cache_size", "usize">>,
          <<"loaderCacheSize", "consumer", "loader.cache_size", "usize">>,
          <<"loaderSeekTimeoutMs", "consumer", "loader.seek_timeout", "ms">>,
          <<"loaderDiscardThreshold", "consumer", "loader.discard_threshold", "i64">>}
    \* Monopolization Detection, Fair Scheduling, Telemetry
    \cup {<<"monopolizationEnabled", "monopolization", "enabled", "asIs">>,
          <<"monopolizationThreshold", "monopolization", "monopolization_threshold", "asIs">>,
          <<"monopolizationWindowMs", "monopolization", "window_duration", "ms">>,
          <<"monopolizationCacheSize", "monopolization", "cache_size", "usize">>,
          <<"schedulerFailureWeight", "scheduler", "failure_weight", "asIs">>,
          <<"schedulerMaxWaitMs", "scheduler", "max_wait", "ms">>,
          <<"schedulerWaitWeight", "scheduler", "wait_weight", "asIs">>,
          <<"schedulerCacheSize", "scheduler", "cache_size", "usize">>,
          <<"telemetryEnabled", "emitter", "enabled", "asIs">>,
          <<"telemetryTopic", "emitter", "topic", "asIs">>}
    \* Cassandra
    \cup {<<"cassandraNodes", "cassandra", "nodes", "asIs">>,
          <<"cassandraKeyspace", "cassandra", "keyspace", "asIs">>,
          <<"cassandraUser", "cassandra", "user", "asIs">>,
          <<"cassandraPassword", "cassandra", "password", "asIs">>,
          <<"cassandraDatacenter", "cassandra", "datacenter", "asIs">>,
          <<"cassandraRack", "cassandra", "rack", "asIs">>,
          <<"cassandraRetentionSeconds", "cassandra", "retention", "s">>}
    \* Keyed State
    \cup {<<"stateCollections", "keyed_state", "collections", "collections">>,
          <<"subsystem", "keyed_state", "subsystem", "parsed">>,
          <<"stateCacheDir", "keyed_state", "cache_dir", "asIs">>,
          <<"stateOwnedCacheSize", "keyed_state", "owned_cache_size", "parsed">>,
          <<"stateMemtableSize", "keyed_state", "memtable_size", "parsed">>,
          <<"stateReadCacheSize", "keyed_state", "read_cache_size", "parsed">>,
          <<"stateReadCache", "keyed_state", "read_cache_ttl", "cache">>}

\* What the caller asked for is what the core is given. A configuration that
\* is refused names an option whose value means nothing in the unit of the
\* option. One that is accepted is given to every setting that its options are
\* documented for, each with what the value means there, and nothing else is
\* set: no option is lost, lands in the setting of another or in one of its two
\* only, and no number is rounded, cut off or wrapped around
\* (src/src/client/config/, src/src/number.rs, CONFIGURATION.md).
ConfigurationArrives ==
    /\ built.error # "none" =>
          /\ built.error \in DOMAIN tried
          /\ \E d \in Documented :
                d[1] = built.error /\ Meaningless(tried[built.error], d[4])
    /\ built.error = "none" =>
          LET meant == {d \in Documented : d[1] \in DOMAIN tried} IN
          /\ DOMAIN tried \subseteq {d[1] : d \in Documented}
          /\ DOMAIN built.settings = {<<d[2], d[3]>> : d \in meant}
          /\ \A d \in meant : Arrives(tried[d[1]], d[4], built.settings[<<d[2], d[3]>>])

\* The members that a query asks for, from its two ends in the order of keys.
Asked(kind, o) ==
    LET up == Direction(o) = "forward"
        rank(f) == {o[g].halves \div 2 : g \in {f} \cap DOMAIN o}
        low == IF up THEN rank("from") ELSE rank("to")
        above == IF up THEN rank("after") ELSE rank("before")
        high == IF up THEN rank("to") ELSE rank("from")
        below == IF up THEN rank("before") ELSE rank("after")
        bound(i) == IF Has(o, "range") /\ o.range[i] # Open
                      THEN {o.range[i].halves \div 2} ELSE {} IN
    {x \in Contents :
       /\ \A y \in low \cup bound(1) : y <= x
       /\ \A y \in above : y < x
       /\ \A y \in high : x <= y
       /\ \A y \in below \cup bound(2) : x < y
       /\ Has(o, "prefix") => x \in Prefixed[o["prefix"].halves \div 2]}

\* A query that JavaScript lets through never fails in native code, and it
\* yields the asked members, each once and in order, from the first up to the
\* limit (lib/state/query.js over src/src/state/query.rs).
QueriesSelect ==
    scan.is = "scan" /\ scan.answer.is # "refused" =>
        LET items == scan.answer.items
            o == scan.options
            got == {items[i] : i \in DOMAIN items}
            asks == Asked(scan.kind, o)
            before(x, y) == IF Direction(o) = "forward" THEN x < y ELSE x > y IN
        /\ scan.answer.is = "selected"
        /\ \A i, j \in DOMAIN items : i < j => before(items[i], items[j])
        /\ got \subseteq asks
        /\ \A x \in asks \ got : \A y \in got : before(y, x)
        /\ IF Has(o, "limit") THEN /\ 2 * Len(items) <= o["limit"].halves
                                  /\ 2 * Len(items) < o["limit"].halves => got = asks
                             ELSE got = asks
=============================================================================
