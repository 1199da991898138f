---------------------------- MODULE ClientConfig ----------------------------
(***************************************************************************)
(* What ProsodyClient.create makes of its options: the builders of         *)
(* src/src/client/config/ and the state collections they register.         *)
(*                                                                         *)
(* A configuration is a function from the options that are given to their  *)
(* values. A builder is a sequence of fields, each of which puts one       *)
(* option, converted to its form, into one setting of the core. An option  *)
(* that is not given leaves the settings at the defaults of the core.      *)
(***************************************************************************)
EXTENDS JsNumbers, Sequences

(***************************************************************************)
(* The options of the Configuration object, by the type of their value.    *)
(***************************************************************************)
ClientOptions ==
    [number |-> {"sendTimeoutMs", "idempotenceCacheSize", "idempotenceTtlSeconds",
                 "maxConcurrency", "maxUncommitted", "stallThresholdMs",
                 "shutdownTimeoutMs", "pollIntervalMs", "commitIntervalMs",
                 "statisticsIntervalMs", "retryBaseMs", "maxRetries",
                 "maxRetryDelayMs", "probePort", "slabSizeMs",
                 "cassandraRetentionSeconds", "schedulerFailureWeight",
                 "schedulerMaxWaitMs", "schedulerWaitWeight"},
     text |-> {"bootstrapServers", "groupId", "idempotenceVersion",
               "subscribedTopics", "allowedEvents", "sourceSystem", "mode",
               "failureTopic", "cassandraNodes", "cassandraKeyspace",
               "cassandraDatacenter", "cassandraRack", "cassandraUser",
               "cassandraPassword"},
     flag |-> {"mock"}]

MiddlewareOptions ==
    [number |-> {"schedulerCacheSize", "monopolizationThreshold",
                 "monopolizationWindowMs", "monopolizationCacheSize",
                 "deferBaseMs", "deferMaxDelayMs", "deferFailureThreshold",
                 "deferFailureWindowMs", "deferStoreCacheSize",
                 "loaderCacheSize", "loaderSeekTimeoutMs",
                 "loaderDiscardThreshold", "timeoutMs", "peerCacheCapacity",
                 "peerRegistrationTtlSeconds"},
     text |-> {"telemetryTopic", "messageSpans", "timerSpans", "stateCacheDir",
               "stateOwnedCacheSize", "stateMemtableSize", "stateReadCacheSize",
               "subsystem", "peerBindAddress", "peerAdvertisedConnect",
               "peerNetworkName"},
     flag |-> {"monopolizationEnabled", "deferEnabled", "telemetryEnabled"}]

NumberOptions == ClientOptions.number \cup MiddlewareOptions.number
TextOptions == ClientOptions.text \cup MiddlewareOptions.text
FlagOptions == ClientOptions.flag \cup MiddlewareOptions.flag

\* Option values that are no numbers: a text, which parses or does not, or null.
Text(name) == [is |-> "text", text |-> name]
BadText(name) == [is |-> "badText", text |-> name]
TextValues == [is : {"text", "badText"}, text : STRING]
Null == [is |-> "null", halves |-> 0]

Flag(b) == [is |-> "flag", on |-> b]

\* A read cache option is a flag, or an object that may set ttlMs.
CacheObject(ttl, disabled) ==
    [is |-> "object", ttl |-> ttl, disabled |-> disabled]

\* What a flag and a read cache option can be.
FlagValues == [is : {"flag"}, on : BOOLEAN]
CacheValues ==
    FlagValues \cup [is : {"object"}, ttl : SUBSET JsNumber, disabled : BOOLEAN]

\* A cache policy, with the duration of "ttl" as a set of one. "inherit" leaves
\* the default of the core alone.
Policy(is, durations) == [is |-> is, durations |-> durations]

TtlPolicy(v) ==
    LET d == Milliseconds(CHOOSE x \in v.ttl : TRUE) IN
    IF d.ok THEN Converted(Policy("ttl", {d.value})) ELSE Rejected

SwitchPolicy(disabled) ==
    Converted(Policy(IF disabled THEN "disabled" ELSE "inherit", {}))

\* Mutant: the duration wins over the switch.
LenientCachePolicy(v) ==
    IF v.is = "flag" THEN IF v.on THEN Rejected ELSE SwitchPolicy(TRUE)
    ELSE IF v.ttl = {} THEN SwitchPolicy(v.disabled) ELSE TtlPolicy(v)

ReadCachePolicy(v) ==
    IF v.is = "flag" THEN IF v.on THEN Rejected ELSE SwitchPolicy(TRUE)
    ELSE IF v.ttl = {} THEN SwitchPolicy(v.disabled)
    ELSE IF v.disabled THEN Rejected ELSE TtlPolicy(v)

-----------------------------------------------------------------------------
(***************************************************************************)
(* State collections. A definition carries the options that its            *)
(* constructor was given.                                                  *)
(***************************************************************************)
JsonConstructors == {"value", "map", "set", "deque"}
Constructors == JsonConstructors \cup {"messageValue", "messageMap", "messageDeque"}

Kind(constructor) ==
    CASE constructor \in {"value", "messageValue"} -> "value"
      [] constructor \in {"map", "messageMap"} -> "map"
      [] constructor = "set" -> "set"
      [] constructor \in {"deque", "messageDeque"} -> "deque"

Payload(constructor) ==
    CASE constructor = "set" -> "none"
      [] constructor \in JsonConstructors \ {"set"} -> "json"
      [] constructor \notin JsonConstructors -> "message"

\* The options of a definition that the native side is given.
StateCollectionConfig ==
    {"ttlSeconds", "readUncommitted", "published", "keysetLimit", "capacity"}

stateDefinition(constructor, name, options) ==
    [name |-> name, kind |-> Kind(constructor), payload |-> Payload(constructor),
     options |-> [o \in StateCollectionConfig \cap DOMAIN options |-> options[o]]]

\* A definition is what a constructor makes of options of the right types.
IsDefinition(c) ==
    /\ \E constructor \in Constructors : c = stateDefinition(constructor, c.name, c.options)
    /\ \A o \in DOMAIN c.options :
         IF o \in {"readUncommitted", "published"} THEN c.options[o] \in FlagValues
                                                   ELSE c.options[o] \in JsNumber

\* An option that only some kinds take, as a set of at most one number.
Bound(c, option, kinds, type) ==
    IF option \notin DOMAIN c.options THEN Converted({})
    ELSE LET w == Whole(c.options[option], type) IN
         IF c.kind \in kinds /\ w.ok THEN Converted({w.value}) ELSE Rejected

parse_keyset_limit(c) == Bound(c, "keysetLimit", {"map", "set"}, "usize")

\* Mutant: any whole number is a capacity.
CapacityOrNone(c) == Bound(c, "capacity", {"deque"}, "usize")

parse_capacity(c) == Bound(c, "capacity", {"deque"}, "nonZeroUsize")

Given(c, option) == IF option \in DOMAIN c.options THEN {c.options[option].on} ELSE {}

\* Mutant: an option that is given counts as set.
WithDefGiven(c, ttl) ==
    [ttl |-> ttl, uncommitted |-> Given(c, "readUncommitted") # {},
     published |-> Given(c, "published")]

with_def(c, ttl) ==
    [ttl |-> ttl, uncommitted |-> Given(c, "readUncommitted") = {TRUE},
     published |-> Given(c, "published")]

\* The descriptor of a collection. A set takes no payload, all others need one.
register_state_collection(c) ==
    LET ttl == Bound(c, "ttlSeconds", {c.kind}, "u32")
        keyset == parse_keyset_limit(c)
        capacity == parse_capacity(c) IN
    IF /\ ttl.ok /\ keyset.ok /\ capacity.ok
       /\ c.kind = "set" <=> c.payload = "none"
      THEN Converted([name |-> c.name, kind |-> c.kind, payload |-> c.payload,
                      def |-> with_def(c, ttl.value),
                      keyset |-> keyset.value, capacity |-> capacity.value])
      ELSE Rejected

Registered(list) ==
    LET outcomes == [i \in DOMAIN list |-> register_state_collection(list[i])] IN
    IF \A i \in DOMAIN list : outcomes[i].ok
      THEN Converted([i \in DOMAIN list |-> outcomes[i].value])
      ELSE Rejected

\* The kind and payload that the factory of a constructor asks the context for.
Vended(constructor) ==
    CASE constructor = "value" -> <<"value", "json">>
      [] constructor = "map" -> <<"map", "json">>
      [] constructor = "set" -> <<"set", "none">>
      [] constructor = "deque" -> <<"deque", "json">>
      [] constructor = "messageValue" -> <<"value", "message">>
      [] constructor = "messageMap" -> <<"map", "message">>
      [] constructor = "messageDeque" -> <<"deque", "message">>

-----------------------------------------------------------------------------
\* The type of each option, and a configuration of options that have theirs.
HasType(v, o) ==
    /\ o \in NumberOptions => v \in JsNumber \/ (o = "probePort" /\ v = Null)
    /\ o \in TextOptions => v \in TextValues
    /\ o \in FlagOptions => v \in FlagValues
    /\ o = "stateReadCache" => v \in CacheValues
    /\ o = "stateCollections" =>
         v.is = "list" /\ \A i \in DOMAIN v.list : IsDefinition(v.list[i])

Options == NumberOptions \cup TextOptions \cup FlagOptions
           \cup {"stateReadCache", "stateCollections"}

IsConfiguration(config) ==
    DOMAIN config \subseteq Options /\ \A o \in DOMAIN config : HasType(config[o], o)

-----------------------------------------------------------------------------
\* A size, an address or a name that the core parses.
Parsed(v) == IF v.is = "badText" THEN Rejected ELSE Converted(v)

\* The probe port, which null turns off.
Port(v) == IF v.is = "null" THEN Converted(v) ELSE Whole(v, "u16")

Convert(v, form) ==
    CASE form \in IntTypes -> Whole(v, form)
      [] form = "ms" -> Milliseconds(v)
      [] form = "s" -> Seconds(v)
      [] form = "port" -> Port(v)
      [] form = "cache" -> ReadCachePolicy(v)
      [] form = "collections" -> Registered(v.list)
      [] form = "parsed" -> Parsed(v)
      [] form = "asIs" -> Converted(v)

-----------------------------------------------------------------------------
(***************************************************************************)
(* The builders. A field is <<setting, option, form>>.                     *)
(***************************************************************************)
build_producer_config ==
    << <<"bootstrap_servers", "bootstrapServers", "asIs">>,
       <<"mock", "mock", "asIs">>,
       <<"source_system", "sourceSystem", "asIs">>,
       <<"send_timeout", "sendTimeoutMs", "ms">>,
       <<"idempotence_cache_size", "idempotenceCacheSize", "usize">> >>

\* The loader is built only if one of its three options is given.
build_consumer_config ==
    << <<"bootstrap_servers", "bootstrapServers", "asIs">>,
       <<"mock", "mock", "asIs">>,
       <<"group_id", "groupId", "asIs">>,
       <<"subscribed_topics", "subscribedTopics", "asIs">>,
       <<"allowed_events", "allowedEvents", "asIs">>,
       <<"max_uncommitted", "maxUncommitted", "usize">>,
       <<"stall_threshold", "stallThresholdMs", "ms">>,
       <<"shutdown_timeout", "shutdownTimeoutMs", "ms">>,
       <<"poll_interval", "pollIntervalMs", "ms">>,
       <<"commit_interval", "commitIntervalMs", "ms">>,
       <<"statistics_interval", "statisticsIntervalMs", "ms">>,
       <<"probe_port", "probePort", "port">>,
       <<"slab_size", "slabSizeMs", "ms">>,
       <<"message_spans", "messageSpans", "parsed">>,
       <<"timer_spans", "timerSpans", "parsed">>,
       <<"loader.cache_size", "loaderCacheSize", "usize">>,
       <<"loader.seek_timeout", "loaderSeekTimeoutMs", "ms">>,
       <<"loader.discard_threshold", "loaderDiscardThreshold", "i64">> >>

\* Mutant: only the producer is given the capacity of its cache.
DedupWithoutCapacity ==
    << <<"version", "idempotenceVersion", "asIs">>,
       <<"ttl", "idempotenceTtlSeconds", "s">> >>

build_dedup_config ==
    << <<"cache_capacity", "idempotenceCacheSize", "usize">>,
       <<"version", "idempotenceVersion", "asIs">>,
       <<"ttl", "idempotenceTtlSeconds", "s">> >>

\* Mutant: two delays of one unit are swapped.
RetrySwapped ==
    << <<"base", "maxRetryDelayMs", "ms">>,
       <<"max_retries", "maxRetries", "u32">>,
       <<"max_delay", "retryBaseMs", "ms">> >>

build_retry_config ==
    << <<"base", "retryBaseMs", "ms">>,
       <<"max_retries", "maxRetries", "u32">>,
       <<"max_delay", "maxRetryDelayMs", "ms">> >>

build_failure_topic_config == << <<"failure_topic", "failureTopic", "asIs">> >>

build_scheduler_config ==
    << <<"max_concurrency", "maxConcurrency", "usize">>,
       <<"failure_weight", "schedulerFailureWeight", "asIs">>,
       <<"max_wait", "schedulerMaxWaitMs", "ms">>,
       <<"wait_weight", "schedulerWaitWeight", "asIs">>,
       <<"cache_size", "schedulerCacheSize", "usize">> >>

build_monopolization_config ==
    << <<"enabled", "monopolizationEnabled", "asIs">>,
       <<"monopolization_threshold", "monopolizationThreshold", "asIs">>,
       <<"window_duration", "monopolizationWindowMs", "ms">>,
       <<"cache_size", "monopolizationCacheSize", "usize">> >>

build_defer_config ==
    << <<"enabled", "deferEnabled", "asIs">>,
       <<"base", "deferBaseMs", "ms">>,
       <<"max_delay", "deferMaxDelayMs", "ms">>,
       <<"failure_threshold", "deferFailureThreshold", "asIs">>,
       <<"failure_window", "deferFailureWindowMs", "ms">>,
       <<"store_cache_size", "deferStoreCacheSize", "usize">> >>

build_timeout_config == << <<"timeout", "timeoutMs", "ms">> >>

build_emitter_config ==
    << <<"topic", "telemetryTopic", "asIs">>,
       <<"enabled", "telemetryEnabled", "asIs">> >>

build_keyed_state_config ==
    << <<"cache_dir", "stateCacheDir", "asIs">>,
       <<"owned_cache_size", "stateOwnedCacheSize", "parsed">>,
       <<"memtable_size", "stateMemtableSize", "parsed">>,
       <<"read_cache_size", "stateReadCacheSize", "parsed">>,
       <<"read_cache_ttl", "stateReadCache", "cache">>,
       <<"subsystem", "subsystem", "parsed">>,
       <<"collections", "stateCollections", "collections">> >>

build_peer_config ==
    << <<"bind_address", "peerBindAddress", "parsed">>,
       <<"advertised_connect", "peerAdvertisedConnect", "parsed">>,
       <<"network_name", "peerNetworkName", "asIs">>,
       <<"peer_cache_capacity", "peerCacheCapacity", "usize">>,
       <<"registration_ttl", "peerRegistrationTtlSeconds", "s">> >>

build_cassandra_config ==
    << <<"nodes", "cassandraNodes", "asIs">>,
       <<"keyspace", "cassandraKeyspace", "asIs">>,
       <<"datacenter", "cassandraDatacenter", "asIs">>,
       <<"rack", "cassandraRack", "asIs">>,
       <<"user", "cassandraUser", "asIs">>,
       <<"password", "cassandraPassword", "asIs">>,
       <<"retention", "cassandraRetentionSeconds", "s">> >>

\* The mode that new_erased is given beside the builders.
client_mode == << <<"mode", "mode", "asIs">> >>

-----------------------------------------------------------------------------
Tag(builder, fields) ==
    [i \in DOMAIN fields |-> [builder |-> builder, setting |-> fields[i][1],
                             option |-> fields[i][2], form |-> fields[i][3]]]

build_consumer_builders ==
    Tag("consumer", build_consumer_config) \o Tag("dedup", build_dedup_config)
    \o Tag("retry", build_retry_config)
    \o Tag("failure_topic", build_failure_topic_config)
    \o Tag("scheduler", build_scheduler_config)
    \o Tag("monopolization", build_monopolization_config)
    \o Tag("defer", build_defer_config) \o Tag("timeout", build_timeout_config)
    \o Tag("emitter", build_emitter_config)
    \o Tag("keyed_state", build_keyed_state_config)
    \o Tag("peer", build_peer_config)

\* Every field, in the order in which create converts them.
Fields ==
    Tag("producer", build_producer_config) \o build_consumer_builders
    \o Tag("cassandra", build_cassandra_config)
    \o Tag("client", client_mode)

\* What create makes of a configuration: the first option that does not
\* convert, or else every setting that is given.
Build(config) ==
    LET given == {i \in DOMAIN Fields : Fields[i].option \in DOMAIN config}
        form(i) == Convert(config[Fields[i].option], Fields[i].form)
        bad == {i \in given : ~form(i).ok} IN
    IF bad # {}
      THEN LET first == CHOOSE i \in bad : \A j \in bad : i <= j IN
           [error |-> Fields[first].option, settings |-> << >>]
      ELSE [error |-> "none",
            settings |-> [k \in {<<Fields[i].builder, Fields[i].setting>> : i \in given} |->
                            LET i == CHOOSE j \in given :
                                       k = <<Fields[j].builder, Fields[j].setting>>
                            IN form(i).value]]
=============================================================================
