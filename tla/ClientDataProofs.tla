--------------------------- MODULE ClientDataProofs ---------------------------
(***************************************************************************)
(* Proofs about what a client makes of its inputs: numbers, configurations *)
(* and definitions of collections, the queries of scans, and the replies   *)
(* to a request. They hold for any limits of the integer types, any        *)
(* configurations, queries and contents of the declared types.             *)
(***************************************************************************)
EXTENDS ClientProofs, FiniteSetTheorems, SequenceTheorems, WellFoundedInduction

-----------------------------------------------------------------------------
(***************************************************************************)
(* Numbers (src/src/number.rs): what is converted is exact, and what has   *)
(* an exact form is converted.                                             *)
(***************************************************************************)
LEMMA WholeIsExact ==
    ASSUME NEW v \in JsNumber, NEW t \in IntTypes
    PROVE  Exact(v, t) = IF Whole(v, t).ok THEN {2 * Whole(v, t).value} ELSE {}
  <1> DEFINE h == v.halves
  <1>1. /\ h \in Int /\ MaxOf[t] \in Nat /\ MaxOf["usize"] \in Nat
        /\ MaxOf[t] <= MaxOf["usize"]
    BY NumberAssumption DEF JsNumber, IntTypes
  <1>2. Exact(v, t) = {x \in {h} : /\ v.is = "finite" /\ x % 2 = 0 /\ x >= 0
                                   /\ x <= 2 * MaxOf[t]
                                   /\ t = "nonZeroUsize" => x > 0}
    BY DEF Exact, IntTypes
  <1>3. CASE v.is = "finite" /\ h % 2 = 0 /\ h >= 0
    <2>1. PICK n \in Nat : h = 2 * n /\ h \div 2 = n
      BY <1>1, <1>3
    <2>2. h \in 0 .. 2 * MaxOf["usize"] + 1 /\ h \div 2 <= MaxOf[t] <=> h <= 2 * MaxOf[t]
      BY <1>1, <2>1
    <2>3. CASE h <= 2 * MaxOf[t] /\ (t = "nonZeroUsize" => h # 0)
      <3>1. Whole(v, t) = Converted(n)
        BY <1>3, <2>1, <2>2, <2>3 DEF Whole
      <3>2. Exact(v, t) = {h}
        BY <1>1, <1>2, <1>3, <2>3
      <3> QED
        BY <2>1, <3>1, <3>2 DEF Converted
    <2>4. CASE ~(h <= 2 * MaxOf[t] /\ (t = "nonZeroUsize" => h # 0))
      <3>1. Whole(v, t) = Rejected
        BY <1>3, <2>2, <2>4 DEF Whole
      <3>2. Exact(v, t) = {}
        BY <1>1, <1>2, <2>4
      <3> QED
        BY <3>1, <3>2 DEF Rejected
    <2> QED
      BY <2>3, <2>4
  <1>4. CASE ~(v.is = "finite" /\ h % 2 = 0 /\ h >= 0)
    <2>1. Whole(v, t) = Rejected
      BY <1>1, <1>4 DEF Whole
    <2>2. Exact(v, t) = {}
      BY <1>2, <1>4
    <2> QED
      BY <2>1, <2>2 DEF Rejected
  <1> QED
    BY <1>3, <1>4

\* The longest duration bounds seconds and milliseconds alike.
LEMMA DurationIsExact ==
    ASSUME NEW v \in JsNumber
    PROVE  /\ Exact(v, "ms") = IF Milliseconds(v).ok THEN {Milliseconds(v).value} ELSE {}
           /\ Exact(v, "s") = IF Seconds(v).ok THEN {Seconds(v).value} ELSE {}
  <1>1. v.halves \in Int /\ MaxDuration \in Nat /\ 1000 * v.halves \in Int
    BY NumberAssumption DEF JsNumber
  <1>2. /\ Exact(v, "ms") = {x \in {v.halves} : /\ v.is = "finite" /\ x >= 0
                                                /\ x <= MaxDuration}
        /\ Exact(v, "s") = {x \in {1000 * v.halves} :
                              v.is = "finite" /\ x >= 0 /\ x <= MaxDuration}
    BY DEF Exact, IntTypes
  <1> QED
    BY <1>1, <1>2 DEF Milliseconds, Seconds, Duration, Converted, Rejected

-----------------------------------------------------------------------------
(***************************************************************************)
(* The fields of the builders. They are the documented uses of the         *)
(* options, no two of which put something into one setting, and the form   *)
(* of a field fits the type of its option.                                 *)
(***************************************************************************)
Fits(option, form) ==
    /\ form \in NumberForms \cup {"cache", "collections", "parsed", "asIs"}
    /\ form \in NumberForms => option \in NumberOptions
    /\ form = "port" <=> option = "probePort"
    /\ form = "cache" => option = "stateReadCache"
    /\ form = "collections" => option = "stateCollections"
    /\ form = "parsed" => option \in TextOptions

Use(option, builder, setting, form) == <<option, builder, setting, form>>

\* A builder of n fields, and a sequence of the fields of some builders, which
\* are the documented uses of options in these builders.
IsBuilder(f, n, b) ==
    /\ DOMAIN f = 1 .. n
    /\ \A i \in 1 .. n : Fits(f[i][2], f[i][3])
    /\ \A i, j \in 1 .. n : f[i][1] = f[j][1] => i = j
    /\ \A i \in 1 .. n : Use(f[i][2], b, f[i][1], f[i][3]) \in Documented
    /\ \A d \in Documented : d[2] = b =>
         \E i \in 1 .. n : d = Use(f[i][2], b, f[i][1], f[i][3])

UseOf(field) == Use(field.option, field.builder, field.setting, field.form)

IsTable(s, builders) ==
    /\ s \in Seq({s[i] : i \in DOMAIN s})
    /\ \A i \in DOMAIN s : /\ s[i].builder \in builders /\ Fits(s[i].option, s[i].form)
                           /\ UseOf(s[i]) \in Documented
    /\ \A i, j \in DOMAIN s :
         s[i].builder = s[j].builder /\ s[i].setting = s[j].setting => i = j
    /\ \A d \in Documented : d[2] \in builders => \E i \in DOMAIN s : UseOf(s[i]) = d

LEMMA OwnElements ==
    ASSUME NEW n \in Nat, NEW s, s = [i \in 1 .. n |-> s[i]]
    PROVE  s \in Seq({s[i] : i \in DOMAIN s})
  <1> DEFINE S == {s[i] : i \in DOMAIN s}
  <1>1. DOMAIN s = 1 .. n
    OBVIOUS
  <1>2. s \in [1 .. n -> S]
    BY <1>1
  <1> HIDE DEF S
  <1>3. s \in Seq(S)
    BY <1>2, SeqDef
  <1> QED
    BY <1>3 DEF S

LEMMA TagIsTable ==
    ASSUME NEW b, NEW f, NEW n \in Nat, IsBuilder(f, n, b)
    PROVE  IsTable(Tag(b, f), {b})
  <1> DEFINE s == Tag(b, f)
  <1>1. /\ DOMAIN s = 1 .. n
        /\ \A i \in 1 .. n : /\ s[i].builder = b /\ s[i].setting = f[i][1]
                              /\ s[i].option = f[i][2] /\ s[i].form = f[i][3]
    BY DEF Tag, IsBuilder
  <1>2. s = [i \in 1 .. n |-> s[i]]
    BY DEF Tag, IsBuilder
  <1> HIDE DEF s
  <1>3. s \in Seq({s[i] : i \in DOMAIN s})
    BY <1>1, <1>2, OwnElements
  <1>4. \A i \in DOMAIN s : /\ s[i].builder \in {b} /\ Fits(s[i].option, s[i].form)
                            /\ UseOf(s[i]) \in Documented
    BY <1>1 DEF IsBuilder, UseOf
  <1>5. \A i, j \in DOMAIN s :
          s[i].builder = s[j].builder /\ s[i].setting = s[j].setting => i = j
    BY <1>1 DEF IsBuilder
  <1>6. \A d \in Documented : d[2] \in {b} => \E i \in DOMAIN s : UseOf(s[i]) = d
    BY <1>1 DEF IsBuilder, UseOf
  <1>7. IsTable(s, {b})
    BY <1>3, <1>4, <1>5, <1>6, Zenon DEF IsTable
  <1> QED
    BY <1>7 DEF s

LEMMA JoinIsTable ==
    ASSUME NEW s, NEW t, NEW A, NEW B, NEW C,
           IsTable(s, A), IsTable(t, B), A \cap B = {}, C = A \cup B
    PROVE  IsTable(s \o t, C)
  <1> DEFINE S == {s[i] : i \in DOMAIN s} \cup {t[i] : i \in DOMAIN t}
             u == s \o t
  <1>1. s \in Seq(S) /\ t \in Seq(S)
    BY SeqMonotonic DEF IsTable
  <1>2. /\ u \in Seq(S) /\ Len(u) = Len(s) + Len(t)
        /\ \A i \in 1 .. Len(s) + Len(t) :
             u[i] = IF i <= Len(s) THEN s[i] ELSE t[i - Len(s)]
    BY <1>1, ConcatProperties
  <1>3. /\ Len(s) \in Nat /\ DOMAIN s = 1 .. Len(s)
        /\ Len(t) \in Nat /\ DOMAIN t = 1 .. Len(t)
        /\ DOMAIN u = 1 .. Len(s) + Len(t)
    BY <1>1, <1>2, LenProperties
  <1> HIDE DEF S, u
  <1>4. \A i \in DOMAIN u : \/ i \in DOMAIN s /\ u[i] = s[i]
                            \/ i - Len(s) \in DOMAIN t /\ u[i] = t[i - Len(s)]
    BY <1>2, <1>3
  <1>5. /\ \A i \in DOMAIN s : i \in DOMAIN u /\ u[i] = s[i]
        /\ \A i \in DOMAIN t : i + Len(s) \in DOMAIN u /\ u[i + Len(s)] = t[i]
    BY <1>2, <1>3
  <1>6. u \in Seq({u[i] : i \in DOMAIN u})
    <2>1. Len(u) \in Nat /\ u = [i \in 1 .. Len(u) |-> u[i]]
      BY <1>2, <1>3, LenProperties
    <2> QED
      BY <2>1, OwnElements
  <1>7. \A i \in DOMAIN u : /\ u[i].builder \in C /\ Fits(u[i].option, u[i].form)
                            /\ UseOf(u[i]) \in Documented
    BY <1>4 DEF IsTable
  <1>8. ASSUME NEW i \in DOMAIN u, NEW j \in DOMAIN u,
               u[i].builder = u[j].builder, u[i].setting = u[j].setting
        PROVE  i = j
    <2>1. CASE i \in DOMAIN s /\ u[i] = s[i] /\ j \in DOMAIN s /\ u[j] = s[j]
      BY <1>8, <2>1 DEF IsTable
    <2>2. CASE /\ i - Len(s) \in DOMAIN t /\ u[i] = t[i - Len(s)]
               /\ j - Len(s) \in DOMAIN t /\ u[j] = t[j - Len(s)]
      <3>1. i - Len(s) = j - Len(s)
        BY <1>8, <2>2 DEF IsTable
      <3> QED
        BY <1>3, <3>1
    <2>3. ASSUME NEW x \in DOMAIN s, NEW y \in DOMAIN t PROVE s[x].builder # t[y].builder
      BY DEF IsTable
    <2> QED
      BY <1>4, <1>8, <2>1, <2>2, <2>3
  <1>9. ASSUME NEW d \in Documented, d[2] \in C PROVE \E i \in DOMAIN u : UseOf(u[i]) = d
    <2>1. CASE d[2] \in A
      <3>1. PICK i \in DOMAIN s : UseOf(s[i]) = d
        BY <2>1 DEF IsTable
      <3> QED
        BY <1>5, <3>1
    <2>2. CASE d[2] \in B
      <3>1. PICK i \in DOMAIN t : UseOf(t[i]) = d
        BY <2>2 DEF IsTable
      <3> QED
        BY <1>5, <3>1
    <2> QED
      BY <1>9, <2>1, <2>2
  <1>10. IsTable(u, C)
    BY <1>6, <1>7, <1>8, <1>9, Zenon DEF IsTable
  <1> QED
    BY <1>10 DEF u

LEMMA Builders ==
    /\ IsTable(Tag("producer", build_producer_config), {"producer"})
    /\ IsTable(Tag("consumer", build_consumer_config), {"consumer"})
    /\ IsTable(Tag("dedup", build_dedup_config), {"dedup"})
    /\ IsTable(Tag("retry", build_retry_config), {"retry"})
    /\ IsTable(Tag("failure_topic", build_failure_topic_config), {"failure_topic"})
    /\ IsTable(Tag("scheduler", build_scheduler_config), {"scheduler"})
    /\ IsTable(Tag("monopolization", build_monopolization_config), {"monopolization"})
    /\ IsTable(Tag("defer", build_defer_config), {"defer"})
    /\ IsTable(Tag("timeout", build_timeout_config), {"timeout"})
    /\ IsTable(Tag("emitter", build_emitter_config), {"emitter"})
    /\ IsTable(Tag("keyed_state", build_keyed_state_config), {"keyed_state"})
    /\ IsTable(Tag("peer", build_peer_config), {"peer"})
    /\ IsTable(Tag("cassandra", build_cassandra_config), {"cassandra"})
    /\ IsTable(Tag("client", client_mode), {"client"})
  <1> USE DEF IsBuilder, Use, Documented, Fits, NumberForms, IntTypes, NumberOptions,
              TextOptions, ClientOptions, MiddlewareOptions
  <1>1. IsBuilder(build_producer_config, 5, "producer")
    BY DEF build_producer_config
  <1>2. IsBuilder(build_consumer_config, 18, "consumer")
    BY DEF build_consumer_config
  <1>3. IsBuilder(build_dedup_config, 3, "dedup")
    BY DEF build_dedup_config
  <1>4. IsBuilder(build_retry_config, 3, "retry")
    BY DEF build_retry_config
  <1>5. IsBuilder(build_failure_topic_config, 1, "failure_topic")
    BY DEF build_failure_topic_config
  <1>6. IsBuilder(build_scheduler_config, 5, "scheduler")
    BY DEF build_scheduler_config
  <1>7. IsBuilder(build_monopolization_config, 4, "monopolization")
    BY DEF build_monopolization_config
  <1>8. IsBuilder(build_defer_config, 6, "defer")
    BY DEF build_defer_config
  <1>9. IsBuilder(build_timeout_config, 1, "timeout")
    BY DEF build_timeout_config
  <1>10. IsBuilder(build_emitter_config, 2, "emitter")
    BY DEF build_emitter_config
  <1>11. IsBuilder(build_keyed_state_config, 7, "keyed_state")
    BY DEF build_keyed_state_config
  <1>12. IsBuilder(build_peer_config, 5, "peer")
    BY DEF build_peer_config
  <1>13. IsBuilder(build_cassandra_config, 7, "cassandra")
    BY DEF build_cassandra_config
  <1>14. IsBuilder(client_mode, 1, "client")
    BY DEF client_mode
  <1> HIDE DEF IsBuilder, Documented
  <1> QED
    BY <1>1, <1>2, <1>3, <1>4, <1>5, <1>6, <1>7, <1>8, <1>9, <1>10, <1>11, <1>12, <1>13,
       <1>14, TagIsTable

\* The builders and what is given beside them.
BuilderNames == {"producer", "consumer", "dedup", "retry", "failure_topic", "scheduler",
                 "monopolization", "defer", "timeout", "emitter", "keyed_state", "peer",
                 "cassandra", "client"}

LEMMA FieldsTable == IsTable(Fields, BuilderNames)
  <1> DEFINE c1 == Tag("consumer", build_consumer_config)
             c2 == c1 \o Tag("dedup", build_dedup_config)
             c3 == c2 \o Tag("retry", build_retry_config)
             c4 == c3 \o Tag("failure_topic", build_failure_topic_config)
             c5 == c4 \o Tag("scheduler", build_scheduler_config)
             c6 == c5 \o Tag("monopolization", build_monopolization_config)
             c7 == c6 \o Tag("defer", build_defer_config)
             c8 == c7 \o Tag("timeout", build_timeout_config)
             c9 == c8 \o Tag("emitter", build_emitter_config)
             c10 == c9 \o Tag("keyed_state", build_keyed_state_config)
             c11 == c10 \o Tag("peer", build_peer_config)
             f1 == Tag("producer", build_producer_config) \o c11
             f2 == f1 \o Tag("cassandra", build_cassandra_config)
             f3 == f2 \o Tag("client", client_mode)
  <1>1. IsTable(c1, {"consumer"})
    BY Builders, JoinIsTable
  <1>2. IsTable(c2, {"consumer", "dedup"})
    BY <1>1, Builders, JoinIsTable
  <1>3. IsTable(c3, {"consumer", "dedup", "retry"})
    BY <1>2, Builders, JoinIsTable
  <1>4. IsTable(c4, {"consumer", "dedup", "retry", "failure_topic"})
    BY <1>3, Builders, JoinIsTable
  <1>5. IsTable(c5, {"consumer", "dedup", "retry", "failure_topic",
                  "scheduler"})
    BY <1>4, Builders, JoinIsTable
  <1>6. IsTable(c6, {"consumer", "dedup", "retry", "failure_topic",
                  "scheduler", "monopolization"})
    BY <1>5, Builders, JoinIsTable
  <1>7. IsTable(c7, {"consumer", "dedup", "retry", "failure_topic",
                  "scheduler", "monopolization", "defer"})
    BY <1>6, Builders, JoinIsTable
  <1>8. IsTable(c8, {"consumer", "dedup", "retry", "failure_topic",
                  "scheduler", "monopolization", "defer",
                  "timeout"})
    BY <1>7, Builders, JoinIsTable
  <1>9. IsTable(c9, {"consumer", "dedup", "retry", "failure_topic",
                  "scheduler", "monopolization", "defer",
                  "timeout", "emitter"})
    BY <1>8, Builders, JoinIsTable
  <1>10. IsTable(c10, {"consumer", "dedup", "retry", "failure_topic",
                  "scheduler", "monopolization", "defer",
                  "timeout", "emitter", "keyed_state"})
    BY <1>9, Builders, JoinIsTable
  <1>11. IsTable(c11, {"consumer", "dedup", "retry", "failure_topic",
                  "scheduler", "monopolization", "defer",
                  "timeout", "emitter", "keyed_state", "peer"})
    BY <1>10, Builders, JoinIsTable
  <1>12. IsTable(f1, {"producer", "consumer", "dedup", "retry",
                  "failure_topic", "scheduler", "monopolization",
                  "defer", "timeout", "emitter", "keyed_state",
                  "peer"})
    BY <1>11, Builders, JoinIsTable
  <1>13. IsTable(f2, {"producer", "consumer", "dedup", "retry",
                  "failure_topic", "scheduler", "monopolization",
                  "defer", "timeout", "emitter", "keyed_state",
                  "peer", "cassandra"})
    BY <1>12, Builders, JoinIsTable
  <1>14. IsTable(f3, {"producer", "consumer", "dedup", "retry",
                  "failure_topic", "scheduler", "monopolization",
                  "defer", "timeout", "emitter", "keyed_state",
                  "peer", "cassandra", "client"})
    BY <1>13, Builders, JoinIsTable
  <1>15. f3 = Fields
    BY DEF Fields, build_consumer_builders
  <1> QED
    BY <1>14, <1>15 DEF BuilderNames

\* No two fields set the same setting of a builder, the fields are the
\* documented uses of the options, and every option has one.
LEMMA FieldsFit ==
    /\ DOMAIN Fields \subseteq Nat
    /\ \A i \in DOMAIN Fields : Fits(Fields[i].option, Fields[i].form)
    /\ \A i, j \in DOMAIN Fields :
         <<Fields[i].builder, Fields[i].setting>> = <<Fields[j].builder, Fields[j].setting>>
           => i = j
    /\ \A i \in DOMAIN Fields : UseOf(Fields[i]) \in Documented
    /\ \A d \in Documented : \E i \in DOMAIN Fields : UseOf(Fields[i]) = d
    /\ \A o \in Options : \E d \in Documented : d[1] = o
  <1>1. \A o \in Options : \E d \in Documented : d[1] = o
    BY DEF Options, Documented, NumberOptions, TextOptions, FlagOptions,
       ClientOptions, MiddlewareOptions
  <1>2. \A d \in Documented : d[2] \in BuilderNames
    BY DEF Documented, BuilderNames
  <1>3. DOMAIN Fields \subseteq Nat
    BY FieldsTable, LenProperties DEF IsTable
  <1> QED
    BY <1>1, <1>2, <1>3, FieldsTable DEF IsTable

-----------------------------------------------------------------------------
(***************************************************************************)
(* Build. Its outcome names an option that does not convert, or holds the  *)
(* converted value of every field whose option is given.                   *)
(***************************************************************************)
\* whole, milliseconds and seconds never wrap, truncate or saturate: a number is
\* converted if and only if it has an exact form in the type of its option, and then
\* into that form, for any limits of the types.
THEOREM NumbersConvertExactly ==
    ASSUME NEW v \in JsNumber, NEW form \in NumberForms
    PROVE  /\ Convert(v, form).ok <=> Exact(v, form) # {}
           /\ Convert(v, form).ok =>
                Exact(v, form) = IF form \in {"ms", "s"} THEN {Convert(v, form).value}
                                                        ELSE {2 * Convert(v, form).value}
  <1>1. CASE form \in IntTypes
    <2>1. Convert(v, form) = Whole(v, form)
      BY <1>1 DEF Convert, IntTypes
    <2> QED
      BY <1>1, <2>1, WholeIsExact DEF IntTypes
  <1>2. CASE form = "port"
    <2>1. Convert(v, form) = Whole(v, "u16")
      BY <1>2 DEF Convert, IntTypes, Port, JsNumber
    <2>2. Exact(v, form) = Exact(v, "u16")
      BY <1>2 DEF Exact, IntTypes
    <2> QED
      BY <1>2, <2>1, <2>2, WholeIsExact DEF IntTypes
  <1>3. CASE form \in {"ms", "s"}
    <2>1. Convert(v, form) = IF form = "ms" THEN Milliseconds(v) ELSE Seconds(v)
      BY <1>3 DEF Convert, IntTypes
    <2> QED
      BY <1>3, <2>1, DurationIsExact
  <1> QED
    BY <1>1, <1>2, <1>3 DEF NumberForms

LEMMA LeastElement ==
    ASSUME NEW S, S \subseteq Nat, S # {}
    PROVE  \E x \in S : \A y \in S : x <= y
  <1> DEFINE Below == {p \in Nat \X Nat : p[1] < p[2]}
  <1>1. OpToRel(<, Nat) = Below
    BY Zenon DEF OpToRel
  <1>2. PICK x \in S : \A y \in S : <<y, x>> \notin Below
    BY <1>1, NatLessThanWellFounded, WFMin, Zenon
  <1>3. ASSUME NEW y \in S PROVE x <= y
    <2>1. <<y, x>> \notin Below
      BY <1>2
    <2> QED
      BY <2>1
  <1> QED
    BY <1>3

GivenFields(config) == {i \in DOMAIN Fields : Fields[i].option \in DOMAIN config}

Field(config, i) == Convert(config[Fields[i].option], Fields[i].form)

Setting(i) == <<Fields[i].builder, Fields[i].setting>>

BadFields(config) == {i \in GivenFields(config) : ~Field(config, i).ok}

LEMMA BuildUnfolds ==
    ASSUME NEW config
    PROVE  /\ BadFields(config) # {} =>
                \E i \in BadFields(config) : Build(config).error = Fields[i].option
           /\ BadFields(config) = {} =>
                /\ Build(config).error = "none"
                /\ Build(config).settings =
                     [k \in {Setting(i) : i \in GivenFields(config)} |-> Field(config,
                        CHOOSE j \in GivenFields(config) : k = Setting(j)).value]
  <1> DEFINE bad == BadFields(config)
             first == CHOOSE i \in bad : \A j \in bad : i <= j
  <1>1. Build(config) =
          IF bad # {} THEN [error |-> Fields[first].option, settings |-> << >>]
          ELSE [error |-> "none",
                settings |-> [k \in {Setting(i) : i \in GivenFields(config)} |->
                   Field(config, CHOOSE j \in GivenFields(config) : k = Setting(j)).value]]
    BY DEF Build, BadFields, GivenFields, Field, Setting
  <1>2. ASSUME bad # {} PROVE first \in bad
    <2>1. bad \subseteq Nat
      BY FieldsFit DEF BadFields, GivenFields
    <2>2. \E i \in bad : \A j \in bad : i <= j
      BY <1>2, <2>1, LeastElement
    <2> QED
      BY <2>2
  <1> HIDE DEF first
  <1>3. bad # {} => Build(config).error = Fields[first].option
    BY <1>1
  <1> QED
    BY <1>1, <1>2, <1>3

LEMMA BuildRefuses ==
    ASSUME NEW config, Build(config).error # "none"
    PROVE  \E i \in GivenFields(config) :
              Build(config).error = Fields[i].option /\ ~Field(config, i).ok
  <1>1. BadFields(config) # {}
    BY BuildUnfolds
  <1>2. PICK i \in BadFields(config) : Build(config).error = Fields[i].option
    BY <1>1, BuildUnfolds
  <1> QED
    BY <1>2 DEF BadFields

\* "none" is no option.
LEMMA BuildAccepts ==
    ASSUME NEW config, DOMAIN config \subseteq Options, Build(config).error = "none"
    PROVE  /\ DOMAIN Build(config).settings = {Setting(i) : i \in GivenFields(config)}
           /\ \A i \in GivenFields(config) :
                /\ Field(config, i).ok
                /\ Build(config).settings[Setting(i)] = Field(config, i).value
  <1>1. "none" \notin Options
    BY DEF Options, NumberOptions, TextOptions, FlagOptions, ClientOptions,
       MiddlewareOptions
  <1>2. BadFields(config) = {}
    BY <1>1, BuildUnfolds DEF BadFields, GivenFields
  <1>3. Build(config).settings =
          [k \in {Setting(i) : i \in GivenFields(config)} |-> Field(config,
             CHOOSE j \in GivenFields(config) : k = Setting(j)).value]
    BY <1>2, BuildUnfolds
  <1>4. ASSUME NEW i \in GivenFields(config)
        PROVE  (CHOOSE j \in GivenFields(config) : Setting(i) = Setting(j)) = i
    BY FieldsFit DEF GivenFields, Setting
  <1>5. ASSUME NEW i \in GivenFields(config)
        PROVE  Build(config).settings[Setting(i)] = Field(config, i).value
    BY <1>3, <1>4
  <1>6. \A i \in GivenFields(config) : Field(config, i).ok
    BY <1>2 DEF BadFields
  <1> QED
    BY <1>3, <1>5, <1>6

-----------------------------------------------------------------------------
(***************************************************************************)
(* Collections. A definition is registered as it was made.                 *)
(***************************************************************************)
LEMMA BoundConverts ==
    ASSUME NEW c, NEW option, NEW kinds, NEW type \in IntTypes,
           option \in DOMAIN c.options => c.options[option] \in JsNumber
    PROVE  Bound(c, option, kinds, type).ok <=>
             (option \in DOMAIN c.options =>
                c.kind \in kinds /\ Exact(c.options[option], type) # {})
  <1>1. CASE option \notin DOMAIN c.options
    BY <1>1 DEF Bound, Converted
  <1>2. CASE option \in DOMAIN c.options
    <2> DEFINE w == Whole(c.options[option], type)
    <2>1. Exact(c.options[option], type) = IF w.ok THEN {2 * w.value} ELSE {}
      BY <1>2, WholeIsExact
    <2>2. Bound(c, option, kinds, type) =
            IF c.kind \in kinds /\ w.ok THEN Converted({w.value}) ELSE Rejected
      BY <1>2 DEF Bound
    <2> HIDE DEF w
    <2> QED
      BY <1>2, <2>1, <2>2 DEF Converted, Rejected
  <1> QED
    BY <1>1, <1>2

LEMMA BoundArrives ==
    ASSUME NEW c, NEW option, NEW kinds, NEW type \in IntTypes,
           option \in DOMAIN c.options => c.options[option] \in JsNumber,
           Bound(c, option, kinds, type).ok
    PROVE  IF option \in DOMAIN c.options
             THEN /\ {2 * n : n \in Bound(c, option, kinds, type).value}
                       = Exact(c.options[option], type)
                  /\ Bound(c, option, kinds, type).value # {}
             ELSE Bound(c, option, kinds, type).value = {}
  <1>1. CASE option \notin DOMAIN c.options
    BY <1>1 DEF Bound, Converted
  <1>2. CASE option \in DOMAIN c.options
    <2> DEFINE w == Whole(c.options[option], type)
    <2>1. w.ok /\ Bound(c, option, kinds, type).value = {w.value}
      BY <1>2 DEF Bound, Converted, Rejected
    <2>2. Exact(c.options[option], type) = {2 * w.value}
      BY <1>2, <2>1, WholeIsExact
    <2> HIDE DEF w
    <2> QED
      BY <1>2, <2>1, <2>2
  <1> QED
    BY <1>1, <1>2

LEMMA DefinitionTyped ==
    ASSUME NEW c, IsDefinition(c)
    PROVE  /\ c.kind \in {"value", "map", "set", "deque"}
           /\ c.kind = "set" <=> c.payload = "none"
           /\ \E constructor \in Constructors :
                Vended(constructor) = <<c.kind, c.payload>>
           /\ \A o \in DOMAIN c.options :
                IF o \in {"readUncommitted", "published"} THEN c.options[o] \in FlagValues
                                                          ELSE c.options[o] \in JsNumber
  <1>1. PICK constructor \in Constructors :
          c.kind = Kind(constructor) /\ c.payload = Payload(constructor)
    BY DEF IsDefinition, stateDefinition
  <1>2. /\ Vended(constructor) = <<Kind(constructor), Payload(constructor)>>
        /\ Kind(constructor) \in {"value", "map", "set", "deque"}
        /\ Kind(constructor) = "set" <=> Payload(constructor) = "none"
    BY <1>1 DEF Vended, Kind, Payload, Constructors, JsonConstructors
  <1>3. \A o \in DOMAIN c.options :
          IF o \in {"readUncommitted", "published"} THEN c.options[o] \in FlagValues
                                                    ELSE c.options[o] \in JsNumber
    BY DEF IsDefinition
  <1> QED
    BY <1>1, <1>2, <1>3

\* A definition is refused for a bound that has no exact form or that its kind
\* does not take, and for nothing else.
LEMMA RegistrableRegisters ==
    ASSUME NEW c, IsDefinition(c)
    PROVE  register_state_collection(c).ok <=> Registrable(c)
  <1> DEFINE ttl == Bound(c, "ttlSeconds", {c.kind}, "u32")
             keyset == Bound(c, "keysetLimit", {"map", "set"}, "usize")
             capacity == Bound(c, "capacity", {"deque"}, "nonZeroUsize")
             Fine(o, kinds, type) == o \in DOMAIN c.options =>
                                       c.kind \in kinds /\ Exact(c.options[o], type) # {}
  <1>1. register_state_collection(c).ok <=> ttl.ok /\ keyset.ok /\ capacity.ok
    BY DefinitionTyped DEF register_state_collection, parse_keyset_limit, parse_capacity,
       Converted, Rejected
  <1>2. /\ ttl.ok <=> Fine("ttlSeconds", {c.kind}, "u32")
        /\ keyset.ok <=> Fine("keysetLimit", {"map", "set"}, "usize")
        /\ capacity.ok <=> Fine("capacity", {"deque"}, "nonZeroUsize")
    <2>1. ttl.ok <=> Fine("ttlSeconds", {c.kind}, "u32")
      BY DefinitionTyped, BoundConverts DEF IntTypes
    <2>2. keyset.ok <=> Fine("keysetLimit", {"map", "set"}, "usize")
      BY DefinitionTyped, BoundConverts DEF IntTypes
    <2>3. capacity.ok <=> Fine("capacity", {"deque"}, "nonZeroUsize")
      BY DefinitionTyped, BoundConverts DEF IntTypes
    <2> QED
      BY <2>1, <2>2, <2>3
  <1>3. Registrable(c) <=> /\ Fine("ttlSeconds", {"value", "map", "set", "deque"}, "u32")
                           /\ Fine("keysetLimit", {"map", "set"}, "usize")
                           /\ Fine("capacity", {"deque"}, "nonZeroUsize")
    BY DEF Registrable, BoundsOf
  <1>4. c.kind \in {"value", "map", "set", "deque"}
    BY DefinitionTyped
  <1> HIDE DEF ttl, keyset, capacity
  <1> QED
    BY <1>1, <1>2, <1>3, <1>4

LEMMA CollectionRegisters ==
    ASSUME NEW c, IsDefinition(c), register_state_collection(c).ok
    PROVE  CollectionArrives(c, register_state_collection(c).value)
  <1> DEFINE ttl == Bound(c, "ttlSeconds", {c.kind}, "u32")
             keyset == Bound(c, "keysetLimit", {"map", "set"}, "usize")
             capacity == Bound(c, "capacity", {"deque"}, "nonZeroUsize")
             r == register_state_collection(c).value
  <1>1. /\ ttl.ok /\ keyset.ok /\ capacity.ok
        /\ r = [name |-> c.name, kind |-> c.kind, payload |-> c.payload,
                def |-> with_def(c, ttl.value), keyset |-> keyset.value,
                capacity |-> capacity.value]
    BY DEF register_state_collection, parse_keyset_limit, parse_capacity, Converted,
       Rejected
  <1>2. /\ r.name = c.name /\ r.kind = c.kind /\ r.payload = c.payload
        /\ r.def = with_def(c, ttl.value)
        /\ r.keyset = keyset.value /\ r.capacity = capacity.value
    BY <1>1
  <1>3. \A o \in DOMAIN c.options :
          IF o \in {"readUncommitted", "published"} THEN c.options[o] \in FlagValues
                                                    ELSE c.options[o] \in JsNumber
    BY DefinitionTyped
  <1> HIDE DEF r, ttl, keyset, capacity
  <1>4. \E constructor \in Constructors :
          Vended(constructor) = <<r.kind, r.payload>> /\ c.kind = r.kind
    BY <1>2, DefinitionTyped
  <1>5. /\ r.def.ttl = ttl.value
        /\ r.def.uncommitted = (Given(c, "readUncommitted") = {TRUE})
        /\ r.def.published = Given(c, "published")
    BY <1>2 DEF with_def
  <1>6. r.def.uncommitted <=> /\ "readUncommitted" \in DOMAIN c.options
                              /\ c.options["readUncommitted"].on
    BY <1>3, <1>5 DEF Given, FlagValues
  <1>7. r.def.published = {c.options[o].on : o \in {"published"} \cap DOMAIN c.options}
    BY <1>5 DEF Given
  <1> DEFINE Kept(option, got, type) ==
               IF option \in DOMAIN c.options
                 THEN {2 * n : n \in got} = Exact(c.options[option], type) /\ got # {}
                 ELSE got = {}
  <1>8. /\ Kept("ttlSeconds", r.def.ttl, "u32")
        /\ Kept("keysetLimit", r.keyset, "usize")
        /\ Kept("capacity", r.capacity, "nonZeroUsize")
    <2>1. Kept("ttlSeconds", ttl.value, "u32")
      BY <1>1, <1>3, BoundArrives DEF IntTypes, ttl
    <2>2. Kept("keysetLimit", keyset.value, "usize")
      BY <1>1, <1>3, BoundArrives DEF IntTypes, keyset
    <2>3. Kept("capacity", capacity.value, "nonZeroUsize")
      BY <1>1, <1>3, BoundArrives DEF IntTypes, capacity
    <2> QED
      BY <1>2, <1>5, <2>1, <2>2, <2>3
  <1>9. CollectionArrives(c, r)
    BY <1>2, <1>4, <1>6, <1>7, <1>8 DEF CollectionArrives
  <1> QED
    BY <1>9 DEF r

LEMMA CollectionsRegister ==
    ASSUME NEW v, \A k \in DOMAIN v.list : IsDefinition(v.list[k])
    PROVE  IF Registered(v.list).ok
             THEN Arrives(v, "collections", Registered(v.list).value)
             ELSE Meaningless(v, "collections")
  <1>1. CASE Registered(v.list).ok
    <2>1. /\ \A k \in DOMAIN v.list : register_state_collection(v.list[k]).ok
          /\ Registered(v.list).value = [k \in DOMAIN v.list |->
                                           register_state_collection(v.list[k]).value]
      BY <1>1 DEF Registered, Converted, Rejected
    <2>2. \A k \in DOMAIN v.list :
            /\ Registrable(v.list[k])
            /\ CollectionArrives(v.list[k], Registered(v.list).value[k])
      BY <2>1, CollectionRegisters, RegistrableRegisters
    <2> QED
      BY <1>1, <2>1, <2>2 DEF Arrives
  <1>2. CASE ~Registered(v.list).ok
    <2>1. \E k \in DOMAIN v.list : ~register_state_collection(v.list[k]).ok
      BY <1>2 DEF Registered, Converted
    <2> QED
      BY <1>2, <2>1, RegistrableRegisters DEF Meaningless
  <1> QED
    BY <1>1, <1>2

-----------------------------------------------------------------------------
(***************************************************************************)
(* ConfigurationArrives is what Build does to a configuration of options   *)
(* that have their types, field by field.                                  *)
(***************************************************************************)
\* A cache policy is the one that is meant, or there is none.
LEMMA CachePolicyConverts ==
    ASSUME NEW v \in CacheValues
    PROVE  PolicyMeant(v) = IF ReadCachePolicy(v).ok THEN {ReadCachePolicy(v).value} ELSE {}
  <1>1. v.is = "flag" \/ (v.is = "object" /\ v.disabled \in BOOLEAN /\ v.ttl \subseteq JsNumber)
    BY DEF CacheValues, FlagValues
  <1>2. CASE v.is = "flag"
    BY <1>2 DEF ReadCachePolicy, SwitchPolicy, PolicyMeant, Converted, Rejected
  <1>3. CASE v.is # "flag" /\ v.ttl = {}
    BY <1>1, <1>3 DEF ReadCachePolicy, SwitchPolicy, PolicyMeant, Converted, Rejected
  <1>4. CASE v.is # "flag" /\ v.ttl # {} /\ v.disabled = TRUE
    BY <1>4 DEF ReadCachePolicy, PolicyMeant, Converted, Rejected
  <1>5. CASE v.is # "flag" /\ v.ttl # {} /\ v.disabled = FALSE
    <2> DEFINE x == CHOOSE x \in v.ttl : TRUE
    <2>1. x \in JsNumber
      BY <1>1, <1>5
    <2>2. PolicyMeant(v) = {Policy("ttl", {ms}) : ms \in Exact(x, "ms")}
      BY <1>5 DEF PolicyMeant
    <2>3. ReadCachePolicy(v) =
            IF Milliseconds(x).ok THEN Converted(Policy("ttl", {Milliseconds(x).value}))
                                  ELSE Rejected
      BY <1>5 DEF ReadCachePolicy, TtlPolicy
    <2>4. Exact(x, "ms") = IF Milliseconds(x).ok THEN {Milliseconds(x).value} ELSE {}
      BY <2>1, DurationIsExact
    <2> HIDE DEF x
    <2>5. CASE Milliseconds(x).ok
      <3>1. PolicyMeant(v) = {Policy("ttl", {Milliseconds(x).value})}
        BY <2>2, <2>4, <2>5
      <3> QED
        BY <2>3, <2>5, <3>1 DEF Converted
    <2>6. CASE ~Milliseconds(x).ok
      <3>1. PolicyMeant(v) = {}
        BY <2>2, <2>4, <2>6
      <3> QED
        BY <2>3, <2>6, <3>1 DEF Rejected
    <2> QED
      BY <2>5, <2>6
  <1> QED
    BY <1>1, <1>2, <1>3, <1>4, <1>5

\* A value has the type that a form expects.
Typed(v, form) ==
    /\ form \in NumberForms \cup {"cache", "collections", "parsed", "asIs"}
    /\ form \in NumberForms => v \in JsNumber \/ (form = "port" /\ v = Null)
    /\ form = "cache" => v \in CacheValues
    /\ form = "collections" => \A k \in DOMAIN v.list : IsDefinition(v.list[k])

LEMMA FieldsTyped ==
    ASSUME NEW config, IsConfiguration(config), NEW i \in GivenFields(config)
    PROVE  Typed(config[Fields[i].option], Fields[i].form)
  <1> DEFINE o == Fields[i].option
             form == Fields[i].form
             v == config[o]
  <1>1. o \in Options /\ HasType(v, o)
    BY DEF IsConfiguration, GivenFields
  <1>2. Fits(o, form)
    BY FieldsFit DEF GivenFields
  <1> HIDE DEF o, form, v
  <1>3. form \in NumberForms => v \in JsNumber \/ (form = "port" /\ v = Null)
    BY <1>1, <1>2 DEF HasType, Fits
  <1>4. form = "cache" => v \in CacheValues
    BY <1>1, <1>2 DEF HasType, Fits
  <1>5. form = "collections" => \A k \in DOMAIN v.list : IsDefinition(v.list[k])
    <2>1. form = "collections" => o = "stateCollections"
      BY <1>2 DEF Fits
    <2> QED
      BY <1>1, <2>1 DEF HasType
  <1>6. form \in NumberForms \cup {"cache", "collections", "parsed", "asIs"}
    BY <1>2 DEF Fits
  <1>7. Typed(v, form)
    BY <1>3, <1>4, <1>5, <1>6 DEF Typed
  <1> QED
    BY <1>7 DEF o, form, v

\* A number is converted into what it means, if it means something.
LEMMA NumberMeans ==
    ASSUME NEW v \in JsNumber, NEW form \in NumberForms
    PROVE  Meaning(v, form) = IF Convert(v, form).ok THEN {Convert(v, form).value} ELSE {}
  <1>1. v # Null
    BY DEF JsNumber, Null
  <1>2. /\ Convert(v, form).ok <=> Exact(v, form) # {}
        /\ Convert(v, form).ok =>
             Exact(v, form) = IF form \in {"ms", "s"} THEN {Convert(v, form).value}
                                                     ELSE {2 * Convert(v, form).value}
    BY NumbersConvertExactly
  <1>3. CASE form \in {"ms", "s"}
    BY <1>2, <1>3 DEF Meaning, IntTypes
  <1>4. CASE form \in IntTypes \cup {"port"}
    <2>1. Meaning(v, form) = {h \div 2 : h \in Exact(v, form)}
      BY <1>1, <1>4 DEF Meaning, IntTypes
    <2>2. Convert(v, form).ok => /\ Convert(v, form).value \in Nat
                                 /\ (2 * Convert(v, form).value) \div 2 = Convert(v, form).value
      <3>1. ASSUME NEW n \in Nat PROVE (2 * n) \div 2 = n
        OBVIOUS
      <3>2. Convert(v, form) = Whole(v, IF form = "port" THEN "u16" ELSE form)
        BY <1>1, <1>4 DEF Convert, IntTypes, Port, JsNumber
      <3>3. Convert(v, form).ok => Convert(v, form).value \in Nat
        BY <3>2, NumberAssumption DEF Whole, Converted, Rejected, JsNumber
      <3> QED
        BY <3>1, <3>3
    <2> QED
      BY <1>2, <1>4, <2>1, <2>2 DEF IntTypes
  <1> QED
    BY <1>3, <1>4 DEF NumberForms

\* What converts arrives, and what does not convert means nothing.
LEMMA ConvertedArrives ==
    ASSUME NEW v, NEW form, Typed(v, form)
    PROVE  IF Convert(v, form).ok THEN Arrives(v, form, Convert(v, form).value)
                                  ELSE Meaningless(v, form)
  <1>1. CASE form = "collections"
    <2>1. Convert(v, form) = Registered(v.list)
      BY <1>1 DEF Convert, IntTypes
    <2> QED
      BY <1>1, <2>1, CollectionsRegister DEF Typed
  <1>2. CASE form # "collections"
    <2>1. SUFFICES Meaning(v, form) = IF Convert(v, form).ok THEN {Convert(v, form).value}
                                                             ELSE {}
      BY <1>2 DEF Arrives, Meaningless
    <2>2. CASE form \in NumberForms /\ v \in JsNumber
      BY <2>2, NumberMeans
    <2>3. CASE form = "port" /\ v = Null
      BY <2>3 DEF Meaning, Convert, IntTypes, Port, Null, Converted
    <2>4. CASE form = "cache"
      <3>1. Convert(v, form) = ReadCachePolicy(v) /\ Meaning(v, form) = PolicyMeant(v)
        BY <2>4 DEF Convert, Meaning, IntTypes
      <3> QED
        BY <2>4, <3>1, CachePolicyConverts DEF Typed, IntTypes
    <2>5. CASE form = "parsed"
      <3>1. Convert(v, form) = Parsed(v) /\ Meaning(v, form) = {x \in {v} : x.is # "badText"}
        BY <2>5 DEF Convert, Meaning, IntTypes
      <3> QED
        BY <2>5, <3>1 DEF Parsed, Converted, Rejected
    <2>6. CASE form = "asIs"
      BY <2>6 DEF Convert, Meaning, IntTypes, Converted
    <2> QED
      BY <1>2, <2>2, <2>3, <2>4, <2>5, <2>6 DEF Typed
  <1> QED
    BY <1>1, <1>2

LEMMA BuildArrives ==
    ASSUME IsConfiguration(tried), built = Build(tried)
    PROVE  ConfigurationArrives
  <1> DEFINE meant == {d \in Documented : d[1] \in DOMAIN tried}
  <1>1. DOMAIN tried \subseteq Options
    BY DEF IsConfiguration
  <1>2. ASSUME NEW i \in GivenFields(tried)
        PROVE  /\ UseOf(Fields[i]) \in Documented
               /\ UseOf(Fields[i])[1] = Fields[i].option
               /\ UseOf(Fields[i])[2] = Setting(i)[1]
               /\ UseOf(Fields[i])[3] = Setting(i)[2]
               /\ UseOf(Fields[i])[4] = Fields[i].form
               /\ Fields[i].option \in DOMAIN tried
               /\ IF Field(tried, i).ok
                    THEN Arrives(tried[Fields[i].option], Fields[i].form,
                                 Field(tried, i).value)
                    ELSE Meaningless(tried[Fields[i].option], Fields[i].form)
    <2>1. UseOf(Fields[i]) \in Documented
      BY FieldsFit DEF GivenFields
    <2>2. IF Field(tried, i).ok
            THEN Arrives(tried[Fields[i].option], Fields[i].form, Field(tried, i).value)
            ELSE Meaningless(tried[Fields[i].option], Fields[i].form)
      BY FieldsTyped, ConvertedArrives DEF Field
    <2> QED
      BY <2>1, <2>2 DEF UseOf, Use, Setting, GivenFields
  <1>3. ASSUME built.error # "none"
        PROVE  /\ built.error \in DOMAIN tried
               /\ \E d \in Documented :
                     d[1] = built.error /\ Meaningless(tried[built.error], d[4])
    <2>1. PICK i \in GivenFields(tried) :
            built.error = Fields[i].option /\ ~Field(tried, i).ok
      BY <1>3, BuildRefuses
    <2>2. UseOf(Fields[i]) \in Documented
      BY <1>2
    <2> QED
      BY <1>2, <2>1, <2>2
  <1>4. ASSUME built.error = "none"
        PROVE  /\ DOMAIN tried \subseteq {d[1] : d \in Documented}
               /\ DOMAIN built.settings = {<<d[2], d[3]>> : d \in meant}
               /\ \A d \in meant : Arrives(tried[d[1]], d[4], built.settings[<<d[2], d[3]>>])
    <2>1. DOMAIN tried \subseteq {d[1] : d \in Documented}
      BY <1>1, FieldsFit
    <2>2. /\ DOMAIN built.settings = {Setting(i) : i \in GivenFields(tried)}
          /\ \A i \in GivenFields(tried) :
               /\ Field(tried, i).ok
               /\ built.settings[Setting(i)] = Field(tried, i).value
      BY <1>1, <1>4, BuildAccepts
    <2>3. ASSUME NEW i \in GivenFields(tried)
          PROVE  /\ UseOf(Fields[i]) \in meant
                 /\ Setting(i) = <<UseOf(Fields[i])[2], UseOf(Fields[i])[3]>>
      BY <1>2 DEF Setting
    <2>4. ASSUME NEW d \in meant
          PROVE  \E i \in GivenFields(tried) : UseOf(Fields[i]) = d
      <3>1. PICK i \in DOMAIN Fields : UseOf(Fields[i]) = d
        BY FieldsFit
      <3>2. d[1] = Fields[i].option
        BY <3>1 DEF UseOf, Use
      <3> QED
        BY <3>1, <3>2 DEF GivenFields
    <2>5. DOMAIN built.settings = {<<d[2], d[3]>> : d \in meant}
      BY <2>2, <2>3, <2>4, Zenon
    <2>6. ASSUME NEW d \in meant
          PROVE  Arrives(tried[d[1]], d[4], built.settings[<<d[2], d[3]>>])
      <3>1. PICK i \in GivenFields(tried) : UseOf(Fields[i]) = d
        BY <2>4
      <3>2. /\ d[1] = Fields[i].option /\ d[4] = Fields[i].form
            /\ <<d[2], d[3]>> = Setting(i)
        BY <3>1, <1>2, <2>3
      <3> QED
        BY <1>2, <2>2, <3>2
    <2> QED
      BY <2>1, <2>5, <2>6
  <1> QED
    BY <1>3, <1>4 DEF ConfigurationArrives

\* The inductive invariant behind ConfigurationArrives: what the builders hold
\* is made from the configuration that create was tried with, and from it alone.
BuildInv == IsConfiguration(tried) /\ built = Build(tried)

LEMMA NothingTried == IsConfiguration(<< >>)
  BY DEF IsConfiguration

LEMMA StepKeepsBuild == BuildInv /\ [ClientNext]_allVars => BuildInv'
  <1> SUFFICES ASSUME BuildInv, [ClientNext]_allVars PROVE BuildInv'
    OBVIOUS
  <1>1. CASE Create
    <2>1. PICK config \in Configs : tried' = config /\ built' = Build(config)
      BY <1>1 DEF Create
    <2> QED
      BY <2>1, ClientAssumption DEF BuildInv
  <1>2. CASE CoreBuilds
    <2>1. CASE tried' = << >> /\ built' = Build(<< >>)
      BY <2>1, NothingTried DEF BuildInv
    <2>2. CASE UNCHANGED <<tried, built>>
      BY <2>2 DEF BuildInv
    <2> QED
      BY <1>2, <2>1, <2>2 DEF CoreBuilds
  <1>3. CASE UNCHANGED <<tried, built>>
    BY <1>3 DEF BuildInv
  <1>4. ASSUME NEW c \in Calls, CallStep(c) \/ FinishCall(c)
        PROVE  UNCHANGED <<tried, built>>
    BY <1>4 DEF CallStep, FinishCall, clientVars, buildVars
  <1>5. ASSUME NEW u \in Controls,
               \/ AskControl(u) \/ RefuseHandler(u) \/ Subscribe(u)
               \/ Unsubscribe(u) \/ consumer_state(u)
        PROVE  UNCHANGED <<tried, built>>
    BY <1>5 DEF AskControl, RefuseHandler, Subscribe, Unsubscribe, consumer_state, Tell,
       buildVars
  <1>6. ASSUME \/ \E d \in Closers : CallShutdown(d) \/ ReturnShutdown(d)
               \/ CoreShutsDown \/ AbortCalls
        PROVE  UNCHANGED <<tried, built>>
    BY <1>6 DEF CallShutdown, ReturnShutdown, CoreShutsDown, AbortCalls, clientVars,
       buildVars
  <1>7. ASSUME OpenReader \/ ScanMap \/ ScanSet \/ ScanDeque \/ DropReader
        PROVE  UNCHANGED <<tried, built>>
    BY <1>7 DEF OpenReader, ScanMap, ScanSet, ScanDeque, ScanReader, DropReader, buildVars
  <1>8. ASSUME AtRest \/ UNCHANGED allVars
        PROVE  UNCHANGED <<tried, built>>
    BY <1>8 DEF AtRest, allVars, clientVars
  <1> QED
    BY <1>1, <1>2, <1>3, <1>4, <1>5, <1>6, <1>7, <1>8 DEF ClientNext

\* Whatever create is tried with, the core is given what the caller asked for:
\* a refused configuration holds a value that means nothing in the unit of its
\* option, an accepted one is given to every setting that its options are
\* documented for, with its meaning there, and sets nothing else.
THEOREM ConfigurationIsKept == ClientSpec => []ConfigurationArrives
  <1>1. ClientInit => BuildInv
    BY NothingTried DEF ClientInit, BuildInv
  <1>2. BuildInv => ConfigurationArrives
    BY BuildArrives DEF BuildInv
  <1> QED
    BY <1>1, <1>2, StepKeepsBuild, PTL DEF ClientSpec

-----------------------------------------------------------------------------
(***************************************************************************)
(* Responses. A request holds nothing until it settles, and then what its  *)
(* subsystems replied.                                                     *)
(***************************************************************************)
\* The outcome of a subsystem is made from its own reply.
LEMMA OutcomesMatchReplies ==
    /\ DOMAIN responseOutcomes(Replies) = Subsystems
    /\ \A i \in DOMAIN Replies :
         LET reply == Replies[i][2]  got == responseOutcomes(Replies)[Replies[i][1]] IN
         /\ got = "ok" <=> reply = "json"
         /\ got = "malformedResponse" <=> reply \in {"text", "bytes"}
         /\ reply \in {"handler", "timeout", "formatMismatch"} => got = reply
  <1> DEFINE outcomeOf(reply) ==
               IF native_outcome(reply) = "json" THEN "ok"
               ELSE IF native_outcome(reply) = "text" THEN "malformedResponse"
               ELSE native_outcome(reply)
  <1>1. DOMAIN responseOutcomes(Replies) = Subsystems
    BY DEF responseOutcomes, Subsystems
  <1>2. ASSUME NEW i \in DOMAIN Replies
        PROVE  responseOutcomes(Replies)[Replies[i][1]] = outcomeOf(Replies[i][2])
    <2>1. (CHOOSE j \in DOMAIN Replies : Replies[j][1] = Replies[i][1]) = i
      BY ClientAssumption
    <2> QED
      BY <2>1 DEF responseOutcomes
  <1>3. ASSUME NEW reply \in {"json", "text", "bytes", "handler", "timeout",
                              "formatMismatch"}
        PROVE  /\ outcomeOf(reply) = "ok" <=> reply = "json"
               /\ outcomeOf(reply) = "malformedResponse" <=> reply \in {"text", "bytes"}
               /\ reply \in {"handler", "timeout", "formatMismatch"} =>
                     outcomeOf(reply) = reply
    BY DEF native_outcome
  <1>4. \A i \in DOMAIN Replies :
          Replies[i][2] \in {"json", "text", "bytes", "handler", "timeout",
                            "formatMismatch"}
    BY ClientAssumption
  <1> HIDE DEF outcomeOf
  <1> QED
    BY <1>1, <1>2, <1>3, <1>4

\* The inductive invariant behind ResponsesKept.
ResponseInv ==
    /\ response = [c \in Calls |-> response[c]]
    /\ \A c \in Calls : outcome[c] # "ok" => response[c] = << >>
    /\ \A c \in Requests : outcome[c] = "ok" => response[c] = responseOutcomes(Replies)

LEMMA StepKeepsResponses ==
    CallInv /\ ResponseInv /\ [ClientNext]_allVars => ResponseInv'
  <1> SUFFICES ASSUME CallInv, ResponseInv, [ClientNext]_allVars PROVE ResponseInv'
    OBVIOUS
  <1>1. /\ outcome \in [Calls -> {"none", "ok", "failed", "aborted", "refused"}]
        /\ \A c \in Calls : call[c] \in {"idle", "settled"} => outcome[c] = "none"
    BY CallByCall DEF TypeOK, CallFacts
  <1>2. ASSUME NEW c \in Calls, CallStep(c) PROVE ResponseInv'
    <2>1. UNCHANGED response
      BY <1>2 DEF CallStep, clientVars
    <2>2. CASE RefuseArguments(c)
      <3>1. outcome[c] = "none" /\ outcome' = [outcome EXCEPT ![c] = "refused"]
        BY <1>1, <2>2 DEF RefuseArguments
      <3> QED
        BY <1>1, <2>1, <3>1, ClientAssumption DEF ResponseInv
    <2>3. CASE outcome' = outcome
      BY <2>1, <2>3 DEF ResponseInv
    <2> QED
      BY <1>2, <2>2, <2>3 DEF CallStep, StartCall, RefuseRequest, HearAbort, Publish,
         SelectAnswer, SelectAbort, HandOff
  <1>3. ASSUME NEW c \in Calls, FinishCall(c) PROVE ResponseInv'
    <2>1. /\ outcome[c] = "none" /\ outcome' = [outcome EXCEPT ![c] = result[c]]
          /\ response' = [response EXCEPT ![c] =
                            IF c \in Requests /\ outcome'[c] = "ok"
                              THEN responseOutcomes(Replies) ELSE @]
      BY <1>1, <1>3 DEF FinishCall, Finish
    <2>2. DOMAIN response = Calls /\ outcome'[c] = result[c]
      BY <1>1, <2>1 DEF ResponseInv
    <2>3. \A d \in Calls \ {c} : outcome'[d] = outcome[d] /\ response'[d] = response[d]
      BY <1>1, <2>1, <2>2
    <2>4. response'[c] = IF c \in Requests /\ result[c] = "ok"
                           THEN responseOutcomes(Replies) ELSE << >>
      BY <2>1, <2>2 DEF ResponseInv
    <2>5. response' = [d \in Calls |-> response'[d]]
      BY <2>1, <2>2
    <2> QED
      BY <2>2, <2>3, <2>4, <2>5, ClientAssumption DEF ResponseInv
  <1>4. ASSUME UNCHANGED <<outcome, response>> PROVE ResponseInv'
    BY <1>4 DEF ResponseInv
  <1>5. ASSUME AbortCalls \/ Create \/ CoreBuilds
        PROVE  UNCHANGED <<outcome, response>>
    BY <1>5 DEF AbortCalls, Abort, Create, CoreBuilds, vars, clientVars
  <1>6. ASSUME NEW u \in Controls,
               \/ AskControl(u) \/ RefuseHandler(u) \/ Subscribe(u)
               \/ Unsubscribe(u) \/ consumer_state(u)
        PROVE  UNCHANGED <<outcome, response>>
    BY <1>6 DEF AskControl, RefuseHandler, Subscribe, Unsubscribe, consumer_state, Tell,
       vars
  <1>7. ASSUME \/ \E d \in Closers : CallShutdown(d) \/ ReturnShutdown(d)
               \/ CoreShutsDown
        PROVE  UNCHANGED <<outcome, response>>
    BY <1>7 DEF CallShutdown, ReturnShutdown, CoreShutsDown, vars
  <1>8. ASSUME OpenReader \/ ScanMap \/ ScanSet \/ ScanDeque \/ DropReader
        PROVE  UNCHANGED <<outcome, response>>
    BY <1>8 DEF OpenReader, ScanMap, ScanSet, ScanDeque, ScanReader, DropReader, vars
  <1>9. ASSUME AtRest \/ UNCHANGED allVars
        PROVE  UNCHANGED <<outcome, response>>
    BY <1>9 DEF AtRest, allVars, vars, clientVars
  <1> QED
    BY <1>2, <1>3, <1>4, <1>5, <1>6, <1>7, <1>8, <1>9 DEF ClientNext

\* A request that resolves has one outcome for each subsystem that replied, made
\* from the reply of that subsystem alone; one that does not resolve has none.
THEOREM ResponsesAreKept == ClientSpec => []ResponsesKept
  <1>1. ClientInit => ResponseInv
    BY ClientAssumption DEF ClientInit, Init, ResponseInv
  <1>2. ResponseInv => ResponsesKept
    BY OutcomesMatchReplies, ClientAssumption DEF ResponseInv, ResponsesKept
  <1> QED
    BY <1>1, <1>2, StepKeepsResponses, ClientCallInvariant, PTL DEF ClientSpec

-----------------------------------------------------------------------------
(***************************************************************************)
(* The order of a scan. The rank of a member is the number of members      *)
(* before it; no two have the same, so that the ranks are all the numbers  *)
(* below the size of the set, and the members in their order are each of   *)
(* them once.                                                              *)
(***************************************************************************)
Rank(q, s, x) == Cardinality({y \in s : Follows(q, x, y)})

LEMMA FollowsIsOrder ==
    ASSUME NEW q, NEW x \in Int, NEW y \in Int
    PROVE  /\ ~Follows(q, x, x)
           /\ Follows(q, x, y) => ~Follows(q, y, x)
           /\ x = y \/ Follows(q, x, y) \/ Follows(q, y, x)
           /\ \A z \in Int : Follows(q, x, y) /\ Follows(q, y, z) => Follows(q, x, z)
  BY DEF Follows

LEMMA RanksGrow ==
    ASSUME NEW q, NEW s, IsFiniteSet(s), s \subseteq Int, NEW x \in s
    PROVE  /\ Rank(q, s, x) \in 0 .. Cardinality(s) - 1
           /\ \A y \in s : Follows(q, x, y) => Rank(q, s, y) < Rank(q, s, x)
  <1> DEFINE before(y) == {z \in s : Follows(q, y, z)}
  <1>1. ASSUME NEW y \in s
        PROVE  IsFiniteSet(before(y)) /\ Cardinality(before(y)) \in Nat
    BY FS_Subset, FS_CardinalityType
  <1>2. ASSUME NEW y \in s, NEW t, IsFiniteSet(t), before(y) \cup {y} \subseteq t
        PROVE  Cardinality(before(y)) < Cardinality(t)
    <2>1. y \notin before(y)
      BY FollowsIsOrder
    <2>2. /\ IsFiniteSet(before(y) \cup {y})
          /\ Cardinality(before(y) \cup {y}) = Cardinality(before(y)) + 1
      BY <1>1, <2>1, FS_AddElement
    <2>3. Cardinality(before(y) \cup {y}) <= Cardinality(t) /\ Cardinality(t) \in Nat
      BY <1>2, FS_Subset, FS_CardinalityType
    <2> HIDE DEF before
    <2> QED
      BY <1>1, <2>2, <2>3
  <1>3. Cardinality(before(x)) < Cardinality(s) /\ Cardinality(s) \in Nat
    BY <1>2, FS_CardinalityType
  <1>4. ASSUME NEW y \in s, Follows(q, x, y)
        PROVE  Cardinality(before(y)) < Cardinality(before(x))
    <2>1. before(y) \cup {y} \subseteq before(x)
      BY <1>4, FollowsIsOrder
    <2> QED
      BY <1>1, <1>2, <2>1
  <1> QED
    BY <1>1, <1>3, <1>4 DEF Rank

LEMMA InOrderEnumerates ==
    ASSUME NEW q, NEW s, IsFiniteSet(s), s \subseteq Int
    PROVE  /\ Cardinality(s) \in Nat
           /\ InOrder(q, s) \in [1 .. Cardinality(s) -> s]
           /\ \A x \in s : \E i \in 1 .. Cardinality(s) : InOrder(q, s)[i] = x
           /\ \A i, j \in 1 .. Cardinality(s) :
                i < j => Follows(q, InOrder(q, s)[j], InOrder(q, s)[i])
  <1> DEFINE n == Cardinality(s)
             rank == [x \in s |-> Rank(q, s, x)]
             all == InOrder(q, s)
  <1>1. n \in Nat /\ IsFiniteSet(0 .. n - 1) /\ Cardinality(0 .. n - 1) = n
    <2>1. n \in Nat
      BY FS_CardinalityType
    <2> HIDE DEF n
    <2> QED
      BY <2>1, FS_Interval
  <1>2. ASSUME NEW x \in s
        PROVE  /\ Rank(q, s, x) \in Int /\ 0 <= Rank(q, s, x) /\ Rank(q, s, x) < n
               /\ \A y \in s : Follows(q, x, y) => Rank(q, s, y) < Rank(q, s, x)
    <2>1. /\ Rank(q, s, x) \in 0 .. n - 1
          /\ \A y \in s : Follows(q, x, y) => Rank(q, s, y) < Rank(q, s, x)
      BY RanksGrow
    <2> HIDE DEF n
    <2> QED
      BY <1>1, <2>1
  <1>3. ASSUME NEW x \in s, NEW y \in s, Rank(q, s, x) = Rank(q, s, y) PROVE x = y
    <2>1. ~(Rank(q, s, x) < Rank(q, s, y)) /\ ~(Rank(q, s, y) < Rank(q, s, x))
      BY <1>2, <1>3
    <2>2. ~Follows(q, x, y) /\ ~Follows(q, y, x)
      BY <1>2, <2>1
    <2>3. x \in Int /\ y \in Int
      OBVIOUS
    <2> QED
      BY <2>2, <2>3, FollowsIsOrder
  <1>4. rank \in Injection(s, 0 .. n - 1)
    <2>1. rank \in [s -> 0 .. n - 1]
      BY <1>1, <1>2
    <2>2. \A x, y \in s : rank[x] = rank[y] => x = y
      BY <1>3
    <2> QED
      BY <2>1, <2>2 DEF Injection, IsInjective
  <1>5. rank \in Surjection(s, 0 .. n - 1)
    BY <1>1, <1>4, FS_Injection
  <1>6. ASSUME NEW k \in 0 .. n - 1 PROVE \E x \in s : Rank(q, s, x) = k
    BY <1>5 DEF Surjection
  <1> HIDE DEF n, rank
  <1>7. all = [i \in 1 .. n |-> CHOOSE x \in s : Rank(q, s, x) = i - 1]
    BY DEF InOrder, Rank, n
  <1>8. ASSUME NEW i \in 1 .. n PROVE all[i] \in s /\ Rank(q, s, all[i]) = i - 1
    <2>1. i - 1 \in 0 .. n - 1
      BY <1>1
    <2>2. \E x \in s : Rank(q, s, x) = i - 1
      BY <1>6, <2>1
    <2> QED
      BY <1>7, <2>2
  <1>9. ASSUME NEW x \in s PROVE \E i \in 1 .. n : all[i] = x
    <2> DEFINE i == Rank(q, s, x) + 1
    <2>1. i \in 1 .. n /\ i - 1 = Rank(q, s, x)
      BY <1>1, <1>2
    <2>2. all[i] \in s /\ Rank(q, s, all[i]) = Rank(q, s, x)
      BY <1>8, <2>1
    <2>3. all[i] = x
      BY <1>3, <2>2
    <2> QED
      BY <2>1, <2>3
  <1>10. ASSUME NEW i \in 1 .. n, NEW j \in 1 .. n, i < j
         PROVE  Follows(q, all[j], all[i])
    <2>1. /\ all[i] \in s /\ Rank(q, s, all[i]) = i - 1
          /\ all[j] \in s /\ Rank(q, s, all[j]) = j - 1
      BY <1>8
    <2>2. ~Follows(q, all[i], all[j])
      <3>1. ~(Rank(q, s, all[j]) < Rank(q, s, all[i]))
        BY <1>10, <2>1
      <3> QED
        BY <1>2, <2>1, <3>1
    <2>3. all[i] # all[j]
      BY <1>1, <1>10, <2>1
    <2>4. all[i] \in Int /\ all[j] \in Int
      BY <2>1
    <2> QED
      BY <2>2, <2>3, <2>4, FollowsIsOrder
  <1>11. all \in [1 .. n -> s]
    BY <1>7, <1>8
  <1> QED
    BY <1>1, <1>9, <1>10, <1>11 DEF n

\* What is selected is the beginning of the members in their order, up to the
\* limit or to their end.
LEMMA SelectTakesFirst ==
    ASSUME NEW q, NEW contents, IsFiniteSet(contents), contents \subseteq Int,
           q.limit = {} \/ \E m \in Nat : q.limit = {m}
    PROVE  LET s == {x \in contents : Within(q, x)}
               items == Select(q, contents) IN
           /\ Len(items) \in 0 .. Cardinality(s) /\ DOMAIN items = 1 .. Len(items)
           /\ \A i \in 1 .. Len(items) : items[i] = InOrder(q, s)[i]
           /\ q.limit = {} => Len(items) = Cardinality(s)
           /\ \A m \in q.limit : /\ Len(items) <= m
                                 /\ Len(items) < m => Len(items) = Cardinality(s)
  <1> DEFINE s == {x \in contents : Within(q, x)}
             n == Cardinality(s)
             all == InOrder(q, s)
             sizes == q.limit \cup {n}
             least == CHOOSE k \in sizes : \A m \in sizes : k <= m
  <1>1. IsFiniteSet(s) /\ s \subseteq Int
    BY FS_Subset
  <1> HIDE DEF s
  <1>2. n \in Nat /\ all \in [1 .. n -> s]
    BY <1>1, InOrderEnumerates
  <1> HIDE DEF n
  <1>3. Len(all) = n
    BY <1>2, SeqDef, LenProperties
  <1>4. least \in sizes /\ \A m \in sizes : least <= m
    <2>1. sizes # {} /\ sizes \subseteq Nat
      BY <1>2
    <2>2. \E k \in sizes : \A m \in sizes : k <= m
      BY <2>1, LeastElement
    <2> QED
      BY <2>2
  <1>5. Select(q, contents) = SubSeq(all, 1, least)
    BY <1>3 DEF Select, s
  <1> HIDE DEF least, all
  <1>6. /\ least \in 0 .. n
        /\ q.limit = {} => least = n
        /\ \A m \in q.limit : least <= m /\ (least < m => least = n)
    <2>1. CASE q.limit = {}
      BY <1>2, <1>4, <2>1
    <2>2. ASSUME NEW m \in Nat, q.limit = {m}
          PROVE  least \in 0 .. n /\ least <= m /\ (least < m => least = n)
      <3>1. least \in {m, n} /\ least <= m /\ least <= n
        BY <1>4, <2>2
      <3> QED
        BY <1>2, <3>1
    <2> QED
      BY <2>1, <2>2
  <1>7. /\ SubSeq(all, 1, least) \in Seq(s) /\ Len(SubSeq(all, 1, least)) = least
        /\ \A i \in 1 .. least : SubSeq(all, 1, least)[i] = all[i]
    <2>1. \A i \in 1 .. least : all[i] \in s
      BY <1>2, <1>6
    <2>2. least \in Int
      BY <1>6
    <2>3. /\ SubSeq(all, 1, least) \in Seq(s)
          /\ Len(SubSeq(all, 1, least)) = IF 1 <= least THEN least - 1 + 1 ELSE 0
          /\ \A i \in 1 .. least - 1 + 1 : SubSeq(all, 1, least)[i] = all[1 + i - 1]
      BY <2>1, <2>2, SubSeqProperties
    <2> QED
      BY <1>2, <1>6, <2>3
  <1>8. DOMAIN SubSeq(all, 1, least) = 1 .. least
    BY <1>7, LenProperties
  <1> QED
    BY <1>5, <1>6, <1>7, <1>8 DEF s, n, all

-----------------------------------------------------------------------------
(***************************************************************************)
(* Queries. Options that JavaScript lets through convert, and the query    *)
(* they make selects what they ask for.                                    *)
(***************************************************************************)
LetThrough(kind, o) == IF kind = "deque" THEN positionQuery(o) ELSE keyQuery(o)

LEMMA CheckedCountConverts ==
    ASSUME NEW v \in QueryValues, NEW min \in Nat, checkCount(v, min)
    PROVE  Whole(v, "usize").ok
  <1>1. /\ v.is = "finite" /\ v.halves % 2 = 0 /\ v.halves \in Int
        /\ 0 <= v.halves /\ v.halves <= 2 * MaxSafe
    BY DEF checkCount, QueryValues
  <1>2. MaxSafe \in Nat /\ MaxOf["usize"] \in Nat /\ MaxSafe < MaxOf["usize"]
    BY NumberAssumption, QueryAssumption DEF IntTypes
  <1>3. v.halves \in 0 .. 2 * MaxOf["usize"] + 1 /\ v.halves \div 2 <= MaxOf["usize"]
    BY <1>1, <1>2
  <1> QED
    BY <1>1, <1>3 DEF Whole, Converted

LEMMA LetThroughConverts ==
    ASSUME NEW kind, NEW o, IsOptions(o), LetThrough(kind, o)
    PROVE  (IF kind = "deque" THEN PositionIntoQuery(o) ELSE KeyIntoQuery(o))
             = Converted(Query(o))
  <1>1. Has(o, "limit") => Whole(o.limit, "usize").ok
    <2>1. Has(o, "limit") => o.limit \in QueryValues /\ checkCount(o.limit, 1)
      BY DEF LetThrough, positionQuery, keyQuery, queryOptions, IsOptions, Has
    <2> QED
      BY <2>1, CheckedCountConverts
  <1>2. CASE kind = "deque"
    <2>1. ASSUME NEW f \in Edges, Has(o, f) PROVE Whole(o[f], "usize").ok
      <3>1. o[f] \in QueryValues /\ checkCount(o[f], 0)
        BY <1>2, <2>1 DEF LetThrough, positionQuery, IsOptions, Has
      <3> QED
        BY <3>1, CheckedCountConverts
    <2>2. ASSUME NEW b \in rangeBounds(o) PROVE Whole(b, "usize").ok
      <3>1. checkCount(b, 0)
        BY <1>2 DEF LetThrough, positionQuery
      <3>2. b \in QueryValues
        <4>1. /\ Has(o, "range") /\ b \in {o.range[1], o.range[2]}
              /\ o.range \in Seq(QueryValues) /\ Len(o.range) = 2
          BY <1>2 DEF rangeBounds, LetThrough, positionQuery, queryOptions, IsOptions, Has
        <4>2. o.range[1] \in QueryValues /\ o.range[2] \in QueryValues
          BY <4>1, ElementOfSeq
        <4> QED
          BY <4>1, <4>2
      <3> QED
        BY <3>1, <3>2, CheckedCountConverts
    <2>3. \A v \in (UNION {Opt(o, f) : f \in Edges \cup {"limit"}}) \cup rangeBounds(o) :
            Whole(v, "usize").ok
      BY <1>1, <2>1, <2>2 DEF Opt
    <2> QED
      BY <1>2, <2>3 DEF PositionIntoQuery
  <1>3. CASE kind # "deque"
    BY <1>1, <1>3 DEF KeyIntoQuery, Opt
  <1> QED
    BY <1>2, <1>3

\* What a scan answers unless it is refused.
LEMMA ScanSelects ==
    ASSUME NEW kind, NEW o, IsOptions(o), Scan(kind, o, Contents).is # "refused"
    PROVE  /\ LetThrough(kind, o)
           /\ Scan(kind, o, Contents) =
                [is |-> "selected", items |-> Select(Query(o), Contents)]
  <1>1. LetThrough(kind, o)
    BY DEF Scan, LetThrough
  <1> DEFINE native == IF kind = "deque" THEN PositionIntoQuery(o) ELSE KeyIntoQuery(o)
  <1>2. native = Converted(Query(o))
    BY <1>1, LetThroughConverts
  <1>3. Scan(kind, o, Contents) =
          IF native.ok THEN [is |-> "selected", items |-> Select(native.value, Contents)]
                       ELSE [is |-> "failed", items |-> << >>]
    BY <1>1 DEF Scan, LetThrough
  <1> HIDE DEF native
  <1>4. native.ok /\ native.value = Query(o)
    BY <1>2 DEF Converted
  <1> QED
    BY <1>1, <1>3, <1>4

\* An option and a bound of a range as numbers, if they are set.
Number(o, f) == {o[g].halves \div 2 : g \in {f} \cap DOMAIN o}

RangeNumber(o, i) == IF Has(o, "range") /\ o.range[i] # Open
                       THEN {o.range[i].halves \div 2} ELSE {}

LEMMA QueryEdges ==
    ASSUME NEW kind, NEW o, IsOptions(o), LetThrough(kind, o)
    PROVE  /\ Query(o).direction = Direction(o) /\ Direction(o) \in {"forward", "backward"}
           /\ \A f \in Edges : Query(o).edge[f] = Number(o, f) /\ Number(o, f) \subseteq Int
           /\ Query(o).range.start = RangeNumber(o, 1) /\ RangeNumber(o, 1) \subseteq Int
           /\ Query(o).range.end = RangeNumber(o, 2) /\ RangeNumber(o, 2) \subseteq Int
           /\ Query(o).prefix = Number(o, "prefix")
           /\ Query(o).limit = Number(o, "limit")
  <1> DEFINE set(f) == {v.halves \div 2 : v \in Opt(o, f)}
  <1>1. /\ Query(o).direction = Direction(o)
        /\ Query(o).edge = [f \in Edges |-> set(f)]
        /\ Query(o).range = half_open(IF Has(o, "range") THEN o.range ELSE <<Open, Open>>)
        /\ Query(o).prefix = set("prefix")
        /\ Query(o).limit = set("limit")
    BY DEF Query
  <1>2. ASSUME NEW f PROVE set(f) = Number(o, f)
    BY DEF Opt, Has, Number
  <1>3. ASSUME NEW f \in Edges, Has(o, f) PROVE o[f].halves \div 2 \in Int
    <2>1. o[f] \in QueryValues
      BY <1>3 DEF IsOptions, Has
    <2>2. o[f].halves \in Int
      BY <2>1 DEF QueryValues
    <2> QED
      BY <2>2
  <1>4. queryOptions(o, KEY_QUERY_FIELDS) \/ queryOptions(o, POSITION_QUERY_FIELDS)
    BY DEF LetThrough, keyQuery, positionQuery
  <1>5. Direction(o) \in {"forward", "backward"}
    BY <1>4 DEF queryOptions, Direction
  <1>6. ASSUME Has(o, "range")
        PROVE  o.range[1].halves \div 2 \in Int /\ o.range[2].halves \div 2 \in Int
    <2>1. o.range \in Seq(QueryValues) /\ Len(o.range) = 2
      BY <1>4, <1>6 DEF queryOptions, IsOptions, Has
    <2>2. o.range[1] \in QueryValues /\ o.range[2] \in QueryValues
      BY <2>1, ElementOfSeq
    <2>3. o.range[1].halves \in Int /\ o.range[2].halves \in Int
      BY <2>2 DEF QueryValues
    <2> QED
      BY <2>3
  <1>7. Query(o).range.start = RangeNumber(o, 1) /\ Query(o).range.end = RangeNumber(o, 2)
    <2>1. CASE Has(o, "range")
      <3>1. Query(o).range = half_open(o.range)
        BY <1>1, <2>1
      <3> QED
        BY <2>1, <3>1 DEF half_open, RangeNumber
    <2>2. CASE ~Has(o, "range")
      <3>1. Query(o).range = half_open(<<Open, Open>>)
        BY <1>1, <2>2
      <3> QED
        BY <2>2, <3>1 DEF half_open, RangeNumber
    <2> QED
      BY <2>1, <2>2
  <1>8. RangeNumber(o, 1) \subseteq Int /\ RangeNumber(o, 2) \subseteq Int
    BY <1>6 DEF RangeNumber
  <1>9. \A f \in Edges : Number(o, f) \subseteq Int
    BY <1>3 DEF Number, Has
  <1> HIDE DEF set
  <1> QED
    BY <1>1, <1>2, <1>5, <1>7, <1>8, <1>9

LEMMA WithinIsAsked ==
    ASSUME NEW kind, NEW o, IsOptions(o), LetThrough(kind, o)
    PROVE  {x \in Contents : Within(Query(o), x)} = Asked(kind, o)
  <1> DEFINE q == Query(o)
             prefixed(x) == Has(o, "prefix") => x \in Prefixed[o["prefix"].halves \div 2]
             low == Number(o, IF Direction(o) = "forward" THEN "from" ELSE "to")
             above == Number(o, IF Direction(o) = "forward" THEN "after" ELSE "before")
             high == Number(o, IF Direction(o) = "forward" THEN "to" ELSE "from")
             below == Number(o, IF Direction(o) = "forward" THEN "before" ELSE "after")
  <1>1. Asked(kind, o) = {x \in Contents :
          /\ \A y \in low \cup RangeNumber(o, 1) : y <= x
          /\ \A y \in above : y < x
          /\ \A y \in high : x <= y
          /\ \A y \in below \cup RangeNumber(o, 2) : x < y
          /\ prefixed(x)}
    BY DEF Asked, Number, RangeNumber
  <1>2. ASSUME NEW x \in Contents
        PROVE  (\A p \in q.prefix : x \in Prefixed[p]) <=> prefixed(x)
    <2>1. q.prefix = Number(o, "prefix")
      BY QueryEdges
    <2> QED
      BY <2>1 DEF Number, Has
  <1>3. /\ q.direction = Direction(o) /\ Direction(o) \in {"forward", "backward"}
        /\ q.edge.from = Number(o, "from") /\ q.edge.after = Number(o, "after")
        /\ q.edge.to = Number(o, "to") /\ q.edge.before = Number(o, "before")
        /\ q.range.start = RangeNumber(o, 1) /\ q.range.end = RangeNumber(o, 2)
    BY QueryEdges DEF Edges
  <1>4. /\ Number(o, "from") \subseteq Int /\ Number(o, "after") \subseteq Int
        /\ Number(o, "to") \subseteq Int /\ Number(o, "before") \subseteq Int
        /\ RangeNumber(o, 1) \subseteq Int /\ RangeNumber(o, 2) \subseteq Int
        /\ Contents \subseteq Int
    BY QueryEdges, ClientAssumption DEF Edges
  <1> HIDE DEF q, prefixed
  <1>5. ASSUME NEW x \in Contents PROVE Within(q, x) <=> x \in Asked(kind, o)
    <2>1. CASE Direction(o) = "forward"
      BY <1>1, <1>2, <1>3, <1>4, <2>1 DEF Within, Follows
    <2>2. CASE Direction(o) = "backward"
      BY <1>1, <1>2, <1>3, <1>4, <2>2 DEF Within, Follows
    <2> QED
      BY <1>3, <2>1, <2>2
  <1> QED
    BY <1>1, <1>5 DEF q

\* What a scan answers to options that JavaScript lets through.
ScanHonoured(kind, o, answer) ==
    answer.is # "refused" =>
        LET items == answer.items
            got == {items[i] : i \in DOMAIN items}
            asks == Asked(kind, o)
            before(x, y) == IF Direction(o) = "forward" THEN x < y ELSE x > y IN
        /\ answer.is = "selected"
        /\ \A i, j \in DOMAIN items : i < j => before(items[i], items[j])
        /\ got \subseteq asks
        /\ \A x \in asks \ got : \A y \in got : before(y, x)
        /\ IF Has(o, "limit") THEN /\ 2 * Len(items) <= o["limit"].halves
                                  /\ 2 * Len(items) < o["limit"].halves => got = asks
                             ELSE got = asks

LEMMA ScanIsHonoured ==
    ASSUME NEW kind, NEW o, IsOptions(o)
    PROVE  ScanHonoured(kind, o, Scan(kind, o, Contents))
  <1> DEFINE answer == Scan(kind, o, Contents)
             q == Query(o)
             items == Select(q, Contents)
             asks == Asked(kind, o)
             n == Cardinality(asks)
             all == InOrder(q, asks)
             m == Len(items)
             before(x, y) == IF Direction(o) = "forward" THEN x < y ELSE x > y
             got == {items[i] : i \in DOMAIN items}
  <1> SUFFICES ASSUME answer.is # "refused" PROVE ScanHonoured(kind, o, answer)
    BY DEF ScanHonoured
  <1>1. /\ LetThrough(kind, o)
        /\ answer = [is |-> "selected", items |-> items]
    BY ScanSelects
  <1>2. /\ {x \in Contents : Within(q, x)} = asks
        /\ q.direction = Direction(o) /\ q.limit = Number(o, "limit")
    BY <1>1, QueryEdges, WithinIsAsked
  <1>3. IsFiniteSet(Contents) /\ Contents \subseteq Int
    BY ClientAssumption
  <1>4. IsFiniteSet(asks) /\ asks \subseteq Int
    <2>1. asks \subseteq Contents
      BY <1>2
    <2> QED
      BY <1>3, <2>1, FS_Subset
  <1>5. /\ Has(o, "limit") =>
             \E k \in Nat : o.limit.halves = 2 * k /\ Number(o, "limit") = {k}
        /\ ~Has(o, "limit") => Number(o, "limit") = {}
    <2>1. ASSUME Has(o, "limit")
          PROVE  \E k \in Nat : o.limit.halves = 2 * k /\ o.limit.halves \div 2 = k
      <3>1. o.limit \in QueryValues /\ checkCount(o.limit, 1)
        BY <1>1, <2>1 DEF LetThrough, positionQuery, keyQuery, queryOptions, IsOptions, Has
      <3>2. o.limit.halves \in Nat /\ o.limit.halves % 2 = 0
        BY <3>1, QueryAssumption DEF checkCount, QueryValues
      <3> QED
        BY <3>2
    <2> QED
      BY <2>1 DEF Number, Has
  <1>6. /\ n \in Nat /\ all \in [1 .. n -> asks]
        /\ \A x \in asks : \E i \in 1 .. n : all[i] = x
        /\ \A i, j \in 1 .. n : i < j => Follows(q, all[j], all[i])
    BY <1>4, InOrderEnumerates
  <1>7. /\ m \in 0 .. n /\ DOMAIN items = 1 .. m
        /\ \A i \in 1 .. m : items[i] = all[i]
        /\ q.limit = {} => m = n
        /\ \A k \in q.limit : m <= k /\ (m < k => m = n)
    <2> DEFINE s == {x \in Contents : Within(q, x)}
    <2>1. q.limit = {} \/ \E k \in Nat : q.limit = {k}
      BY <1>2, <1>5
    <2>2. s = asks
      BY <1>2
    <2> HIDE DEF q, asks
    <2>3. /\ m \in 0 .. Cardinality(s) /\ DOMAIN items = 1 .. m
          /\ \A i \in 1 .. m : items[i] = InOrder(q, s)[i]
          /\ q.limit = {} => m = Cardinality(s)
          /\ \A k \in q.limit : m <= k /\ (m < k => m = Cardinality(s))
      BY <1>3, <2>1, SelectTakesFirst
    <2> HIDE DEF s, m, items
    <2> QED
      BY <2>2, <2>3
  <1>8. \A x, y \in asks : Follows(q, y, x) => before(x, y)
    BY <1>2, <1>4 DEF Follows
  <1> HIDE DEF answer, q, items, asks, n, all, m, before
  <1>9. \A i, j \in 1 .. n : i < j => before(all[i], all[j])
    BY <1>6, <1>8
  <1>10. \A i, j \in DOMAIN items : i < j => before(items[i], items[j])
    BY <1>6, <1>7, <1>9
  <1>11. got \subseteq asks
    BY <1>6, <1>7
  <1>12. ASSUME NEW x \in asks \ got, NEW y \in got PROVE before(y, x)
    <2>1. PICK i \in 1 .. n : all[i] = x
      BY <1>6
    <2>2. PICK j \in 1 .. m : items[j] = y
      BY <1>7
    <2>3. ~(i \in 1 .. m)
      BY <1>7, <2>1
    <2>4. j \in 1 .. n /\ all[j] = y /\ j < i
      BY <1>6, <1>7, <2>2, <2>3
    <2> QED
      BY <1>9, <2>1, <2>4
  <1>13. m = n => got = asks
    <2>1. ASSUME m = n, NEW x \in asks PROVE x \in got
      BY <1>6, <1>7, <2>1
    <2> QED
      BY <1>11, <2>1
  <1>14. IF Has(o, "limit") THEN /\ 2 * m <= o["limit"].halves
                                /\ 2 * m < o["limit"].halves => m = n
                           ELSE m = n
    <2>1. CASE Has(o, "limit")
      <3>1. PICK k \in Nat : o.limit.halves = 2 * k /\ Number(o, "limit") = {k}
        BY <1>5, <2>1
      <3>2. m <= k /\ (m < k => m = n)
        BY <1>2, <1>7, <3>1
      <3> QED
        BY <1>6, <1>7, <2>1, <3>1, <3>2
    <2>2. CASE ~Has(o, "limit")
      BY <1>2, <1>5, <1>7, <2>2
    <2> QED
      BY <2>1, <2>2
  <1>15. answer.is = "selected" /\ answer.items = items
    BY <1>1
  <1> QED
    BY <1>10, <1>11, <1>12, <1>13, <1>14, <1>15 DEF ScanHonoured, before, asks, m

\* The inductive invariant behind QueriesSelect: the scan is what its options
\* were answered with.
ScanInv ==
    scan = NoScan \/ \E s \in Scans :
        scan = [is |-> "scan", kind |-> s[1], options |-> s[2],
                answer |-> Scan(s[1], s[2], Contents)]

LEMMA StepKeepsScan == ScanInv /\ [ClientNext]_allVars => ScanInv'
  <1> SUFFICES ASSUME ScanInv, [ClientNext]_allVars PROVE ScanInv'
    OBVIOUS
  <1>1. ASSUME NEW kind, ScanReader(kind) PROVE ScanInv'
    <2>1. PICK s \in Scans :
            s[1] = kind /\ scan' = [is |-> "scan", kind |-> kind, options |-> s[2],
                                    answer |-> Scan(kind, s[2], Contents)]
      BY <1>1 DEF ScanReader
    <2> QED
      BY <2>1 DEF ScanInv
  <1>2. CASE ScanMap \/ ScanSet \/ ScanDeque
    BY <1>1, <1>2 DEF ScanMap, ScanSet, ScanDeque
  <1>3. CASE DropReader
    BY <1>3 DEF DropReader, ScanInv, NoScan
  <1>4. CASE UNCHANGED scan
    BY <1>4 DEF ScanInv, NoScan
  <1>5. ASSUME \/ Create \/ CoreBuilds \/ AbortCalls \/ CoreShutsDown \/ OpenReader
               \/ AtRest \/ UNCHANGED allVars
        PROVE  UNCHANGED scan
    BY <1>5 DEF Create, CoreBuilds, AbortCalls, CoreShutsDown, OpenReader, AtRest,
       allVars, clientVars, readVars
  <1>6. ASSUME NEW c \in Calls, CallStep(c) \/ FinishCall(c) PROVE UNCHANGED scan
    BY <1>6 DEF CallStep, FinishCall, clientVars, readVars
  <1>7. ASSUME NEW u \in Controls,
               \/ AskControl(u) \/ RefuseHandler(u) \/ Subscribe(u)
               \/ Unsubscribe(u) \/ consumer_state(u)
        PROVE  UNCHANGED scan
    BY <1>7 DEF AskControl, RefuseHandler, Subscribe, Unsubscribe, consumer_state, Tell,
       readVars
  <1>8. ASSUME NEW d \in Closers, CallShutdown(d) \/ ReturnShutdown(d)
        PROVE  UNCHANGED scan
    BY <1>8 DEF CallShutdown, ReturnShutdown, readVars
  <1> QED
    BY <1>2, <1>3, <1>4, <1>5, <1>6, <1>7, <1>8 DEF ClientNext

\* Whatever a published reader is asked and whatever the collection holds, a
\* query that JavaScript lets through does not fail in native code, and it yields
\* the members it asks for, each once and in order, from the first to the limit.
THEOREM QueriesAreHonoured == ClientSpec => []QueriesSelect
  <1>1. ClientInit => ScanInv
    BY DEF ClientInit, ScanInv
  <1>2. ScanInv => QueriesSelect
    <2>1. ASSUME scan = NoScan PROVE QueriesSelect
      BY <2>1 DEF QueriesSelect, NoScan
    <2>2. ASSUME NEW s \in Scans,
                 scan = [is |-> "scan", kind |-> s[1], options |-> s[2],
                         answer |-> Scan(s[1], s[2], Contents)]
          PROVE  QueriesSelect
      <3>1. ScanHonoured(s[1], s[2], Scan(s[1], s[2], Contents))
        BY ClientAssumption, ScanIsHonoured
      <3>2. ScanHonoured(scan.kind, scan.options, scan.answer)
        BY <2>2, <3>1
      <3> QED
        BY <3>2 DEF QueriesSelect, ScanHonoured
    <2> QED
      BY <2>1, <2>2 DEF ScanInv
  <1> QED
    BY <1>1, <1>2, StepKeepsScan, PTL DEF ClientSpec
=============================================================================
