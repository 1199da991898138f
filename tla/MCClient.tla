------------------------------ MODULE MCClient ------------------------------
(***************************************************************************)
(* A client whose two calls share a signal, tried with every option of the *)
(* configuration at and around the limits of its type, every definition of *)
(* a collection and every query of a small collection.                     *)
(***************************************************************************)
EXTENDS Client

CONSTANTS c1, c2, u1, u2, d1, d2

MCMaxOf == [u16 |-> 2, u32 |-> 4, i64 |-> 6, usize |-> 7, nonZeroUsize |-> 7]

\* Every reply that a subsystem can make.
MCReplies == << <<"s1", "json">>, <<"s2", "text">>, <<"s3", "bytes">>,
                <<"s4", "handler">>, <<"s5", "timeout">>, <<"s6", "formatMismatch">> >>

\* The options with one of the values each, and two sets of options together.
OneOf(options, values) == UNION {{[x \in {o} |-> v] : v \in values} : o \in options}
Maybe(options, values) == OneOf(options, values) \cup {<< >>}
Join(f, g) == [x \in DOMAIN f \cup DOMAIN g |-> IF x \in DOMAIN f THEN f[x] ELSE g[x]]
Joined(F, G) == {Join(f, g) : f \in F, g \in G}

-----------------------------------------------------------------------------
\* Every number up to past the limits of usize, and past that of a duration.
Numbers == {Finite(h) : h \in (-2 .. 17) \cup {8000, 8001}} \cup {NaN, Infinity}
FewNumbers == {Num(0), Num(3), Num(5), Finite(3), NaN}
Flags == {Flag(TRUE), Flag(FALSE)}
Caches == Flags \cup {CacheObject(t, b) : t \in {{}, {Num(-1)}, {Num(3)}, {NaN}}, b \in BOOLEAN}

Definitions ==
    {stateDefinition(c, "n", options) :
       c \in Constructors,
       options \in Joined(Maybe({"ttlSeconds"}, FewNumbers),
                   Joined(Maybe({"keysetLimit"}, FewNumbers),
                   Joined(Maybe({"capacity"}, FewNumbers),
                   Joined(Maybe({"readUncommitted"}, Flags),
                          Maybe({"published"}, Flags)))))}

Collections(list) == [x \in {"stateCollections"} |-> [is |-> "list", list |-> list]]

MCConfigs ==
    OneOf(NumberOptions, Numbers) \cup OneOf({"probePort"}, {Null})
    \cup OneOf(TextOptions, {Text("a"), BadText("a")}) \cup OneOf(FlagOptions, Flags)
    \cup OneOf({"stateReadCache"}, Caches)
    \cup Joined(OneOf({"idempotenceCacheSize"}, FewNumbers),
                OneOf({"probePort", "maxRetries"}, FewNumbers))
    \cup {[o \in TextOptions |-> Text(o)], [o \in NumberOptions |-> Num(1)]}
    \cup Joined(OneOf({"retryBaseMs", "deferBaseMs"}, FewNumbers),
                OneOf({"maxRetryDelayMs", "deferMaxDelayMs"}, FewNumbers))
    \cup {Collections(<<d>>) : d \in Definitions}
    \cup {Collections(<<stateDefinition("map", "a", << >>),
                        stateDefinition("set", "b", OneOfKeyset)>>) :
            OneOfKeyset \in Maybe({"keysetLimit"}, FewNumbers)}

-----------------------------------------------------------------------------
\* Four members, of which the last three start with the first of these.
MCContents == 0 .. 3
MCPrefixed == [p \in 1 .. 2 |-> IF p = 1 THEN {1, 2} ELSE {2}]

Queried(V) ==
    Joined(Maybe({"from", "after"}, V), Joined(Maybe({"to", "before"}, V),
    Joined(Maybe({"direction"}, {"backward"}), Joined(Maybe({"limit"}, {Num(1), Num(2)}),
           Maybe({"range"}, (V \cup {Open}) \X (V \cup {Open}))))))

\* Options with one fault.
Faulty(V) ==
    OneOf(Edges \cup {"limit", "prefix"}, V \cup {Finite(3), Num(-1), Num(7), NaN, Infinity})
    \cup Joined(OneOf({"from"}, V), OneOf({"after"}, V))
    \cup Joined(OneOf({"to"}, V), OneOf({"before"}, V))
    \cup OneOf({"range"}, UNION {{<<Undefined, v>>, <<v, Finite(3)>>, <<v>>} : v \in V})
    \cup OneOf({"unknown"}, V) \cup OneOf({"direction"}, {"up"})

Keys == {Key(1), Key(2)}
Positions == {Num(1), Num(2)}

MCScans ==
    ({"map"} \X Joined(Queried(Keys), Maybe({"prefix"}, Keys)))
    \cup ({"set"} \X Queried(Keys)) \cup ({"deque"} \X Queried(Positions))
    \cup ({"map", "deque"} \X (Faulty(Keys) \cup Faulty(Positions)))
=============================================================================
