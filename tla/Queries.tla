------------------------------ MODULE Queries -------------------------------
(***************************************************************************)
(* The options of a scan: what lib/state/query.js lets through, the native *)
(* query that src/src/state/query.rs makes of it, and what the core        *)
(* (external) then selects.                                                *)
(*                                                                         *)
(* Options are a function from the fields that are set to their values. A  *)
(* key is its rank in the order of keys, a deque position is a number.     *)
(***************************************************************************)
EXTENDS JsNumbers, Sequences, FiniteSets

CONSTANTS MaxSafe,    \* Number.MAX_SAFE_INTEGER, scaled down
          Prefixed    \* Prefixed[p]: the keys that start with key p

ASSUME QueryAssumption == MaxSafe \in Nat /\ MaxSafe < MaxOf["usize"]

\* Option values: those of JsNumbers, keys, and bounds that are open or unset.
Key(rank) == [is |-> "string", halves |-> 2 * rank]
Open == [is |-> "null", halves |-> 0]
Undefined == [is |-> "undefined", halves |-> 0]

Edges == {"from", "after", "to", "before"}
POSITION_QUERY_FIELDS == Edges \cup {"direction", "limit", "range"}
KEY_QUERY_FIELDS == POSITION_QUERY_FIELDS \cup {"prefix"}

\* A safe integer of at least min.
checkCount(v, min) ==
    v.is = "finite" /\ v.halves % 2 = 0 /\ v.halves \in 2 * min .. 2 * MaxSafe

\* What the options of a scan can hold.
QueryValues ==
    [is : {"finite", "nan", "infinite", "string", "null", "undefined"}, halves : Int]

IsOptions(options) ==
    \A f \in DOMAIN options :
        /\ f \in Edges \cup {"prefix", "limit"} => options[f] \in QueryValues
        /\ f = "range" => options[f] \in Seq(QueryValues)

checkKey(v) == v.is = "string"

Has(options, field) == field \in DOMAIN options

\* What both kinds of query require of the options.
queryOptions(options, fields) ==
    /\ DOMAIN options \subseteq fields
    /\ ~(Has(options, "from") /\ Has(options, "after"))
    /\ ~(Has(options, "to") /\ Has(options, "before"))
    /\ Has(options, "range") =>
         Len(options.range) = 2 /\ \A i \in 1 .. 2 : options.range[i] # Undefined
    /\ Has(options, "direction") => options.direction \in {"forward", "backward"}
    /\ Has(options, "limit") => checkCount(options.limit, 1)

rangeBounds(options) ==
    IF Has(options, "range") THEN {options.range[1], options.range[2]} \ {Open}
                             ELSE {}

keyQuery(options) ==
    /\ queryOptions(options, KEY_QUERY_FIELDS)
    /\ \A f \in (Edges \cup {"prefix"}) \cap DOMAIN options : checkKey(options[f])
    /\ \A b \in rangeBounds(options) : checkKey(b)

\* Mutant: only the limit is checked.
LaxPositionQuery(options) == queryOptions(options, POSITION_QUERY_FIELDS)

positionQuery(options) ==
    /\ queryOptions(options, POSITION_QUERY_FIELDS)
    /\ \A f \in Edges \cap DOMAIN options : checkCount(options[f], 0)
    /\ \A b \in rangeBounds(options) : checkCount(b, 0)

-----------------------------------------------------------------------------
(***************************************************************************)
(* The native query. An unset field is an empty set.                       *)
(***************************************************************************)
Opt(options, field) == IF Has(options, field) THEN {options[field]} ELSE {}

\* Mutant: both bounds of a range are included.
ClosedRange(range) ==
    [start |-> IF range[1] = Open THEN {} ELSE {range[1].halves \div 2},
     end |-> IF range[2] = Open THEN {} ELSE {range[2].halves \div 2 + 1}]

\* From the first bound up to, but not including, the second.
half_open(range) ==
    [start |-> IF range[1] = Open THEN {} ELSE {range[1].halves \div 2},
     end |-> IF range[2] = Open THEN {} ELSE {range[2].halves \div 2}]

Direction(options) == IF Has(options, "direction") THEN options.direction ELSE "forward"

Query(options) ==
    [direction |-> Direction(options),
     prefix |-> {v.halves \div 2 : v \in Opt(options, "prefix")},
     edge |-> [f \in Edges |-> {v.halves \div 2 : v \in Opt(options, f)}],
     range |-> half_open(IF Has(options, "range") THEN options.range ELSE <<Open, Open>>),
     limit |-> {v.halves \div 2 : v \in Opt(options, "limit")}]

\* NativeKeyQuery::into_query: only the limit can fail to convert.
KeyIntoQuery(options) ==
    IF \A v \in Opt(options, "limit") : Whole(v, "usize").ok
      THEN Converted(Query(options)) ELSE Rejected

\* NativePositionQuery::into_query.
PositionIntoQuery(options) ==
    IF \A v \in (UNION {Opt(options, f) : f \in Edges \cup {"limit"}})
                \cup rangeBounds(options) : Whole(v, "usize").ok
      THEN Converted(Query(options)) ELSE Rejected

-----------------------------------------------------------------------------
(***************************************************************************)
(* The core. The edges are read in the order of the query, a range always  *)
(* ascends, and all of them narrow what is selected.                       *)
(***************************************************************************)
Follows(q, x, y) == IF q.direction = "forward" THEN x > y ELSE x < y

Within(q, x) ==
    /\ \A y \in q.edge.from : ~Follows(q, y, x)
    /\ \A y \in q.edge.after : Follows(q, x, y)
    /\ \A y \in q.edge.to : ~Follows(q, x, y)
    /\ \A y \in q.edge.before : Follows(q, y, x)
    /\ \A y \in q.range.start : x >= y
    /\ \A y \in q.range.end : x < y
    /\ \A p \in q.prefix : x \in Prefixed[p]

\* The selected members, in the order of the query.
InOrder(q, s) ==
    [i \in 1 .. Cardinality(s) |->
       CHOOSE x \in s : Cardinality({y \in s : Follows(q, x, y)}) = i - 1]

Select(q, contents) ==
    LET all == InOrder(q, {x \in contents : Within(q, x)})
        sizes == q.limit \cup {Len(all)} IN
    SubSeq(all, 1, CHOOSE n \in sizes : \A m \in sizes : n <= m)

\* What a scan with such options answers: it is refused by JavaScript, fails
\* in native code, or selects. Positions are scanned as keys are.
Scan(kind, options, contents) ==
    IF ~(IF kind = "deque" THEN positionQuery(options) ELSE keyQuery(options))
      THEN [is |-> "refused", items |-> << >>]
    ELSE LET native == IF kind = "deque" THEN PositionIntoQuery(options)
                                         ELSE KeyIntoQuery(options) IN
         IF native.ok THEN [is |-> "selected", items |-> Select(native.value, contents)]
                      ELSE [is |-> "failed", items |-> << >>]
=============================================================================
