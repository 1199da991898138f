---------------------------- MODULE EventContext ----------------------------
(***************************************************************************)
(* What a handler reaches through its event context (lib/context.js over   *)
(* src/src/context.rs): the value, map and set collections of the event's  *)
(* key (lib/state/, src/src/state/), the timers of the key, and, beside    *)
(* the handlers, published readers (src/src/published.rs).                 *)
(*                                                                         *)
(* Attempts of the key follow one another; a failed one is retried. Each   *)
(* works on a view of the collections that the core (external) makes       *)
(* durable or drops, all of them with the attempt and any one of them at a *)
(* commit() or rollback() of its handle. Timers are no part of that: a     *)
(* call takes effect at once and for good. Calls need not be awaited, and  *)
(* handles and contexts may be retained. Deques are in KeyedDeque.         *)
(*                                                                         *)
(* Each call is made once and what it stores has its name. A value is kept *)
(* under one of the keys. What commit and rollback answer, the time to     *)
(* live, the read cache and readUncommitted are left out.                  *)
(***************************************************************************)
EXTENDS Naturals, Sequences, FiniteSets

CONSTANTS Calls,        \* the calls that handlers and readers make
          Requests,     \* bound: what they may ask, see Request
          Collections,  \* the collections
          Class,        \* Class[col]: its kind and payload
          Keys,         \* the keys of maps and members of sets
          Times,        \* the times that timers are asked for
          Second,       \* Second[t]: the whole second that t is rounded to
          Stored,       \* the items that are there from the beginning
          Start,        \* the contents made of them
          Unreadable,   \* those of them that have no JSON form
          None,         \* no item
          MaxAttempts   \* bound: how many attempts there are

Classes == {<<"value", "json">>, <<"value", "message">>, <<"map", "json">>,
            <<"map", "message">>, <<"set", "none">>}
TimerMethods == {"schedule", "clearAndSchedule", "unschedule", "clearScheduled", "scheduled"}
ReadMethods == {"get", "getMany", "has", "hasMany", "isEmpty"}
StateMethods == ReadMethods \cup {"set", "add", "delete", "clear", "commit", "rollback"}

\* What a call asks: the collection, or "timers"; the method; its keys or time.
Request == [on : Collections \cup {"timers"}, method : TimerMethods \cup StateMethods,
            args : Seq(Keys \cup Times)]

ASSUME ContextAssumption ==
    /\ Class \in [Collections -> Classes]
    /\ Unreadable \subseteq Stored /\ None \notin Stored \cup Calls
    /\ Stored \cap Calls = {} /\ {"timers", "none"} \cap Collections = {}
    /\ Requests \subseteq Request
    /\ \A r \in Requests : r.method \in {"schedule", "clearAndSchedule"} =>
         r.on = "timers" /\ r.args[1] \in Times
    /\ Second \in [Times -> Times] /\ \A t \in Times : Second[Second[t]] = Second[t]
    /\ \A r \in Requests : r.on \in Collections => r.args \in Seq(Keys)
    /\ Start \in [Collections -> [Keys -> Stored \cup {None}]]
    /\ MaxAttempts \in Nat

VARIABLES
    attempt,    \* how many attempts have begun
    running,    \* the last of them has not ended
    committed,  \* committed[col]: the durable contents
    view,       \* view[col]: the contents as the attempt sees them
    fresh,      \* history: the writes answered since the last floor of their
                \* collection
    kept,       \* history: the writes that a commit or a success has kept
    written,    \* history: all writes, in the order of their effects
    timers,     \* the scheduled times, in whole seconds
    handles,    \* handles[n]: the collections that attempt n has a handle of
    stage,      \* stage[c]: "idle", "native" or "done"
    by,         \* by[c]: the attempt whose context c uses, 0 for a reader
    req,        \* req[c]: what c asks
    answer      \* answer[c]: how it was answered

storeVars == <<attempt, running, committed, view, fresh, kept, written>>
callVars == <<stage, by, req, answer>>
vars == <<attempt, running, committed, view, fresh, kept, written, timers, handles,
          stage, by, req, answer>>

NoRequest == [on |-> "none", method |-> "none", args |-> << >>]
Plain(word) == [is |-> word, items |-> << >>]
Found(items) == [is |-> "found", items |-> items]
Listed(times) == [is |-> "listed", times |-> times]

Fenced(c) == by[c] # 0 /\ ~(running /\ by[c] = attempt)

Init ==
    /\ attempt = 0 /\ running = FALSE
    /\ committed = Start /\ view = Start
    /\ fresh = {} /\ kept = {} /\ written = << >> /\ timers = {}
    /\ handles = [n \in 1 .. MaxAttempts |-> {}]
    /\ stage = [c \in Calls |-> "idle"]
    /\ by = [c \in Calls |-> 0]
    /\ req = [c \in Calls |-> NoRequest]
    /\ answer = [c \in Calls |-> Plain("none")]

Settle(c, a) == /\ stage' = [stage EXCEPT ![c] = "done"]
                /\ answer' = [answer EXCEPT ![c] = a]
                /\ UNCHANGED <<by, req, handles>>

-----------------------------------------------------------------------------
(***************************************************************************)
(* Calls from JavaScript.                                                  *)
(***************************************************************************)
\* The context vends a handle of a collection it has vended none of, or fails to.
Vends(n, col) == IF col \in handles[n] THEN {TRUE} ELSE BOOLEAN

\* Mutant: a handle is cached although the context failed to vend it.
StateCached(c) ==
    /\ stage[c] = "idle"
    /\ \E n \in 1 .. attempt, r \in Requests, ok \in BOOLEAN :
          /\ r.on \in Collections /\ ok \in Vends(n, r.on)
          /\ handles' = [handles EXCEPT ![n] = @ \cup {r.on}]
          /\ by' = [by EXCEPT ![c] = n]
          /\ req' = [req EXCEPT ![c] = r]
          /\ stage' = [stage EXCEPT ![c] = IF ok THEN "native" ELSE "done"]
          /\ answer' = [answer EXCEPT ![c] = IF ok THEN @ ELSE Plain("unvended")]
    /\ UNCHANGED <<storeVars, timers>>

\* state(definition) returns the cached handle of the context or has one vended,
\* and caches it; the call that follows goes through that handle.
State(c) ==
    /\ stage[c] = "idle"
    /\ \E n \in 1 .. attempt, r \in Requests, ok \in BOOLEAN :
          /\ r.on \in Collections /\ ok \in Vends(n, r.on)
          /\ handles' = [handles EXCEPT ![n] = IF ok THEN @ \cup {r.on} ELSE @]
          /\ by' = [by EXCEPT ![c] = n]
          /\ req' = [req EXCEPT ![c] = r]
          /\ stage' = [stage EXCEPT ![c] = IF ok THEN "native" ELSE "done"]
          /\ answer' = [answer EXCEPT ![c] = IF ok THEN @ ELSE Plain("unvended")]
    /\ UNCHANGED <<storeVars, timers>>

\* A time that is no date, or beyond the range of timers, is refused before
\* anything is scheduled.
AskTimers(c) ==
    /\ stage[c] = "idle"
    /\ \E n \in 1 .. attempt, r \in Requests, ok \in BOOLEAN :
          /\ r.on = "timers"
          /\ ok \/ r.method \notin {"clearScheduled", "scheduled"}
          /\ by' = [by EXCEPT ![c] = n]
          /\ req' = [req EXCEPT ![c] = r]
          /\ stage' = [stage EXCEPT ![c] = IF ok THEN "native" ELSE "done"]
          /\ answer' = [answer EXCEPT ![c] = IF ok THEN @ ELSE Plain("noDate")]
    /\ UNCHANGED <<storeVars, timers, handles>>

\* Messages cannot be published.
AskReader(c) ==
    /\ stage[c] = "idle"
    /\ \E r \in Requests :
          /\ r.on \in Collections /\ r.method \in ReadMethods
          /\ Class[r.on][2] # "message"
          /\ req' = [req EXCEPT ![c] = r]
    /\ stage' = [stage EXCEPT ![c] = "native"]
    /\ UNCHANGED <<storeVars, timers, handles, by, answer>>

-----------------------------------------------------------------------------
(***************************************************************************)
(* Native operations on the collections. Each takes effect at once.        *)
(***************************************************************************)
\* Mutant: equal keys are asked for once.
DistinctKeys(c, s) ==
    LET x == SelectSeq(req[c].args, LAMBDA k : k # req[c].args[1]) IN
    Found([i \in 1 .. Len(x) + 1 |-> IF i = 1 THEN s[req[c].args[1]] ELSE s[x[i - 1]]])

\* Mutant: an item that cannot be read is answered as none.
UnreadableAsNone(c, s) ==
    Found([i \in DOMAIN req[c].args |->
             IF Class[req[c].on][2] = "json" /\ s[req[c].args[i]] \in Unreadable
               THEN None ELSE s[req[c].args[i]]])

\* get and getMany: one item for each key. A JSON item that cannot be read
\* fails the call; a message always reads.
Items(c, s) ==
    IF /\ Class[req[c].on][2] = "json"
       /\ \E i \in DOMAIN req[c].args : s[req[c].args[i]] \in Unreadable
      THEN Plain("permanent")
      ELSE Found([i \in DOMAIN req[c].args |-> s[req[c].args[i]]])

Presence(c, s) == Found([i \in DOMAIN req[c].args |-> s[req[c].args[i]] # None])

Lookup(c, s) ==
    IF req[c].method \in {"get", "getMany"} THEN Items(c, s)
    ELSE IF req[c].method = "isEmpty" THEN Found(<<\A k \in Keys : s[k] = None>>)
    ELSE Presence(c, s)

Read(c) ==
    /\ req[c].method \in ReadMethods
    /\ UNCHANGED <<storeVars, timers>>
    /\ Settle(c, Lookup(c, view[req[c].on]))

Write(c, contents) ==
    /\ view' = [view EXCEPT ![req[c].on] = contents]
    /\ fresh' = fresh \cup {c} /\ written' = Append(written, c)
    /\ UNCHANGED <<attempt, running, committed, kept, timers>>
    /\ Settle(c, Plain("done"))

Put(c) ==
    /\ req[c].method \in {"set", "add"}
    /\ Write(c, [view[req[c].on] EXCEPT ![req[c].args[1]] = c])

Remove(c) ==
    /\ req[c].method = "delete"
    /\ Write(c, [view[req[c].on] EXCEPT ![req[c].args[1]] = None])

Clear(c) == req[c].method = "clear" /\ Write(c, [k \in Keys |-> None])

Serves(c, class) ==
    /\ stage[c] = "native" /\ req[c].on \in Collections
    /\ Class[req[c].on] = class /\ ~Fenced(c)

Owned(c, class) == Serves(c, class) /\ by[c] # 0

JsonValue(c) == Owned(c, <<"value", "json">>) /\ (Read(c) \/ Put(c) \/ Clear(c))
MessageValue(c) == Owned(c, <<"value", "message">>) /\ (Read(c) \/ Put(c) \/ Clear(c))
JsonMap(c) ==
    Owned(c, <<"map", "json">>) /\ (Read(c) \/ Put(c) \/ Remove(c) \/ Clear(c))
MessageMap(c) ==
    Owned(c, <<"map", "message">>) /\ (Read(c) \/ Put(c) \/ Remove(c) \/ Clear(c))
MemberSet(c) ==
    Owned(c, <<"set", "none">>) /\ (Read(c) \/ Put(c) \/ Remove(c) \/ Clear(c))

\* Mutant: readers see what the handler sees.
PublishedView(c, class) ==
    /\ Serves(c, class) /\ by[c] = 0
    /\ UNCHANGED <<storeVars, timers>>
    /\ Settle(c, Lookup(c, view[req[c].on]))

\* Readers see what is durable.
Published(c, class) ==
    /\ Serves(c, class) /\ by[c] = 0
    /\ UNCHANGED <<storeVars, timers>>
    /\ Settle(c, Lookup(c, committed[req[c].on]))

PublishedValue(c) == Published(c, <<"value", "json">>)
PublishedMap(c) == Published(c, <<"map", "json">>)

\* Mutant: the reader of a set sees what the handler sees.
PublishedSetView(c) == PublishedView(c, <<"set", "none">>)

PublishedSet(c) == Published(c, <<"set", "none">>)

\* The writes of a call on one of these collections.
On(cols) == {c \in fresh : req[c].on \in cols}

Keep(cols) ==
    /\ committed' = [col \in Collections |-> IF col \in cols THEN view[col] ELSE committed[col]]
    /\ kept' = kept \cup On(cols) /\ fresh' = fresh \ On(cols)

Drop(cols) ==
    /\ view' = [col \in Collections |-> IF col \in cols THEN committed[col] ELSE view[col]]
    /\ fresh' = fresh \ On(cols)

Transacts(c, m) ==
    /\ stage[c] = "native" /\ req[c].method = m /\ ~Fenced(c)
    /\ UNCHANGED <<attempt, running, written, timers>>
    /\ Settle(c, Plain("done"))

\* Mutant: a commit writes all that the attempt has buffered.
CommitAll(c) ==
    /\ Transacts(c, "commit")
    /\ committed' = view
    /\ kept' = kept \cup On({req[c].on}) /\ fresh' = fresh \ On({req[c].on})
    /\ UNCHANGED view

Commit(c) == Transacts(c, "commit") /\ Keep({req[c].on}) /\ UNCHANGED view
Rollback(c) == Transacts(c, "rollback") /\ Drop({req[c].on}) /\ UNCHANGED <<committed, kept>>

-----------------------------------------------------------------------------
(***************************************************************************)
(* Timers. The core may serve a context that outlived its attempt. It      *)
(* knows them by the whole second, to which a call's time is rounded.      *)
(***************************************************************************)
Tick(c, m, times, a) ==
    /\ stage[c] = "native" /\ req[c].on = "timers" /\ req[c].method = m
    /\ timers' = times
    /\ UNCHANGED storeVars
    /\ Settle(c, a)

At(c) == Second[req[c].args[1]]

schedule(c) == Tick(c, "schedule", timers \cup {At(c)}, Plain("done"))

\* Mutant: the timers that are there stay.
ScheduleBeside(c) ==
    Tick(c, "clearAndSchedule", timers \cup {At(c)}, Plain("done"))

clear_and_schedule(c) == Tick(c, "clearAndSchedule", {At(c)}, Plain("done"))
unschedule(c) == Tick(c, "unschedule", timers \ {At(c)}, Plain("done"))
clear_scheduled(c) == Tick(c, "clearScheduled", {}, Plain("done"))
scheduled(c) == Tick(c, "scheduled", timers, Listed(timers))

-----------------------------------------------------------------------------
\* A value or message that does not convert is refused before anything is done.
RefuseItem(c) ==
    /\ stage[c] = "native" /\ req[c].method = "set" /\ by[c] # 0
    /\ UNCHANGED <<storeVars, timers>>
    /\ Settle(c, Plain("refused"))

\* The fence of an attempt that has ended fails its calls; rollback cannot fail.
FenceCall(c) ==
    /\ stage[c] = "native" /\ Fenced(c)
    /\ UNCHANGED <<storeVars, timers>>
    /\ Settle(c, Plain(IF req[c].method = "rollback" THEN "done" ELSE "failed"))

\* The store fails a call, which then changes nothing, except that a clearing
\* of timers may have begun.
StoreFails(c) ==
    /\ stage[c] = "native" /\ ~Fenced(c) /\ req[c].method # "rollback"
    /\ timers' \in IF req[c].method \in {"clearAndSchedule", "clearScheduled"}
                     THEN SUBSET timers ELSE {timers}
    /\ UNCHANGED storeVars
    /\ Settle(c, Plain("failed"))

BeginAttempt ==
    /\ ~running /\ attempt < MaxAttempts
    /\ attempt' = attempt + 1 /\ running' = TRUE
    /\ Drop(Collections)
    /\ UNCHANGED <<committed, kept, written, timers, handles, callVars>>

Succeed ==
    /\ running /\ running' = FALSE
    /\ Keep(Collections)
    /\ UNCHANGED <<attempt, view, written, timers, handles, callVars>>

Fail ==
    /\ running /\ running' = FALSE
    /\ Drop(Collections)
    /\ UNCHANGED <<attempt, committed, kept, written, timers, handles, callVars>>

Rest == /\ \A c \in Calls : stage[c] = "done"
        /\ attempt = MaxAttempts /\ ~running
        /\ UNCHANGED vars

Next ==
    \/ \E c \in Calls :
          \/ State(c) \/ AskTimers(c) \/ AskReader(c)
          \/ JsonValue(c) \/ MessageValue(c) \/ JsonMap(c) \/ MessageMap(c) \/ MemberSet(c)
          \/ PublishedValue(c) \/ PublishedMap(c) \/ PublishedSet(c)
          \/ Commit(c) \/ Rollback(c)
          \/ schedule(c) \/ clear_and_schedule(c) \/ unschedule(c)
          \/ clear_scheduled(c) \/ scheduled(c)
          \/ RefuseItem(c) \/ FenceCall(c) \/ StoreFails(c)
    \/ BeginAttempt \/ Succeed \/ Fail
    \/ Rest

Spec == Init /\ [][Next]_vars

-----------------------------------------------------------------------------
Words == {"none", "done", "found", "listed", "permanent", "failed", "refused", "unvended", "noDate"}

\* Type correctness of the store, the calls and the cache of handles: an attempt
\* holds a handle exactly of the collections it was vended one of, and a call on
\* a collection goes through the handle of its own attempt (context.js, state).
TypeOK ==
    /\ attempt \in 0 .. MaxAttempts /\ running \in BOOLEAN
    /\ committed \in [Collections -> [Keys -> Stored \cup Calls \cup {None}]]
    /\ view \in [Collections -> [Keys -> Stored \cup Calls \cup {None}]]
    /\ fresh \subseteq Calls /\ kept \subseteq Calls /\ written \in Seq(Calls)
    /\ timers \subseteq {Second[t] : t \in Times}
    /\ stage \in [Calls -> {"idle", "native", "done"}]
    /\ by \in [Calls -> 0 .. attempt]
    /\ \A c \in Calls : req[c] \in Requests \cup {NoRequest} /\ answer[c].is \in Words
    /\ \A n \in 1 .. MaxAttempts :
         handles[n] = {req[c].on : c \in {d \in Calls : /\ by[d] = n
                                                       /\ req[d].on \in Collections
                                                       /\ answer[d].is # "unvended"}}

Writes == {"set", "add", "delete", "clear"}

\* Call c writes key k of a collection.
Covers(c, col, k) ==
    /\ req[c].on = col /\ req[c].method \in Writes
    /\ req[c].method = "clear" \/ req[c].args[1] = k

Stores(c, col, k) == Covers(c, col, k) /\ req[c].method \in {"set", "add"}

\* The writes whose effects call c is to see: those that were kept, and those
\* that the attempt c belongs to has made since.
Seen(c) == kept \cup {d \in fresh : by[d] = by[c]}

\* Of the writes W, the last one that covers key k has left item x there.
LeftBy(W, col, k, x) ==
    \/ x = Start[col][k] /\ \A d \in W : ~Covers(d, col, k)
    \/ \E i \in DOMAIN written :
          /\ written[i] \in W /\ Covers(written[i], col, k)
          /\ x = IF Stores(written[i], col, k) THEN written[i] ELSE None
          /\ \A j \in DOMAIN written : j > i /\ written[j] \in W => ~Covers(written[j], col, k)

\* The answer that read c is owed.
Owed(c, a) ==
    LET col == req[c].on  args == req[c].args  m == req[c].method
        sees(k, x) == LeftBy(Seen(c), col, k, x)
        broken(k) == Class[col][2] = "json" /\ \E x \in Unreadable : sees(k, x) IN
    IF m \in {"get", "getMany"} /\ \E i \in DOMAIN args : broken(args[i])
      THEN a.is = "permanent"
      ELSE /\ a.is = "found"
           /\ m = "isEmpty" => a.items = <<\A k \in Keys : sees(k, None)>>
           /\ m # "isEmpty" => DOMAIN a.items = DOMAIN args
           /\ \A i \in DOMAIN args :
                 /\ m \in {"get", "getMany"} => sees(args[i], a.items[i])
                 /\ m \in {"has", "hasMany"} => a.items[i] = ~sees(args[i], None)

\* A read answers what was last written under its keys, by the writes that were
\* kept and by those of its own attempt, in their order and by no others: for
\* each of its keys, with the item itself or whether there is one. It fails for
\* good just if one of the items has no JSON form. So no reader and no retry sees
\* what an attempt has written in vain, a handler sees its own writes, and a
\* reader none of an attempt that runs ("retries do not see pending state from
\* a failed attempt", README.md).
ReadsHonest ==
    [][\A c \in Calls :
         /\ stage[c] = "native" /\ req[c].on \in Collections
         /\ answer'[c].is \in {"found", "permanent"}
         => Owed(c, answer'[c])]_vars

\* A collection's durable entries are the work of the writes that a success, or
\* a commit() of this very collection, has kept: nothing of a failed attempt, of
\* another collection's commit() or before a rollback() gets there, and nothing
\* that was kept or there before is gone unless a write that was kept covers it.
DurableEntriesAreKept ==
    \A col \in Collections, k \in Keys :
        LET x == committed[col][k] IN
        /\ x \in Calls => x \in kept /\ Stores(x, col, k)
        /\ x # Start[col][k] => \E c \in kept : Covers(c, col, k)
        /\ \A c \in kept : Stores(c, col, k) /\ x # c =>
             \E d \in kept : d # c /\ Covers(d, col, k)

\* "Use clearAndSchedule, not schedule, so a retried event does not add another
\* timer" (README.md): without schedule there is never more than one, whatever
\* fails or is retried, although timers are not rolled back with an attempt; and
\* a timer that is scheduled was asked for.
RetriesAddNoTimer ==
    /\ (\A c \in Calls : req[c].method # "schedule") => Cardinality(timers) <= 1
    /\ \A t \in timers : \E c \in Calls :
         /\ req[c].method \in {"schedule", "clearAndSchedule"}
         /\ At(c) = t /\ answer[c].is = "done"
=============================================================================
