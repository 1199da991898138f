----------------------------- MODULE KeyedDeque ------------------------------
(***************************************************************************)
(* The deque collection of one key: the handles of handler attempts        *)
(* (lib/state/deque.js, handle.js, src/src/state/) and published readers   *)
(* (lib/state/published.js, src/src/published.rs) over the contents that   *)
(* the core keeps.                                                         *)
(*                                                                         *)
(* Attempts of the key follow one another. An attempt works on a view of   *)
(* the contents; the core (external) makes it durable when the attempt     *)
(* succeeds or calls commit() and discards it when the attempt fails or    *)
(* calls rollback(). Nothing makes a handler await one call before the     *)
(* next, and nothing stops it from keeping its handle: every call is a     *)
(* native operation that takes effect at some time before it is answered.  *)
(* Published readers see the durable contents only and run beside all of   *)
(* this.                                                                   *)
(*                                                                         *)
(* Each call is made once and a push stores the name of its call, so every *)
(* stored item is different. The time to live, the read cache and          *)
(* readUncommitted are left out, as if the definition did not set them.    *)
(***************************************************************************)
EXTENDS Integers, Sequences

CONSTANTS Calls,       \* the calls that handlers and readers make
          Stored,      \* the items that are there from the beginning
          Start,       \* the contents made of them
          Unreadable,  \* those of them that have no JSON form
          Indexes,     \* the indexes that at() is called with
          MaxPosition, \* the last position and length of a native u32
          MaxAttempts  \* bound: how many attempts there are

ASSUME DequeAssumption ==
    /\ Start \in Seq(Stored) /\ Unreadable \subseteq Stored
    /\ Calls \cap Stored = {}
    /\ Indexes \subseteq Int /\ MaxPosition \in Nat /\ MaxAttempts \in Nat

VARIABLES
    attempt,    \* how many attempts have begun
    running,    \* the last of them has not ended
    committed,  \* the durable contents
    view,       \* the contents as the attempt sees them
    dirty,      \* the attempt has buffered operations
    fresh,      \* history: the pushes answered since the attempt's last floor
    kept,       \* history: the pushes that a commit or a success has kept
    stage,      \* stage[c]: "idle", "counting", "native" or "done"
    by,         \* by[c]: the attempt whose handle c uses, 0 for a reader
    op,         \* op[c]: the method that was called
    index,      \* index[c]: the argument of at()
    position,   \* position[c]: the front position at() asks for
    answer,     \* answer[c]: how the call was answered
    seen        \* history: the contents that at() could have seen

storeVars == <<attempt, running, committed, view, dirty, fresh, kept>>
callVars == <<stage, by, op, index, position, answer, seen>>
vars == <<attempt, running, committed, view, dirty, fresh, kept,
          stage, by, op, index, position, answer, seen>>

Items == Stored \cup Calls
Writes == {"push", "unshift", "pop", "shift", "clear"}
Methods == Writes \cup {"length", "at", "commit", "rollback"}

\* Answers: a plain word, or one of these with its value.
Plain(word) == [is |-> word, n |-> 0, item |-> {}]

\* A length that is no u32 is an error.
Number(n) == IF n > MaxPosition THEN Plain("transient")
                                ELSE [is |-> "number", n |-> n, item |-> {}]

\* What the codec makes of an item the native side returns (jsonItems.decode).
Decoded(x) == IF x \in Unreadable THEN Plain("permanent")
                                  ELSE [is |-> "item", n |-> 0, item |-> {x}]

\* Native get: the element at a front position, null outside the deque.
ItemAt(s, p) == IF p \in 0 .. Len(s) - 1 THEN Decoded(s[p + 1])
                                         ELSE Plain("null")

\* What a u32 parameter makes of a position.
Narrowed(p) == p % (MaxPosition + 1)

\* Mutant: only positions before the front.
BeforeFront(p) == p < 0

\* A position that dequePosition takes for one outside of every deque.
OutOfRange(p) == p < 0 \/ p > MaxPosition

InFlight(c) == stage[c] \in {"counting", "native"}

\* The contents that call c reads, and the fence of an attempt that has ended.
Contents(c) == IF by[c] = 0 THEN committed ELSE view
Fenced(c) == by[c] # 0 /\ ~(running /\ by[c] = attempt)

Init ==
    /\ attempt = 0 /\ running = FALSE
    /\ committed = Start /\ view = Start /\ dirty = FALSE
    /\ fresh = {} /\ kept = {}
    /\ stage = [c \in Calls |-> "idle"]
    /\ by = [c \in Calls |-> 0]
    /\ op = [c \in Calls |-> "none"]
    /\ index = [c \in Calls |-> 0]
    /\ position = [c \in Calls |-> 0]
    /\ answer = [c \in Calls |-> Plain("none")]
    /\ seen = [c \in Calls |-> {}]

\* Every at() that is still running sees the contents after the step.
Observe ==
    seen' = [c \in Calls |-> IF InFlight(c)' /\ op'[c] = "at"
                               THEN seen[c] \cup {Contents(c)'} ELSE seen[c]]

Settle(c, a) == /\ stage' = [stage EXCEPT ![c] = "done"]
                /\ answer' = [answer EXCEPT ![c] = a]
                /\ UNCHANGED <<by, op, index, position>>
                /\ Observe

-----------------------------------------------------------------------------
(***************************************************************************)
(* Calls from JavaScript. A handler uses the handle of its attempt, or one *)
(* that an earlier attempt has leaked.                                     *)
(***************************************************************************)
MakeCall(c, n, m, i, first) ==
    /\ stage[c] = "idle"
    /\ stage' = [stage EXCEPT ![c] = first]
    /\ by' = [by EXCEPT ![c] = n]
    /\ op' = [op EXCEPT ![c] = m]
    /\ index' = [index EXCEPT ![c] = i]
    /\ position' = [position EXCEPT ![c] = i]
    /\ UNCHANGED answer /\ UNCHANGED storeVars
    /\ Observe

CallMethod(c) ==
    \E n \in 0 .. attempt, m \in Methods \ {"at"} :
        /\ n = 0 => m = "length"
        /\ MakeCall(c, n, m, 0, "native")

\* Mutant: the back element is found by the length, too.
CallAtByLength(c) ==
    \E n \in 0 .. attempt, i \in Indexes :
        /\ i < 0 \/ ~OutOfRange(i)
        /\ MakeCall(c, n, "at", i, IF i < 0 THEN "counting" ELSE "native")

\* The last element and those counted from the front take one native read;
\* any other index first reads the length.
CallAt(c) ==
    \E n \in 0 .. attempt, i \in Indexes :
        /\ i < 0 \/ ~OutOfRange(i)
        /\ MakeCall(c, n, "at", i, IF i < -1 THEN "counting" ELSE "native")

\* An index no position can have is answered without a native call.
CallAtPastRange(c) ==
    \E n \in 0 .. attempt, i \in Indexes :
        /\ i >= 0 /\ OutOfRange(i)
        /\ stage[c] = "idle"
        /\ stage' = [stage EXCEPT ![c] = "done"]
        /\ by' = [by EXCEPT ![c] = n]
        /\ op' = [op EXCEPT ![c] = "at"]
        /\ index' = [index EXCEPT ![c] = i]
        /\ answer' = [answer EXCEPT ![c] = Plain("null")]
        /\ seen' = [seen EXCEPT ![c] = {IF n = 0 THEN committed ELSE view}]
        /\ UNCHANGED position /\ UNCHANGED storeVars

-----------------------------------------------------------------------------
(***************************************************************************)
(* Native operations. Those of a running attempt take effect at once.      *)
(***************************************************************************)
Native(c, m) == stage[c] = "native" /\ op[c] = m /\ ~Fenced(c)

Write(c, contents, a) ==
    /\ view' = contents
    /\ dirty' = TRUE
    /\ fresh' = IF op[c] \in {"push", "unshift"} THEN fresh \cup {c} ELSE fresh
    /\ UNCHANGED <<attempt, running, committed, kept>>
    /\ Settle(c, a)

Push(c) ==
    \/ Native(c, "push") /\ Write(c, Append(view, c), Plain("done"))
    \/ Native(c, "unshift") /\ Write(c, <<c>> \o view, Plain("done"))

\* Mutant: the value is stored before it is refused.
RefuseLate(c) ==
    /\ stage[c] = "idle" /\ running
    /\ Write(c, Append(view, c), Plain("transient"))

\* A value with no JSON form, or an index that is no safe integer, is an error
\* before any native call.
RefuseArgument(c) ==
    /\ stage[c] = "idle"
    /\ UNCHANGED storeVars
    /\ Settle(c, Plain("transient"))

\* Mutant: a pop that took effect is tried again.
PopTwice(c) ==
    /\ Native(c, "shift") /\ Len(view) > 1
    /\ Write(c, Tail(Tail(view)), Decoded(Head(Tail(view))))

\* The item is removed first and decoded by JavaScript afterwards.
Pop(c) ==
    \/ /\ Native(c, "pop") /\ view # << >>
       /\ Write(c, SubSeq(view, 1, Len(view) - 1), Decoded(view[Len(view)]))
    \/ /\ Native(c, "shift") /\ view # << >>
       /\ Write(c, Tail(view), Decoded(Head(view)))

PopEmpty(c) ==
    /\ Native(c, "pop") \/ Native(c, "shift")
    /\ view = << >>
    /\ UNCHANGED storeVars
    /\ Settle(c, Plain("null"))

Clear(c) == Native(c, "clear") /\ Write(c, << >>, Plain("done"))

Length(c) ==
    /\ Native(c, "length")
    /\ UNCHANGED storeVars
    /\ Settle(c, Number(Len(Contents(c))))

\* The length of an at() with a negative index: a position before the front
\* answers null, any other is read by a second native call.
CountForAt(c) ==
    /\ stage[c] = "counting" /\ ~Fenced(c)
    /\ UNCHANGED storeVars
    /\ LET p == index[c] + Len(Contents(c))
           n == Number(Len(Contents(c))) IN
       \/ /\ n.is # "number"
          /\ Settle(c, n)
       \/ /\ n.is = "number" /\ OutOfRange(p)
          /\ Settle(c, Plain("null"))
       \/ /\ n.is = "number" /\ ~OutOfRange(p)
          /\ stage' = [stage EXCEPT ![c] = "native"]
          /\ position' = [position EXCEPT ![c] = p]
          /\ UNCHANGED <<by, op, index, answer>>
          /\ Observe

\* peekBack for an index of -1, get for any other position.
ReadAt(c) ==
    /\ Native(c, "at")
    /\ UNCHANGED storeVars
    /\ LET s == Contents(c) IN
       Settle(c, ItemAt(s, IF position[c] = -1 THEN Len(s) - 1
                                               ELSE Narrowed(position[c])))

\* Mutant: the outcome is recorded, the contents stay.
DropMarks == /\ view' = view /\ dirty' = FALSE
             /\ fresh' = {}

\* What the attempt has buffered becomes durable, or is dropped.
Keep == /\ committed' = view /\ dirty' = FALSE
        /\ kept' = kept \cup fresh /\ fresh' = {}

Drop == /\ view' = committed /\ dirty' = FALSE
        /\ fresh' = {}

Outcome == IF dirty THEN Plain("applied") ELSE Plain("noOp")

\* Mutant: commit answers before anything is written.
CommitEarly(c) ==
    /\ Native(c, "commit")
    /\ kept' = kept \cup fresh /\ fresh' = {}
    /\ UNCHANGED <<attempt, running, view, committed, dirty>>
    /\ Settle(c, Outcome)

Commit(c) ==
    /\ Native(c, "commit")
    /\ Keep
    /\ UNCHANGED <<attempt, running, view>>
    /\ Settle(c, Outcome)

Rollback(c) ==
    /\ Native(c, "rollback")
    /\ Drop
    /\ UNCHANGED <<attempt, running, committed, kept>>
    /\ Settle(c, Outcome)

\* The fence of an attempt that has ended fails its calls; rollback has no way
\* to fail.
FenceCall(c) ==
    /\ InFlight(c) /\ Fenced(c)
    /\ UNCHANGED storeVars
    /\ Settle(c, Plain(IF op[c] = "rollback" THEN "noOp" ELSE "transient"))

\* The store fails an operation, which then changes nothing.
StoreFails(c) ==
    /\ InFlight(c) /\ ~Fenced(c) /\ op[c] # "rollback"
    /\ UNCHANGED storeVars
    /\ \E word \in {"transient", "permanent"} : Settle(c, Plain(word))

-----------------------------------------------------------------------------
(***************************************************************************)
(* Attempts (external). Calls may still be running when one ends.          *)
(***************************************************************************)
BeginAttempt ==
    /\ ~running /\ attempt < MaxAttempts
    /\ attempt' = attempt + 1 /\ running' = TRUE
    /\ Drop
    /\ UNCHANGED <<committed, kept, stage, by, op, index, position, answer>>
    /\ Observe

Succeed ==
    /\ running
    /\ running' = FALSE
    /\ Keep
    /\ UNCHANGED <<attempt, view, stage, by, op, index, position, answer>>
    /\ Observe

Fail ==
    /\ running
    /\ running' = FALSE
    /\ Drop
    /\ UNCHANGED <<attempt, committed, kept, stage, by, op, index, position,
                   answer>>
    /\ Observe

Rest == /\ \A c \in Calls : stage[c] = "done"
        /\ attempt = MaxAttempts /\ ~running
        /\ UNCHANGED vars

Next ==
    \/ \E c \in Calls :
          \/ CallMethod(c) \/ CallAt(c) \/ CallAtPastRange(c) \/ RefuseArgument(c)
          \/ Push(c) \/ Pop(c) \/ PopEmpty(c) \/ Clear(c) \/ Length(c)
          \/ CountForAt(c) \/ ReadAt(c) \/ Commit(c) \/ Rollback(c)
          \/ FenceCall(c) \/ StoreFails(c)
    \/ BeginAttempt \/ Succeed \/ Fail
    \/ Rest

Spec == Init /\ [][Next]_vars

-----------------------------------------------------------------------------
Words == {"none", "done", "null", "number", "item", "applied", "noOp",
          "transient", "permanent"}
Answers == [is : Words, n : Nat, item : SUBSET Items]

\* Type correctness of the store and the calls: an attempt that has buffered
\* nothing sees the durable contents.
TypeOK ==
    /\ attempt \in 0 .. MaxAttempts /\ running \in BOOLEAN
    /\ committed \in Seq(Items) /\ view \in Seq(Items) /\ dirty \in BOOLEAN
    /\ fresh \subseteq Calls /\ kept \subseteq Calls
    /\ dirty \/ view = committed
    /\ stage \in [Calls -> {"idle", "counting", "native", "done"}]
    /\ by \in [Calls -> 0 .. attempt]
    /\ op \in [Calls -> Methods \cup {"none"}]
    /\ index \in [Calls -> Indexes \cup {0}]
    /\ position \in [Calls -> Int]
    /\ answer \in [Calls -> Answers]
    /\ seen \in [Calls -> SUBSET Seq(Items)]

\* Array.prototype.at over contents that stand still.
ElementAt(s, i) == ItemAt(s, IF i < 0 THEN Len(s) + i ELSE i)

Answered(c, m) == stage[c] = "done" /\ op[c] = m

\* The answer is the element at that index of contents the call could have seen;
\* a deque of more elements than there are positions may answer null.
OfOneState(c) ==
    answer[c].is \in {"item", "null"} =>
      \E s \in seen[c] :
        \/ answer[c] = ElementAt(s, index[c])
        \/ answer[c] = Plain("null") /\ Len(s) > MaxPosition + 1

\* at() answers "like Array.prototype.at" (deque.d.ts): with the element that
\* was at the index at one moment of the call. This holds for every index that
\* takes a single read, whatever else the handler or the owner of a published
\* deque does meanwhile, and for the others if nothing changes.
AtReadsOneState ==
    \A c \in Calls :
        /\ Answered(c, "at")
        /\ index[c] >= -1 \/ \A s, t \in seen[c] : s = t
        => OfOneState(c)

\* "Nothing changes it between the reads" (query.js, dequePosition): the same
\* for every index.
NothingChangesBetweenReads ==
    \A c \in Calls : Answered(c, "at") => OfOneState(c)

Elements(s) == {s[i] : i \in 1 .. Len(s)}

TakenBy(c, x) ==
    /\ stage[c] = "done"
    /\ \/ op[c] = "clear" /\ answer[c] = Plain("done")
       \/ op[c] \in {"pop", "shift"} /\ answer[c] = Decoded(x)

\* The pushed items that are durable are those that a success or a commit() of
\* their attempt has kept, less the ones that were taken out: nothing that was
\* pushed by a failed attempt, after its commit(), or before a rollback()
\* reaches a retry or a reader, and no answered push is lost.
DurableItemsAreKept ==
    /\ Elements(committed) \cap Calls \subseteq kept
    /\ \A x \in kept \ Elements(committed) : \E c \in Calls : TakenBy(c, x)

\* A durable item disappears only with an attempt that took it out itself: some
\* call of that attempt was answered with the item, could not read it, or
\* cleared the deque. A handle that leaked from an earlier attempt takes nothing.
NothingLost ==
    [][\A x \in Elements(committed) \ Elements(committed') :
         \E c \in Calls : by[c] = attempt /\ TakenBy(c, x)]_vars

\* A call that fails changes nothing, except that a pop or shift has removed
\* the item it cannot read.
FailedCallsChangeNothing ==
    [][\A c \in Calls :
         /\ answer[c].is = "none"
         /\ answer'[c].is \in {"transient", "permanent"}
         /\ view' # view \/ committed' # committed
         => /\ op[c] \in {"pop", "shift"}
            /\ \E x \in Unreadable : Elements(view) = Elements(view') \cup {x}]_vars

-----------------------------------------------------------------------------
(***************************************************************************)
(* The inductive invariant behind AtReadsOneState, DurableItemsAreKept and *)
(* NothingLost.                                                            *)
(***************************************************************************)
\* What the stage of a call says of it.
CallInv ==
    \A c \in Calls :
        /\ stage[c] = "idle" => op[c] = "none"
        /\ stage[c] = "counting" => op[c] = "at" /\ index[c] < -1
        /\ op[c] \in Writes \cup {"commit", "rollback"} => by[c] # 0

\* An at() that runs has seen the contents that are there now, and the position
\* it is about to read was right for some contents it has seen.
ReadInv ==
    \A c \in Calls :
        op[c] = "at" =>
          /\ InFlight(c) => Contents(c) \in seen[c]
          /\ stage[c] = "native" =>
               \/ index[c] \in -1 .. MaxPosition /\ position[c] = index[c]
               \/ /\ index[c] < -1 /\ position[c] \in 0 .. MaxPosition
                  /\ \E s \in seen[c] : position[c] = index[c] + Len(s)

Taken(x) == \E c \in Calls : TakenBy(c, x)

\* Pushed items are accounted for in the view as they are in the durable
\* contents, and what the two differ in is the work of the running attempt.
BufferInv ==
    /\ Elements(view) \cap Calls \subseteq kept \cup fresh
    /\ \A x \in (kept \cup fresh) \ Elements(view) : Taken(x)
    /\ ~running => view = committed
    /\ \A x \in Elements(committed) \ Elements(view) :
         \E c \in Calls : by[c] = attempt /\ TakenBy(c, x)
=============================================================================
