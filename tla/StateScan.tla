----------------------------- MODULE StateScan ------------------------------
(***************************************************************************)
(* lib/state/iterator.js: the async generator over a native scan cursor,   *)
(* with the cursor of src/src/state/cursor.rs behind it.                   *)
(*                                                                         *)
(* Callers may call next(), return() and throw() at any time and need not  *)
(* wait for an answer; the language keeps these calls in the generator's   *)
(* request queue. A chunk is pulled from the cursor when the held one is   *)
(* used up. The scan selects the items 1 .. ItemCount.                     *)
(***************************************************************************)
EXTENDS Naturals, Sequences

CONSTANTS ItemCount,  \* how many items the scan selects
          ChunkSize,  \* SCAN_READY_CHUNK_SIZE, the most items in one chunk
          MaxCalls    \* bound: how many calls the callers make in all

ASSUME ScanAssumption ==
    ItemCount \in Nat /\ ChunkSize \in Nat \ {0} /\ MaxCalls \in Nat

VARIABLES
    gen,       \* the generator: "start", "pulling", "yield", "closing", "done"
    requests,  \* its request queue; the head is being served unless it rests
    held,      \* the items of the current chunk that were not yielded yet
    failed,    \* the flag of stateIterator
    ending,    \* the completion the finally block will deliver
    replies,   \* the answers given so far
    pulled,    \* native: how many items the cursor has handed out
    pulls,     \* native: nextChunk() calls that were made
    pulling,   \* native: nextChunk() calls that have not settled
    closes,    \* native: close() calls that were made
    closed     \* native: the close call has settled

jsVars == <<gen, requests, held, failed, ending, replies>>
nativeVars == <<pulled, pulls, pulling, closes, closed>>
vars == <<gen, requests, held, failed, ending, replies, pulled, pulls,
          pulling, closes, closed>>

Calls == {"next", "return", "throw"}
Failures == {"pullError", "decodeError", "closeError", "thrown"}

Item(n) == [is |-> "item", n |-> n]
Other(what) == [is |-> what, n |-> 0]

Init ==
    /\ gen = "start" /\ requests = << >> /\ held = << >>
    /\ failed = FALSE /\ ending = "none" /\ replies = << >>
    /\ pulled = 0 /\ pulls = 0 /\ pulling = 0 /\ closes = 0 /\ closed = FALSE

-----------------------------------------------------------------------------
\* A caller calls next(), return() or throw().
Call(r) ==
    /\ Len(requests) + Len(replies) < MaxCalls
    /\ requests' = Append(requests, r)
    /\ UNCHANGED <<gen, held, failed, ending, replies>>
    /\ UNCHANGED nativeVars

Answer(reply) ==
    /\ requests' = Tail(requests)
    /\ replies' = Append(replies, reply)

Pull ==
    /\ gen' = "pulling"
    /\ pulls' = pulls + 1
    /\ pulling' = pulling + 1
    /\ UNCHANGED <<requests, held, failed, ending, replies, pulled, closes,
                   closed>>

\* The try block is left with completion `what`; the finally block calls
\* close(cursor, failed).
Leave(what, quietly) ==
    /\ gen' = "closing"
    /\ failed' = quietly
    /\ ending' = what
    /\ closes' = closes + 1
    /\ UNCHANGED <<requests, replies, pulls, closed>>

\* Mutant: the yielded item stays in the chunk.
YieldKeepsItem(chunk) ==
    /\ Answer(Item(Head(chunk)))
    /\ gen' = "yield"
    /\ held' = chunk
    /\ UNCHANGED <<failed, ending, pulls, closes, closed>>

\* `yield transform(item)` with the first item of a chunk; the rest stays
\* held. An item that cannot be decoded ends the scan.
Yield(chunk) ==
    \/ /\ Answer(Item(Head(chunk)))
       /\ gen' = "yield"
       /\ held' = Tail(chunk)
       /\ UNCHANGED <<failed, ending, pulls, closes, closed>>
    \/ /\ held' = Tail(chunk)
       /\ Leave("decodeError", TRUE)

-----------------------------------------------------------------------------
(***************************************************************************)
(* The generator rests at its start, at a yield or at its end, and takes   *)
(* the oldest request.                                                     *)
(***************************************************************************)
\* Before the first next() no code has run, so no finally block will: the
\* generator just ends.
StartOrSkip ==
    /\ gen = "start" /\ requests # << >>
    /\ \/ Head(requests) = "next" /\ Pull
       \/ /\ Head(requests) # "next"
          /\ Answer(Other(IF Head(requests) = "throw" THEN "thrown" ELSE "done"))
          /\ gen' = "done"
          /\ UNCHANGED <<held, failed, ending>>
          /\ UNCHANGED nativeVars

ResumeNext ==
    /\ gen = "yield" /\ requests # << >> /\ Head(requests) = "next"
    /\ \/ held = << >> /\ Pull
       \/ /\ held # << >>
          /\ Yield(held)
          /\ UNCHANGED <<pulled, pulling>>

\* Mutant: the return completion is lost on the way to the caller.
ReturnLosesReply ==
    /\ gen = "yield" /\ requests # << >> /\ Head(requests) = "return"
    /\ Leave("none", FALSE)
    /\ UNCHANGED <<held, pulled, pulling>>

\* Mutant: return() does not wait for the pull before it.
ReturnAtOnce ==
    /\ gen \in {"yield", "pulling"}
    /\ requests # << >> /\ requests[Len(requests)] = "return"
    /\ Leave("done", FALSE)
    /\ UNCHANGED <<held, pulled, pulling>>

\* Mutant: there is no finally block for an early exit.
ReturnSkipsClose ==
    /\ gen = "yield" /\ requests # << >> /\ Head(requests) = "return"
    /\ Answer(Other("done"))
    /\ gen' = "done"
    /\ UNCHANGED <<held, failed, ending>>
    /\ UNCHANGED nativeVars

ResumeReturn ==
    /\ gen = "yield" /\ requests # << >> /\ Head(requests) = "return"
    /\ Leave("done", FALSE)
    /\ UNCHANGED <<held, pulled, pulling>>

\* The error surfaces at the yield, inside the try block.
ResumeThrow ==
    /\ gen = "yield" /\ requests # << >> /\ Head(requests) = "throw"
    /\ Leave("thrown", TRUE)
    /\ UNCHANGED <<held, pulled, pulling>>

\* Mutant: calls that were queued when the scan ended are never answered.
AnswerNothing == gen = "done" /\ requests # << >> /\ UNCHANGED vars

\* A generator that has ended answers from its queue alone.
AnswerAfterEnd ==
    /\ gen = "done" /\ requests # << >>
    /\ Answer(Other(IF Head(requests) = "throw" THEN "thrown" ELSE "done"))
    /\ UNCHANGED <<gen, held, failed, ending>>
    /\ UNCHANGED nativeVars

-----------------------------------------------------------------------------
(***************************************************************************)
(* The native calls settle.                                                *)
(***************************************************************************)
\* next_chunk hands out the items that are ready, at least one. The first is
\* yielded at once.
ChunkArrives ==
    /\ gen = "pulling" /\ pulling > 0
    /\ \E size \in 1 .. ChunkSize :
         /\ pulled + size <= ItemCount
         /\ pulled' = pulled + size
         /\ Yield([i \in 1 .. size |-> pulled + i])
    /\ pulling' = pulling - 1

\* The failed item of a chunk fails the whole pull, and the fence of a
\* finished attempt fails every pull.
PullFails ==
    /\ gen = "pulling" /\ pulling > 0
    /\ Leave("pullError", TRUE)
    /\ pulling' = pulling - 1
    /\ UNCHANGED <<held, pulled>>

\* Mutant: a chunk that is not full is taken for the last one.
ShortChunkEndsScan ==
    /\ gen = "pulling" /\ pulling > 0
    /\ pulled % ChunkSize # 0 \/ pulled = ItemCount
    /\ Leave("done", FALSE)
    /\ pulling' = pulling - 1
    /\ UNCHANGED <<held, pulled>>

ScanExhausted ==
    /\ gen = "pulling" /\ pulling > 0
    /\ pulled = ItemCount
    /\ Leave("done", FALSE)
    /\ pulling' = pulling - 1
    /\ UNCHANGED <<held, pulled>>

\* Mutant: a failed close always reports its own error.
CloseSettlesLoudly ==
    /\ gen = "closing"
    /\ Answer(Other(ending)) \/ Answer(Other("closeError"))
    /\ gen' = "done"
    /\ closed' = TRUE
    /\ UNCHANGED <<held, failed, ending, pulled, pulls, pulling, closes>>

\* A close failure is an error of its own unless the scan already failed.
CloseSettles ==
    /\ gen = "closing"
    /\ \/ Answer(Other(ending))
       \/ Answer(Other(IF failed THEN ending ELSE "closeError"))
    /\ gen' = "done"
    /\ closed' = TRUE
    /\ UNCHANGED <<held, failed, ending, pulled, pulls, pulling, closes>>

\* The callers are done and every call is answered.
Quiet == /\ Len(replies) = MaxCalls
         /\ UNCHANGED vars

Next == \/ \E r \in Calls : Call(r)
        \/ StartOrSkip
        \/ ResumeNext
        \/ ResumeReturn
        \/ ResumeThrow
        \/ AnswerAfterEnd
        \/ ChunkArrives
        \/ PullFails
        \/ ScanExhausted
        \/ CloseSettles
        \/ Quiet

Spec == Init /\ [][Next]_vars

\* The language serves a resting generator's queue; native calls settle.
Fairness == /\ WF_vars(StartOrSkip)
            /\ WF_vars(ResumeNext \/ ResumeReturn \/ ResumeThrow)
            /\ WF_vars(AnswerAfterEnd)
            /\ WF_vars(ChunkArrives \/ PullFails \/ ScanExhausted)
            /\ WF_vars(CloseSettles)

FairSpec == Spec /\ Fairness

-----------------------------------------------------------------------------
\* Type correctness of the generator and its cursor.
TypeOK ==
    /\ gen \in {"start", "pulling", "yield", "closing", "done"}
    /\ requests \in Seq(Calls)
    /\ held \in Seq(1 .. ItemCount)
    /\ failed \in BOOLEAN
    /\ ending \in Failures \cup {"none", "done"}
    /\ replies \in Seq([is : Failures \cup {"item", "done"}, n : 0 .. ItemCount])
    /\ pulled \in 0 .. ItemCount
    /\ pulls \in Nat
    /\ pulling \in Nat
    /\ closes \in Nat
    /\ closed \in BOOLEAN

\* The cursor is pulled by one call at a time, closed by one call only, never
\* while a pull is running and never pulled again afterwards ("no close runs
\* during a pull", iterator.js).
CursorDiscipline ==
    /\ pulling <= 1 /\ closes <= 1
    /\ closes = 1 => pulling = 0

\* A scan that has pulled and is over has closed its cursor, whatever ended
\* it: the last item, return(), throw(), a failed pull or a failed decode.
EndedScanIsClosed ==
    gen = "done" /\ pulls > 0 => closes = 1 /\ closed

\* Callers see the items in order, each once, with none left out and nothing
\* between them, and a call of next() sees "done" only after the last item or
\* after an answer that ended the scan: a short chunk is no end.
ItemsInOrder ==
    [][replies' # replies =>
         LET last == replies'[Len(replies) + 1]
             OnlyItems == \A i \in 1 .. Len(replies) : replies[i].is = "item"
         IN  /\ replies' = Append(replies, last)
             /\ last.is = "item" => /\ OnlyItems /\ last.n = Len(replies) + 1
                                    /\ Head(requests) = "next"
             /\ last.is = "done" /\ Head(requests) = "next" /\ OnlyItems =>
                  Len(replies) = ItemCount]_vars

\* A failure the scan met is the failure the caller sees: an error of the
\* close that follows never replaces it.
FailureNotHidden ==
    [][closed' # closed /\ failed =>
         replies' = Append(replies, Other(ending))]_vars

\* Every call is answered in the end.
EveryCallAnswered == []<>(requests = << >>)

\* An iterator that has yielded and is then told to return closes its cursor.
ReturnCloses ==
    gen = "yield" /\ requests # << >> /\ Head(requests) = "return" ~> closed

\* How many items were answered: those that were pulled and are not held. An
\* item that could not be decoded has left the chunk without being answered.
Delivered == pulled - Len(held) - (IF ending = "decodeError" THEN 1 ELSE 0)

-----------------------------------------------------------------------------
(***************************************************************************)
(* The inductive invariant, in parts.                                      *)
(***************************************************************************)
\* The cursor is pulled and closed only where the generator waits for it.
CursorInv ==
    /\ pulling = (IF gen = "pulling" THEN 1 ELSE 0)
    /\ gen \in {"start", "pulling", "yield"} => closes = 0
    /\ gen = "closing" => closes = 1
    /\ gen = "done" => closes \in {0, 1} /\ (closes = 0 => pulls = 0)
    /\ gen = "done" /\ closes = 1 => closed
    /\ gen = "start" => pulls = 0
    /\ gen \notin {"start", "done"} => pulls > 0

\* The request that is served, and the completion it will be answered with.
RequestInv ==
    /\ gen \in {"pulling", "closing"} => requests # << >>
    /\ gen = "pulling" => Head(requests) = "next" /\ held = << >>
    /\ gen \in {"start", "pulling", "yield"} => ending = "none"
    /\ ending = "none" => ~failed
    /\ gen = "closing" =>
         CASE ending = "done" ->
                \/ Head(requests) = "return"
                \/ Head(requests) = "next" /\ pulled = ItemCount /\ held = << >>
           [] ending = "thrown" -> Head(requests) = "throw"
           [] ending \in {"pullError", "decodeError"} -> Head(requests) = "next"
           [] OTHER -> FALSE

\* What is held are the last items pulled; what was answered are the items
\* before them, and then, from the answer that ended the scan on, no more.
ItemInv ==
    /\ \A i \in 1 .. Len(held) : held[i] = pulled - Len(held) + i
    /\ Delivered \in 0 .. Len(replies)
    /\ gen = "start" => pulled = 0 /\ held = << >>
    /\ IF gen = "done" THEN Delivered < Len(replies)
                       ELSE Delivered = Len(replies)
    /\ \A i \in 1 .. Len(replies) :
         IF i <= Delivered THEN replies[i] = Item(i)
                           ELSE replies[i].is # "item"

ScanInv == TypeOK /\ CursorInv /\ RequestInv /\ ItemInv

-----------------------------------------------------------------------------
\* The generator keeps the promise of Scan.
Promise == INSTANCE Scan WITH
    delivered <- Delivered,
    ended <- gen = "done"

Implements == Promise!Spec

=============================================================================
