-------------------------- MODULE StateScanProofs ---------------------------
(***************************************************************************)
(* Proofs about StateScan: ScanInv is inductive for every number of items, *)
(* chunk size and number of calls; the safety properties and the           *)
(* refinement of Scan follow from it.                                      *)
(***************************************************************************)
EXTENDS StateScan, TLAPS

\* The tail of a sequence that is not empty: its length and its elements.
LEMMA TailFacts ==
    ASSUME NEW S, NEW q \in Seq(S), q # << >>
    PROVE  /\ Head(q) \in S
           /\ Head(q) = q[1]
           /\ Tail(q) \in Seq(S)
           /\ Len(q) \in Nat \ {0}
           /\ Len(Tail(q)) = Len(q) - 1
           /\ \A i \in 1 .. Len(q) - 1 : Tail(q)[i] = q[i + 1]
  OBVIOUS

\* The empty sequence.
LEMMA EmptyQueue ==
    ASSUME NEW S PROVE << >> \in Seq(S) /\ Len(<< >>) = 0
  OBVIOUS

\* Appending an element: what the longer sequence holds.
LEMMA AppendFacts ==
    ASSUME NEW S, NEW q \in Seq(S), NEW x \in S
    PROVE  /\ Append(q, x) \in Seq(S)
           /\ Len(q) \in Nat
           /\ Len(Append(q, x)) = Len(q) + 1
           /\ Append(q, x)[Len(q) + 1] = x
           /\ \A i \in 1 .. Len(q) : Append(q, x)[i] = q[i]
           /\ Append(q, x) # << >>
           /\ q # << >> => Head(Append(q, x)) = Head(q)
  <1>1. /\ Append(q, x) \in Seq(S)
        /\ Len(Append(q, x)) = Len(q) + 1 /\ Len(q) \in Nat
        /\ \A i \in 1 .. Len(q) : Append(q, x)[i] = q[i]
        /\ Append(q, x)[Len(q) + 1] = x
    OBVIOUS
  <1>2. Append(q, x) # << >>
    BY <1>1
  <1>3. ASSUME q # << >> PROVE Head(Append(q, x)) = Head(q)
    <2>1. 1 \in 1 .. Len(q) /\ Head(q) = q[1]
      BY <1>3, TailFacts
    <2>2. Head(Append(q, x)) = Append(q, x)[1]
      BY <1>1, <1>2, TailFacts
    <2> QED
      BY <1>1, <2>1, <2>2
  <1> QED
    BY <1>1, <1>2, <1>3

\* A chunk of the cursor: the next `size` items in order.
LEMMA ChunkFacts ==
    ASSUME NEW p \in Nat, NEW size \in Nat \ {0}, NEW m \in Nat, p + size <= m,
           NEW c, c = [i \in 1 .. size |-> p + i]
    PROVE  /\ c \in Seq(1 .. m)
           /\ Len(c) = size
           /\ c # << >>
           /\ \A i \in 1 .. Len(c) : c[i] = p + size - Len(c) + i
  <1>1. c \in [1 .. size -> 1 .. m]
    OBVIOUS
  <1>2. c \in Seq(1 .. m) /\ Len(c) = size
    BY <1>1
  <1>3. c # << >>
    BY <1>2
  <1> QED
    BY <1>2, <1>3

\* Initially the invariant holds.
LEMMA ScanInit == Init => ScanInv
  <1> SUFFICES ASSUME Init PROVE ScanInv
    OBVIOUS
  <1>1. requests \in Seq(Calls)
    BY EmptyQueue DEF Init
  <1>2. replies \in Seq([is : Failures \cup {"item", "done"}, n : 0 .. ItemCount])
        /\ Len(replies) = 0
    BY EmptyQueue DEF Init
  <1>3. held \in Seq(1 .. ItemCount) /\ Len(held) = 0
    BY EmptyQueue DEF Init
  <1>4. TypeOK
    <2>1. /\ gen = "start" /\ ending = "none" /\ pulls = 0 /\ pulling = 0
          /\ closes = 0 /\ pulled = 0
      BY DEF Init
    <2>2. failed \in BOOLEAN /\ closed \in BOOLEAN
      BY DEF Init
    <2>3. pulled \in 0 .. ItemCount
      BY <2>1, ScanAssumption DEF ScanAssumption
    <2>4. /\ gen \in {"start", "pulling", "yield", "closing", "done"}
          /\ ending \in Failures \cup {"none", "done"}
          /\ pulls \in Nat /\ pulling \in Nat /\ closes \in Nat
      BY <2>1
    <2> QED
      BY <1>1, <1>2, <1>3, <2>2, <2>3, <2>4 DEF TypeOK
  <1>5. CursorInv /\ RequestInv
    BY DEF Init, CursorInv, RequestInv
  <1>6. Delivered = 0
    <2>1. pulled = 0 /\ ending = "none"
      BY DEF Init
    <2> QED
      BY <1>3, <2>1 DEF Delivered
  <1>7. ItemInv
    BY <1>2, <1>3, <1>6 DEF Init, ItemInv
  <1> QED
    BY <1>4, <1>5, <1>7 DEF ScanInv

-----------------------------------------------------------------------------
(***************************************************************************)
(* The helpers of the actions. Answering keeps the answers in order; what  *)
(* is answered is the next item or, from then on, never an item.           *)
(***************************************************************************)
\* An answer takes the served request away and adds one reply.
LEMMA AnswerKeepsTypes ==
    ASSUME ScanInv, requests # << >>,
           NEW reply \in [is : Failures \cup {"item", "done"}, n : 0 .. ItemCount],
           Answer(reply)
    PROVE  /\ requests' \in Seq(Calls)
           /\ replies' \in
                Seq([is : Failures \cup {"item", "done"}, n : 0 .. ItemCount])
           /\ Len(replies) \in Nat
           /\ Len(replies') = Len(replies) + 1
           /\ replies'[Len(replies) + 1] = reply
           /\ \A i \in 1 .. Len(replies) : replies'[i] = replies[i]
  <1>1. requests \in Seq(Calls) /\ requests # << >>
    BY DEF ScanInv, TypeOK
  <1>2. requests' \in Seq(Calls)
    BY <1>1, TailFacts DEF Answer
  <1>3. replies \in Seq([is : Failures \cup {"item", "done"}, n : 0 .. ItemCount])
    BY DEF ScanInv, TypeOK
  <1> QED
    BY <1>2, <1>3, AppendFacts DEF Answer

\* An answer that is not an item leaves the items in order.
LEMMA OtherKeepsItems ==
    ASSUME ScanInv, requests # << >>,
           NEW what \in Failures \cup {"done"},
           Answer(Other(what)),
           UNCHANGED <<held, pulled, ending>>
    PROVE  /\ \A i \in 1 .. Len(held') : held'[i] = pulled' - Len(held') + i
           /\ Delivered' \in 0 .. Len(replies')
           /\ Delivered' = Delivered /\ Delivered' < Len(replies')
           /\ \A i \in 1 .. Len(replies') :
                IF i <= Delivered' THEN replies'[i] = Item(i)
                                   ELSE replies'[i].is # "item"
  <1> DEFINE reply == Other(what)
  <1>1. /\ reply \in [is : Failures \cup {"item", "done"}, n : 0 .. ItemCount]
        /\ reply.is # "item"
    BY ScanAssumption DEF ScanAssumption, Other, Failures
  <1>2. /\ Len(replies) \in Nat
        /\ Len(replies') = Len(replies) + 1
        /\ replies'[Len(replies) + 1] = reply
        /\ \A i \in 1 .. Len(replies) : replies'[i] = replies[i]
    BY <1>1, AnswerKeepsTypes
  <1>3. Delivered' = Delivered /\ Delivered \in 0 .. Len(replies)
    BY DEF ScanInv, ItemInv, Delivered
  <1>4. \A i \in 1 .. Len(replies') :
            IF i <= Delivered' THEN replies'[i] = Item(i)
                               ELSE replies'[i].is # "item"
    <2> SUFFICES ASSUME NEW i \in 1 .. Len(replies')
                 PROVE  IF i <= Delivered' THEN replies'[i] = Item(i)
                                           ELSE replies'[i].is # "item"
      OBVIOUS
    <2>1. CASE i \in 1 .. Len(replies)
      BY <2>1, <1>2, <1>3 DEF ScanInv, ItemInv
    <2>2. CASE i = Len(replies) + 1
      BY <2>2, <1>1, <1>2, <1>3
    <2> QED
      BY <2>1, <2>2, <1>2
  <1>5. \A i \in 1 .. Len(held') : held'[i] = pulled' - Len(held') + i
    BY DEF ScanInv, ItemInv
  <1> QED
    BY <1>2, <1>3, <1>4, <1>5

\* Yielding from a chunk of the last items pulled: one more item is answered,
\* or the generator goes on to close.
LEMMA YieldKeepsScan ==
    ASSUME ScanInv, requests # << >>, Head(requests) = "next",
           gen \in {"pulling", "yield"},
           NEW chunk \in Seq(1 .. ItemCount), chunk # << >>,
           Yield(chunk),
           pulled' \in 0 .. ItemCount, pulling' = 0,
           \A i \in 1 .. Len(chunk) : chunk[i] = pulled' - Len(chunk) + i,
           pulled' - Len(chunk) = Delivered
    PROVE  ScanInv'
  <1>1. /\ Head(chunk) = Delivered + 1
        /\ Head(chunk) \in 1 .. ItemCount
        /\ Tail(chunk) \in Seq(1 .. ItemCount)
        /\ Len(chunk) \in Nat \ {0}
        /\ Len(Tail(chunk)) = Len(chunk) - 1
        /\ \A i \in 1 .. Len(chunk) - 1 : Tail(chunk)[i] = chunk[i + 1]
    <2>1. /\ chunk[1] \in 1 .. ItemCount /\ Head(chunk) = chunk[1]
          /\ Tail(chunk) \in Seq(1 .. ItemCount)
          /\ Len(chunk) \in Nat \ {0}
          /\ Len(Tail(chunk)) = Len(chunk) - 1
          /\ \A i \in 1 .. Len(chunk) - 1 : Tail(chunk)[i] = chunk[i + 1]
      <3>1. chunk \in Seq(1 .. ItemCount) /\ chunk # << >>
        OBVIOUS
      <3> QED
        BY <3>1, TailFacts
    <2>2. chunk[1] = pulled' - Len(chunk) + 1
      BY <2>1
    <2> QED
      BY <2>1, <2>2
  <1>2. held' = Tail(chunk)
    BY DEF Yield
  <1>3. \A i \in 1 .. Len(held') : held'[i] = pulled' - Len(held') + i
    BY <1>1, <1>2
  <1>4. ending = "none" /\ closes = 0 /\ pulls > 0 /\ ~failed
        /\ Delivered = Len(replies)
    BY DEF ScanInv, CursorInv, RequestInv, ItemInv
  <1>5. CASE /\ Answer(Item(Head(chunk)))
             /\ gen' = "yield"
             /\ UNCHANGED <<failed, ending, pulls, closes, closed>>
    <2> DEFINE reply == Item(Head(chunk))
    <2>1. reply \in [is : Failures \cup {"item", "done"}, n : 0 .. ItemCount]
      BY <1>1, ScanAssumption DEF Item, ScanAssumption
    <2>2. /\ requests' \in Seq(Calls)
          /\ replies' \in
               Seq([is : Failures \cup {"item", "done"}, n : 0 .. ItemCount])
          /\ Len(replies) \in Nat
          /\ Len(replies') = Len(replies) + 1
          /\ replies'[Len(replies) + 1] = reply
          /\ \A i \in 1 .. Len(replies) : replies'[i] = replies[i]
      BY <1>5, <2>1, AnswerKeepsTypes
    <2>3. Delivered' = Delivered + 1
      BY <1>1, <1>2, <1>4, <1>5 DEF Delivered
    <2>4. \A i \in 1 .. Len(replies') : replies'[i] = Item(i)
      <3> SUFFICES ASSUME NEW i \in 1 .. Len(replies')
                   PROVE  replies'[i] = Item(i)
        OBVIOUS
      <3>1. CASE i \in 1 .. Len(replies)
        BY <3>1, <2>2, <1>4 DEF ScanInv, ItemInv
      <3>2. CASE i = Len(replies) + 1
        BY <3>2, <2>2, <1>1, <1>4
      <3> QED
        BY <3>1, <3>2, <2>2
    <2>5. TypeOK'
      BY <1>1, <1>2, <1>5, <2>2 DEF ScanInv, TypeOK
    <2>6. CursorInv' /\ RequestInv'
      BY <1>4, <1>5 DEF CursorInv, RequestInv, ScanInv
    <2>7. ItemInv'
      BY <1>3, <1>4, <1>5, <2>2, <2>3, <2>4 DEF ItemInv
    <2> QED
      BY <2>5, <2>6, <2>7 DEF ScanInv
  <1>6. CASE Leave("decodeError", TRUE)
    <2>1. TypeOK'
      BY <1>1, <1>2, <1>6 DEF ScanInv, TypeOK, Leave, Failures
    <2>2. CursorInv' /\ RequestInv'
      BY <1>4, <1>6 DEF CursorInv, RequestInv, ScanInv, Leave
    <2>3. Delivered' = Delivered
      BY <1>1, <1>2, <1>4, <1>6 DEF Delivered, Leave
    <2>4. ItemInv'
      BY <1>3, <1>4, <1>6, <2>3 DEF ItemInv, ScanInv, Leave
    <2> QED
      BY <2>1, <2>2, <2>4 DEF ScanInv
  <1> QED
    BY <1>5, <1>6 DEF Yield

-----------------------------------------------------------------------------
(***************************************************************************)
(* One lemma per action.                                                   *)
(***************************************************************************)
\* A new call waits behind the others.
LEMMA CallInv == ASSUME ScanInv, NEW r \in Calls, Call(r) PROVE ScanInv'
  <1>1. requests \in Seq(Calls)
    BY DEF ScanInv, TypeOK
  <1>2. /\ requests' \in Seq(Calls)
        /\ requests' # << >>
        /\ requests # << >> => Head(requests') = Head(requests)
    BY <1>1, AppendFacts DEF Call
  <1>3. TypeOK'
    BY <1>2 DEF ScanInv, TypeOK, Call, nativeVars
  <1>4. CursorInv'
    BY DEF ScanInv, CursorInv, Call, nativeVars
  <1>5. RequestInv'
    BY <1>2 DEF ScanInv, RequestInv, Call, nativeVars
  <1>6. ItemInv'
    BY DEF ScanInv, ItemInv, Call, nativeVars, Delivered
  <1> QED
    BY <1>3, <1>4, <1>5, <1>6 DEF ScanInv

\* Pulling from a generator that holds nothing.
LEMMA PullInv ==
    ASSUME ScanInv, Pull, gen \in {"start", "yield"}, held = << >>,
           requests # << >>, Head(requests) = "next"
    PROVE  ScanInv'
  <1>1. TypeOK'
    BY DEF ScanInv, TypeOK, Pull
  <1>2. CursorInv'
    BY DEF ScanInv, TypeOK, CursorInv, Pull
  <1>3. RequestInv'
    BY DEF ScanInv, RequestInv, Pull
  <1>4. ItemInv'
    BY DEF ScanInv, ItemInv, Pull, Delivered
  <1> QED
    BY <1>1, <1>2, <1>3, <1>4 DEF ScanInv

\* Answering from the queue of a generator that is done afterwards.
LEMMA AnswerInv ==
    ASSUME ScanInv, requests # << >>, NEW what \in Failures \cup {"done"},
           Answer(Other(what)), gen' = "done",
           UNCHANGED <<held, failed, ending, pulled, pulls, closes>>,
           pulling = 0, pulling' = 0, closed' \in BOOLEAN,
           closes \in {0, 1}, closes = 0 => pulls = 0, closes = 1 => closed'
    PROVE  ScanInv'
  <1> DEFINE reply == Other(what)
  <1>1. reply \in [is : Failures \cup {"item", "done"}, n : 0 .. ItemCount]
    BY ScanAssumption DEF ScanAssumption, Other, Failures
  <1>2. /\ requests' \in Seq(Calls)
        /\ replies' \in
             Seq([is : Failures \cup {"item", "done"}, n : 0 .. ItemCount])
    BY <1>1, AnswerKeepsTypes
  <1>3. TypeOK'
    BY <1>2 DEF ScanInv, TypeOK
  <1>4. CursorInv' /\ RequestInv'
    BY DEF ScanInv, CursorInv, RequestInv
  <1>5. ItemInv'
    BY OtherKeepsItems DEF ItemInv
  <1> QED
    BY <1>3, <1>4, <1>5 DEF ScanInv

\* Leaving the loop for the finally block with nothing answered yet.
LEMMA LeaveInv ==
    ASSUME ScanInv, NEW what, NEW quietly \in BOOLEAN, Leave(what, quietly),
           gen \in {"pulling", "yield"}, requests # << >>,
           UNCHANGED <<held, pulled>>, pulling' = 0,
           \/ what = "done" /\ Head(requests) = "return"
           \/ what = "done" /\ Head(requests) = "next" /\ pulled = ItemCount
                /\ held = << >>
           \/ what = "thrown" /\ Head(requests) = "throw"
           \/ what = "pullError" /\ Head(requests) = "next"
    PROVE  ScanInv'
  <1>1. what \in {"done", "thrown", "pullError"}
    OBVIOUS
  <1>2. TypeOK'
    BY <1>1 DEF ScanInv, TypeOK, Leave, Failures
  <1>3. CursorInv'
    BY DEF ScanInv, CursorInv, Leave
  <1>4. RequestInv'
    BY <1>1 DEF ScanInv, RequestInv, Leave
  <1>5. Delivered' = Delivered
    BY <1>1 DEF ScanInv, RequestInv, Delivered, Leave
  <1>6. ItemInv'
    BY <1>5 DEF ScanInv, ItemInv, Leave
  <1> QED
    BY <1>2, <1>3, <1>4, <1>6 DEF ScanInv

\* The generator takes its first request.
LEMMA StartInv == ASSUME ScanInv, StartOrSkip PROVE ScanInv'
  <1>1. CASE Head(requests) = "next" /\ Pull
    <2>1. held = << >>
      BY DEF StartOrSkip, ScanInv, ItemInv
    <2> QED
      BY <1>1, <2>1, PullInv DEF StartOrSkip
  <1>2. CASE /\ Answer(Other(IF Head(requests) = "throw" THEN "thrown"
                                                          ELSE "done"))
             /\ gen' = "done"
             /\ UNCHANGED <<held, failed, ending>>
             /\ UNCHANGED nativeVars
    <2> DEFINE what == IF Head(requests) = "throw" THEN "thrown" ELSE "done"
    <2>1. what \in Failures \cup {"done"}
      BY DEF Failures
    <2>2. /\ requests # << >> /\ pulling = 0 /\ closes = 0 /\ pulls = 0
          /\ closed \in BOOLEAN
      BY DEF StartOrSkip, ScanInv, CursorInv, TypeOK
    <2>3. UNCHANGED <<held, failed, ending, pulled, pulls, closes, pulling,
                      closed>>
      BY <1>2 DEF nativeVars
    <2> HIDE DEF what
    <2>4. Answer(Other(what))
      BY <1>2 DEF what
    <2> QED
      BY <1>2, <2>1, <2>2, <2>3, <2>4, AnswerInv
  <1> QED
    BY <1>1, <1>2 DEF StartOrSkip

\* next() at a yield.
LEMMA NextInv == ASSUME ScanInv, ResumeNext PROVE ScanInv'
  <1>1. CASE held = << >> /\ Pull
    BY <1>1, PullInv DEF ResumeNext
  <1>2. CASE held # << >> /\ Yield(held) /\ UNCHANGED <<pulled, pulling>>
    <2>1. /\ held \in Seq(1 .. ItemCount) /\ pulled \in 0 .. ItemCount
          /\ pulling = 0 /\ ending = "none"
          /\ \A i \in 1 .. Len(held) : held[i] = pulled - Len(held) + i
      BY DEF ResumeNext, ScanInv, TypeOK, CursorInv, RequestInv, ItemInv
    <2>2. pulled - Len(held) = Delivered
      BY <2>1 DEF Delivered
    <2> QED
      BY <1>2, <2>1, <2>2, YieldKeepsScan DEF ResumeNext
  <1> QED
    BY <1>1, <1>2 DEF ResumeNext

\* return() or throw() at a yield.
LEMMA LeaveEarlyInv ==
    ASSUME ScanInv, ResumeReturn \/ ResumeThrow PROVE ScanInv'
  <1>1. gen = "yield" /\ requests # << >> /\ UNCHANGED <<held, pulled, pulling>>
    BY DEF ResumeReturn, ResumeThrow
  <1>2. pulling' = 0
    BY <1>1 DEF ScanInv, CursorInv
  <1>3. CASE ResumeReturn
    BY <1>1, <1>2, <1>3, LeaveInv DEF ResumeReturn
  <1>4. CASE ResumeThrow
    BY <1>1, <1>2, <1>4, LeaveInv DEF ResumeThrow
  <1> QED
    BY <1>3, <1>4

\* Calls after the end of the scan.
LEMMA AfterEndInv == ASSUME ScanInv, AnswerAfterEnd PROVE ScanInv'
  <1> DEFINE what == IF Head(requests) = "throw" THEN "thrown" ELSE "done"
  <1>1. what \in Failures \cup {"done"}
    BY DEF Failures
  <1>2. /\ requests # << >> /\ gen = "done" /\ pulling = 0 /\ closes \in {0, 1}
        /\ closes = 0 => pulls = 0
        /\ closes = 1 => closed
        /\ closed \in BOOLEAN
    BY DEF AnswerAfterEnd, ScanInv, CursorInv, TypeOK
  <1>3. UNCHANGED <<gen, held, failed, ending, pulled, pulls, closes, pulling,
                    closed>>
    BY DEF AnswerAfterEnd, nativeVars
  <1>4. Answer(Other(what))
    BY DEF AnswerAfterEnd
  <1> HIDE DEF what
  <1> QED
    BY <1>1, <1>2, <1>3, <1>4, AnswerInv

\* A pull settles with a chunk.
LEMMA ChunkInv == ASSUME ScanInv, ChunkArrives PROVE ScanInv'
  <1>1. PICK size \in 1 .. ChunkSize :
            /\ pulled + size <= ItemCount
            /\ pulled' = pulled + size
            /\ Yield([i \in 1 .. size |-> pulled + i])
    BY DEF ChunkArrives
  <1>2. PICK chunk : chunk = [i \in 1 .. size |-> pulled + i]
    OBVIOUS
  <1>3. /\ gen = "pulling" /\ requests # << >> /\ Head(requests) = "next"
        /\ held = << >> /\ ending = "none" /\ pulling' = 0
        /\ pulled \in 0 .. ItemCount
    BY DEF ChunkArrives, ScanInv, TypeOK, CursorInv, RequestInv
  <1>4. size \in Nat \ {0} /\ pulled \in Nat /\ ItemCount \in Nat
    BY <1>3, ScanAssumption DEF ScanAssumption
  <1>5. /\ chunk \in Seq(1 .. ItemCount)
        /\ Len(chunk) = size
        /\ chunk # << >>
        /\ \A i \in 1 .. Len(chunk) : chunk[i] = pulled + size - Len(chunk) + i
    BY <1>1, <1>2, <1>4, ChunkFacts
  <1>6. pulled' - Len(chunk) = Delivered
    BY <1>1, <1>3, <1>4, <1>5 DEF Delivered
  <1>7. pulled' \in 0 .. ItemCount
    BY <1>1, <1>4
  <1>8. \A i \in 1 .. Len(chunk) : chunk[i] = pulled' - Len(chunk) + i
    <2> SUFFICES ASSUME NEW i \in 1 .. Len(chunk)
                 PROVE  chunk[i] = pulled' - Len(chunk) + i
      OBVIOUS
    <2>1. chunk[i] = pulled + size - Len(chunk) + i
      BY <1>5
    <2>2. pulled' = pulled + size
      BY <1>1
    <2> QED
      BY <1>4, <1>5, <1>7, <2>1, <2>2
  <1>9. Yield(chunk)
    BY <1>1, <1>2
  <1> QED
    BY <1>3, <1>5, <1>6, <1>7, <1>8, <1>9, YieldKeepsScan

\* A pull fails or finds the scan exhausted.
LEMMA LastPullInv ==
    ASSUME ScanInv, PullFails \/ ScanExhausted PROVE ScanInv'
  <1>1. gen = "pulling" /\ UNCHANGED <<held, pulled>> /\ pulling' = pulling - 1
    BY DEF PullFails, ScanExhausted
  <1>2. pulling' = 0 /\ requests # << >> /\ Head(requests) = "next"
        /\ held = << >>
    BY <1>1 DEF ScanInv, CursorInv, RequestInv
  <1>3. CASE PullFails
    BY <1>1, <1>2, <1>3, LeaveInv DEF PullFails
  <1>4. CASE ScanExhausted
    BY <1>1, <1>2, <1>4, LeaveInv DEF ScanExhausted
  <1> QED
    BY <1>3, <1>4

\* The close settles and the served call is answered.
LEMMA CloseInv == ASSUME ScanInv, CloseSettles PROVE ScanInv'
  <1>1. /\ gen = "closing" /\ requests # << >> /\ pulling = 0 /\ closes = 1
        /\ ending \in Failures \cup {"done"}
    BY DEF CloseSettles, ScanInv, TypeOK, CursorInv, RequestInv, Failures
  <1>2. PICK what \in Failures \cup {"done"} : Answer(Other(what))
    BY <1>1 DEF CloseSettles, Failures
  <1>3. /\ gen' = "done" /\ closed' = TRUE
        /\ UNCHANGED <<held, failed, ending, pulled, pulls, pulling, closes>>
    BY DEF CloseSettles
  <1> QED
    BY <1>1, <1>2, <1>3, AnswerInv

\* Every step keeps the invariant.
LEMMA ScanStep == ScanInv /\ [Next]_vars => ScanInv'
  <1> SUFFICES ASSUME ScanInv, [Next]_vars PROVE ScanInv'
    OBVIOUS
  <1>1. CASE UNCHANGED vars
    BY <1>1 DEF vars, ScanInv, TypeOK, CursorInv, RequestInv, ItemInv, Delivered
  <1>2. CASE \E r \in Calls : Call(r)
    BY <1>2, CallInv
  <1>3. CASE StartOrSkip
    BY <1>3, StartInv
  <1>4. CASE ResumeNext
    BY <1>4, NextInv
  <1>5. CASE ResumeReturn \/ ResumeThrow
    BY <1>5, LeaveEarlyInv
  <1>6. CASE AnswerAfterEnd
    BY <1>6, AfterEndInv
  <1>7. CASE ChunkArrives
    BY <1>7, ChunkInv
  <1>8. CASE PullFails \/ ScanExhausted
    BY <1>8, LastPullInv
  <1>9. CASE CloseSettles
    BY <1>9, CloseInv
  <1>10. CASE Quiet
    BY <1>1, <1>10 DEF Quiet
  <1> QED
    BY <1>1, <1>2, <1>3, <1>4, <1>5, <1>6, <1>7, <1>8, <1>9, <1>10 DEF Next

-----------------------------------------------------------------------------
(***************************************************************************)
(* The theorems.                                                           *)
(***************************************************************************)
\* The strengthened invariant of the generator and its cursor holds.
THEOREM ScanInvariant == Spec => []ScanInv
  <1>1. Init => ScanInv
    BY ScanInit
  <1>2. ScanInv /\ [Next]_vars => ScanInv'
    BY ScanStep
  <1> QED
    BY <1>1, <1>2, PTL DEF Spec

\* The state of the generator and of its cursor is type correct.
THEOREM ScanTypeCorrect == Spec => []TypeOK
  <1>1. ScanInv => TypeOK
    BY DEF ScanInv
  <1> QED
    BY <1>1, ScanInvariant, PTL

\* One pull at a time, one close, and no pull is running when it is made,
\* however callers interleave next(), return() and throw().
THEOREM CursorsAreDisciplined == Spec => []CursorDiscipline
  <1>1. ScanInv => CursorDiscipline
    BY DEF ScanInv, TypeOK, CursorInv, CursorDiscipline
  <1> QED
    BY <1>1, ScanInvariant, PTL

\* A scan that has pulled closes its cursor before its last answer.
THEOREM EndedScansAreClosed == Spec => []EndedScanIsClosed
  <1>1. ScanInv => EndedScanIsClosed
    BY DEF ScanInv, TypeOK, CursorInv, EndedScanIsClosed
  <1> QED
    BY <1>1, ScanInvariant, PTL

\* What ItemsInOrder asks of one answer.
InOrder ==
    LET last == replies'[Len(replies) + 1]
        OnlyItems == \A i \in 1 .. Len(replies) : replies[i].is = "item"
    IN  /\ replies' = Append(replies, last)
        /\ last.is = "item" => /\ OnlyItems /\ last.n = Len(replies) + 1
                               /\ Head(requests) = "next"
        /\ last.is = "done" /\ Head(requests) = "next" /\ OnlyItems =>
             Len(replies) = ItemCount

\* An answer without an item is in order: next() is told "done" after an
\* answer that ended the scan, or when the close follows the last item.
LEMMA OtherInOrder ==
    ASSUME ScanInv, requests # << >>, NEW what \in Failures \cup {"done"},
           Answer(Other(what)),
           what = "done" /\ Head(requests) = "next" =>
             \/ gen = "done"
             \/ gen # "done" /\ pulled = ItemCount /\ held = << >>
                  /\ ending # "decodeError"
    PROVE  InOrder
  <1> DEFINE reply == Other(what)
  <1>1. /\ reply \in [is : Failures \cup {"item", "done"}, n : 0 .. ItemCount]
        /\ reply.is = what /\ reply.is # "item"
    BY ScanAssumption DEF ScanAssumption, Other, Failures
  <1>2. /\ replies'[Len(replies) + 1] = reply
        /\ replies' = Append(replies, reply)
        /\ Len(replies) \in Nat
    BY <1>1, AnswerKeepsTypes DEF Answer
  <1>3. CASE gen = "done"
    <2>1. Delivered + 1 \in 1 .. Len(replies) /\ ~(Delivered + 1 <= Delivered)
      BY <1>2, <1>3 DEF ScanInv, ItemInv
    <2>2. replies[Delivered + 1].is # "item"
      BY <2>1 DEF ScanInv, ItemInv
    <2> QED
      BY <1>1, <1>2, <2>1, <2>2 DEF InOrder
  <1>4. CASE gen # "done"
    <2>1. what = "done" /\ Head(requests) = "next" => Delivered = ItemCount
      BY <1>4, ScanAssumption DEF Delivered, ScanAssumption
    <2>2. Delivered = Len(replies)
      BY <1>4 DEF ScanInv, ItemInv
    <2> QED
      BY <1>1, <1>2, <2>1, <2>2 DEF InOrder
  <1> QED
    BY <1>3, <1>4

\* A yielded item is the next one and follows items only.
LEMMA YieldInOrder ==
    ASSUME ScanInv, requests # << >>, Head(requests) = "next", gen # "done",
           NEW chunk, Yield(chunk), replies' # replies,
           Head(chunk) \in 1 .. ItemCount, Head(chunk) = Delivered + 1
    PROVE  InOrder
  <1> DEFINE reply == Item(Head(chunk))
  <1>1. Answer(reply)
    BY DEF Yield, Leave
  <1>2. /\ reply \in [is : Failures \cup {"item", "done"}, n : 0 .. ItemCount]
        /\ reply.is = "item" /\ reply.n = Delivered + 1
    BY ScanAssumption DEF ScanAssumption, Item
  <1>3. /\ replies'[Len(replies) + 1] = reply
        /\ replies' = Append(replies, reply)
        /\ Len(replies) \in Nat
    BY <1>1, <1>2, AnswerKeepsTypes DEF Answer
  <1>4. Delivered = Len(replies)
    BY DEF ScanInv, ItemInv
  <1>5. \A i \in 1 .. Len(replies) : replies[i].is = "item"
    <2>1. \A i \in 1 .. Len(replies) : replies[i] = Item(i)
      BY <1>3, <1>4 DEF ScanInv, ItemInv
    <2>2. \A j : Item(j).is = "item"
      BY DEF Item
    <2> QED
      BY <2>1, <2>2, Zenon
  <1> QED
    BY <1>2, <1>3, <1>4, <1>5 DEF InOrder

\* Callers see the items of the scan in order and nothing between them, and
\* next() is told of no end before the last item that no answer explains.
THEOREM ItemsComeInOrder == Spec => ItemsInOrder
  <1>1. ASSUME ScanInv, [Next]_vars, replies' # replies PROVE InOrder
    <2>1. CASE StartOrSkip
      <3> DEFINE what == IF Head(requests) = "throw" THEN "thrown" ELSE "done"
      <3>1. /\ what \in Failures \cup {"done"} /\ requests # << >>
            /\ Head(requests) # "next" /\ Answer(Other(what))
        BY <1>1, <2>1 DEF StartOrSkip, Failures, Pull
      <3> HIDE DEF what
      <3> QED
        BY <1>1, <3>1, OtherInOrder
    <2>2. CASE ResumeNext
      <3>1. held # << >> /\ Yield(held) /\ requests # << >>
            /\ Head(requests) = "next" /\ gen # "done"
        BY <1>1, <2>2 DEF ResumeNext, Pull
      <3>2. /\ held \in Seq(1 .. ItemCount) /\ ending = "none"
            /\ pulled \in 0 .. ItemCount
            /\ \A i \in 1 .. Len(held) : held[i] = pulled - Len(held) + i
        BY <1>1, <2>2 DEF ResumeNext, ScanInv, TypeOK, RequestInv, ItemInv
      <3>3. /\ Head(held) = held[1] /\ held[1] \in 1 .. ItemCount
            /\ 1 \in 1 .. Len(held)
        <4>1. held \in Seq(1 .. ItemCount) /\ held # << >>
          BY <3>1, <3>2
        <4>2. Head(held) = held[1] /\ Head(held) \in 1 .. ItemCount
          BY ONLY <4>1, TailFacts
        <4>3. Len(held) \in Nat \ {0}
          BY ONLY <4>1, TailFacts
        <4> QED
          BY ONLY <4>2, <4>3, SMT
      <3>4. Head(held) = Delivered + 1
        BY <3>2, <3>3 DEF Delivered
      <3> QED
        BY <1>1, <3>1, <3>3, <3>4, YieldInOrder
    <2>3. CASE AnswerAfterEnd
      <3> DEFINE what == IF Head(requests) = "throw" THEN "thrown" ELSE "done"
      <3>1. /\ what \in Failures \cup {"done"} /\ requests # << >>
            /\ gen = "done" /\ Answer(Other(what))
        BY <2>3 DEF AnswerAfterEnd, Failures
      <3> HIDE DEF what
      <3> QED
        BY <1>1, <3>1, OtherInOrder
    <2>4. CASE ChunkArrives
      <3>1. PICK size \in 1 .. ChunkSize :
                /\ pulled + size <= ItemCount
                /\ Yield([i \in 1 .. size |-> pulled + i])
        BY <2>4 DEF ChunkArrives
      <3>2. PICK chunk : chunk = [i \in 1 .. size |-> pulled + i]
        OBVIOUS
      <3>3. /\ gen = "pulling" /\ requests # << >> /\ Head(requests) = "next"
            /\ held = << >> /\ ending = "none" /\ pulled \in 0 .. ItemCount
        BY <1>1, <2>4
        DEF ChunkArrives, ScanInv, TypeOK, CursorInv, RequestInv
      <3>4. size \in Nat \ {0} /\ pulled \in Nat /\ ItemCount \in Nat
        BY <3>3, ScanAssumption DEF ScanAssumption
      <3>5. Head(chunk) = pulled + 1 /\ pulled + 1 \in 1 .. ItemCount
        <4>1. /\ Len(chunk) = size /\ chunk # << >>
              /\ chunk \in Seq(1 .. ItemCount)
          BY <3>1, <3>2, <3>4, ChunkFacts
        <4>2. Head(chunk) = chunk[1] /\ chunk[1] \in 1 .. ItemCount
          BY <3>4, <4>1
        <4>3. 1 \in 1 .. size
          BY <3>4
        <4>4. chunk[1] = pulled + 1
          BY <3>2, <4>3, Zenon
        <4> QED
          BY <4>2, <4>4
      <3>6. Delivered = pulled
        BY <3>3 DEF Delivered
      <3> QED
        BY <1>1, <3>1, <3>2, <3>3, <3>5, <3>6, YieldInOrder
    <2>5. CASE CloseSettles
      <3>1. /\ gen = "closing" /\ requests # << >>
            /\ ending \in Failures \cup {"done"}
            /\ ending = "done" /\ Head(requests) = "next" =>
                 pulled = ItemCount /\ held = << >>
        BY <1>1, <2>5
        DEF CloseSettles, ScanInv, TypeOK, RequestInv, Failures
      <3>2. PICK what \in Failures \cup {"done"} :
                /\ Answer(Other(what))
                /\ what = "done" => ending = "done"
        BY <2>5, <3>1 DEF CloseSettles, Failures
      <3> QED
        BY <1>1, <3>1, <3>2, OtherInOrder
    <2>6. CASE \/ \E r \in Calls : Call(r)
               \/ ResumeReturn \/ ResumeThrow
               \/ PullFails \/ ScanExhausted
               \/ Quiet \/ UNCHANGED vars
      <3>1. (\E r \in Calls : Call(r)) => replies' = replies
        BY DEF Call
      <3>2. ResumeReturn \/ ResumeThrow => replies' = replies
        BY DEF ResumeReturn, ResumeThrow, Leave
      <3>3. PullFails \/ ScanExhausted => replies' = replies
        BY DEF PullFails, ScanExhausted, Leave
      <3>4. Quiet \/ UNCHANGED vars => replies' = replies
        BY DEF Quiet, vars
      <3> QED
        BY <1>1, <2>6, <3>1, <3>2, <3>3, <3>4
    <2> QED
      BY <1>1, <2>1, <2>2, <2>3, <2>4, <2>5, <2>6 DEF Next
  <1>2. ScanInv /\ [Next]_vars => [replies' # replies => InOrder]_vars
    BY <1>1
  <1> QED
    BY <1>2, ScanInvariant, PTL DEF Spec, ItemsInOrder, InOrder

\* The error of a failed scan is the one its caller sees, whatever the close
\* of the cursor does afterwards.
THEOREM FailuresAreKept == Spec => FailureNotHidden
  <1>1. ASSUME [Next]_vars, closed' # closed, failed
        PROVE  replies' = Append(replies, Other(ending))
    <2>1. closed' = closed \/ CloseSettles
      <3>1. \A r \in Calls : Call(r) => closed' = closed
        BY DEF Call, nativeVars
      <3>2. StartOrSkip \/ ResumeNext => closed' = closed
        BY DEF StartOrSkip, ResumeNext, Pull, Yield, Leave, nativeVars
      <3>3. ResumeReturn \/ ResumeThrow \/ AnswerAfterEnd => closed' = closed
        BY DEF ResumeReturn, ResumeThrow, Leave, AnswerAfterEnd, nativeVars
      <3>4. ASSUME ChunkArrives PROVE closed' = closed
        <4>1. PICK size \in 1 .. ChunkSize :
                  Yield([i \in 1 .. size |-> pulled + i])
          BY <3>4 DEF ChunkArrives
        <4> QED
          BY <4>1 DEF Yield, Leave
      <3>5. PullFails \/ ScanExhausted => closed' = closed
        BY DEF PullFails, ScanExhausted, Leave
      <3>6. Quiet \/ UNCHANGED vars => closed' = closed
        BY DEF Quiet, vars
      <3> QED
        BY <1>1, <3>1, <3>2, <3>3, <3>4, <3>5, <3>6 DEF Next
    <2> QED
      BY <1>1, <2>1 DEF CloseSettles, Answer
  <1>2. [Next]_vars =>
          [closed' # closed /\ failed =>
             replies' = Append(replies, Other(ending))]_vars
    BY <1>1
  <1> QED
    BY <1>2, PTL DEF Spec, FailureNotHidden

-----------------------------------------------------------------------------
(***************************************************************************)
(* The generator implements Scan: a step that answers is Give, End or      *)
(* AfterEnd there, a call is Ask, and the rest is stuttering.              *)
(***************************************************************************)
\* Pulling and leaving the loop answer nothing.
LEMMA SilentStep ==
    ASSUME UNCHANGED <<requests, replies>>, Delivered' = Delivered,
           gen # "done", gen' # "done"
    PROVE  UNCHANGED Promise!svars
  BY DEF Promise!svars

\* The generator ends and answers with a completion that is not an item.
LEMMA EndStep ==
    ASSUME ScanInv, requests # << >>, gen # "done", gen' = "done",
           NEW what \in Promise!Endings(Head(requests)),
           Answer(Other(what)),
           UNCHANGED <<held, pulled, ending>>
    PROVE  Promise!Next
  <1>1. Delivered' = Delivered
    BY DEF Delivered
  <1>2. Promise!Answer(Promise!Other(what))
    BY DEF Answer, Promise!Answer, Promise!Other, Other
  <1>3. Promise!End
    BY <1>1, <1>2 DEF Promise!End
  <1> QED
    BY <1>3 DEF Promise!Next

\* A yielded item is the next item of the scan; an item that cannot be decoded
\* is not answered yet.
LEMMA YieldStep ==
    ASSUME ScanInv, requests # << >>, Head(requests) = "next",
           gen \in {"pulling", "yield"},
           NEW chunk \in Seq(1 .. ItemCount), chunk # << >>,
           Yield(chunk),
           pulled' \in 0 .. ItemCount,
           \A i \in 1 .. Len(chunk) : chunk[i] = pulled' - Len(chunk) + i,
           pulled' - Len(chunk) = Delivered
    PROVE  Promise!Next \/ UNCHANGED Promise!svars
  <1>1. chunk \in Seq(1 .. ItemCount) /\ chunk # << >>
    OBVIOUS
  <1>2. /\ Head(chunk) = chunk[1] /\ Len(chunk) \in Nat \ {0}
        /\ Head(chunk) \in 1 .. ItemCount
        /\ Len(Tail(chunk)) = Len(chunk) - 1
    BY <1>1, TailFacts
  <1>3. Head(chunk) = Delivered + 1
    BY <1>2
  <1>4. ending = "none" /\ held' = Tail(chunk) /\ Delivered \in Nat
    <2>1. ending = "none"
      BY DEF ScanInv, RequestInv
    <2>2. held' = Tail(chunk)
      BY DEF Yield
    <2>3. Len(replies) \in Nat /\ Delivered \in 0 .. Len(replies)
      BY DEF ScanInv, TypeOK, ItemInv
    <2> QED
      BY <2>1, <2>2, <2>3
  <1>5. CASE /\ Answer(Item(Head(chunk)))
             /\ gen' = "yield"
             /\ UNCHANGED <<failed, ending, pulls, closes, closed>>
    <2>1. Delivered' = Delivered + 1
      BY <1>2, <1>4, <1>5 DEF Delivered
    <2>2. Promise!Answer(Promise!Item(Delivered + 1))
      BY <1>3, <1>5 DEF Answer, Promise!Answer, Promise!Item, Item
    <2>3. Delivered < ItemCount
      BY <1>2, <1>3, <1>4, ScanAssumption DEF ScanAssumption
    <2>4. Promise!Give
      BY <1>5, <2>1, <2>2, <2>3 DEF Promise!Give
    <2> QED
      BY <2>4 DEF Promise!Next
  <1>6. CASE Leave("decodeError", TRUE)
    <2>1. Delivered' = Delivered
      BY <1>2, <1>4, <1>6 DEF Delivered, Leave
    <2> QED
      BY <1>6, <2>1, SilentStep DEF Leave
  <1> QED
    BY <1>5, <1>6 DEF Yield

\* Every step of the generator is a step of Scan or none.
LEMMA ScanStepRefines ==
    ASSUME ScanInv, [Next]_vars
    PROVE  Promise!Next \/ UNCHANGED Promise!svars
  <1>1. CASE UNCHANGED vars
    BY <1>1 DEF vars, Promise!svars, Delivered
  <1>2. ASSUME NEW r \in Calls, Call(r) PROVE Promise!Next
    BY <1>2 DEF Call, Calls, nativeVars, Promise!Ask, Promise!Next, Delivered
  <1>3. CASE StartOrSkip
    <2>1. CASE Pull
      BY <1>3, <2>1, SilentStep DEF StartOrSkip, Pull, Delivered
    <2>2. CASE /\ Head(requests) # "next"
               /\ Answer(Other(IF Head(requests) = "throw" THEN "thrown"
                                                            ELSE "done"))
               /\ gen' = "done"
               /\ UNCHANGED <<held, failed, ending>>
               /\ UNCHANGED nativeVars
      <3> DEFINE what == IF Head(requests) = "throw" THEN "thrown" ELSE "done"
      <3>1. requests # << >> /\ Head(requests) \in Calls
        <4>1. requests \in Seq(Calls) /\ requests # << >>
          BY <1>3 DEF StartOrSkip, ScanInv, TypeOK
        <4> QED
          BY <4>1, TailFacts
      <3>2. what \in Promise!Endings(Head(requests))
        BY <2>2, <3>1 DEF Promise!Endings, Calls
      <3>3. Answer(Other(what)) /\ UNCHANGED <<held, pulled, ending>>
            /\ gen # "done" /\ gen' = "done"
        BY <1>3, <2>2 DEF nativeVars, StartOrSkip
      <3> HIDE DEF what
      <3> QED
        BY <3>1, <3>2, <3>3, EndStep
    <2> QED
      BY <1>3, <2>1, <2>2 DEF StartOrSkip
  <1>4. CASE ResumeNext
    <2>1. CASE Pull
      BY <1>4, <2>1, SilentStep DEF ResumeNext, Pull, Delivered
    <2>2. CASE held # << >> /\ Yield(held) /\ UNCHANGED <<pulled, pulling>>
      <3>1. /\ held \in Seq(1 .. ItemCount) /\ pulled \in 0 .. ItemCount
            /\ ending = "none"
            /\ \A i \in 1 .. Len(held) : held[i] = pulled - Len(held) + i
        BY <1>4 DEF ResumeNext, ScanInv, TypeOK, RequestInv, ItemInv
      <3>2. pulled - Len(held) = Delivered
        BY <3>1 DEF Delivered
      <3> QED
        BY <1>4, <2>2, <3>1, <3>2, YieldStep DEF ResumeNext
    <2> QED
      BY <1>4, <2>1, <2>2 DEF ResumeNext
  <1>5. CASE ResumeReturn \/ ResumeThrow
    <2>1. /\ gen = "yield" /\ gen' = "closing"
          /\ ending' \in {"done", "thrown"}
          /\ UNCHANGED <<requests, replies, held, pulled>>
      BY <1>5 DEF ResumeReturn, ResumeThrow, Leave
    <2>2. ending = "none"
      BY <2>1 DEF ScanInv, RequestInv
    <2> QED
      BY <2>1, <2>2, SilentStep DEF Delivered
  <1>6. CASE AnswerAfterEnd
    <2>1. Promise!AfterEnd
      BY <1>6 DEF AnswerAfterEnd, nativeVars, Answer, Other, Delivered,
         Promise!AfterEnd, Promise!Answer, Promise!Other
    <2> QED
      BY <2>1 DEF Promise!Next
  <1>7. CASE ChunkArrives
    <2>1. PICK size \in 1 .. ChunkSize :
              /\ pulled + size <= ItemCount
              /\ pulled' = pulled + size
              /\ Yield([i \in 1 .. size |-> pulled + i])
      BY <1>7 DEF ChunkArrives
    <2>2. PICK chunk : chunk = [i \in 1 .. size |-> pulled + i]
      OBVIOUS
    <2>3. /\ gen = "pulling" /\ requests # << >> /\ Head(requests) = "next"
          /\ held = << >> /\ ending = "none" /\ pulled \in 0 .. ItemCount
      BY <1>7 DEF ChunkArrives, ScanInv, TypeOK, RequestInv
    <2>4. size \in Nat \ {0} /\ pulled \in Nat /\ ItemCount \in Nat
      BY <2>3, ScanAssumption DEF ScanAssumption
    <2>5. /\ chunk \in Seq(1 .. ItemCount)
          /\ Len(chunk) = size
          /\ chunk # << >>
          /\ \A i \in 1 .. Len(chunk) : chunk[i] = pulled + size - Len(chunk) + i
      BY <2>1, <2>2, <2>4, ChunkFacts
    <2>6. pulled' - Len(chunk) = Delivered
      BY <2>1, <2>3, <2>4, <2>5 DEF Delivered
    <2>7. pulled' \in 0 .. ItemCount
      BY <2>1, <2>4
    <2>8. \A i \in 1 .. Len(chunk) : chunk[i] = pulled' - Len(chunk) + i
      <3> SUFFICES ASSUME NEW i \in 1 .. Len(chunk)
                   PROVE  chunk[i] = pulled' - Len(chunk) + i
        OBVIOUS
      <3>1. chunk[i] = pulled + size - Len(chunk) + i
        BY <2>5
      <3>2. pulled' = pulled + size
        BY <2>1
      <3> QED
        BY <2>4, <2>5, <2>7, <3>1, <3>2
    <2>9. Yield(chunk)
      BY <2>1, <2>2
    <2> QED
      BY <2>3, <2>5, <2>6, <2>7, <2>8, <2>9, YieldStep
  <1>8. CASE PullFails \/ ScanExhausted
    <2>1. /\ gen = "pulling" /\ gen' = "closing"
          /\ ending' \in {"done", "pullError"}
          /\ UNCHANGED <<requests, replies, held, pulled>>
      BY <1>8 DEF PullFails, ScanExhausted, Leave
    <2>2. ending = "none"
      BY <2>1 DEF ScanInv, RequestInv
    <2> QED
      BY <2>1, <2>2, SilentStep DEF Delivered
  <1>9. CASE CloseSettles
    <2>1. gen = "closing" /\ gen' = "done" /\ requests # << >>
          /\ UNCHANGED <<held, pulled, ending>>
      BY <1>9 DEF CloseSettles, ScanInv, RequestInv
    <2>2. PICK what \in {ending, "closeError"} : Answer(Other(what))
      BY <1>9 DEF CloseSettles
    <2>3. ending = "done" /\ Head(requests) = "next" => Delivered = ItemCount
      <3>1. SUFFICES ASSUME ending = "done", Head(requests) = "next"
                     PROVE  Delivered = ItemCount
        OBVIOUS
      <3>2. pulled = ItemCount /\ held = << >>
        BY <2>1, <3>1 DEF ScanInv, RequestInv
      <3>3. Len(held) = 0
        BY <3>2
      <3>4. Delivered = ItemCount - 0 - 0
        BY <3>1, <3>2, <3>3 DEF Delivered
      <3> QED
        BY <3>4, ScanAssumption DEF ScanAssumption
    <2>4. what \in Promise!Endings(Head(requests))
      BY <2>1, <2>3 DEF ScanInv, RequestInv, Promise!Endings
    <2> QED
      BY <2>1, <2>2, <2>4, EndStep
  <1>10. CASE Quiet
    BY <1>1, <1>10 DEF Quiet
  <1> QED
    BY <1>1, <1>2, <1>3, <1>4, <1>5, <1>6, <1>7, <1>8, <1>9, <1>10 DEF Next

\* The generator keeps the promise of Scan for every length of scan, chunk
\* size and sequence of calls.
THEOREM GeneratorImplementsScan == Spec => Implements
  <1>1. Init => Promise!Init
    <2> SUFFICES ASSUME Init PROVE Promise!Init
      OBVIOUS
    <2>1. held = << >> /\ pulled = 0 /\ ending = "none"
      BY DEF Init
    <2>2. Len(held) = 0
      BY <2>1
    <2>3. Delivered = 0
      <3>1. Delivered = 0 - 0 - 0
        BY <2>1, <2>2 DEF Delivered
      <3> QED
        BY <3>1
    <2>4. requests = << >> /\ replies = << >>
      BY DEF Init
    <2>5. (gen = "done") = FALSE
      BY DEF Init
    <2> QED
      BY <2>3, <2>4, <2>5 DEF Promise!Init
  <1>2. ScanInv /\ [Next]_vars => [Promise!Next]_(Promise!svars)
    BY ScanStepRefines
  <1> QED
    BY <1>1, <1>2, ScanInvariant, PTL DEF Spec, Implements, Promise!Spec
=============================================================================
