-------------------------- MODULE KeyedDequeProofs ---------------------------
(***************************************************************************)
(* Proofs about KeyedDeque, for any calls, contents, indexes and number of *)
(* attempts.                                                               *)
(***************************************************************************)
EXTENDS KeyedDeque, SequenceTheorems, TLAPS

-----------------------------------------------------------------------------
(***************************************************************************)
(* What the operations of the deque do to its elements.                    *)
(***************************************************************************)
LEMMA AppendAdds ==
    ASSUME NEW S, NEW s \in Seq(S), NEW x \in S
    PROVE  /\ Append(s, x) \in Seq(S)
           /\ Elements(Append(s, x)) = Elements(s) \cup {x}
  BY DEF Elements

LEMMA PrependAdds ==
    ASSUME NEW S, NEW s \in Seq(S), NEW x \in S
    PROVE  /\ <<x>> \o s \in Seq(S)
           /\ Elements(<<x>> \o s) = Elements(s) \cup {x}
  <1> DEFINE t == <<x>> \o s
  <1>1. /\ <<x>> \in Seq(S) /\ t \in Seq(S) /\ Len(t) = Len(s) + 1
        /\ t[1] = x /\ \A i \in 1 .. Len(s) : t[i + 1] = s[i]
    OBVIOUS
  <1>2. ASSUME NEW y \in Elements(t) PROVE y \in Elements(s) \cup {x}
    <2>1. PICK i \in 1 .. Len(t) : y = t[i]
      BY DEF Elements
    <2>2. CASE i = 1
      BY <1>1, <2>1, <2>2
    <2>3. CASE i # 1
      <3>1. i - 1 \in 1 .. Len(s) /\ t[(i - 1) + 1] = s[i - 1]
        BY <1>1, <2>3
      <3> QED
        BY <2>1, <3>1 DEF Elements
    <2> QED
      BY <2>2, <2>3
  <1>3. ASSUME NEW y \in Elements(s) PROVE y \in Elements(t)
    <2>1. PICK i \in 1 .. Len(s) : y = s[i]
      BY DEF Elements
    <2>2. i + 1 \in 1 .. Len(t) /\ t[i + 1] = y
      BY <1>1, <2>1
    <2> QED
      BY <2>2 DEF Elements
  <1>4. x \in Elements(t)
    BY <1>1 DEF Elements
  <1> QED
    BY <1>1, <1>2, <1>3, <1>4

\* The front of a deque, and its last element, make it up; so do the first
\* element and the rest.
LEMMA BackRemoves ==
    ASSUME NEW S, NEW s \in Seq(S), s # << >>
    PROVE  /\ SubSeq(s, 1, Len(s) - 1) \in Seq(S) /\ s[Len(s)] \in S
           /\ Elements(s) = Elements(SubSeq(s, 1, Len(s) - 1)) \cup {s[Len(s)]}
  <1> DEFINE t == SubSeq(s, 1, Len(s) - 1)
  <1>0. Len(s) \in Nat \ {0} /\ \A i \in 1 .. Len(s) - 1 : s[i] \in S
    OBVIOUS
  <1>1. /\ Len(s) \in Nat \ {0} /\ t \in Seq(S) /\ Len(t) = Len(s) - 1
        /\ \A i \in 1 .. Len(t) : t[i] = s[i]
    <2> DEFINE n == Len(s) - 1
    <2>1. 1 \in Int /\ n \in Nat /\ n \in Int /\ \A i \in 1 .. n : s[i] \in S
      BY <1>0
    <2> HIDE DEF n
    <2>2. /\ SubSeq(s, 1, n) \in Seq(S)
          /\ Len(SubSeq(s, 1, n)) = IF 1 <= n THEN n - 1 + 1 ELSE 0
          /\ \A i \in 1 .. n - 1 + 1 : SubSeq(s, 1, n)[i] = s[1 + i - 1]
      BY ONLY <2>1, SubSeqProperties, SMT
    <2>3. Len(SubSeq(s, 1, n)) = n
      BY <2>1, <2>2
    <2>4. \A i \in 1 .. n : SubSeq(s, 1, n)[i] = s[i]
      BY <2>1, <2>2
    <2> QED
      BY <1>0, <2>2, <2>3, <2>4 DEF n
  <1>2. \A i \in 1 .. Len(s) : i \in 1 .. Len(t) \/ i = Len(s)
    BY <1>1
  <1> QED
    BY <1>1, <1>2 DEF Elements

LEMMA FrontRemoves ==
    ASSUME NEW S, NEW s \in Seq(S), s # << >>
    PROVE  /\ Tail(s) \in Seq(S) /\ Head(s) \in S
           /\ Elements(s) = Elements(Tail(s)) \cup {Head(s)}
  <1> DEFINE t == Tail(s)
  <1>1. /\ Len(s) \in Nat \ {0} /\ t \in Seq(S) /\ Len(t) = Len(s) - 1
        /\ Head(s) = s[1] /\ Head(s) \in S
        /\ \A i \in 1 .. Len(t) : t[i] = s[i + 1]
    BY HeadTailProperties
  <1>2. \A i \in 1 .. Len(s) : i = 1 \/ (i - 1 \in 1 .. Len(t) /\ t[i - 1] = s[i])
    BY <1>1
  <1>3. \A i \in 1 .. Len(t) : i + 1 \in 1 .. Len(s)
    BY <1>1
  <1>4. ASSUME NEW y \in Elements(s) PROVE y \in Elements(t) \cup {Head(s)}
    <2>1. PICK i \in 1 .. Len(s) : y = s[i]
      BY DEF Elements
    <2> QED
      BY <1>1, <1>2, <2>1 DEF Elements
  <1>5. ASSUME NEW y \in Elements(t) \cup {Head(s)} PROVE y \in Elements(s)
    <2>1. CASE y = Head(s)
      BY <1>1, <2>1 DEF Elements
    <2>2. CASE y \in Elements(t)
      <3>1. PICK i \in 1 .. Len(t) : y = t[i]
        BY <2>2 DEF Elements
      <3> QED
        BY <1>1, <1>3, <3>1 DEF Elements
    <2> QED
      BY <2>1, <2>2
  <1> QED
    BY <1>1, <1>4, <1>5

LEMMA EmptyHasNone == Elements(<< >>) = {}
  BY DEF Elements

-----------------------------------------------------------------------------
(***************************************************************************)
(* Types.                                                                  *)
(***************************************************************************)
\* The words that calls are answered with, and what decoding makes of an item.
LEMMA AnswerTypes ==
    /\ \A w \in Words : Plain(w) \in Answers
    /\ \A n \in Nat : Number(n) \in Answers
    /\ \A x \in Items : Decoded(x) \in Answers
  BY DEF Answers, Words, Plain, Number, Decoded

\* A position survives the conversion to a u32.
LEMMA NarrowKeepsPositions ==
    ASSUME NEW p \in 0 .. MaxPosition PROVE Narrowed(p) = p
  BY DequeAssumption DEF Narrowed

LEMMA IndexesAreIntegers == ASSUME NEW i \in Indexes \cup {0} PROVE i \in Int
  BY DequeAssumption

LEMMA ItemAtTypes ==
    ASSUME NEW s \in Seq(Items), NEW p PROVE ItemAt(s, p) \in Answers
  <1>1. Plain("null") \in Answers
    BY AnswerTypes DEF Words
  <1>2. CASE p \in 0 .. Len(s) - 1
    <2>1. s[p + 1] \in Items
      BY <1>2
    <2> QED
      BY <1>2, <2>1, AnswerTypes DEF ItemAt
  <1> QED
    BY <1>1, <1>2 DEF ItemAt

StoreOK ==
    /\ attempt \in 0 .. MaxAttempts /\ running \in BOOLEAN
    /\ committed \in Seq(Items) /\ view \in Seq(Items) /\ dirty \in BOOLEAN
    /\ fresh \subseteq Calls /\ kept \subseteq Calls
    /\ dirty \/ view = committed

\* Observing adds the present contents to what a running at() has seen.
LEMMA ObserveAdds ==
    ASSUME TypeOK, Observe, committed' \in Seq(Items), view' \in Seq(Items)
    PROVE  /\ seen' \in [Calls -> SUBSET Seq(Items)]
           /\ \A c \in Calls :
                /\ seen[c] \subseteq seen'[c]
                /\ IF InFlight(c)' /\ op'[c] = "at" THEN Contents(c)' \in seen'[c]
                                                  ELSE seen'[c] = seen[c]
  BY DEF TypeOK, Observe, Contents

LEMMA SettleTypes ==
    ASSUME TypeOK, NEW c \in Calls, NEW a \in Answers, Settle(c, a),
           StoreOK', attempt' = attempt
    PROVE  TypeOK'
  <1>1. seen' \in [Calls -> SUBSET Seq(Items)]
    BY ObserveAdds DEF Settle, StoreOK
  <1> QED
    BY <1>1 DEF TypeOK, StoreOK, Settle

LEMMA SettleKeepsStore ==
    ASSUME TypeOK, NEW c \in Calls, NEW a \in Answers, Settle(c, a),
           UNCHANGED storeVars
    PROVE  TypeOK'
  <1>1. StoreOK' /\ attempt' = attempt
    BY DEF TypeOK, StoreOK, storeVars
  <1> QED
    BY <1>1, SettleTypes

LEMMA WriteTypes ==
    ASSUME TypeOK, NEW c \in Calls, NEW s \in Seq(Items), NEW a \in Answers,
           Write(c, s, a)
    PROVE  TypeOK'
  <1>1. StoreOK' /\ attempt' = attempt
    BY DEF TypeOK, StoreOK, Write
  <1> QED
    BY <1>1, SettleTypes DEF Write

LEMMA MakeCallTypes ==
    ASSUME TypeOK, NEW c \in Calls, NEW n \in 0 .. attempt, NEW m \in Methods,
           NEW i \in Indexes \cup {0}, NEW first \in {"counting", "native"},
           MakeCall(c, n, m, i, first)
    PROVE  TypeOK'
  <1>1. committed' \in Seq(Items) /\ view' \in Seq(Items) /\ Observe
    BY DEF MakeCall, storeVars, TypeOK
  <1>2. seen' \in [Calls -> SUBSET Seq(Items)]
    BY <1>1, ObserveAdds
  <1>3. i \in Int
    BY IndexesAreIntegers
  <1> QED
    BY <1>2, <1>3 DEF TypeOK, MakeCall, storeVars

LEMMA AttemptTypes ==
    ASSUME TypeOK, BeginAttempt \/ Succeed \/ Fail PROVE TypeOK'
  <1>1. committed' \in Seq(Items) /\ view' \in Seq(Items) /\ Observe
    BY DEF BeginAttempt, Succeed, Fail, Keep, Drop, TypeOK
  <1>2. seen' \in [Calls -> SUBSET Seq(Items)]
    BY <1>1, ObserveAdds
  <1>3. attempt' \in 0 .. MaxAttempts /\ by \in [Calls -> 0 .. attempt']
    BY DequeAssumption DEF BeginAttempt, Succeed, Fail, TypeOK
  <1> QED
    BY <1>1, <1>2, <1>3 DEF BeginAttempt, Succeed, Fail, Keep, Drop, TypeOK

LEMMA TypeInit == Init => TypeOK
  <1> SUFFICES ASSUME Init PROVE TypeOK
    OBVIOUS
  <1>1. Start \in Seq(Items)
    BY DequeAssumption DEF Items
  <1>2. MaxAttempts \in Nat /\ Plain("none") \in Answers
    BY DequeAssumption, AnswerTypes DEF Words
  <1> QED
    <2>1. /\ attempt \in 0 .. MaxAttempts /\ running \in BOOLEAN
          /\ committed \in Seq(Items) /\ view \in Seq(Items) /\ dirty \in BOOLEAN
          /\ fresh \subseteq Calls /\ kept \subseteq Calls /\ view = committed
      <3>1. attempt \in 0 .. MaxAttempts
        BY <1>2 DEF Init
      <3>2. committed \in Seq(Items) /\ view \in Seq(Items)
        BY <1>1 DEF Init
      <3> QED
        BY <3>1, <3>2 DEF Init
    <2>2. /\ stage \in [Calls -> {"idle", "counting", "native", "done"}]
          /\ by \in [Calls -> 0 .. attempt]
          /\ op \in [Calls -> Methods \cup {"none"}]
          /\ index \in [Calls -> Indexes \cup {0}]
          /\ position \in [Calls -> Int]
      BY DEF Init
    <2>3. /\ answer \in [Calls -> Answers]
          /\ seen \in [Calls -> SUBSET Seq(Items)]
      BY <1>2 DEF Init
    <2> QED
      BY <2>1, <2>2, <2>3 DEF TypeOK

LEMMA TypeStep == TypeOK /\ [Next]_vars => TypeOK'
  <1> SUFFICES ASSUME TypeOK, [Next]_vars PROVE TypeOK'
    OBVIOUS
  <1>a. /\ Plain("done") \in Answers /\ Plain("null") \in Answers
        /\ Plain("transient") \in Answers /\ Plain("permanent") \in Answers
        /\ Plain("applied") \in Answers /\ Plain("noOp") \in Answers
        /\ \A n \in Nat : Number(n) \in Answers
        /\ \A x \in Items : Decoded(x) \in Answers
    BY AnswerTypes DEF Words
  <1>0. view \in Seq(Items) /\ committed \in Seq(Items)
    BY DEF TypeOK
  <1>1. ASSUME NEW c \in Calls, CallMethod(c) PROVE TypeOK'
    <2>1. PICK n \in 0 .. attempt, m \in Methods \ {"at"} :
            MakeCall(c, n, m, 0, "native")
      BY <1>1 DEF CallMethod
    <2> QED
      BY <2>1, MakeCallTypes
  <1>2. ASSUME NEW c \in Calls, CallAt(c) PROVE TypeOK'
    <2>1. PICK n \in 0 .. attempt, i \in Indexes :
            MakeCall(c, n, "at", i, IF i < -1 THEN "counting" ELSE "native")
      BY <1>2 DEF CallAt
    <2>2. "at" \in Methods
      BY DEF Methods
    <2> QED
      BY <2>1, <2>2, MakeCallTypes
  <1>3. ASSUME NEW c \in Calls, RefuseArgument(c) PROVE TypeOK'
    BY <1>a, <1>3, SettleKeepsStore DEF RefuseArgument
  <1>4. ASSUME NEW c \in Calls, Push(c) PROVE TypeOK'
    <2>1. c \in Items
      BY DEF Items
    <2>2. Append(view, c) \in Seq(Items) /\ <<c>> \o view \in Seq(Items)
      BY <1>0, <2>1, AppendAdds, PrependAdds
    <2> QED
      BY <1>a, <1>4, <2>2, WriteTypes DEF Push
  <1>5. ASSUME NEW c \in Calls, Pop(c) PROVE TypeOK'
    <2>1. view # << >>
      BY <1>5 DEF Pop
    <2>2. /\ SubSeq(view, 1, Len(view) - 1) \in Seq(Items)
          /\ view[Len(view)] \in Items
          /\ Tail(view) \in Seq(Items) /\ Head(view) \in Items
      BY <1>0, <2>1, BackRemoves, FrontRemoves
    <2> QED
      BY <1>a, <1>5, <2>2, WriteTypes DEF Pop
  <1>6. ASSUME NEW c \in Calls, PopEmpty(c) PROVE TypeOK'
    BY <1>a, <1>6, SettleKeepsStore DEF PopEmpty
  <1>7. ASSUME NEW c \in Calls, Clear(c) PROVE TypeOK'
    <2>1. << >> \in Seq(Items)
      OBVIOUS
    <2> QED
      BY <1>a, <1>7, <2>1, WriteTypes DEF Clear
  <1>8. ASSUME NEW c \in Calls, Length(c) PROVE TypeOK'
    <2>1. Len(Contents(c)) \in Nat
      BY <1>0 DEF Contents
    <2> QED
      BY <1>a, <1>8, <2>1, SettleKeepsStore DEF Length
  <1>9. ASSUME NEW c \in Calls, CountForAt(c) PROVE TypeOK'
    <2> DEFINE p == index[c] + Len(Contents(c))
    <2>0. index[c] \in Int /\ Len(Contents(c)) \in Nat
      <3>1. index[c] \in Indexes \cup {0}
        BY DEF TypeOK
      <3>2. Contents(c) \in Seq(Items)
        BY <1>0 DEF Contents
      <3>3. index[c] \in Int
        BY <3>1, IndexesAreIntegers
      <3>4. Len(Contents(c)) \in Nat
        BY <3>2
      <3> QED
        BY <3>3, <3>4
    <2>1. p \in Int
      BY <2>0
    <2>2. CASE Settle(c, Plain("null")) \/ Settle(c, Number(Len(Contents(c))))
      <3>1. UNCHANGED storeVars
        BY <1>9 DEF CountForAt
      <3> QED
        BY <1>a, <2>0, <2>2, <3>1, SettleKeepsStore
    <2>3. CASE /\ Observe /\ stage' = [stage EXCEPT ![c] = "native"]
               /\ position' = [position EXCEPT ![c] = p]
               /\ UNCHANGED <<by, op, index, answer>>
      <3>1. committed' \in Seq(Items) /\ view' \in Seq(Items) /\ UNCHANGED storeVars
        BY <1>0, <1>9 DEF CountForAt, storeVars
      <3>2. seen' \in [Calls -> SUBSET Seq(Items)]
        BY <2>3, <3>1, ObserveAdds
      <3> QED
        BY <2>1, <2>3, <3>1, <3>2 DEF storeVars, TypeOK
    <2> QED
      BY <1>9, <2>2, <2>3 DEF CountForAt
  <1>10. ASSUME NEW c \in Calls, ReadAt(c) PROVE TypeOK'
    <2>1. Contents(c) \in Seq(Items) /\ position[c] \in Int
      BY <1>0 DEF Contents, TypeOK
    <2> DEFINE p == IF position[c] = -1 THEN Len(Contents(c)) - 1
                                        ELSE Narrowed(position[c])
    <2>2. ItemAt(Contents(c), p) \in Answers
      BY <2>1, ItemAtTypes
    <2> QED
      BY <1>10, <2>2, SettleKeepsStore DEF ReadAt
  <1>11. ASSUME NEW c \in Calls, Commit(c) \/ Rollback(c) PROVE TypeOK'
    <2>1. StoreOK' /\ attempt' = attempt
      BY <1>11 DEF Commit, Rollback, Keep, Drop, TypeOK, StoreOK
    <2>2. Outcome \in Answers /\ Settle(c, Outcome)
      BY <1>a, <1>11 DEF Outcome, Commit, Rollback
    <2> QED
      BY <2>1, <2>2, SettleTypes
  <1>12. ASSUME NEW c \in Calls, FenceCall(c) PROVE TypeOK'
    BY <1>a, <1>12, SettleKeepsStore DEF FenceCall
  <1>13. ASSUME NEW c \in Calls, StoreFails(c) PROVE TypeOK'
    BY <1>a, <1>13, SettleKeepsStore DEF StoreFails
  <1>14. CASE BeginAttempt \/ Succeed \/ Fail
    BY <1>14, AttemptTypes
  <1>15. CASE UNCHANGED vars
    BY <1>15 DEF vars, TypeOK
  <1>16. ASSUME NEW c \in Calls, CallAtPastRange(c) PROVE TypeOK'
    <2>1. PICK n \in 0 .. attempt, i \in Indexes :
            /\ stage' = [stage EXCEPT ![c] = "done"]
            /\ by' = [by EXCEPT ![c] = n]
            /\ op' = [op EXCEPT ![c] = "at"]
            /\ index' = [index EXCEPT ![c] = i]
            /\ answer' = [answer EXCEPT ![c] = Plain("null")]
            /\ seen' = [seen EXCEPT ![c] = {IF n = 0 THEN committed ELSE view}]
            /\ UNCHANGED position /\ UNCHANGED storeVars
      BY <1>16 DEF CallAtPastRange
    <2>2. {IF n = 0 THEN committed ELSE view} \in SUBSET Seq(Items)
      BY <1>0
    <2>3. "at" \in Methods
      BY DEF Methods
    <2>4. /\ stage' \in [Calls -> {"idle", "counting", "native", "done"}]
          /\ by' \in [Calls -> 0 .. attempt'] /\ op' \in [Calls -> Methods \cup {"none"}]
          /\ index' \in [Calls -> Indexes \cup {0}] /\ position' \in [Calls -> Int]
      BY <2>1, <2>3 DEF TypeOK, storeVars
    <2>5. answer' \in [Calls -> Answers] /\ seen' \in [Calls -> SUBSET Seq(Items)]
      BY <1>a, <2>1, <2>2 DEF TypeOK
    <2> QED
      BY <2>1, <2>4, <2>5 DEF TypeOK, storeVars
  <1> QED
    BY <1>1, <1>2, <1>3, <1>4, <1>5, <1>6, <1>7, <1>8, <1>9, <1>10, <1>11,
       <1>12, <1>13, <1>14, <1>15, <1>16 DEF Next, Rest

\* The store and the calls keep their types, and an attempt that has buffered
\* nothing sees the durable contents.
THEOREM DequeTypeCorrect == Spec => []TypeOK
  BY TypeInit, TypeStep, PTL DEF Spec

-----------------------------------------------------------------------------
(***************************************************************************)
(* What at() reads.                                                        *)
(***************************************************************************)
\* Answering a by at() is right for call c.
RightAnswer(c, a) ==
    /\ a.is \in {"item", "null"}
    /\ index[c] >= -1 \/ \A s, t \in seen[c] : s = t
    => \E s \in seen[c] : \/ a = ElementAt(s, index[c])
                          \/ a = Plain("null") /\ Len(s) > MaxPosition + 1

\* CallInv, ReadInv and AtReadsOneState of one call.
CallFacts(c) ==
    /\ stage[c] = "idle" => op[c] = "none"
    /\ stage[c] = "counting" => op[c] = "at" /\ index[c] < -1
    /\ op[c] \in Writes \cup {"commit", "rollback"} => by[c] # 0
    /\ op[c] = "at" /\ InFlight(c) => Contents(c) \in seen[c]
    /\ op[c] = "at" /\ stage[c] = "native" =>
         \/ index[c] \in -1 .. MaxPosition /\ position[c] = index[c]
         \/ /\ index[c] < -1 /\ position[c] \in 0 .. MaxPosition
            /\ \E s \in seen[c] : position[c] = index[c] + Len(s)
    /\ op[c] = "at" /\ stage[c] = "done" => RightAnswer(c, answer[c])

AllCalls == \A c \in Calls : CallFacts(c)

LEMMA CallByCall == AllCalls <=> CallInv /\ ReadInv /\ AtReadsOneState
  BY DEF AllCalls, CallFacts, CallInv, ReadInv, AtReadsOneState, Answered,
         OfOneState, RightAnswer

\* Nothing of a call changes but what it has seen.
Unmoved(c) ==
    /\ stage'[c] = stage[c] /\ by'[c] = by[c] /\ op'[c] = op[c]
    /\ index'[c] = index[c] /\ position'[c] = position[c]
    /\ answer'[c] = answer[c]

LEMMA UnmovedFacts ==
    ASSUME TypeOK, TypeOK', Observe, NEW c \in Calls, CallFacts(c), Unmoved(c)
    PROVE  CallFacts(c)'
  <1>1. /\ seen[c] \subseteq seen'[c]
        /\ IF InFlight(c)' /\ op'[c] = "at" THEN Contents(c)' \in seen'[c]
                                          ELSE seen'[c] = seen[c]
    BY ObserveAdds DEF TypeOK
  <1>2. op[c] = "at" /\ stage[c] = "done" => seen'[c] = seen[c]
    BY <1>1 DEF InFlight, Unmoved
  <1>3. op[c] = "at" /\ stage[c] = "done" => RightAnswer(c, answer[c])'
    BY <1>2 DEF CallFacts, RightAnswer, Unmoved
  <1>4. op[c] = "at" /\ InFlight(c) => (Contents(c) \in seen[c])'
    BY <1>1 DEF InFlight, Unmoved
  <1> QED
    BY <1>1, <1>3, <1>4 DEF CallFacts, Unmoved, InFlight

\* Answering a call keeps the facts when the answer is right.
LEMMA SettleFacts ==
    ASSUME TypeOK, TypeOK', AllCalls, NEW c \in Calls, NEW a, Settle(c, a),
           op[c] = "at" => RightAnswer(c, a)
    PROVE  AllCalls'
  <1>1. ASSUME NEW d \in Calls \ {c} PROVE CallFacts(d)'
    <2>1. Unmoved(d) /\ Observe
      BY DEF Settle, Unmoved, TypeOK
    <2> QED
      BY <2>1, UnmovedFacts DEF AllCalls
  <1>2. CallFacts(c)'
    <2>1. /\ stage'[c] = "done" /\ answer'[c] = a /\ op'[c] = op[c]
          /\ by'[c] = by[c] /\ index'[c] = index[c]
      BY DEF Settle, TypeOK
    <2>2. seen'[c] = seen[c]
      BY <2>1, ObserveAdds DEF InFlight, Settle, TypeOK
    <2>3. op[c] = "at" => RightAnswer(c, answer[c])'
      BY <2>1, <2>2 DEF RightAnswer
    <2> QED
      BY <2>1, <2>3 DEF AllCalls, CallFacts, InFlight
  <1> QED
    BY <1>1, <1>2 DEF AllCalls

LEMMA MakeCallFacts ==
    ASSUME TypeOK, TypeOK', AllCalls, NEW c \in Calls, NEW n, NEW m,
           NEW i \in Int, NEW first, MakeCall(c, n, m, i, first),
           \/ /\ first = "native" /\ m # "at"
              /\ m \in Writes \cup {"commit", "rollback"} => n # 0
           \/ /\ m = "at" /\ i <= MaxPosition
              /\ first = (IF i < -1 THEN "counting" ELSE "native")
    PROVE  AllCalls'
  <1>1. Observe
    BY DEF MakeCall
  <1>2. ASSUME NEW d \in Calls \ {c} PROVE CallFacts(d)'
    <2>1. Unmoved(d)
      BY DEF MakeCall, Unmoved, TypeOK
    <2> QED
      BY <1>1, <2>1, UnmovedFacts DEF AllCalls
  <1>3. CallFacts(c)'
    <2>1. /\ stage'[c] = first /\ by'[c] = n /\ op'[c] = m
          /\ index'[c] = i /\ position'[c] = i
      BY DEF MakeCall, TypeOK
    <2>2. m = "at" => (Contents(c) \in seen[c])'
      BY <1>1, <2>1, ObserveAdds DEF InFlight, TypeOK
    <2>3. "at" \notin Writes \cup {"commit", "rollback"}
      BY DEF Writes
    <2>4. m = "at" /\ i >= -1 => i \in -1 .. MaxPosition
      BY DequeAssumption
    <2> QED
      BY <2>1, <2>2, <2>3, <2>4 DEF CallFacts
  <1> QED
    BY <1>2, <1>3 DEF AllCalls

\* An answer without a native call is right as well.
LEMMA PastRangeFacts ==
    ASSUME TypeOK, TypeOK', AllCalls, NEW c \in Calls, CallAtPastRange(c)
    PROVE  AllCalls'
  <1>1. PICK n \in 0 .. attempt, i \in Indexes :
          /\ i >= 0 /\ OutOfRange(i)
          /\ stage' = [stage EXCEPT ![c] = "done"]
          /\ by' = [by EXCEPT ![c] = n]
          /\ op' = [op EXCEPT ![c] = "at"]
          /\ index' = [index EXCEPT ![c] = i]
          /\ answer' = [answer EXCEPT ![c] = Plain("null")]
          /\ seen' = [seen EXCEPT ![c] = {IF n = 0 THEN committed ELSE view}]
          /\ UNCHANGED position /\ UNCHANGED storeVars
    BY DEF CallAtPastRange
  <1> DEFINE s == IF n = 0 THEN committed ELSE view
  <1>2. ASSUME NEW d \in Calls \ {c} PROVE CallFacts(d)'
    <2>1. Unmoved(d) /\ seen'[d] = seen[d] /\ Contents(d)' = Contents(d)
      BY <1>1 DEF Unmoved, TypeOK, Contents, storeVars
    <2>2. op[d] = "at" /\ stage[d] = "done" => RightAnswer(d, answer[d])'
      BY <2>1 DEF AllCalls, CallFacts, RightAnswer, Unmoved
    <2> QED
      BY <2>1, <2>2 DEF AllCalls, CallFacts, InFlight, Unmoved
  <1>3. CallFacts(c)'
    <2>1. /\ stage'[c] = "done" /\ op'[c] = "at" /\ index'[c] = i
          /\ answer'[c] = Plain("null") /\ seen'[c] = {s}
      BY <1>1 DEF TypeOK
    <2>2. i \in Int /\ i > MaxPosition /\ MaxPosition \in Nat /\ Len(s) \in Nat
      <3>1. i \in Int
        BY IndexesAreIntegers
      <3>2. MaxPosition \in Nat
        BY DequeAssumption
      <3>3. s \in Seq(Items)
        BY DEF TypeOK
      <3>4. Len(s) \in Nat
        BY <3>3
      <3> QED
        BY <1>1, <3>1, <3>2, <3>4 DEF OutOfRange
    <2>3. \/ ElementAt(s, i) = Plain("null")
          \/ Len(s) > MaxPosition + 1
      BY <2>2 DEF ElementAt, ItemAt
    <2>4. RightAnswer(c, answer[c])'
      BY <2>1, <2>3 DEF RightAnswer
    <2>5. "at" \notin Writes \cup {"commit", "rollback"}
      BY DEF Writes
    <2> QED
      BY <2>1, <2>4, <2>5 DEF CallFacts, InFlight
  <1> QED
    BY <1>2, <1>3 DEF AllCalls

\* The length an at() has read gives a right answer or a right position.
LEMMA CountFacts ==
    ASSUME TypeOK, TypeOK', AllCalls, NEW c \in Calls, CountForAt(c)
    PROVE  AllCalls'
  <1> DEFINE s == Contents(c)
             p == index[c] + Len(s)
  <1>1. /\ op[c] = "at" /\ index[c] < -1 /\ s \in seen[c] /\ stage[c] = "counting"
    BY DEF CountForAt, AllCalls, CallFacts, InFlight
  <1>2. index[c] \in Int /\ Len(s) \in Nat /\ p \in Int
    <2>1. index[c] \in Int
      BY IndexesAreIntegers DEF TypeOK
    <2>2. s \in Seq(Items)
      BY DEF Contents, TypeOK
    <2>3. Len(s) \in Nat
      BY <2>2
    <2> QED
      BY <2>1, <2>3
  <1>m. MaxPosition \in Nat
    BY DequeAssumption
  <1>0. CASE Number(Len(s)).is # "number"
    <2>1. Settle(c, Plain("transient"))
      BY <1>0 DEF CountForAt, Number
    <2>2. RightAnswer(c, Plain("transient"))
      BY DEF RightAnswer, Plain
    <2> QED
      BY <2>1, <2>2, SettleFacts
  <1>3. CASE Number(Len(s)).is = "number" /\ p < 0
    <2>1. Settle(c, Plain("null"))
      BY <1>2, <1>3 DEF CountForAt, OutOfRange
    <2>2. ElementAt(s, index[c]) = Plain("null")
      BY <1>1, <1>2, <1>3 DEF ElementAt, ItemAt
    <2>3. RightAnswer(c, Plain("null"))
      BY <1>1, <2>2 DEF RightAnswer
    <2> QED
      BY <2>1, <2>3, SettleFacts
  <1>4. CASE Number(Len(s)).is = "number" /\ ~(p < 0)
    <2>0. p \in 0 .. MaxPosition
      <3>1. Len(s) <= MaxPosition
        BY <1>2, <1>4, <1>m DEF Number, Plain
      <3> QED
        BY <1>1, <1>2, <1>4, <1>m, <3>1
    <2>1. /\ Observe /\ stage' = [stage EXCEPT ![c] = "native"]
          /\ position' = [position EXCEPT ![c] = p]
          /\ UNCHANGED <<by, op, index, answer>>
      BY <1>4, <1>m, <2>0 DEF CountForAt, OutOfRange
    <2>2. ASSUME NEW d \in Calls \ {c} PROVE CallFacts(d)'
      <3>1. Unmoved(d)
        BY <2>1 DEF Unmoved, TypeOK
      <3> QED
        BY <2>1, <3>1, UnmovedFacts DEF AllCalls
    <2>3. CallFacts(c)'
      <3>1. /\ stage'[c] = "native" /\ op'[c] = "at" /\ index'[c] = index[c]
            /\ position'[c] = p /\ by'[c] = by[c]
        BY <1>1, <2>1 DEF TypeOK
      <3>2. (Contents(c) \in seen[c])' /\ s \in seen'[c]
        BY <1>1, <2>1, <3>1, ObserveAdds DEF InFlight, TypeOK
      <3>3. "at" \notin Writes \cup {"commit", "rollback"}
        BY DEF Writes
      <3> QED
        BY <1>1, <1>2, <2>0, <3>1, <3>2, <3>3 DEF CallFacts
    <2> QED
      BY <2>2, <2>3 DEF AllCalls
  <1> QED
    BY <1>0, <1>3, <1>4

\* The element that at() reads is the one at its index now, unless the contents
\* have changed since a length was read.
LEMMA ReadFacts ==
    ASSUME TypeOK, TypeOK', AllCalls, NEW c \in Calls, ReadAt(c)
    PROVE  AllCalls'
  <1> DEFINE s == Contents(c)
             p == IF position[c] = -1 THEN Len(s) - 1 ELSE Narrowed(position[c])
  <1>m. MaxPosition \in Nat
    BY DequeAssumption
  <1>1. /\ op[c] = "at" /\ s \in seen[c] /\ stage[c] = "native"
        /\ \/ index[c] \in -1 .. MaxPosition /\ position[c] = index[c]
           \/ /\ index[c] < -1 /\ position[c] \in 0 .. MaxPosition
              /\ \E t \in seen[c] : position[c] = index[c] + Len(t)
    BY DEF ReadAt, Native, AllCalls, CallFacts, InFlight
  <1>2. index[c] \in Int /\ position[c] \in Int /\ Len(s) \in Nat
    <2>1. index[c] \in Int
      BY IndexesAreIntegers DEF TypeOK
    <2>2. s \in Seq(Items)
      BY DEF Contents, TypeOK
    <2>3. Len(s) \in Nat
      BY <2>2
    <2> QED
      BY <2>1, <2>3 DEF TypeOK
  <1>3. ASSUME index[c] >= -1 \/ \A t, u \in seen[c] : t = u
        PROVE  ItemAt(s, p) = ElementAt(s, index[c])
    <2>1. CASE index[c] = -1
      BY <1>1, <1>2, <2>1 DEF ElementAt
    <2>2. CASE index[c] >= 0
      <3>1. position[c] = index[c] /\ position[c] \in 0 .. MaxPosition
        BY <1>1, <1>2, <1>m, <2>2
      <3>2. p = index[c]
        BY <1>2, <3>1, NarrowKeepsPositions
      <3> QED
        BY <1>2, <2>2, <3>2 DEF ElementAt
    <2>3. CASE index[c] < -1
      <3>1. position[c] = index[c] + Len(s) /\ position[c] \in 0 .. MaxPosition
        BY <1>1, <1>2, <1>3, <1>m, <2>3
      <3>2. p = Len(s) + index[c]
        BY <1>2, <1>m, <3>1, NarrowKeepsPositions
      <3> QED
        BY <1>2, <2>3, <3>2 DEF ElementAt
    <2> QED
      BY <1>2, <2>1, <2>2, <2>3
  <1>4. RightAnswer(c, ItemAt(s, p))
    BY <1>1, <1>3 DEF RightAnswer
  <1>5. Settle(c, ItemAt(s, p))
    BY DEF ReadAt
  <1> QED
    BY <1>4, <1>5, SettleFacts

LEMMA CallsInit == Init => AllCalls
  BY DEF Init, AllCalls, CallFacts, InFlight, Writes

\* A native operation other than at() answers a call that is not an at().
LEMMA OtherMethodFacts ==
    ASSUME TypeOK, TypeOK', AllCalls, NEW c \in Calls, NEW a,
           NEW m \in Methods \ {"at"}, Native(c, m), Settle(c, a)
    PROVE  AllCalls'
  <1>1. op[c] # "at"
    BY DEF Native
  <1> QED
    BY <1>1, SettleFacts

LEMMA CallsStep == TypeOK /\ TypeOK' /\ AllCalls /\ [Next]_vars => AllCalls'
  <1> SUFFICES ASSUME TypeOK, TypeOK', AllCalls, [Next]_vars PROVE AllCalls'
    OBVIOUS
  <1>1. ASSUME NEW c \in Calls, CallMethod(c) PROVE AllCalls'
    <2>1. PICK n \in 0 .. attempt, m \in Methods \ {"at"} :
            (n = 0 => m = "length") /\ MakeCall(c, n, m, 0, "native")
      BY <1>1 DEF CallMethod
    <2>2. m \in Writes \cup {"commit", "rollback"} => n # 0
      BY <2>1 DEF Writes
    <2> QED
      BY <2>1, <2>2, MakeCallFacts
  <1>2. ASSUME NEW c \in Calls, CallAt(c) PROVE AllCalls'
    <2>1. PICK n \in 0 .. attempt, i \in Indexes :
            /\ i < 0 \/ ~OutOfRange(i)
            /\ MakeCall(c, n, "at", i, IF i < -1 THEN "counting" ELSE "native")
      BY <1>2 DEF CallAt
    <2>2. i \in Int
      BY IndexesAreIntegers
    <2>3. i <= MaxPosition
      BY <2>1, <2>2, DequeAssumption DEF OutOfRange
    <2> QED
      BY <2>1, <2>2, <2>3, MakeCallFacts
  <1>10. ASSUME NEW c \in Calls, CallAtPastRange(c) PROVE AllCalls'
    BY <1>10, PastRangeFacts
  <1>3. ASSUME NEW c \in Calls, RefuseArgument(c) PROVE AllCalls'
    <2>1. op[c] # "at" /\ Settle(c, Plain("transient"))
      BY <1>3 DEF RefuseArgument, AllCalls, CallFacts
    <2> QED
      BY <2>1, SettleFacts
  <1>4. ASSUME NEW c \in Calls,
               Push(c) \/ Pop(c) \/ PopEmpty(c) \/ Clear(c) \/ Length(c)
                 \/ Commit(c) \/ Rollback(c)
        PROVE  AllCalls'
    <2>1. \E m \in Methods \ {"at"} : Native(c, m) /\ \E a : Settle(c, a)
      BY <1>4 DEF Push, Pop, PopEmpty, Clear, Length, Commit, Rollback, Write,
                  Methods, Writes
    <2> QED
      BY <2>1, OtherMethodFacts
  <1>5. ASSUME NEW c \in Calls, CountForAt(c) PROVE AllCalls'
    BY <1>5, CountFacts
  <1>6. ASSUME NEW c \in Calls, ReadAt(c) PROVE AllCalls'
    BY <1>6, ReadFacts
  <1>7. ASSUME NEW c \in Calls, FenceCall(c) \/ StoreFails(c) PROVE AllCalls'
    <2>1. PICK w \in {"noOp", "transient", "permanent"} : Settle(c, Plain(w))
      BY <1>7 DEF FenceCall, StoreFails
    <2>2. RightAnswer(c, Plain(w))
      BY DEF RightAnswer, Plain
    <2> QED
      BY <2>1, <2>2, SettleFacts
  <1>8. CASE BeginAttempt \/ Succeed \/ Fail
    <2>1. Observe /\ \A d \in Calls : Unmoved(d)
      BY <1>8 DEF BeginAttempt, Succeed, Fail, Unmoved
    <2> QED
      BY <2>1, UnmovedFacts DEF AllCalls
  <1>9. CASE UNCHANGED vars
    <2>1. \A d \in Calls : CallFacts(d)'
      BY <1>9 DEF vars, AllCalls, CallFacts, RightAnswer, InFlight, Contents
    <2> QED
      BY <2>1 DEF AllCalls
  <1> QED
    BY <1>1, <1>2, <1>3, <1>4, <1>5, <1>6, <1>7, <1>8, <1>9, <1>10 DEF Next, Rest

\* An at() answers with the element that was at its index at one moment of the
\* call, if it takes one read or nothing changes meanwhile.
THEOREM AtReadsAreExact == Spec => []AtReadsOneState
  <1>1. Init => TypeOK /\ AllCalls
    BY TypeInit, CallsInit
  <1>2. TypeOK /\ AllCalls /\ [Next]_vars => (TypeOK /\ AllCalls)'
    BY TypeStep, CallsStep
  <1>3. AllCalls => AtReadsOneState
    BY CallByCall
  <1> QED
    BY <1>1, <1>2, <1>3, PTL DEF Spec

-----------------------------------------------------------------------------
(***************************************************************************)
(* What is durable.                                                        *)
(***************************************************************************)
KeptInv == DurableItemsAreKept /\ BufferInv

\* Once answered, a call stays as it is: what was taken stays taken.
AnsweredStay ==
    \A c \in Calls : stage[c] = "done" =>
        /\ stage'[c] = "done" /\ op'[c] = op[c] /\ by'[c] = by[c]
        /\ answer'[c] = answer[c]

LEMMA SettleStays ==
    ASSUME TypeOK, NEW c \in Calls, NEW a, Settle(c, a), stage[c] # "done"
    PROVE  AnsweredStay
  BY DEF Settle, TypeOK, AnsweredStay

LEMMA TakenStays ==
    ASSUME AnsweredStay, NEW c \in Calls, NEW x, TakenBy(c, x)
    PROVE  TakenBy(c, x)' /\ by'[c] = by[c]
  BY DEF AnsweredStay, TakenBy

\* Steps that leave the store alone.
LEMMA SameStore ==
    ASSUME KeptInv, AnsweredStay, UNCHANGED storeVars PROVE KeptInv'
  <1>1. \A x : Taken(x) => Taken(x)'
    BY TakenStays DEF Taken
  <1>2. DurableItemsAreKept'
    BY TakenStays DEF KeptInv, DurableItemsAreKept, storeVars, Elements
  <1>3. BufferInv'
    BY <1>1, TakenStays DEF KeptInv, BufferInv, storeVars, Elements
  <1> QED
    BY <1>2, <1>3 DEF KeptInv

\* A write of the running attempt: it adds its own call to what is fresh, and
\* what it takes out it answers.
LEMMA WriteKept ==
    ASSUME TypeOK, KeptInv, NEW c \in Calls, NEW s, NEW a, Write(c, s, a),
           stage[c] = "native", running, by[c] = attempt,
           Elements(s) \cap Calls \subseteq Elements(view) \cup fresh',
           fresh' \ fresh \subseteq Elements(s),
           \A x \in Elements(view) \ Elements(s) : TakenBy(c, x)'
    PROVE  KeptInv'
  <1>1. /\ AnsweredStay /\ view' = s /\ by'[c] = by[c]
        /\ UNCHANGED <<attempt, running, committed, kept>>
    BY SettleStays DEF Write, Settle
  <1>2. \A x : Taken(x) => Taken(x)'
    BY <1>1, TakenStays DEF Taken
  <1>3. fresh \subseteq fresh'
    BY DEF Write
  <1>4. Elements(committed)' = Elements(committed) /\ Elements(view)' = Elements(s)
    BY <1>1 DEF Elements
  <1>5. DurableItemsAreKept'
    <2>1. \A x \in kept \ Elements(committed) : Taken(x)'
      BY <1>2 DEF KeptInv, DurableItemsAreKept, Taken
    <2>2. Elements(committed) \cap Calls \subseteq kept
      BY DEF KeptInv, DurableItemsAreKept
    <2> QED
      BY <1>1, <1>4, <2>1, <2>2 DEF DurableItemsAreKept, Taken
  <1>6. Elements(s) \cap Calls \subseteq kept \cup fresh'
    BY <1>3 DEF KeptInv, BufferInv
  <1>7. ASSUME NEW x \in (kept \cup fresh') \ Elements(s) PROVE Taken(x)'
    <2>1. x \in kept \cup fresh
      BY <1>7
    <2>2. CASE x \in Elements(view)
      BY <2>2, <1>7 DEF Taken
    <2>3. CASE x \notin Elements(view)
      BY <1>2, <2>1, <2>3 DEF KeptInv, BufferInv
    <2> QED
      BY <2>2, <2>3
  <1>8. ASSUME NEW x \in Elements(committed) \ Elements(s)
        PROVE  \E d \in Calls : by'[d] = attempt /\ TakenBy(d, x)'
    <2>1. CASE x \in Elements(view)
      BY <1>1, <1>8, <2>1
    <2>2. CASE x \notin Elements(view)
      <3>1. PICK d \in Calls : by[d] = attempt /\ TakenBy(d, x)
        BY <1>8, <2>2 DEF KeptInv, BufferInv
      <3> QED
        BY <1>1, <3>1, TakenStays
    <2> QED
      BY <2>1, <2>2
  <1> QED
    BY <1>1, <1>4, <1>5, <1>6, <1>7, <1>8 DEF KeptInv, BufferInv

\* Making the view durable, at a commit() or at the end of an attempt.
LEMMA KeepKept ==
    ASSUME KeptInv, AnsweredStay, Keep, view' = view, attempt' = attempt
    PROVE  KeptInv'
  <1>1. \A x : Taken(x) => Taken(x)'
    BY TakenStays DEF Taken
  <1>2. /\ Elements(committed)' = Elements(view) /\ Elements(view)' = Elements(view)
        /\ kept' = kept \cup fresh /\ fresh' = {}
        /\ committed' = view'
    BY DEF Keep, Elements
  <1>3. DurableItemsAreKept'
    BY <1>1, <1>2 DEF KeptInv, BufferInv, DurableItemsAreKept, Taken
  <1>4. BufferInv'
    BY <1>1, <1>2 DEF KeptInv, BufferInv
  <1> QED
    BY <1>3, <1>4 DEF KeptInv

\* Going back to the durable contents, at a rollback(), a failure or a new attempt.
LEMMA DropKept ==
    ASSUME KeptInv, AnsweredStay, Drop, committed' = committed, kept' = kept
    PROVE  KeptInv'
  <1>1. \A x : Taken(x) => Taken(x)'
    BY TakenStays DEF Taken
  <1>2. /\ Elements(committed)' = Elements(committed)
        /\ Elements(view)' = Elements(committed)
        /\ kept' = kept /\ fresh' = {} /\ view' = committed'
    BY DEF Drop, Elements
  <1>3. DurableItemsAreKept'
    BY <1>1, <1>2 DEF KeptInv, DurableItemsAreKept, Taken
  <1>4. BufferInv'
    BY <1>2, <1>3 DEF BufferInv, DurableItemsAreKept, Taken
  <1> QED
    BY <1>3, <1>4 DEF KeptInv

LEMMA KeptInit == Init => KeptInv
  <1> SUFFICES ASSUME Init PROVE KeptInv
    OBVIOUS
  <1>1. Start \in Seq(Stored) /\ Calls \cap Stored = {}
    BY DequeAssumption
  <1>2. Elements(Start) \subseteq Stored
    BY <1>1 DEF Elements
  <1>3. Elements(committed) \cap Calls = {} /\ view = committed
    BY <1>1, <1>2 DEF Init
  <1> QED
    BY <1>3 DEF Init, KeptInv, DurableItemsAreKept, BufferInv

\* A native operation that is not fenced belongs to the running attempt, unless
\* a reader made it.
LEMMA NativeRuns ==
    ASSUME AllCalls, NEW c \in Calls, NEW m \in Writes, Native(c, m)
    PROVE  stage[c] = "native" /\ op[c] = m /\ running /\ by[c] = attempt
  BY DEF AllCalls, CallFacts, Native, Fenced

\* What a call that writes is answered.
LEMMA WriteAnswers ==
    ASSUME TypeOK, NEW c \in Calls, NEW s, NEW a, Write(c, s, a)
    PROVE  stage'[c] = "done" /\ op'[c] = op[c] /\ answer'[c] = a
  BY DEF Write, Settle, TypeOK

LEMMA PushKept ==
    ASSUME TypeOK, AllCalls, KeptInv, NEW c \in Calls, Push(c)
    PROVE  KeptInv'
  <1>1. PICK m \in {"push", "unshift"}, s \in {Append(view, c), <<c>> \o view} :
          Native(c, m) /\ Write(c, s, Plain("done"))
    BY DEF Push
  <1>2. view \in Seq(Items) /\ c \in Items
    BY DEF TypeOK, Items
  <1>3. Elements(s) = Elements(view) \cup {c}
    <2>1. Elements(Append(view, c)) = Elements(view) \cup {c}
      BY <1>2, AppendAdds
    <2>2. Elements(<<c>> \o view) = Elements(view) \cup {c}
      BY <1>2, PrependAdds
    <2> QED
      BY <1>1, <2>1, <2>2
  <1>4. stage[c] = "native" /\ op[c] = m /\ running /\ by[c] = attempt
    BY <1>1, NativeRuns DEF Writes
  <1>5. fresh' = fresh \cup {c}
    BY <1>1, <1>4 DEF Write
  <1> QED
    BY <1>1, <1>3, <1>4, <1>5, WriteKept

\* A pop or shift takes one item out and answers it.
LEMMA PopTakes ==
    ASSUME TypeOK, NEW c \in Calls, Pop(c)
    PROVE  \E m \in {"pop", "shift"}, s \in Seq(Items), x \in Items :
             /\ Native(c, m) /\ Write(c, s, Decoded(x))
             /\ Elements(view) = Elements(s) \cup {x}
  <1>0. view \in Seq(Items) /\ view # << >>
    BY DEF TypeOK, Pop
  <1>1. CASE Native(c, "pop")
    <2>1. Write(c, SubSeq(view, 1, Len(view) - 1), Decoded(view[Len(view)]))
      BY <1>1 DEF Pop, Native
    <2>2. /\ SubSeq(view, 1, Len(view) - 1) \in Seq(Items)
          /\ view[Len(view)] \in Items
          /\ Elements(view) = Elements(SubSeq(view, 1, Len(view) - 1))
                               \cup {view[Len(view)]}
      BY <1>0, BackRemoves
    <2> QED
      BY <1>1, <2>1, <2>2, Zenon
  <1>2. CASE Native(c, "shift")
    <2>1. Write(c, Tail(view), Decoded(Head(view)))
      BY <1>2 DEF Pop, Native
    <2>2. /\ Tail(view) \in Seq(Items) /\ Head(view) \in Items
          /\ Elements(view) = Elements(Tail(view)) \cup {Head(view)}
      BY <1>0, FrontRemoves
    <2> QED
      BY <1>2, <2>1, <2>2, Zenon
  <1> QED
    BY <1>1, <1>2 DEF Pop

LEMMA PopKept ==
    ASSUME TypeOK, AllCalls, KeptInv, NEW c \in Calls, Pop(c)
    PROVE  KeptInv'
  <1>1. PICK m \in {"pop", "shift"}, s \in Seq(Items), x \in Items :
          /\ Native(c, m) /\ Write(c, s, Decoded(x))
          /\ Elements(view) = Elements(s) \cup {x}
    BY PopTakes
  <1>2. stage[c] = "native" /\ op[c] = m /\ running /\ by[c] = attempt
    BY <1>1, NativeRuns DEF Writes
  <1>3. fresh' = fresh
    BY <1>1, <1>2 DEF Write
  <1>4. TakenBy(c, x)'
    BY <1>1, <1>2, WriteAnswers DEF TakenBy, Decoded
  <1>5. \A y \in Elements(view) \ Elements(s) : TakenBy(c, y)'
    BY <1>1, <1>4
  <1> QED
    BY <1>1, <1>2, <1>3, <1>5, WriteKept

LEMMA ClearKept ==
    ASSUME TypeOK, AllCalls, KeptInv, NEW c \in Calls, Clear(c)
    PROVE  KeptInv'
  <1>1. Native(c, "clear") /\ Write(c, << >>, Plain("done"))
    BY DEF Clear
  <1>2. stage[c] = "native" /\ op[c] = "clear" /\ running /\ by[c] = attempt
    BY <1>1, NativeRuns DEF Writes
  <1>3. fresh' = fresh
    BY <1>1, <1>2 DEF Write
  <1>4. \A x : TakenBy(c, x)'
    BY <1>1, <1>2, WriteAnswers DEF TakenBy
  <1>5. Elements(<< >>) = {}
    BY EmptyHasNone
  <1> QED
    BY <1>1, <1>2, <1>3, <1>4, <1>5, WriteKept

LEMMA KeptStep == TypeOK /\ AllCalls /\ KeptInv /\ [Next]_vars => KeptInv'
  <1> SUFFICES ASSUME TypeOK, AllCalls, KeptInv, [Next]_vars PROVE KeptInv'
    OBVIOUS
  <1>1. ASSUME NEW c \in Calls,
               CallMethod(c) \/ CallAt(c) \/ CallAtPastRange(c) \/ CountForAt(c)
        PROVE  KeptInv'
    <2>1. UNCHANGED storeVars
      BY <1>1 DEF CallMethod, CallAt, CallAtPastRange, CountForAt, MakeCall
    <2>2. AnsweredStay
      BY <1>1 DEF CallMethod, CallAt, CallAtPastRange, CountForAt, MakeCall, Settle,
                  TypeOK, AnsweredStay
    <2> QED
      BY <2>1, <2>2, SameStore
  <1>2. ASSUME NEW c \in Calls,
               RefuseArgument(c) \/ PopEmpty(c) \/ Length(c) \/ ReadAt(c)
                 \/ FenceCall(c) \/ StoreFails(c)
        PROVE  KeptInv'
    <2>1. UNCHANGED storeVars /\ stage[c] # "done" /\ \E a : Settle(c, a)
      BY <1>2 DEF RefuseArgument, PopEmpty, Length, ReadAt, FenceCall, StoreFails,
                  Native, InFlight
    <2> QED
      BY <2>1, SettleStays, SameStore
  <1>3. ASSUME NEW c \in Calls, Push(c) PROVE KeptInv'
    BY <1>3, PushKept
  <1>4. ASSUME NEW c \in Calls, Pop(c) PROVE KeptInv'
    BY <1>4, PopKept
  <1>5. ASSUME NEW c \in Calls, Clear(c) PROVE KeptInv'
    BY <1>5, ClearKept
  <1>6. ASSUME NEW c \in Calls, Commit(c) PROVE KeptInv'
    <2>1. AnsweredStay
      BY <1>6, SettleStays DEF Commit, Native
    <2> QED
      BY <1>6, <2>1, KeepKept DEF Commit
  <1>7. ASSUME NEW c \in Calls, Rollback(c) PROVE KeptInv'
    <2>1. AnsweredStay
      BY <1>7, SettleStays DEF Rollback, Native
    <2> QED
      BY <1>7, <2>1, DropKept DEF Rollback
  <1>8. CASE BeginAttempt \/ Succeed \/ Fail
    <2>1. AnsweredStay
      BY <1>8 DEF BeginAttempt, Succeed, Fail, AnsweredStay
    <2> QED
      BY <1>8, <2>1, KeepKept, DropKept DEF BeginAttempt, Succeed, Fail
  <1>9. CASE UNCHANGED vars
    <2>1. UNCHANGED storeVars /\ AnsweredStay
      BY <1>9 DEF vars, storeVars, AnsweredStay
    <2> QED
      BY <2>1, SameStore
  <1> QED
    BY <1>1, <1>2, <1>3, <1>4, <1>5, <1>6, <1>7, <1>8, <1>9 DEF Next, Rest

LEMMA Inductive == Spec => [](TypeOK /\ AllCalls /\ KeptInv)
  <1>1. Init => TypeOK /\ AllCalls /\ KeptInv
    BY TypeInit, CallsInit, KeptInit
  <1>2. TypeOK /\ AllCalls /\ KeptInv /\ [Next]_vars
          => (TypeOK /\ AllCalls /\ KeptInv)'
    BY TypeStep, CallsStep, KeptStep
  <1> QED
    BY <1>1, <1>2, PTL DEF Spec

\* The pushed items that are durable are exactly those that a success or a
\* commit() has kept, less those that were taken out.
THEOREM OnlyKeptItemsAreDurable == Spec => []DurableItemsAreKept
  <1>1. KeptInv => DurableItemsAreKept
    BY DEF KeptInv
  <1> QED
    BY <1>1, Inductive, PTL

\* A durable item disappears only with an attempt that took it out itself.
THEOREM NothingIsLost == Spec => NothingLost
  <1> DEFINE Loss == \A x \in Elements(committed) \ Elements(committed') :
                       \E c \in Calls : by[c] = attempt /\ TakenBy(c, x)
  <1>1. KeptInv /\ [Next]_vars => Loss
    <2> SUFFICES ASSUME KeptInv, [Next]_vars PROVE Loss
      OBVIOUS
    <2>1. committed' = committed \/ committed' = view
      BY DEF Next, CallMethod, CallAt, CallAtPastRange, RefuseArgument, Push, Pop,
             PopEmpty, Clear, Length, CountForAt, ReadAt, Commit, Rollback, FenceCall, StoreFails,
             BeginAttempt, Succeed, Fail, Rest, MakeCall, Write, Keep, storeVars, vars
    <2>2. CASE committed' = committed
      BY <2>2
    <2>3. CASE committed' = view
      BY <2>3 DEF KeptInv, BufferInv
    <2> QED
      BY <2>1, <2>2, <2>3
  <1>2. KeptInv /\ [Next]_vars => [Loss]_vars
    BY <1>1
  <1> QED
    BY <1>2, Inductive, PTL DEF Spec, NothingLost

\* A call that fails changes nothing, except that a pop or shift has removed the
\* item it cannot read.
THEOREM FailuresChangeNothing == Spec => FailedCallsChangeNothing
  <1> DEFINE Fails(c) == /\ answer[c].is = "none"
                         /\ answer'[c].is \in {"transient", "permanent"}
                         /\ view' # view \/ committed' # committed
             Removes(c) == /\ op[c] \in {"pop", "shift"}
                           /\ \E x \in Unreadable :
                                Elements(view) = Elements(view') \cup {x}
             Harmless == \A c \in Calls : Fails(c) => Removes(c)
  <1>1. TypeOK /\ [Next]_vars => Harmless
    <2> SUFFICES ASSUME TypeOK, [Next]_vars, NEW c \in Calls, Fails(c)
                 PROVE  Removes(c)
      OBVIOUS
    <2>1. ~ UNCHANGED storeVars /\ answer' # answer /\ ~ UNCHANGED vars
      BY DEF storeVars, vars
    <2>2. PICK d \in Calls :
            Push(d) \/ Pop(d) \/ Clear(d) \/ Commit(d) \/ Rollback(d)
      BY <2>1 DEF Next, CallMethod, CallAt, CallAtPastRange, RefuseArgument, PopEmpty, Length,
                  CountForAt, ReadAt, FenceCall, StoreFails, BeginAttempt, Succeed,
                  Fail, Rest, MakeCall
    <2>3. \E a : Settle(d, a)
      BY <2>2 DEF Push, Pop, Clear, Commit, Rollback, Write
    <2>4. d = c
      BY <2>3 DEF Settle, TypeOK
    <2>5. CASE Push(d) \/ Clear(d) \/ Commit(d) \/ Rollback(d)
      <3>1. Settle(c, Plain("done")) \/ Settle(c, Outcome)
        BY <2>4, <2>5 DEF Push, Clear, Commit, Rollback, Write
      <3>2. answer'[c].is \in {"done", "applied", "noOp"}
        BY <3>1 DEF Settle, TypeOK, Plain, Outcome
      <3> QED
        BY <3>2
    <2>6. CASE Pop(d)
      <3>1. PICK m \in {"pop", "shift"}, s \in Seq(Items), x \in Items :
              /\ Native(c, m) /\ Write(c, s, Decoded(x))
              /\ Elements(view) = Elements(s) \cup {x}
        BY <2>4, <2>6, PopTakes
      <3>2. op[c] = m /\ Elements(view') = Elements(s)
        BY <3>1 DEF Native, Write, Elements
      <3>3. answer'[c] = Decoded(x)
        BY <3>1, WriteAnswers
      <3>4. x \in Unreadable
        BY <3>3 DEF Decoded
      <3> QED
        BY <3>1, <3>2, <3>4
    <2> QED
      BY <2>2, <2>5, <2>6
  <1>2. TypeOK /\ [Next]_vars => [Harmless]_vars
    BY <1>1
  <1> QED
    BY <1>2, DequeTypeCorrect, PTL DEF Spec, FailedCallsChangeNothing
=============================================================================
