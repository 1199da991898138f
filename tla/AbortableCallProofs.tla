------------------------ MODULE AbortableCallProofs -------------------------
(***************************************************************************)
(* Proofs about AbortableCall, for every set of calls that share a signal. *)
(***************************************************************************)
EXTENDS AbortableCall, TLAPS

\* Initially the invariant holds.
LEMMA CallInit == Init => CallInv
  <1> SUFFICES ASSUME Init PROVE CallInv
    OBVIOUS
  <1>1. TypeOK
    BY DEF Init, TypeOK
  <1>2. HonestOutcomes /\ ListenersMatchCalls
    BY DEF Init, HonestOutcomes, ListenersMatchCalls
  <1> QED
    BY <1>1, <1>2 DEF Init, CallInv

-----------------------------------------------------------------------------
(***************************************************************************)
(* One lemma per action: first the types, then what is known of each call. *)
(***************************************************************************)
\* What CallInv says of one call besides its types.
CallFacts(c) ==
    /\ outcome[c] = "ok" => record[c] = "published"
    /\ outcome[c] = "failed" => record[c] = "lost"
    /\ outcome[c] = "aborted" => c \in Abortable /\ signal = "aborted"
    /\ outcome[c] = "refused" => record[c] = "none"
    /\ listener[c] <=> /\ c \in Abortable /\ signal = "quiet"
                       /\ call[c] \in {"native", "settled"}
    /\ result[c] = "ok" => record[c] = "published"
    /\ result[c] = "failed" => record[c] = "lost"
    /\ result[c] = "aborted" => c \in Abortable /\ signal = "aborted"
    /\ aborted[c] \in {"rejected", "heard"} =>
         c \in Abortable /\ signal = "aborted"
    /\ call[c] = "idle" => aborted[c] = "none" /\ record[c] = "none"
    /\ call[c] \in {"idle", "native"} =>
         result[c] = "none" /\ outcome[c] = "none"
    /\ call[c] = "settled" => result[c] # "none" /\ outcome[c] = "none"
    /\ call[c] = "native" => record[c] # "dropped"

\* The invariant, call by call.
LEMMA CallByCall == CallInv <=> TypeOK /\ \A c \in Calls : CallFacts(c)
  BY DEF CallInv, HonestOutcomes, ListenersMatchCalls, CallFacts

\* A step of one call that leaves the signal and the other calls alone.
Only(c) ==
    /\ UNCHANGED signal
    /\ \A d \in Calls \ {c} :
         /\ call'[d] = call[d] /\ listener'[d] = listener[d]
         /\ aborted'[d] = aborted[d] /\ record'[d] = record[d]
         /\ result'[d] = result[d] /\ outcome'[d] = outcome[d]

\* Such a step keeps the invariant when it keeps it for its own call.
LEMMA OneCall ==
    ASSUME CallInv, NEW c \in Calls, Only(c), TypeOK', CallFacts(c)'
    PROVE  CallInv'
  <1>1. \A d \in Calls : CallFacts(d)
    BY CallByCall
  <1>2. ASSUME NEW d \in Calls \ {c} PROVE CallFacts(d)'
    BY <1>1 DEF Only, CallFacts
  <1>3. \A d \in Calls : CallFacts(d)'
    BY <1>2
  <1> QED
    BY <1>3, CallByCall DEF CallInv, HonestOutcomes, ListenersMatchCalls, CallFacts

\* A call starts.
LEMMA StartCallInv ==
    ASSUME CallInv, NEW c \in Calls, StartCall(c) PROVE CallInv'
  <1>1. TypeOK /\ CallFacts(c)
    BY CallByCall
  <1>2. TypeOK'
    BY <1>1 DEF TypeOK, StartCall, Watch
  <1>3. CallFacts(c)'
    BY <1>1 DEF TypeOK, StartCall, Watch, CallFacts
  <1>4. Only(c)
    BY <1>1 DEF TypeOK, StartCall, Watch, Only
  <1> QED
    BY <1>2, <1>3, <1>4, OneCall

\* A call is refused before it becomes native.
LEMMA RefuseArgumentsInv ==
    ASSUME CallInv, NEW c \in Calls, RefuseArguments(c) PROVE CallInv'
  <1>1. TypeOK /\ CallFacts(c)
    BY CallByCall
  <1>2. TypeOK'
    BY <1>1 DEF TypeOK, RefuseArguments
  <1>3. CallFacts(c)'
    BY <1>1 DEF TypeOK, RefuseArguments, CallFacts
  <1>4. Only(c)
    BY <1>1 DEF TypeOK, RefuseArguments, Only
  <1> QED
    BY <1>2, <1>3, <1>4, OneCall

\* A call settles in JavaScript.
LEMMA FinishInv ==
    ASSUME CallInv, NEW c \in Calls, Finish(c) PROVE CallInv'
  <1>1. TypeOK /\ CallFacts(c)
    BY CallByCall
  <1>2. TypeOK'
    BY <1>1 DEF TypeOK, Finish
  <1>3. CallFacts(c)'
    BY <1>1 DEF TypeOK, Finish, CallFacts
  <1>4. Only(c)
    BY <1>1 DEF TypeOK, Finish, Only
  <1> QED
    BY <1>2, <1>3, <1>4, OneCall

\* The rejection reaches the native side.
LEMMA HearAbortInv ==
    ASSUME CallInv, NEW c \in Calls, HearAbort(c) PROVE CallInv'
  <1>1. TypeOK /\ CallFacts(c)
    BY CallByCall
  <1>2. TypeOK'
    BY <1>1 DEF TypeOK, HearAbort
  <1>3. CallFacts(c)'
    BY <1>1 DEF TypeOK, HearAbort, CallFacts
  <1>4. Only(c)
    BY <1>1 DEF TypeOK, HearAbort, Only
  <1> QED
    BY <1>2, <1>3, <1>4, OneCall

\* The record moves: into the producer, or from there to the broker.
LEMMA RecordInv ==
    ASSUME CallInv, NEW c \in Calls, HandOff(c) \/ Publish(c) PROVE CallInv'
  <1>1. TypeOK /\ CallFacts(c)
    BY CallByCall
  <1>2. PICK r \in {"handedOff", "published", "lost"} :
            record' = [record EXCEPT ![c] = r]
    BY DEF HandOff, Publish
  <1>3. /\ UNCHANGED <<signal, call, listener, aborted, result, outcome, early>>
        /\ \/ record[c] = "unsent" /\ call[c] = "native"
           \/ record[c] = "handedOff"
    BY DEF HandOff, Publish
  <1>4. TypeOK'
    BY <1>1, <1>2, <1>3 DEF TypeOK
  <1>5. CallFacts(c)'
    BY <1>1, <1>2, <1>3 DEF TypeOK, CallFacts
  <1>6. Only(c)
    BY <1>1, <1>2, <1>3 DEF TypeOK, Only
  <1> QED
    BY <1>4, <1>5, <1>6, OneCall

\* select! takes the answer of the core.
LEMMA SelectAnswerInv ==
    ASSUME CallInv, NEW c \in Calls, SelectAnswer(c) PROVE CallInv'
  <1>1. TypeOK /\ CallFacts(c)
    BY CallByCall
  <1>2. TypeOK'
    BY <1>1 DEF TypeOK, SelectAnswer
  <1>3. CallFacts(c)'
    BY <1>1 DEF TypeOK, SelectAnswer, CallFacts
  <1>4. Only(c)
    BY <1>1 DEF TypeOK, SelectAnswer, Only
  <1> QED
    BY <1>2, <1>3, <1>4, OneCall

\* select! takes the abort.
LEMMA SelectAbortInv ==
    ASSUME CallInv, NEW c \in Calls, SelectAbort(c) PROVE CallInv'
  <1>1. TypeOK /\ CallFacts(c)
    BY CallByCall
  <1>2. TypeOK'
    BY <1>1 DEF TypeOK, SelectAbort
  <1>3. CallFacts(c)'
    BY <1>1 DEF TypeOK, SelectAbort, CallFacts
  <1>4. Only(c)
    BY <1>1 DEF TypeOK, SelectAbort, Only
  <1> QED
    BY <1>2, <1>3, <1>4, OneCall

\* The signal is aborted: the only step that touches several calls.
LEMMA AbortInv == ASSUME CallInv, Abort PROVE CallInv'
  <1>1. TypeOK /\ \A c \in Calls : CallFacts(c)
    BY CallByCall
  <1>2. TypeOK'
    BY <1>1 DEF TypeOK, Abort
  <1>3. ASSUME NEW c \in Calls PROVE CallFacts(c)'
    BY <1>1, <1>3 DEF TypeOK, Abort, CallFacts
  <1> QED
    BY <1>2, <1>3 DEF CallInv, HonestOutcomes, ListenersMatchCalls, CallFacts

\* Every step keeps the invariant.
LEMMA StepKeepsCallInv == CallInv /\ [Next]_vars => CallInv'
  <1> SUFFICES ASSUME CallInv, [Next]_vars PROVE CallInv'
    OBVIOUS
  <1>1. CASE UNCHANGED vars
    BY <1>1 DEF vars, CallInv, TypeOK, HonestOutcomes, ListenersMatchCalls
  <1>2. CASE \E c \in Calls : StartCall(c)
    BY <1>2, StartCallInv
  <1>3. CASE \E c \in Calls : RefuseArguments(c)
    BY <1>3, RefuseArgumentsInv
  <1>4. CASE \E c \in Calls : Finish(c)
    BY <1>4, FinishInv
  <1>5. CASE \E c \in Calls : HearAbort(c)
    BY <1>5, HearAbortInv
  <1>6. CASE \E c \in Calls : HandOff(c) \/ Publish(c)
    BY <1>6, RecordInv
  <1>7. CASE \E c \in Calls : SelectAnswer(c)
    BY <1>7, SelectAnswerInv
  <1>8. CASE \E c \in Calls : SelectAbort(c)
    BY <1>8, SelectAbortInv
  <1>9. CASE Abort
    BY <1>9, AbortInv
  <1>10. CASE Rest
    BY <1>1, <1>10 DEF Rest
  <1> QED
    BY <1>1, <1>2, <1>3, <1>4, <1>5, <1>6, <1>7, <1>8, <1>9, <1>10 DEF Next

-----------------------------------------------------------------------------
(***************************************************************************)
(* The theorems.                                                           *)
(***************************************************************************)
\* The strengthened invariant of the calls holds.
THEOREM CallInvariant == Spec => []CallInv
  BY CallInit, StepKeepsCallInv, PTL DEF Spec

\* Callers can trust how their calls settled, whichever arm of select! won.
THEOREM OutcomesAreHonest == Spec => []HonestOutcomes
  <1>1. CallInv => HonestOutcomes
    BY DEF CallInv
  <1> QED
    BY <1>1, CallInvariant, PTL

\* A signal holds a listener exactly for the calls it can still abort.
THEOREM ListenersAreReleased == Spec => []ListenersMatchCalls
  <1>1. CallInv => ListenersMatchCalls
    BY DEF CallInv
  <1> QED
    BY <1>1, CallInvariant, PTL

\* A call that has settled hands nothing to the producer any more.
THEOREM SettledCallsAreDone == Spec => SettledCallsSendNothing
  <1> DEFINE Silent ==
        \A c \in Calls :
          record[c] \in {"none", "unsent"} /\ record'[c] = "handedOff"
            => call[c] = "native" /\ call'[c] = "native"
  <1>1. CallInv /\ [Next]_vars => [Silent]_vars
    <2> SUFFICES ASSUME CallInv, [Next]_vars, NEW d \in Calls,
                        record[d] \in {"none", "unsent"},
                        record'[d] = "handedOff"
                 PROVE  call[d] = "native" /\ call'[d] = "native"
      OBVIOUS
    <2>1. TypeOK
      BY DEF CallInv
    <2>2. PICK c \in Calls : HandOff(c)
      <3>1. record' # record
        OBVIOUS
      <3>2. ASSUME NEW c \in Calls, StartCall(c) PROVE FALSE
        BY <2>1, <3>2 DEF StartCall, TypeOK
      <3>3. ASSUME NEW c \in Calls, Publish(c) PROVE FALSE
        BY <2>1, <3>3 DEF Publish, TypeOK
      <3>4. ASSUME NEW c \in Calls, SelectAbort(c) PROVE FALSE
        BY <2>1, <3>4 DEF SelectAbort, TypeOK
      <3>5. ~UNCHANGED record
        BY <3>1
      <3> QED
        BY <3>2, <3>3, <3>4, <3>5 DEF Next, vars, RefuseArguments, Finish,
           HearAbort, SelectAnswer, Abort, Rest
    <2>3. c = d
      BY <2>1, <2>2 DEF HandOff, TypeOK
    <2> QED
      BY <2>2, <2>3 DEF HandOff
  <1> QED
    BY <1>1, CallInvariant, PTL DEF Spec, SettledCallsSendNothing
=============================================================================
