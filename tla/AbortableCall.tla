---------------------------- MODULE AbortableCall ----------------------------
(***************************************************************************)
(* Client calls that an AbortSignal can stop: send, excise, request and    *)
(* requestExcise of lib/client.js, which go through withAbort, and their   *)
(* native halves in src/src/client/mod.rs, which select between the abort  *)
(* and the answer of the core.                                             *)
(*                                                                         *)
(* Any number of calls may share one signal. A call hands the core one     *)
(* record. The core (external) hands the record to its producer, which     *)
(* publishes it whether or not anyone still waits for the answer.          *)
(***************************************************************************)
EXTENDS Naturals

CONSTANTS Calls,       \* the calls the application makes
          Abortable,   \* the calls that are given the signal
          ArgsMayFail  \* whether a call can be given arguments napi refuses

ASSUME CallAssumption == Abortable \subseteq Calls /\ ArgsMayFail \in BOOLEAN

VARIABLES
    signal,     \* "quiet" or "aborted"
    call,       \* call[c]: "idle", "native", "settled" or "done"
    listener,   \* listener[c]: the abort listener of c is on the signal
    aborted,    \* aborted[c]: the promise withAbort makes: "none", "pending",
                \* "rejected" and, once the native side has it, "heard"
    record,     \* record[c]: "none", "unsent", "handedOff", "published", "lost"
                \* or, when its future was dropped in time, "dropped"
    result,     \* result[c]: what select! chose
    outcome,    \* outcome[c]: how the caller's promise settled
    early       \* early[c]: the signal was aborted before the call was made

vars == <<signal, call, listener, aborted, record, result, outcome, early>>

Init ==
    /\ signal = "quiet"
    /\ call = [c \in Calls |-> "idle"]
    /\ listener = [c \in Calls |-> FALSE]
    /\ aborted = [c \in Calls |-> "none"]
    /\ record = [c \in Calls |-> "none"]
    /\ result = [c \in Calls |-> "none"]
    /\ outcome = [c \in Calls |-> "none"]
    /\ early = [c \in Calls |-> FALSE]

-----------------------------------------------------------------------------
(***************************************************************************)
(* JavaScript.                                                             *)
(***************************************************************************)
\* Mutant: nobody looks whether the signal is aborted already.
WatchLate(c) ==
    /\ aborted' = [aborted EXCEPT ![c] = "pending"]
    /\ listener' = [listener EXCEPT ![c] = TRUE]

\* withAbort before the native call: an aborted signal rejects the promise at
\* once, any other gets a listener.
Watch(c) ==
    IF c \notin Abortable THEN UNCHANGED <<aborted, listener>>
    ELSE IF signal = "aborted"
      THEN /\ aborted' = [aborted EXCEPT ![c] = "rejected"]
           /\ UNCHANGED listener
      ELSE /\ aborted' = [aborted EXCEPT ![c] = "pending"]
           /\ listener' = [listener EXCEPT ![c] = TRUE]

\* The native call is made whatever the signal says.
StartCall(c) ==
    /\ call[c] = "idle"
    /\ Watch(c)
    /\ call' = [call EXCEPT ![c] = "native"]
    /\ record' = [record EXCEPT ![c] = "unsent"]
    /\ early' = [early EXCEPT ![c] = signal = "aborted"]
    /\ UNCHANGED <<signal, result, outcome>>

\* The arguments have no native form: the call throws at once and the finally
\* block runs before anything else can.
RefuseArguments(c) ==
    /\ ArgsMayFail
    /\ call[c] = "idle"
    /\ call' = [call EXCEPT ![c] = "done"]
    /\ aborted' = [aborted EXCEPT ![c] =
                     IF c \in Abortable THEN
                       IF signal = "aborted" THEN "rejected" ELSE "pending"
                     ELSE "none"]
    /\ outcome' = [outcome EXCEPT ![c] = "refused"]
    /\ early' = [early EXCEPT ![c] = signal = "aborted"]
    /\ UNCHANGED <<signal, listener, record, result>>

\* The application aborts the signal; the event reaches every listener, each
\* of which is there for one event only.
Abort ==
    /\ signal = "quiet"
    /\ signal' = "aborted"
    /\ aborted' = [c \in Calls |-> IF listener[c] THEN "rejected" ELSE aborted[c]]
    /\ listener' = [c \in Calls |-> FALSE]
    /\ UNCHANGED <<call, record, result, outcome, early>>

\* Mutant: the listener is only removed by the abort itself.
FinishAndLeak(c) ==
    /\ call[c] = "settled"
    /\ call' = [call EXCEPT ![c] = "done"]
    /\ outcome' = [outcome EXCEPT ![c] = result[c]]
    /\ UNCHANGED <<signal, listener, aborted, record, result, early>>

\* The native promise settles in JavaScript; the finally block removes the
\* listener.
Finish(c) ==
    /\ call[c] = "settled"
    /\ call' = [call EXCEPT ![c] = "done"]
    /\ outcome' = [outcome EXCEPT ![c] = result[c]]
    /\ listener' = [listener EXCEPT ![c] = FALSE]
    /\ UNCHANGED <<signal, aborted, record, result, early>>

-----------------------------------------------------------------------------
(***************************************************************************)
(* The native half. The rejection crosses to the runtime's thread after    *)
(* the reactions of the promise have run.                                  *)
(***************************************************************************)
HearAbort(c) ==
    /\ call[c] = "native"
    /\ aborted[c] = "rejected"
    /\ aborted' = [aborted EXCEPT ![c] = "heard"]
    /\ UNCHANGED <<signal, call, listener, record, result, outcome, early>>

\* The core's future is polled only while the call is native. The core may
\* also turn the record down (a full producer, a client that shuts down).
HandOff(c) ==
    /\ call[c] = "native"
    /\ record[c] = "unsent"
    /\ \E r \in {"handedOff", "lost"} : record' = [record EXCEPT ![c] = r]
    /\ UNCHANGED <<signal, call, listener, aborted, result, outcome, early>>

\* The producer works on its own.
Publish(c) ==
    /\ record[c] = "handedOff"
    /\ \E r \in {"published", "lost"} : record' = [record EXCEPT ![c] = r]
    /\ UNCHANGED <<signal, call, listener, aborted, result, outcome, early>>

\* Mutant: the answer of the core is passed on as it is.
SelectAnswerRaw(c) ==
    /\ call[c] = "native"
    /\ record[c] \in {"published", "lost"}
    /\ call' = [call EXCEPT ![c] = "settled"]
    /\ result' = [result EXCEPT ![c] = record[c]]
    /\ UNCHANGED <<signal, listener, aborted, record, outcome, early>>

\* Mutant: the answer is reported before the producer has it.
SelectAnswerEarly(c) ==
    /\ call[c] = "native"
    /\ record[c] \in {"handedOff", "published", "lost"}
    /\ call' = [call EXCEPT ![c] = "settled"]
    /\ result' = [result EXCEPT ![c] = IF record[c] = "lost" THEN "failed"
                                                             ELSE "ok"]
    /\ UNCHANGED <<signal, listener, aborted, record, outcome, early>>

\* Both arms of select! may be ready; it takes either.
SelectAnswer(c) ==
    /\ call[c] = "native"
    /\ record[c] \in {"published", "lost"}
    /\ call' = [call EXCEPT ![c] = "settled"]
    /\ result' = [result EXCEPT ![c] = IF record[c] = "published" THEN "ok"
                                                                  ELSE "failed"]
    /\ UNCHANGED <<signal, listener, aborted, record, outcome, early>>

\* Mutant: the call returns but its future goes on.
SelectAbortDetached(c) ==
    /\ call[c] = "native"
    /\ aborted[c] = "heard"
    /\ call' = [call EXCEPT ![c] = "settled"]
    /\ result' = [result EXCEPT ![c] = "aborted"]
    /\ record' = [record EXCEPT ![c] = IF @ = "unsent" THEN "handedOff" ELSE @]
    /\ UNCHANGED <<signal, listener, aborted, outcome, early>>

\* The abort is chosen and the core's future is dropped, which stops the
\* record only if it was not handed off.
SelectAbort(c) ==
    /\ call[c] = "native"
    /\ aborted[c] = "heard"
    /\ call' = [call EXCEPT ![c] = "settled"]
    /\ result' = [result EXCEPT ![c] = "aborted"]
    /\ record' = [record EXCEPT ![c] = IF @ = "unsent" THEN "dropped" ELSE @]
    /\ UNCHANGED <<signal, listener, aborted, outcome, early>>

-----------------------------------------------------------------------------
Rest == /\ \A c \in Calls : call[c] = "done"
        /\ UNCHANGED vars

Next ==
    \/ \E c \in Calls :
          \/ StartCall(c) \/ RefuseArguments(c) \/ Finish(c)
          \/ HearAbort(c) \/ HandOff(c) \/ Publish(c)
          \/ SelectAnswer(c) \/ SelectAbort(c)
    \/ Abort
    \/ Rest

Spec == Init /\ [][Next]_vars

\* JavaScript runs its reactions and the runtime polls its tasks. The core is
\* owed nothing: a broker that is gone never answers.
Fairness == \A c \in Calls : /\ WF_vars(HearAbort(c))
                             /\ WF_vars(SelectAbort(c) \/ SelectAnswer(c))
                             /\ WF_vars(Finish(c))

FairSpec == Spec /\ Fairness

-----------------------------------------------------------------------------
\* Type correctness of the calls.
TypeOK ==
    /\ signal \in {"quiet", "aborted"}
    /\ call \in [Calls -> {"idle", "native", "settled", "done"}]
    /\ listener \in [Calls -> BOOLEAN]
    /\ aborted \in [Calls -> {"none", "pending", "rejected", "heard"}]
    /\ record \in [Calls -> {"none", "unsent", "handedOff", "published", "lost",
                             "dropped"}]
    /\ result \in [Calls -> {"none", "ok", "failed", "aborted"}]
    /\ outcome \in [Calls -> {"none", "ok", "failed", "aborted", "refused"}]
    /\ early \in [Calls -> BOOLEAN]

\* A caller can trust how its call settled, whichever arm of select! won: "ok"
\* means that the record is published, "aborted" that the caller's own signal
\* was aborted, "refused" that nothing was sent.
HonestOutcomes ==
    \A c \in Calls :
        /\ outcome[c] = "ok" => record[c] = "published"
        /\ outcome[c] = "failed" => record[c] = "lost"
        /\ outcome[c] = "aborted" => c \in Abortable /\ signal = "aborted"
        /\ outcome[c] = "refused" => record[c] = "none"

\* A signal holds a listener exactly for the calls in flight that it can still
\* abort, so a long-lived signal "can serve any number of calls" (client.js).
ListenersMatchCalls ==
    \A c \in Calls :
        listener[c] <=> /\ c \in Abortable /\ signal = "quiet"
                        /\ call[c] \in {"native", "settled"}

\* Nothing is handed to the producer for a call that has settled: an abort
\* that came in time stops the record for good.
SettledCallsSendNothing ==
    [][\A c \in Calls :
         record[c] \in {"none", "unsent"} /\ record'[c] = "handedOff"
           => call[c] = "native" /\ call'[c] = "native"]_vars

\* An abort ends every call it was given to, although the core never answers.
AbortEndsCalls ==
    \A c \in Abortable :
        signal = "aborted" /\ call[c] = "native" ~> call[c] = "done"

\* What select! has chosen is already honest, and a record that was published
\* or lost stays so.
CallInv ==
    /\ TypeOK /\ HonestOutcomes /\ ListenersMatchCalls
    /\ \A c \in Calls :
         /\ result[c] = "ok" => record[c] = "published"
         /\ result[c] = "failed" => record[c] = "lost"
         /\ result[c] = "aborted" => c \in Abortable /\ signal = "aborted"
         /\ aborted[c] \in {"rejected", "heard"} =>
              c \in Abortable /\ signal = "aborted"
         /\ call[c] = "idle" => aborted[c] = "none" /\ record[c] = "none"
         /\ call[c] \in {"idle", "native"} =>
              result[c] = "none" /\ outcome[c] = "none"
         /\ call[c] = "settled" => result[c] # "none" /\ outcome[c] = "none"
         /\ call[c] = "native" => record[c] # "dropped"

\* "When aborted, the promise will reject with the abort reason." (client.d.ts,
\* send): at least a call that is made with an aborted signal never succeeds.
AbortedSignalRejects ==
    \A c \in Abortable : early[c] => outcome[c] # "ok"
=============================================================================
