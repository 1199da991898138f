---------------------------- MODULE EventBridge ----------------------------
(***************************************************************************)
(* How one event travels from the consumer framework to the application's  *)
(* handler and how its outcome travels back.                               *)
(*                                                                         *)
(* Three parties take part. The framework (external) starts attempts, one  *)
(* per key at a time and MaxConcurrency in all, and cancels them. A native *)
(* task per attempt (src/src/handler.rs) puts a call on a bounded          *)
(* thread-safe-function queue, awaits the promise it gets back and, when   *)
(* that promise rejects, asks JavaScript over a second bounded queue       *)
(* whether the error is permanent. The single JavaScript thread            *)
(* (lib/client.js) takes calls from those queues in any order between      *)
(* queues and first-in first-out within one, and interleaves the handlers  *)
(* it has started at their awaits.                                         *)
(*                                                                         *)
(* An attempt is a pair <<event, number>>. Data is abstracted: a payload,  *)
(* a carrier and a span do not appear; an error is only permanent or not.  *)
(***************************************************************************)
EXTENDS Naturals, Sequences, FiniteSets

CONSTANTS
    Events,            \* the events the framework delivers
    KeyOf,             \* KeyOf[e]: the Kafka key of e
    KindOf,            \* KindOf[e]: "message", "excise", "timer", "internal"
    MaxAttempts,       \* bound: how often the model lets one event be tried
    MaxConcurrency,    \* the framework's limit on attempts in flight
    HandleQueueSize,   \* HANDLE_QUEUE_SIZE, the bound of each handler queue
    PermQueueSize,     \* PERM_QUEUE_SIZE, the bound of the isPermanent queue
    ReporterMayThrow,  \* whether the logger or the Sentry client can throw
    EnvMayClose        \* whether the JavaScript environment can be torn down

ASSUME BridgeAssumption ==
    /\ \A e \in Events :
         KindOf[e] \in {"message", "excise", "timer", "internal"}
    /\ MaxAttempts \in Nat \ {0}
    /\ MaxConcurrency \in Nat \ {0}
    /\ HandleQueueSize \in Nat \ {0}
    /\ PermQueueSize \in Nat \ {0}
    /\ ReporterMayThrow \in BOOLEAN
    /\ EnvMayClose \in BOOLEAN

Attempts == Events \X (1 .. MaxAttempts)

\* The kinds that reach JavaScript; each has its own queue.
Kinds == {"message", "excise", "timer"}

\* What an application handler can do with an event.
Results == {"returned", "unencodable", "threwPermanent", "threwTransient"}

VARIABLES
    pc,         \* pc[a]: where the native task of attempt a is
    handleQ,    \* handleQ[k]: the queue of the thread-safe function of kind k
    permQ,      \* the queue of the isPermanent thread-safe function
    result,     \* result[a]: what the application handler did
    rejection,  \* rejection[a]: what the callback's promise settled with
    completed,  \* completed[a]: the flag of runHandler
    cancel,     \* cancel[a]: "none", "requested" or "seen" by JavaScript
    signal,     \* signal[a]: the AbortController the handler was given
    verdict,    \* verdict[a]: what the framework was told
    closing     \* the JavaScript environment is being torn down

vars == <<pc, handleQ, permQ, result, rejection, completed, cancel, signal,
          verdict, closing>>

-----------------------------------------------------------------------------
(***************************************************************************)
(* Definitions whose comment begins with "Mutant" are plausible mistakes.  *)
(* No specification uses them; each stands in for the definition after it  *)
(* to show that a property would notice.                                   *)
(***************************************************************************)

\* Mutant: a cancelled task stops waiting for its handler.
InFlightUntilCancelled(a) ==
    /\ pc[a] \in {"queued", "running", "settled", "classifying"}
    /\ cancel[a] # "seen"

\* A native task is in flight from the call it makes until its verdict.
InFlight(a) == pc[a] \in {"queued", "running", "settled", "classifying"}

Tasks == {a \in Attempts : InFlight(a)}

\* JavaScript has started the callback of attempt a.
Started(a) == pc[a] \in {"running", "settled", "classifying"} \/ completed[a]

\* A non-blocking call is accepted only while the queue has room.
HasRoom(q, size) == Len(q) < size

\* What From<napi::Error> makes of a call the queue refuses or drops.
CallFailure == "transient"

\* The native task ends and reports v.
Verdict(a, v) == /\ pc' = [pc EXCEPT ![a] = "ended"]
                 /\ verdict' = [verdict EXCEPT ![a] = v]

Init ==
    /\ pc = [a \in Attempts |-> "idle"]
    /\ handleQ = [k \in Kinds |-> << >>]
    /\ permQ = << >>
    /\ result = [a \in Attempts |-> "notRun"]
    /\ rejection = [a \in Attempts |-> "none"]
    /\ completed = [a \in Attempts |-> FALSE]
    /\ cancel = [a \in Attempts |-> "none"]
    /\ signal = [a \in Attempts |-> "quiet"]
    /\ verdict = [a \in Attempts |-> "none"]
    /\ closing = FALSE

-----------------------------------------------------------------------------
(***************************************************************************)
(* The framework. It tries an event again only after a transient verdict.  *)
(***************************************************************************)
KeyIsFree(e) ==
    \A b \in Attempts : InFlight(b) => KeyOf[b[1]] # KeyOf[e]

MayStart(a) ==
    /\ pc[a] = "idle"
    /\ KeyIsFree(a[1])
    /\ Cardinality(Tasks) < MaxConcurrency
    /\ a[2] > 1 => verdict[<<a[1], a[2] - 1>>] = "transient"

(***************************************************************************)
(* on_message, on_excise, on_timer up to the await of call_async. A timer  *)
(* that is not an application timer never reaches JavaScript. A call the   *)
(* queue refuses is an error of From<napi::Error>, so it is transient.     *)
(***************************************************************************)
SkipInternalTimer(a) ==
    /\ KindOf[a[1]] = "internal"
    /\ Verdict(a, "ok")
    /\ UNCHANGED <<handleQ, permQ>>

\* Mutant: every kind of event uses the message queue.
EnqueueOnMessageQueue(a) ==
    /\ KindOf[a[1]] \in Kinds
    /\ ~closing
    /\ HasRoom(handleQ["message"], HandleQueueSize)
    /\ pc' = [pc EXCEPT ![a] = "queued"]
    /\ handleQ' = [handleQ EXCEPT !["message"] = Append(@, a)]
    /\ UNCHANGED <<permQ, verdict>>

EnqueueCallback(a) ==
    LET k == KindOf[a[1]] IN
    /\ k \in Kinds
    /\ ~closing
    /\ HasRoom(handleQ[k], HandleQueueSize)
    /\ pc' = [pc EXCEPT ![a] = "queued"]
    /\ handleQ' = [handleQ EXCEPT ![k] = Append(@, a)]
    /\ UNCHANGED <<permQ, verdict>>

CallbackRefused(a) ==
    LET k == KindOf[a[1]] IN
    /\ k \in Kinds
    /\ closing \/ ~HasRoom(handleQ[k], HandleQueueSize)
    /\ Verdict(a, CallFailure)
    /\ UNCHANGED <<handleQ, permQ>>

StartAttempt(a) ==
    /\ MayStart(a)
    /\ SkipInternalTimer(a) \/ EnqueueCallback(a) \/ CallbackRefused(a)
    /\ UNCHANGED <<result, rejection, completed, cancel, signal, closing>>

-----------------------------------------------------------------------------
(***************************************************************************)
(* The JavaScript thread takes the oldest call of a handler queue and runs *)
(* the callback up to its first await: the handler has started.            *)
(***************************************************************************)
\* Mutant: the call stays on the queue.
DispatchAgain(k) ==
    /\ ~closing
    /\ handleQ[k] # << >>
    /\ pc' = [pc EXCEPT ![Head(handleQ[k])] = "running"]
    /\ UNCHANGED <<handleQ, permQ, result, rejection, completed, cancel, signal,
                   verdict, closing>>

DispatchCallback(k) ==
    /\ ~closing
    /\ handleQ[k] # << >>
    /\ pc' = [pc EXCEPT ![Head(handleQ[k])] = "running"]
    /\ handleQ' = [handleQ EXCEPT ![k] = Tail(@)]
    /\ UNCHANGED <<permQ, result, rejection, completed, cancel, signal,
                   verdict, closing>>

\* Mutant: the finally block forgets the flag.
SettleStillOpen(a, r) ==
    /\ rejection' = [rejection EXCEPT ![a] = r]
    /\ pc' = [pc EXCEPT ![a] = "settled"]
    /\ UNCHANGED completed

\* Mutant: the promise settles with the handler's own outcome.
SettleRaw(a, r) ==
    /\ completed' = [completed EXCEPT ![a] = TRUE]
    /\ rejection' = [rejection EXCEPT ![a] = result'[a]]
    /\ pc' = [pc EXCEPT ![a] = "settled"]

\* The finally block of runHandler; the callback's promise settles with r.
Settle(a, r) ==
    /\ completed' = [completed EXCEPT ![a] = TRUE]
    /\ rejection' = [rejection EXCEPT ![a] = r]
    /\ pc' = [pc EXCEPT ![a] = "settled"]

\* Mutant: the catch block reports the error and forgets to rethrow it.
Swallowed(err) == {"resolved"}

\* Mutant: the catch block rethrows the cause it reports, not the error.
RethrownCause(err) == {"transient"}

\* What the catch block rethrows: the same error, or whatever the logger or
\* the Sentry client throws while the block reports it.
Rethrown(err) == {err} \cup (IF ReporterMayThrow THEN {"transient"} ELSE {})

\* The handler returned. A timer's result is dropped for "null"; any other
\* result is encoded, and one without a JSON form is a TransientError.
HandlerReturns(a) ==
    /\ pc[a] = "running" /\ ~closing
    /\ result' = [result EXCEPT ![a] = "returned"]
    /\ Settle(a, "resolved")
    /\ UNCHANGED <<handleQ, permQ, cancel, signal, verdict, closing>>

ResultUnencodable(a) ==
    /\ pc[a] = "running" /\ ~closing
    /\ KindOf[a[1]] # "timer"
    /\ result' = [result EXCEPT ![a] = "unencodable"]
    /\ Settle(a, "transient")
    /\ UNCHANGED <<handleQ, permQ, cancel, signal, verdict, closing>>

HandlerThrows(a) ==
    /\ pc[a] = "running" /\ ~closing
    /\ \/ /\ result' = [result EXCEPT ![a] = "threwPermanent"]
          /\ \E r \in Rethrown("permanent") : Settle(a, r)
       \/ /\ result' = [result EXCEPT ![a] = "threwTransient"]
          /\ \E r \in Rethrown("transient") : Settle(a, r)
    /\ UNCHANGED <<handleQ, permQ, cancel, signal, verdict, closing>>

-----------------------------------------------------------------------------
(***************************************************************************)
(* The native task resumes with the settled promise (run_callback). A      *)
(* rejection is classified over the isPermanent queue; a refused call      *)
(* takes the `?` of categorize_error and ends as a transient error.        *)
(***************************************************************************)
TaskResumes(a) ==
    /\ pc[a] = "settled"
    /\ \/ /\ rejection[a] = "resolved"
          /\ Verdict(a, "ok")
          /\ UNCHANGED permQ
       \/ /\ rejection[a] # "resolved"
          /\ ~closing /\ HasRoom(permQ, PermQueueSize)
          /\ pc' = [pc EXCEPT ![a] = "classifying"]
          /\ permQ' = Append(permQ, a)
          /\ UNCHANGED verdict
       \/ /\ rejection[a] # "resolved"
          /\ closing \/ ~HasRoom(permQ, PermQueueSize)
          /\ Verdict(a, CallFailure)
          /\ UNCHANGED permQ
    /\ UNCHANGED <<handleQ, result, rejection, completed, cancel, signal,
                   closing>>

\* isPermanent runs on the JavaScript thread and never throws.
Classify ==
    /\ ~closing
    /\ permQ # << >>
    /\ LET a == Head(permQ) IN Verdict(a, rejection[a])
    /\ permQ' = Tail(permQ)
    /\ UNCHANGED <<handleQ, result, rejection, completed, cancel, signal,
                   closing>>

-----------------------------------------------------------------------------
(***************************************************************************)
(* Cancellation. The framework may signal it at any time after the call is *)
(* made, the end of the attempt included; the promise of onCancel resolves *)
(* on the JavaScript thread some time later.                               *)
(***************************************************************************)
RequestCancel(a) ==
    /\ cancel[a] = "none"
    /\ pc[a] = "queued" \/ Started(a)
    /\ cancel' = [cancel EXCEPT ![a] = "requested"]
    /\ UNCHANGED <<pc, handleQ, permQ, result, rejection, completed, signal,
                   verdict, closing>>

\* Mutant: the span is marked as cancelled but nothing aborts the signal.
OnCancelMarksSpan(a) ==
    /\ cancel[a] = "requested" /\ Started(a) /\ ~closing
    /\ cancel' = [cancel EXCEPT ![a] = "seen"]
    /\ UNCHANGED <<pc, handleQ, permQ, result, rejection, completed, signal,
                   verdict, closing>>

OnCancelResolves(a) ==
    /\ cancel[a] = "requested" /\ Started(a) /\ ~closing
    /\ cancel' = [cancel EXCEPT ![a] = "seen"]
    /\ signal' = IF completed[a] THEN signal
                                 ELSE [signal EXCEPT ![a] = "aborted"]
    /\ UNCHANGED <<pc, handleQ, permQ, result, rejection, completed, verdict,
                   closing>>

(***************************************************************************)
(* The environment is torn down: queued calls are dropped, so their        *)
(* call_async fails; handlers that are running never settle.               *)
(***************************************************************************)
CloseEnv ==
    /\ EnvMayClose /\ ~closing
    /\ closing' = TRUE
    /\ LET Dropped == {a \in Attempts : pc[a] \in {"queued", "classifying"}} IN
       /\ pc' = [a \in Attempts |-> IF a \in Dropped THEN "ended" ELSE pc[a]]
       /\ verdict' = [a \in Attempts |->
                        IF a \in Dropped THEN CallFailure ELSE verdict[a]]
    /\ handleQ' = [k \in Kinds |-> << >>]
    /\ permQ' = << >>
    /\ UNCHANGED <<result, rejection, completed, cancel, signal>>

-----------------------------------------------------------------------------
\* An event is decided once a verdict ends its retries. The model also lets
\* go of an event after MaxAttempts transient verdicts.
Decided(e) ==
    \/ \E n \in 1 .. MaxAttempts : verdict[<<e, n>>] \in {"ok", "permanent"}
    \/ verdict[<<e, MaxAttempts>>] = "transient"

\* The only states in which the bridge may stop.
Rest == /\ closing \/ \A e \in Events : Decided(e)
        /\ UNCHANGED vars

Next ==
    \/ \E a \in Attempts :
          \/ StartAttempt(a)
          \/ HandlerReturns(a)
          \/ ResultUnencodable(a)
          \/ HandlerThrows(a)
          \/ TaskResumes(a)
          \/ RequestCancel(a)
          \/ OnCancelResolves(a)
    \/ \E k \in Kinds : DispatchCallback(k)
    \/ Classify
    \/ CloseEnv
    \/ Rest

Spec == Init /\ [][Next]_vars

(***************************************************************************)
(* Fairness. The event loop serves every queue and every resolved promise; *)
(* the runtime polls every task; the framework offers work and cancels a   *)
(* handler that overruns its timeout (README, Handler Timeout). Of the     *)
(* application only one thing is assumed: a handler whose signal is        *)
(* aborted settles. A handler that was not cancelled may run forever.      *)
(***************************************************************************)
Fairness ==
    /\ \A k \in Kinds : WF_vars(DispatchCallback(k))
    /\ WF_vars(Classify)
    /\ WF_vars(\E a \in Attempts : StartAttempt(a))
    /\ \A a \in Attempts :
         /\ WF_vars(TaskResumes(a))
         /\ WF_vars(OnCancelResolves(a))
         /\ WF_vars(pc[a] = "running" /\ RequestCancel(a))
         /\ WF_vars(/\ signal[a] = "aborted"
                    /\ HandlerReturns(a) \/ HandlerThrows(a))

FairSpec == Spec /\ Fairness

-----------------------------------------------------------------------------
\* Type correctness of the state of the bridge.
TypeOK ==
    /\ pc \in [Attempts -> {"idle", "queued", "running", "settled",
                            "classifying", "ended"}]
    /\ handleQ \in [Kinds -> Seq(Attempts)]
    /\ permQ \in Seq(Attempts)
    /\ result \in [Attempts -> Results \cup {"notRun"}]
    /\ rejection \in [Attempts ->
                        {"none", "resolved", "permanent", "transient"}]
    /\ completed \in [Attempts -> BOOLEAN]
    /\ cancel \in [Attempts -> {"none", "requested", "seen"}]
    /\ signal \in [Attempts -> {"quiet", "aborted"}]
    /\ verdict \in [Attempts -> {"none", "ok", "permanent", "transient"}]
    /\ closing \in BOOLEAN

\* The verdict the framework hears is honest about what the application's
\* handler did in that attempt: "permanent", which drops the event for good,
\* only if the handler itself threw a permanent error; "ok", which commits its
\* offset, only if the handler returned (an internal timer has no handler).
\* A full queue, a broken logger or a closing environment never forge either.
HonestVerdicts ==
    \A a \in Attempts :
        /\ verdict[a] = "permanent" => result[a] = "threwPermanent"
        /\ verdict[a] = "ok" =>
             result[a] = "returned" \/ KindOf[a[1]] = "internal"

\* Two handlers of one key never run at the same time in JavaScript: the
\* native task of an attempt stays in flight for as long as its handler runs,
\* whatever cancellation does.
NoOverlap ==
    \A a, b \in Attempts :
        /\ pc[a] = "running" /\ pc[b] = "running"
        /\ KeyOf[a[1]] = KeyOf[b[1]]
        => a = b

\* Every queued call belongs to exactly one waiting task and every waiting
\* task has exactly one queued call: no callback is lost or runs twice.
QueuesMatchTasks ==
    LET Waiting(q) == {q[i] : i \in 1 .. Len(q)} IN
    /\ \A k \in Kinds :
         /\ Waiting(handleQ[k]) =
              {a \in Attempts : pc[a] = "queued" /\ KindOf[a[1]] = k}
         /\ Cardinality(Waiting(handleQ[k])) = Len(handleQ[k])
    /\ Waiting(permQ) = {a \in Attempts : pc[a] = "classifying"}
    /\ Cardinality(Waiting(permQ)) = Len(permQ)

\* A permanent error ends the event's retries ("not retried" in errors.d.ts).
\* Holds while the isPermanent queue has a slot for every attempt in flight,
\* nothing throws while the failure is reported and the environment lives.
PermanentIsFinal ==
    \A a \in Attempts :
        pc[a] = "ended" /\ result[a] = "threwPermanent"
          => verdict[a] = "permanent"

\* A cancellation that arrives late never touches the signal of a handler
\* that has finished: the signal changes only while its handler runs.
LateCancelIsQuiet ==
    [][\A a \in Attempts : signal'[a] # signal[a] => pc[a] = "running"]_vars

\* Every event is decided in the end, although handlers only stop when told.
EveryEventDecided == \A e \in Events : <>Decided(e)

\* A cancellation reaches a running handler or finds it finished.
CancelReachesHandler ==
    \A a \in Attempts :
        cancel[a] = "requested"
          ~> signal[a] = "aborted" \/ pc[a] \in {"settled", "classifying", "ended"}

-----------------------------------------------------------------------------
(***************************************************************************)
(* The inductive invariant: TypeOK and HonestVerdicts hold because of what *)
(* is known of an attempt at each stage and of the entries of the queues.  *)
(***************************************************************************)
StageInv ==
    \A a \in Attempts :
        /\ pc[a] \in {"idle", "queued", "running"} =>
             result[a] = "notRun" /\ rejection[a] = "none" /\ ~completed[a]
        /\ pc[a] \in {"settled", "classifying"} =>
             completed[a] /\ rejection[a] # "none"
        /\ pc[a] = "classifying" => rejection[a] # "resolved"
        /\ rejection[a] = "resolved" => result[a] = "returned"
        /\ rejection[a] = "permanent" => result[a] = "threwPermanent"
        /\ verdict[a] = "none" <=> pc[a] # "ended"

\* No attempt is twice in a queue.
OncePerQueue(q) == \A i, j \in 1 .. Len(q) : q[i] = q[j] => i = j

QueueInv ==
    /\ \A k \in Kinds :
         /\ \A i \in 1 .. Len(handleQ[k]) :
              pc[handleQ[k][i]] = "queued" /\ KindOf[handleQ[k][i][1]] = k
         /\ OncePerQueue(handleQ[k])
    /\ \A i \in 1 .. Len(permQ) : pc[permQ[i]] = "classifying"
    /\ OncePerQueue(permQ)

OneTaskPerKey ==
    \A a, b \in Attempts :
        InFlight(a) /\ InFlight(b) /\ KeyOf[a[1]] = KeyOf[b[1]] => a = b

\* Attempts at an event are made in order, each after a transient verdict.
RetryInv ==
    \A e \in Events : \A m, n \in 1 .. MaxAttempts :
        m < n /\ pc[<<e, n>>] # "idle" => verdict[<<e, m>>] = "transient"

BridgeInv == TypeOK /\ StageInv /\ QueueInv /\ OneTaskPerKey /\ RetryInv
               /\ HonestVerdicts

\* While every task in flight has room in the isPermanent queue and nothing
\* interferes, a permanent error stays permanent at every stage.
CapacityInv ==
    /\ closing = FALSE
    /\ IsFiniteSet(Tasks) /\ Cardinality(Tasks) <= MaxConcurrency
    /\ \A a \in Attempts :
         result[a] = "threwPermanent" =>
           /\ pc[a] \in {"settled", "classifying"} => rejection[a] = "permanent"
           /\ pc[a] = "ended" => verdict[a] = "permanent"

-----------------------------------------------------------------------------
\* How far along an attempt is, as Delivery sees it.
Stage == [a \in Attempts |-> CASE pc[a] = "idle" -> "idle"
                               [] pc[a] = "ended" -> "done"
                               [] OTHER -> "inFlight"]

\* The bridge keeps the promise of Delivery, whose stage is the progress of
\* the native task; Delivery's other variables are the bridge's own.
Promise == INSTANCE Delivery WITH
    stage <- Stage,
    HandlerFree <- {e \in Events : KindOf[e] = "internal"}

Implements == Promise!Spec
=============================================================================
