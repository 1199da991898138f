---------------------------- MODULE ClientProofs -----------------------------
(***************************************************************************)
(* Proofs about Client: its calls keep what AbortableCall promises         *)
(* whatever else the client does, and its shutdown is shared by any number *)
(* of shutdown calls.                                                      *)
(***************************************************************************)
EXTENDS Client, AbortableCallProofs

-----------------------------------------------------------------------------
(***************************************************************************)
(* A step of the client is a step of AbortableCall, a stutter of it, or a  *)
(* request that is refused by its native half.                             *)
(***************************************************************************)
\* A refused request settles and keeps what is known of the calls.
LEMMA RefuseRequestInv ==
    ASSUME CallInv, NEW c \in Calls, RefuseRequest(c) PROVE CallInv'
  <1>1. TypeOK /\ CallFacts(c)
    BY CallByCall
  <1>2. /\ call[c] = "native" /\ record[c] = "unsent"
        /\ call' = [call EXCEPT ![c] = "settled"]
        /\ record' = [record EXCEPT ![c] = "lost"]
        /\ result' = [result EXCEPT ![c] = "failed"]
        /\ UNCHANGED <<signal, listener, aborted, outcome, early>>
    BY DEF RefuseRequest
  <1>3. TypeOK'
    BY <1>1, <1>2 DEF TypeOK
  <1>4. CallFacts(c)'
    BY <1>1, <1>2 DEF TypeOK, CallFacts
  <1>5. Only(c)
    BY <1>1, <1>2 DEF TypeOK, Only
  <1> QED
    BY <1>3, <1>4, <1>5, OneCall

\* What a step of the client does to the variables of AbortableCall.
LEMMA ClientStepOfCalls ==
    [ClientNext]_allVars => [Next]_vars \/ \E c \in Calls : RefuseRequest(c)
  <1> SUFFICES ASSUME [ClientNext]_allVars
               PROVE  [Next]_vars \/ \E c \in Calls : RefuseRequest(c)
    OBVIOUS
  <1>1. CASE \E c \in Calls : CallStep(c)
    BY <1>1 DEF CallStep, Next
  <1>2. CASE \E c \in Calls : FinishCall(c)
    BY <1>2 DEF FinishCall, Next
  <1>3. CASE AbortCalls
    BY <1>3 DEF AbortCalls, Next
  <1>4. CASE Create \/ CoreBuilds
    BY <1>4 DEF Create, CoreBuilds
  <1>5. CASE \E u \in Controls : AskControl(u) \/ RefuseHandler(u)
    BY <1>5 DEF AskControl, RefuseHandler
  <1>6. CASE \E u \in Controls : Subscribe(u) \/ Unsubscribe(u) \/ consumer_state(u)
    BY <1>6 DEF Subscribe, Unsubscribe, consumer_state, Tell
  <1>7. CASE \/ \E d \in Closers : CallShutdown(d) \/ ReturnShutdown(d)
             \/ CoreShutsDown
    BY <1>7 DEF CallShutdown, ReturnShutdown, CoreShutsDown
  <1>8. CASE OpenReader \/ ScanMap \/ ScanSet \/ ScanDeque \/ DropReader
    BY <1>8 DEF OpenReader, ScanMap, ScanSet, ScanDeque, ScanReader, DropReader
  <1>9. CASE AtRest \/ UNCHANGED allVars
    BY <1>9 DEF AtRest, allVars
  <1> QED
    BY <1>1, <1>2, <1>3, <1>4, <1>5, <1>6, <1>7, <1>8, <1>9 DEF ClientNext

\* The invariant of the calls holds throughout the life of the client.
THEOREM ClientCallInvariant == ClientSpec => []CallInv
  <1>1. ClientInit => CallInv
    BY CallInit DEF ClientInit
  <1>2. CallInv /\ [ClientNext]_allVars => CallInv'
    BY StepKeepsCallInv, RefuseRequestInv, ClientStepOfCalls
  <1> QED
    BY <1>1, <1>2, PTL DEF ClientSpec
\* The caller of a send, an excise or a request can trust how it settled, also
\* while the client is shut down by others or a request is refused.
THEOREM ClientOutcomesAreHonest == ClientSpec => []HonestOutcomes
  <1>1. CallInv => HonestOutcomes
    BY DEF CallInv
  <1> QED
    BY <1>1, ClientCallInvariant, PTL

\* No way for a call of the client to settle leaves a listener on its signal.
THEOREM ClientListenersAreReleased == ClientSpec => []ListenersMatchCalls
  <1>1. CallInv => ListenersMatchCalls
    BY DEF CallInv
  <1> QED
    BY <1>1, ClientCallInvariant, PTL

\* The promise of every step of AbortableCall: it hands over no record of a call
\* that has settled.
Quiet ==
    \A c \in Calls :
        record[c] \in {"none", "unsent"} /\ record'[c] = "handedOff"
          => call[c] = "native" /\ call'[c] = "native"

LEMMA CallsStepQuietly == CallInv /\ [Next]_vars => Quiet
  <1> SUFFICES ASSUME CallInv, [Next]_vars, NEW d \in Calls,
                      record[d] \in {"none", "unsent"}, record'[d] = "handedOff"
               PROVE  call[d] = "native" /\ call'[d] = "native"
    BY DEF Quiet
  <1>1. TypeOK /\ record' # record
    BY DEF CallInv
  <1>2. PICK c \in Calls : HandOff(c)
    <2>1. ASSUME NEW c \in Calls, StartCall(c) PROVE FALSE
      BY <1>1, <2>1 DEF StartCall, TypeOK
    <2>2. ASSUME NEW c \in Calls, Publish(c) PROVE FALSE
      BY <1>1, <2>2 DEF Publish, TypeOK
    <2>3. ASSUME NEW c \in Calls, SelectAbort(c) PROVE FALSE
      BY <1>1, <2>3 DEF SelectAbort, TypeOK
    <2> QED
      BY <1>1, <2>1, <2>2, <2>3 DEF Next, vars, RefuseArguments, Finish, HearAbort,
         SelectAnswer, Abort, Rest
  <1>3. c = d
    BY <1>1, <1>2 DEF HandOff, TypeOK
  <1> QED
    BY <1>2, <1>3 DEF HandOff

\* A settled call of the client hands nothing to the producer any more: neither
\* its abort nor its refusal leaves work behind.
THEOREM ClientSettledCallsAreDone == ClientSpec => SettledCallsSendNothing
  <1>1. CallInv /\ [ClientNext]_allVars => [Quiet]_vars
    <2>1. ASSUME CallInv, NEW c \in Calls, RefuseRequest(c) PROVE Quiet
      BY <2>1 DEF RefuseRequest, Quiet, CallInv, TypeOK
    <2> QED
      BY <2>1, CallsStepQuietly, ClientStepOfCalls
  <1>2. CallInv /\ [ClientNext]_allVars =>
          [\A c \in Calls :
             record[c] \in {"none", "unsent"} /\ record'[c] = "handedOff"
               => call[c] = "native" /\ call'[c] = "native"]_vars
    BY <1>1 DEF Quiet
  <1> QED
    BY <1>2, ClientCallInvariant, PTL DEF ClientSpec, SettledCallsSendNothing

-----------------------------------------------------------------------------
(***************************************************************************)
(* Shutdown. The promise that all shutdown calls share tells what became   *)
(* of the core, and an answered call repeats it.                           *)
(***************************************************************************)
\* The inductive invariant behind ShutdownShared.
PromiseKnowsCore ==
    /\ promise \in {"none", "pending", "ok", "failed"}
    /\ promise = "none" => shutdowns = 0 /\ core = "up"
    /\ promise # "none" => shutdowns = 1 /\ client = "open"
    /\ promise = "pending" => core = "closing"
    /\ promise = "ok" => core = "down" /\ consumer = "shutdown"
    /\ promise = "failed" => core = "stuck"

ClosersAgree ==
    /\ closer \in [Closers -> {"idle", "waiting", "ok", "failed"}]
    /\ \A d \in Closers :
         /\ closer[d] = "waiting" => promise # "none"
         /\ closer[d] \in {"ok", "failed"} => promise = closer[d]

ShutdownInv == PromiseKnowsCore /\ ClosersAgree

LEMMA ShutdownInit == ClientInit => ShutdownInv
  BY DEF ClientInit, ShutdownInv, PromiseKnowsCore, ClosersAgree

\* Only the steps of a shutdown touch its promise and its calls; a subscription
\* changes its consumer before the shutdown begins, or not at all.
LEMMA ShutdownStep == ShutdownInv /\ [ClientNext]_allVars => ShutdownInv'
  <1> SUFFICES ASSUME ShutdownInv, [ClientNext]_allVars PROVE ShutdownInv'
    OBVIOUS
  <1> USE DEF ShutdownInv, PromiseKnowsCore, ClosersAgree
  <1>1. ASSUME NEW d \in Closers, CallShutdown(d) PROVE ShutdownInv'
    <2>1. /\ client = "open" /\ closer' = [closer EXCEPT ![d] = "waiting"]
          /\ UNCHANGED <<client, consumer>>
      BY <1>1 DEF CallShutdown, Ready, buildVars
    <2>2. CASE promise = "none"
      <3>1. promise' = "pending" /\ shutdowns' = shutdowns + 1 /\ core' = "closing"
        BY <1>1, <2>2 DEF CallShutdown
      <3>2. PromiseKnowsCore'
        BY <2>1, <2>2, <3>1
      <3>3. ClosersAgree'
        BY <2>1, <2>2, <3>1
      <3> QED
        BY <3>2, <3>3
    <2>3. CASE promise # "none"
      <3>1. UNCHANGED <<promise, shutdowns, core>>
        BY <1>1, <2>3 DEF CallShutdown
      <3> QED
        BY <2>1, <2>3, <3>1
    <2> QED
      BY <2>2, <2>3
  <1>2. CASE CoreShutsDown
    BY <1>2 DEF CoreShutsDown, Ready, buildVars
  <1>3. CASE \E d \in Closers : ReturnShutdown(d)
    BY <1>3 DEF ReturnShutdown, buildVars
  <1>4. CASE \E u \in Controls : Subscribe(u) \/ Unsubscribe(u) \/ consumer_state(u)
    <2>1. UNCHANGED <<client, core, shutdowns, promise, closer>>
      BY <1>4 DEF Subscribe, Unsubscribe, consumer_state, Tell, buildVars, closeVars
    <2>2. core = "up" \/ UNCHANGED consumer
      BY <1>4 DEF Subscribe, Unsubscribe, consumer_state
    <2> QED
      BY <2>1, <2>2
  <1>5. CASE Create \/ CoreBuilds
    <2>1. promise = "none" /\ UNCHANGED <<core, shutdowns, promise, closer>>
      BY <1>5 DEF Create, CoreBuilds, closeVars
    <2> QED
      BY <2>1
  <1>6. CASE \E u \in Controls : AskControl(u) \/ RefuseHandler(u)
    <2>1. UNCHANGED <<client, core, consumer, shutdowns, promise, closer>>
      BY <1>6 DEF AskControl, RefuseHandler, buildVars, closeVars
    <2> QED
      BY <2>1
  <1>7. CASE \/ \E c \in Calls : CallStep(c) \/ FinishCall(c)
             \/ AbortCalls
    <2>1. UNCHANGED <<client, core, consumer, shutdowns, promise, closer>>
      BY <1>7 DEF CallStep, FinishCall, AbortCalls, clientVars, buildVars, closeVars
    <2> QED
      BY <2>1
  <1>8. CASE OpenReader \/ ScanMap \/ ScanSet \/ ScanDeque \/ DropReader
    <2>1. UNCHANGED <<client, core, consumer, shutdowns, promise, closer>>
      BY <1>8 DEF OpenReader, ScanMap, ScanSet, ScanDeque, ScanReader, DropReader,
                  buildVars, closeVars
    <2> QED
      BY <2>1
  <1>9. CASE AtRest \/ UNCHANGED allVars
    BY <1>9 DEF AtRest, allVars, clientVars
  <1> QED
    BY <1>1, <1>2, <1>3, <1>4, <1>5, <1>6, <1>7, <1>8, <1>9 DEF ClientNext

\* However many shutdown calls there are, the services are stopped once and
\* every call tells what became of that.
THEOREM ShutdownIsShared == ClientSpec => []ShutdownShared
  <1>1. ShutdownInv => ShutdownShared
    BY DEF ShutdownInv, PromiseKnowsCore, ClosersAgree, ShutdownShared
  <1> QED
    BY <1>1, ShutdownInit, ShutdownStep, PTL DEF ClientSpec
-----------------------------------------------------------------------------
(***************************************************************************)
(* Types, one part of the client at a time.                                *)
(***************************************************************************)
LifeTypes ==
    /\ client \in {"none", "building", "failed", "open"}
    /\ core \in {"up", "closing", "down", "stuck"}
    /\ consumer \in {"unconfigured", "configured", "configurationFailed", "running",
                     "shutdown"}
    /\ shutdowns \in Nat
    /\ promise \in {"none", "pending", "ok", "failed"}
    /\ closer \in [Closers -> {"idle", "waiting", "ok", "failed"}]

ControlTypes ==
    /\ control \in [Controls -> {"idle", "native", "done"}]
    /\ asked \in [Controls -> {"none", "subscribe", "unsubscribe", "consumerState"}]
    /\ told \in [Controls -> {"none", "ok", "failed", "refused", "unconfigured",
                              "configured", "running", "shutdown"}]

ReaderTypes ==
    /\ reader.is \in {"none", "open", "typeError", "untyped", "permanent", "transient"}
    /\ scan.is \in {"none", "scan"}

LEMMA TypeParts == ClientTypeOK <=> TypeOK /\ LifeTypes /\ ControlTypes /\ ReaderTypes
  BY DEF ClientTypeOK, LifeTypes, ControlTypes, ReaderTypes

LEMMA PartsInit == ClientInit => LifeTypes /\ ControlTypes /\ ReaderTypes
  BY DEF ClientInit, LifeTypes, ControlTypes, ReaderTypes, NoReader, NoScan

\* Calls, their abort and rest leave all of this alone.
LEMMA CallsKeepParts ==
    ASSUME LifeTypes, ControlTypes, ReaderTypes,
           \/ \E c \in Calls : CallStep(c) \/ FinishCall(c)
           \/ AbortCalls \/ AtRest \/ UNCHANGED allVars
    PROVE  LifeTypes' /\ ControlTypes' /\ ReaderTypes'
  <1>1. UNCHANGED <<client, core, consumer, control, asked, told, shutdowns, promise,
                    closer, reader, scan>>
    BY DEF CallStep, FinishCall, AbortCalls, AtRest, allVars, clientVars, buildVars,
           closeVars, controlVars, readVars
  <1> QED
    BY <1>1 DEF LifeTypes, ControlTypes, ReaderTypes

\* Creation and shutdown.
LEMMA LifeKeepsParts ==
    ASSUME LifeTypes, ControlTypes, ReaderTypes,
           \/ Create \/ CoreBuilds \/ CoreShutsDown
           \/ \E d \in Closers : CallShutdown(d) \/ ReturnShutdown(d)
    PROVE  LifeTypes' /\ ControlTypes' /\ ReaderTypes'
  <1>1. UNCHANGED <<control, asked, told, reader, scan>>
    BY DEF Create, CoreBuilds, CoreShutsDown, CallShutdown, ReturnShutdown,
           controlVars, readVars
  <1>2. ControlTypes' /\ ReaderTypes'
    BY <1>1 DEF ControlTypes, ReaderTypes
  <1>3. CASE Create \/ CoreBuilds
    <2>1. UNCHANGED <<core, shutdowns, promise, closer>>
      BY <1>3 DEF Create, CoreBuilds, closeVars
    <2>2. client' \in {"building", "failed", "open"}
      <3>1. Create => client' \in {"building", "failed"}
        BY DEF Create
      <3>2. CoreBuilds => client' \in {"failed", "open"}
        BY DEF CoreBuilds
      <3> QED
        BY <1>3, <3>1, <3>2
    <2>3. \/ consumer' = consumer
          \/ consumer' \in {"unconfigured", "configured", "configurationFailed"}
      BY <1>3 DEF Create, CoreBuilds
    <2> QED
      BY <1>2, <2>1, <2>2, <2>3 DEF LifeTypes
  <1>4. CASE CoreShutsDown
    <2>1. /\ core' \in {"down", "stuck"} /\ promise' \in {"ok", "failed"}
          /\ consumer' = consumer \/ consumer' = "shutdown"
      BY <1>4 DEF CoreShutsDown
    <2>2. UNCHANGED <<client, shutdowns, closer>>
      BY <1>4 DEF CoreShutsDown, buildVars
    <2> QED
      BY <1>2, <2>1, <2>2 DEF LifeTypes
  <1>5. ASSUME NEW d \in Closers, CallShutdown(d) PROVE LifeTypes'
    <2>1. /\ closer' = [closer EXCEPT ![d] = "waiting"] /\ UNCHANGED <<client, consumer>>
          /\ \/ promise' = "pending" /\ shutdowns' = shutdowns + 1 /\ core' = "closing"
             \/ UNCHANGED <<promise, shutdowns, core>>
      BY <1>5 DEF CallShutdown, buildVars
    <2> QED
      BY <2>1 DEF LifeTypes
  <1>6. ASSUME NEW d \in Closers, ReturnShutdown(d) PROVE LifeTypes'
    BY <1>6 DEF ReturnShutdown, buildVars, LifeTypes
  <1> QED
    BY <1>2, <1>3, <1>4, <1>5, <1>6

\* The subscription.
LEMMA ControlKeepsParts ==
    ASSUME LifeTypes, ControlTypes, ReaderTypes, NEW u \in Controls,
           \/ AskControl(u) \/ RefuseHandler(u) \/ Subscribe(u) \/ Unsubscribe(u)
           \/ consumer_state(u)
    PROVE  LifeTypes' /\ ControlTypes' /\ ReaderTypes'
  <1>1. UNCHANGED <<client, core, shutdowns, promise, closer, reader, scan>>
    BY DEF AskControl, RefuseHandler, Subscribe, Unsubscribe, consumer_state, Tell,
           buildVars, closeVars, readVars
  <1>2. consumer' = consumer \/ consumer' \in {"running", "configured"}
    BY DEF AskControl, RefuseHandler, Subscribe, Unsubscribe, consumer_state
  <1>3. LifeTypes' /\ ReaderTypes'
    BY <1>1, <1>2 DEF LifeTypes, ReaderTypes
  <1>4. CASE AskControl(u) \/ RefuseHandler(u)
    BY <1>3, <1>4 DEF AskControl, RefuseHandler, ControlTypes
  <1>5. CASE Subscribe(u) \/ Unsubscribe(u) \/ consumer_state(u)
    <2>1. \E m, a : Tell(u, m, a) /\ a \in {"ok", "failed", "unconfigured", "configured",
                                           "running", "shutdown"}
      BY <1>5 DEF Subscribe, Unsubscribe, consumer_state, LifeTypes
    <2> QED
      BY <1>3, <2>1 DEF Tell, ControlTypes
  <1> QED
    BY <1>4, <1>5

\* Published readers.
LEMMA ReadersKeepParts ==
    ASSUME LifeTypes, ControlTypes, ReaderTypes,
           OpenReader \/ ScanMap \/ ScanSet \/ ScanDeque \/ DropReader
    PROVE  LifeTypes' /\ ControlTypes' /\ ReaderTypes'
  <1>1. UNCHANGED <<client, core, consumer, control, asked, told, shutdowns, promise, closer>>
    BY DEF OpenReader, ScanMap, ScanSet, ScanDeque, ScanReader, DropReader, buildVars,
           closeVars, controlVars
  <1>2. LifeTypes' /\ ControlTypes'
    BY <1>1 DEF LifeTypes, ControlTypes
  <1>3. CASE OpenReader
    <2>1. /\ reader'.is \in {"typeError", "untyped", "open", "permanent", "transient"}
          /\ UNCHANGED scan
      BY ONLY OpenReader, SMT DEF OpenReader, open_error
    <2> QED
      BY <1>2, <2>1 DEF ReaderTypes
  <1>4. CASE ScanMap \/ ScanSet \/ ScanDeque
    <2>1. PICK kind \in {"map", "set", "deque"} : ScanReader(kind)
      BY <1>4 DEF ScanMap, ScanSet, ScanDeque
    <2>2. scan'.is = "scan" /\ UNCHANGED reader
      BY <2>1 DEF ScanReader
    <2> QED
      BY <1>2, <2>2 DEF ReaderTypes
  <1>5. CASE DropReader
    <2>1. reader'.is = "none" /\ scan'.is = "none"
      BY <1>5 DEF DropReader, NoReader, NoScan
    <2> QED
      BY <1>2, <2>1 DEF ReaderTypes
  <1> QED
    BY <1>2, <1>3, <1>4, <1>5

\* The client and its calls keep their types.
THEOREM ClientTypeCorrect == ClientSpec => []ClientTypeOK
  <1> DEFINE Parts == LifeTypes /\ ControlTypes /\ ReaderTypes
  <1>1. ClientInit => Parts
    BY PartsInit
  <1>2. Parts /\ [ClientNext]_allVars => Parts'
    BY CallsKeepParts, LifeKeepsParts, ControlKeepsParts, ReadersKeepParts DEF ClientNext
  <1>3. CallInv /\ Parts => ClientTypeOK
    BY TypeParts DEF CallInv
  <1> QED
    BY <1>1, <1>2, <1>3, ClientCallInvariant, PTL DEF ClientSpec
=============================================================================
