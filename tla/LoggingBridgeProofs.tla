------------------------ MODULE LoggingBridgeProofs -------------------------
(***************************************************************************)
(* Proofs about LoggingBridge, for any number of environments, loggers and *)
(* events and every size of the queues.                                    *)
(***************************************************************************)
EXTENDS LoggingBridge, FiniteSetTheorems, TLAPS

-----------------------------------------------------------------------------
(***************************************************************************)
(* Types.                                                                  *)
(***************************************************************************)
LEMMA TypeInit == Init => TypeOK
  <1> SUFFICES ASSUME Init PROVE TypeOK
    OBVIOUS
  <1>1. << >> \in Seq(JsLoggers) /\ Len(installs) = 0 /\ 0 \in 0 .. Len(installs)
    BY DEF Init
  <1>2. << >> \in Seq(Events) /\ Len(<< >>) <= QueueSize
    BY LoggingAssumption
  <1>3. /\ queue \in [Slots -> Seq(Events)] /\ \A i \in Slots : Len(queue[i]) <= QueueSize
        /\ at \in [Events -> 0 .. Len(installs)]
    BY <1>1, <1>2 DEF Init
  <1> QED
    BY <1>1, <1>3 DEF Init, TypeOK

\* A JsLogger is stored.
LEMMA StoreAppends ==
    ASSUME TypeOK, NEW e \in Envs, Store(e)
    PROVE  \E install \in pending[e] :
             /\ install \in JsLoggers
             /\ installs' = Append(installs, install)
             /\ Len(installs') = Len(installs) + 1 /\ native' = Len(installs')
             /\ installs'[native'] = install
             /\ \A i \in 1 .. Len(installs) : installs'[i] = installs[i]
  <1>1. PICK install \in pending[e] : installs' = Append(installs, install)
    BY DEF Store
  <1>2. install \in JsLoggers /\ installs \in Seq(JsLoggers)
    BY <1>1 DEF TypeOK
  <1>3. native' = Len(installs) + 1
    BY DEF Store
  <1> QED
    BY <1>1, <1>2, <1>3

LEMMA EnvTypes ==
    ASSUME TypeOK, NEW e \in Envs, Load(e) \/ Store(e) \/ StoreFails(e)
             \/ \E l \in Loggers : SetLogger(e, l) \/ SetLoggerIfUnset(e, l)
    PROVE  TypeOK'
  <1>1. CASE Load(e)
    <2>1. Install(e, "default", TRUE) \in JsLoggers
      BY DEF Install, JsLoggers
    <2> QED
      BY <1>1, <2>1 DEF Load, TypeOK
  <1>2. CASE Store(e)
    <2>1. PICK install \in JsLoggers :
            /\ installs' = Append(installs, install)
            /\ Len(installs') = Len(installs) + 1 /\ native' = Len(installs')
      BY <1>2, StoreAppends
    <2>2. installs' \in Seq(JsLoggers) /\ Len(installs) \in Nat
      BY <2>1 DEF TypeOK
    <2>3. native' \in 0 .. Len(installs') /\ at' \in [Events -> 0 .. Len(installs')]
      BY <1>2, <2>1, <2>2 DEF Store, TypeOK
    <2> QED
      BY <1>2, <2>2, <2>3 DEF Store, TypeOK
  <1>3. ASSUME NEW l \in Loggers, SetLogger(e, l) \/ SetLoggerIfUnset(e, l) PROVE TypeOK'
    <2>1. Install(e, l, TRUE) \in JsLoggers /\ Install(e, l, FALSE) \in JsLoggers
      BY DEF Install, JsLoggers
    <2>2. CASE SetLogger(e, l)
      BY <2>1, <2>2 DEF SetLogger, TypeOK
    <2>3. CASE SetLoggerIfUnset(e, l)
      BY <2>1, <2>3 DEF SetLoggerIfUnset, TypeOK
    <2> QED
      BY <1>3, <2>2, <2>3
  <1>4. CASE StoreFails(e)
    BY <1>4 DEF StoreFails, TypeOK
  <1> QED
    BY <1>1, <1>2, <1>3, <1>4

LEMMA QueueTypes ==
    ASSUME TypeOK,
           \/ \E i \in Slots : Deliver(i)
           \/ \E e \in Envs : CloseEnv(e)
           \/ \E n \in Events : ReadLogger(n) \/ CallLogger(n)
           \/ RunHook
    PROVE  TypeOK'
  <1>0. QueueSize \in Nat /\ \A i \in Slots : queue[i] \in Seq(Events)
    BY LoggingAssumption DEF TypeOK
  <1>1. ASSUME NEW i \in Slots, Deliver(i) PROVE TypeOK'
    <2>1. Tail(queue[i]) \in Seq(Events) /\ Len(Tail(queue[i])) <= QueueSize
      BY <1>0, <1>1 DEF Deliver, TypeOK
    <2> QED
      BY <1>1, <2>1 DEF Deliver, TypeOK
  <1>2. ASSUME NEW e \in Envs, CloseEnv(e) PROVE TypeOK'
    <2>1. << >> \in Seq(Events) /\ Len(<< >>) <= QueueSize
      BY <1>0
    <2>2. /\ queue' \in [Slots -> Seq(Events)]
          /\ \A i \in Slots : Len(queue'[i]) <= QueueSize
      BY <1>2, <2>1 DEF CloseEnv, TypeOK
    <2> QED
      BY <1>2, <2>2 DEF CloseEnv, TypeOK
  <1>3. ASSUME NEW n \in Events, ReadLogger(n) PROVE TypeOK'
    BY <1>3 DEF ReadLogger, TypeOK
  <1>4. ASSUME NEW n \in Events, CallLogger(n) PROVE TypeOK'
    <2>1. CASE UNCHANGED queue
      BY <1>4, <2>1 DEF CallLogger, TypeOK
    <2>2. CASE Accepts(at[n]) /\ queue' = [queue EXCEPT ![at[n]] = Append(@, n)]
      <3>1. \A i \in Slots : Append(queue[i], n) \in Seq(Events)
        BY <1>0
      <3>2. \A i \in Slots : queue'[i] = IF i = at[n] THEN Append(queue[i], n) ELSE queue[i]
        BY <2>2 DEF TypeOK
      <3>3. ASSUME NEW i \in Slots PROVE Len(queue'[i]) <= QueueSize
        BY <1>0, <2>2, <3>2 DEF Accepts, TypeOK
      <3>4. queue' \in [Slots -> Seq(Events)]
        BY <1>0, <2>2, <3>1 DEF TypeOK
      <3> QED
        BY <1>4, <3>3, <3>4 DEF CallLogger, TypeOK
    <2> QED
      BY <1>4, <2>1, <2>2 DEF CallLogger
  <1>5. CASE RunHook
    BY <1>5 DEF RunHook, TypeOK
  <1> QED
    BY <1>1, <1>2, <1>3, <1>4, <1>5

LEMMA TypeStep == TypeOK /\ [Next]_vars => TypeOK'
  <1>1. TypeOK /\ UNCHANGED vars => TypeOK'
    BY DEF TypeOK, vars
  <1> QED
    BY <1>1, EnvTypes, QueueTypes DEF Next

\* Environments, loggers, queues and events keep their types, and no queue holds
\* more than LOG_QUEUE_SIZE events.
THEOREM LoggingTypeCorrect == Spec => []TypeOK
  BY TypeInit, TypeStep, PTL DEF Spec
-----------------------------------------------------------------------------
(***************************************************************************)
(* The loggers of an environment, on both sides.                           *)
(***************************************************************************)
\* What holds of environment e: nothing happens before it is loaded, and nothing
\* is stored before its console logger is; a call that is under way carries its
\* current logger; the logger it stored last, once no call is under way and the
\* last one has not thrown, is its current one; and a logger that is set by name
\* rules out every polite one.
EnvFacts(e) ==
    /\ env[e] = "absent" =>
         /\ pending[e] = {} /\ current[e] = "default"
         /\ \A i \in 1 .. Len(installs) : installs[i].env # e
    /\ pending[e] # {} => env[e] = "live"
    /\ pending[e] # {} /\ current[e] = "default" =>
         \A i \in 1 .. Len(installs) : installs[i].env # e
    /\ pending[e] = {} \/ \E p \in BOOLEAN : pending[e] = {Install(e, current[e], p)}
    /\ native # 0 /\ pending[e] = {} /\ ~threw[e] /\ installs[native].env = e =>
         current[e] = installs[native].logger
    /\ \A i \in 1 .. Len(installs) :
         installs[i].env = e /\ ~installs[i].polite =>
           current[e] # "default" /\ \A x \in pending[e] : ~x.polite
    /\ \A x \in pending[e] : ~x.polite => current[e] # "default"

EnvInv == \A e \in Envs : EnvFacts(e)

LEMMA EnvInit == Init => EnvInv
  BY DEF Init, EnvInv, EnvFacts

\* Steps of queues and events.
LEMMA EnvSame ==
    ASSUME TypeOK, EnvInv, UNCHANGED <<current, pending, threw, installs>>,
           native' \in {0, native},
           \A e \in Envs : /\ env'[e] = "absent" => env[e] = "absent"
                           /\ pending[e] # {} => env'[e] = env[e]
    PROVE  EnvInv'
  BY DEF EnvInv, EnvFacts

\* Another environment sets its logger, or is loaded.
LEMMA EnvOthers ==
    ASSUME TypeOK, EnvInv, NEW e \in Envs, UNCHANGED <<installs, native>>,
           \A d \in Envs \ {e} : /\ env'[d] = env[d] /\ current'[d] = current[d]
                                 /\ pending'[d] = pending[d] /\ threw'[d] = threw[d]
    PROVE  \A d \in Envs \ {e} : EnvFacts(d)'
  BY DEF EnvInv, EnvFacts

LEMMA LoadFacts ==
    ASSUME TypeOK, EnvInv, NEW e \in Envs, Load(e) PROVE EnvInv'
  <1>1. /\ env[e] = "absent" /\ env'[e] = "live"
        /\ pending'[e] = {Install(e, "default", TRUE)}
        /\ UNCHANGED <<current, threw, installs, native>>
        /\ \A d \in Envs \ {e} : env'[d] = env[d] /\ pending'[d] = pending[d]
    BY DEF Load, TypeOK
  <1>2. /\ current[e] = "default"
        /\ \A i \in 1 .. Len(installs) : installs[i].env # e
    BY <1>1 DEF EnvInv, EnvFacts
  <1>3. EnvFacts(e)'
    <2>1. Install(e, "default", TRUE).polite
      BY DEF Install
    <2>2. \E p \in BOOLEAN : pending'[e] = {Install(e, current'[e], p)}
      BY <1>1, <1>2
    <2>3. pending'[e] # {} /\ env'[e] = "live" /\ \A x \in pending'[e] : x.polite
      BY <1>1, <2>1
    <2>4. \A i \in 1 .. Len(installs') : installs'[i].env # e
      BY <1>1, <1>2
    <2> QED
      BY <2>2, <2>3, <2>4 DEF EnvFacts
  <1>4. \A d \in Envs \ {e} : /\ env'[d] = env[d] /\ current'[d] = current[d]
                              /\ pending'[d] = pending[d] /\ threw'[d] = threw[d]
    BY <1>1
  <1>5. UNCHANGED <<installs, native>>
    BY <1>1
  <1>6. \A d \in Envs \ {e} : EnvFacts(d)'
    BY <1>4, <1>5, EnvOthers
  <1> QED
    BY <1>3, <1>6 DEF EnvInv

LEMMA SetFacts ==
    ASSUME TypeOK, EnvInv, NEW e \in Envs, NEW l \in Loggers,
           SetLogger(e, l) \/ SetLoggerIfUnset(e, l)
    PROVE  EnvInv'
  <1>1. PICK p \in BOOLEAN :
          /\ current'[e] = l /\ pending'[e] = {Install(e, l, p)}
          /\ p => current[e] = "default"
    BY DEF SetLogger, SetLoggerIfUnset, TypeOK
  <1>2. /\ env[e] = "live" /\ UNCHANGED <<env, threw, installs, native>>
        /\ \A d \in Envs \ {e} : current'[d] = current[d] /\ pending'[d] = pending[d]
    BY DEF SetLogger, SetLoggerIfUnset, Idle, TypeOK
  <1>3. l # "default"
    BY LoggingAssumption
  <1>4. Install(e, l, p).polite = p
    BY DEF Install
  <1>5. EnvFacts(e)'
    BY <1>1, <1>2, <1>3, <1>4 DEF EnvFacts, EnvInv
  <1> QED
    BY <1>2, <1>5, EnvOthers DEF EnvInv

LEMMA StoreFacts ==
    ASSUME TypeOK, EnvInv, NEW e \in Envs, Store(e) PROVE EnvInv'
  <1>1. PICK install \in pending[e] :
          /\ install \in JsLoggers
          /\ Len(installs') = Len(installs) + 1 /\ native' = Len(installs')
          /\ installs'[native'] = install
          /\ \A i \in 1 .. Len(installs) : installs'[i] = installs[i]
    BY StoreAppends
  <1>2. Len(installs) \in Nat
    BY DEF TypeOK
  <1>3. PICK p \in BOOLEAN : install = Install(e, current[e], p) /\ pending[e] = {install}
    BY <1>1 DEF EnvInv, EnvFacts
  <1>4. /\ install.env = e /\ install.logger = current[e] /\ install.polite = p
    BY <1>3 DEF Install
  <1>5. /\ UNCHANGED <<env, current>> /\ pending'[e] = {}
        /\ \A d \in Envs \ {e} : pending'[d] = pending[d] /\ threw'[d] = threw[d]
    BY DEF Store, TypeOK
  <1>6. env[e] = "live"
    BY <1>1 DEF EnvInv, EnvFacts
  <1>7. ASSUME NEW i \in 1 .. Len(installs')
        PROVE  i \in 1 .. Len(installs) \/ i = native'
    BY <1>1, <1>2
  <1>8. EnvFacts(e)'
    <2>1. ASSUME NEW i \in 1 .. Len(installs'), installs'[i].env = e, ~installs'[i].polite
          PROVE  current[e] # "default"
      BY <1>1, <1>3, <1>4, <1>7, <2>1 DEF EnvInv, EnvFacts
    <2> QED
      BY <1>1, <1>4, <1>5, <1>6, <2>1 DEF EnvFacts
  <1>9. ASSUME NEW d \in Envs \ {e} PROVE EnvFacts(d)'
    BY <1>1, <1>4, <1>5, <1>7 DEF EnvInv, EnvFacts
  <1> QED
    BY <1>8, <1>9 DEF EnvInv

LEMMA StoreFailsFacts ==
    ASSUME TypeOK, EnvInv, NEW e \in Envs, StoreFails(e) PROVE EnvInv'
  <1>1. /\ pending[e] # {} /\ pending'[e] = {} /\ threw'[e]
        /\ env'[e] = IF current[e] = "default" THEN "absent" ELSE "live"
        /\ UNCHANGED <<current, installs, native>>
        /\ \A d \in Envs \ {e} : /\ env'[d] = env[d] /\ pending'[d] = pending[d]
                                 /\ current'[d] = current[d] /\ threw'[d] = threw[d]
    BY DEF StoreFails, TypeOK
  <1>2. EnvFacts(e)'
    <2>1. env'[e] = "absent" => /\ current[e] = "default"
                                /\ \A i \in 1 .. Len(installs) : installs[i].env # e
      BY <1>1 DEF EnvInv, EnvFacts
    <2>2. \A i \in 1 .. Len(installs) :
            installs[i].env = e /\ ~installs[i].polite => current[e] # "default"
      BY DEF EnvInv, EnvFacts
    <2> QED
      BY <1>1, <2>1, <2>2 DEF EnvFacts
  <1>3. \A d \in Envs \ {e} : EnvFacts(d)'
    BY <1>1, EnvOthers
  <1> QED
    BY <1>2, <1>3 DEF EnvInv

LEMMA EnvStep == TypeOK /\ EnvInv /\ [Next]_vars => EnvInv'
  <1> SUFFICES ASSUME TypeOK, EnvInv, [Next]_vars PROVE EnvInv'
    OBVIOUS
  <1>1. CASE \E e \in Envs : Load(e)
    BY <1>1, LoadFacts
  <1>2. CASE \E e \in Envs : Store(e)
    BY <1>2, StoreFacts
  <1>3. CASE \E e \in Envs, l \in Loggers : SetLogger(e, l) \/ SetLoggerIfUnset(e, l)
    BY <1>3, SetFacts
  <1>4. CASE \/ \E i \in Slots : Deliver(i)
             \/ \E n \in Events : ReadLogger(n) \/ CallLogger(n)
             \/ RunHook \/ UNCHANGED vars
    <2>1. /\ UNCHANGED <<env, current, pending, threw, installs>>
          /\ native' \in {0, native}
      BY <1>4 DEF Deliver, ReadLogger, CallLogger, RunHook, vars
    <2> QED
      BY <2>1, EnvSame
  <1>5. CASE \E e \in Envs : CloseEnv(e)
    <2>1. UNCHANGED <<current, pending, threw, installs, native>>
      BY <1>5 DEF CloseEnv
    <2>2. \A e \in Envs : /\ env'[e] = "absent" => env[e] = "absent"
                          /\ pending[e] # {} => env'[e] = env[e]
      BY <1>5 DEF CloseEnv, TypeOK
    <2> QED
      BY <2>1, <2>2, EnvSame
  <1>6. CASE \E e \in Envs : StoreFails(e)
    BY <1>6, StoreFailsFacts
  <1> QED
    BY <1>1, <1>2, <1>3, <1>4, <1>5, <1>6 DEF Next

\* getCurrentLogger and the native logger are the same, once no call to set it
\* is under way, for the environment that set it last, unless its last call threw.
THEOREM BothSidesAgree == Spec => []JsAndNativeAgree
  <1>1. TypeOK /\ EnvInv => JsAndNativeAgree
    <2> SUFFICES ASSUME TypeOK, EnvInv, native # 0, Idle(installs[native].env),
                        ~threw[installs[native].env]
                 PROVE  current[installs[native].env] = installs[native].logger
      BY DEF JsAndNativeAgree
    <2>1. installs[native] \in JsLoggers
      BY DEF TypeOK
    <2>2. installs[native].env \in Envs
      BY <2>1 DEF JsLoggers
    <2> QED
      BY <2>2 DEF EnvInv, EnvFacts, Idle
  <1> QED
    BY <1>1, TypeInit, TypeStep, EnvInit, EnvStep, PTL DEF Spec

\* A logger that is set only because none is set never takes the place of one
\* that the application has set in the same environment.
THEOREM OwnLoggersAreKept == Spec => OwnLoggerKept
  <1> DEFINE Kept == \A i \in 1 .. Len(installs) :
                       native' \notin {0, native} => ~ReplacesOwn(i, native')
  <1>1. TypeOK /\ EnvInv /\ [Next]_vars => [Kept]_vars
    <2> SUFFICES ASSUME TypeOK, EnvInv, [Next]_vars, NEW i \in 1 .. Len(installs),
                        native' \notin {0, native}, ReplacesOwn(i, native')
                 PROVE  FALSE
      OBVIOUS
    <2>1. PICK e \in Envs : Store(e)
      BY DEF Next, Load, StoreFails, SetLogger, SetLoggerIfUnset, Deliver, CloseEnv,
             RunHook, ReadLogger, CallLogger, vars
    <2>2. PICK install \in pending[e] : installs'[native'] = install
      BY <2>1, StoreAppends
    <2>3. install.env = e /\ install.polite
      BY <2>2 DEF EnvInv, EnvFacts, Install, ReplacesOwn
    <2> QED
      BY <2>2, <2>3 DEF EnvInv, EnvFacts, ReplacesOwn
  <1> QED
    BY <1>1, TypeInit, TypeStep, EnvInit, EnvStep, PTL DEF Spec, OwnLoggerKept

\* Once a logger other than the console is stored for environment e, no call that
\* would set one politely is under way there, nor can one be made.
GivenFacts(e) ==
    \A i \in 1 .. Len(installs) :
        installs[i].env = e /\ installs[i].logger # "default" =>
          current[e] # "default" /\ \A x \in pending[e] : ~x.polite

GivenInv == \A e \in Envs : GivenFacts(e)

LEMMA StoreGiven ==
    ASSUME TypeOK, EnvInv, GivenInv, NEW e \in Envs, Store(e) PROVE GivenInv'
  <1>1. PICK install \in pending[e] :
          /\ Len(installs') = Len(installs) + 1 /\ installs'[Len(installs')] = install
          /\ \A i \in 1 .. Len(installs) : installs'[i] = installs[i]
    BY StoreAppends
  <1>2. Len(installs) \in Nat
    BY DEF TypeOK
  <1>3. install.env = e /\ install.logger = current[e]
    BY <1>1 DEF EnvInv, EnvFacts, Install
  <1>4. /\ UNCHANGED current /\ pending'[e] = {}
        /\ \A d \in Envs \ {e} : pending'[d] = pending[d]
    BY DEF Store, TypeOK
  <1>5. ASSUME NEW d \in Envs, NEW i \in 1 .. Len(installs'),
               installs'[i].env = d, installs'[i].logger # "default"
        PROVE  current'[d] # "default" /\ \A x \in pending'[d] : ~x.polite
    <2>1. CASE i \in 1 .. Len(installs)
      BY <1>1, <1>4, <1>5, <2>1 DEF GivenInv, GivenFacts
    <2>2. CASE i = Len(installs')
      BY <1>1, <1>3, <1>4, <1>5, <2>2
    <2> QED
      BY <1>1, <1>2, <2>1, <2>2
  <1> QED
    BY <1>5 DEF GivenInv, GivenFacts

LEMMA GivenStep == TypeOK /\ EnvInv /\ GivenInv /\ [Next]_vars => GivenInv'
  <1> SUFFICES ASSUME TypeOK, EnvInv, GivenInv, [Next]_vars PROVE GivenInv'
    OBVIOUS
  <1>1. ASSUME NEW e \in Envs, Load(e) PROVE GivenInv'
    <2>1. \A i \in 1 .. Len(installs) : installs[i].env # e
      BY <1>1 DEF Load, EnvInv, EnvFacts
    <2>2. /\ UNCHANGED <<current, installs>>
          /\ \A d \in Envs \ {e} : pending'[d] = pending[d]
      BY <1>1 DEF Load, TypeOK
    <2> QED
      BY <2>1, <2>2 DEF GivenInv, GivenFacts
  <1>2. ASSUME NEW e \in Envs, Store(e) PROVE GivenInv'
    BY <1>2, StoreGiven
  <1>3. ASSUME NEW e \in Envs, NEW l \in Loggers,
               SetLogger(e, l) \/ SetLoggerIfUnset(e, l)
        PROVE  GivenInv'
    <2>1. PICK p \in BOOLEAN :
            /\ current'[e] = l /\ pending'[e] = {Install(e, l, p)}
            /\ p => current[e] = "default"
      BY <1>3 DEF SetLogger, SetLoggerIfUnset, TypeOK
    <2>2. /\ UNCHANGED installs
          /\ \A d \in Envs \ {e} : current'[d] = current[d] /\ pending'[d] = pending[d]
      BY <1>3 DEF SetLogger, SetLoggerIfUnset, TypeOK
    <2>3. l # "default" /\ Install(e, l, p).polite = p
      BY LoggingAssumption DEF Install
    <2> QED
      BY <2>1, <2>2, <2>3 DEF GivenInv, GivenFacts
  <1>4. CASE UNCHANGED <<current, pending, installs>>
    BY <1>4 DEF GivenInv, GivenFacts
  <1>5. ASSUME NEW e \in Envs, StoreFails(e) PROVE GivenInv'
    <2>1. /\ UNCHANGED <<current, installs>> /\ pending'[e] = {}
          /\ \A d \in Envs \ {e} : pending'[d] = pending[d]
      BY <1>5 DEF StoreFails, TypeOK
    <2> QED
      BY <2>1 DEF GivenInv, GivenFacts
  <1> QED
    BY <1>1, <1>2, <1>3, <1>4, <1>5
    DEF Next, vars, Deliver, CloseEnv, RunHook, ReadLogger, CallLogger

\* In a process with a single environment the promise of setLogger and
\* setLoggerIfUnset holds: the logger that was set gives way only to one that the
\* application sets. What breaks it is a second environment, and nothing else.
THEOREM HostLoggerIsKeptAlone ==
    ASSUME \A d, e \in Envs : d = e
    PROVE  Spec => HostLoggerKept
  <1> DEFINE Kept == /\ native # 0 /\ native' # native
                     /\ installs[native].logger # "default"
                     /\ env[installs[native].env] = "live"
                     => native' # 0 /\ ~installs'[native'].polite
  <1>1. Init => GivenInv
    BY DEF Init, GivenInv, GivenFacts
  <1>2. TypeOK /\ EnvInv /\ GivenInv /\ [Next]_vars => [Kept]_vars
    <2> SUFFICES ASSUME TypeOK, GivenInv, [Next]_vars, native # 0, native' # native,
                        installs[native].logger # "default",
                        env[installs[native].env] = "live"
                 PROVE  native' # 0 /\ ~installs'[native'].polite
      OBVIOUS
    <2>1. native \in 1 .. Len(installs) /\ installs[native].env \in Envs
      <3>1. Len(installs) \in Nat /\ native \in 0 .. Len(installs)
        BY DEF TypeOK
      <3>2. native \in 1 .. Len(installs)
        BY <3>1
      <3>3. installs[native] \in JsLoggers
        BY <3>2 DEF TypeOK
      <3> QED
        BY <3>2, <3>3 DEF JsLoggers
    <2>2. ~RunHook
      BY <2>1 DEF RunHook
    <2>3. PICK e \in Envs : Store(e)
      BY <2>2 DEF Next, Load, StoreFails, SetLogger, SetLoggerIfUnset, Deliver,
                  CloseEnv, ReadLogger, CallLogger, vars
    <2>4. PICK install \in pending[e] :
            /\ installs'[native'] = install /\ native' = Len(installs) + 1
      BY <2>3, StoreAppends
    <2>5. ~install.polite
      BY <2>1, <2>4 DEF GivenInv, GivenFacts
    <2>6. Len(installs) \in Nat
      BY DEF TypeOK
    <2> QED
      BY <2>4, <2>5, <2>6
  <1> QED
    BY <1>1, <1>2, TypeInit, TypeStep, EnvInit, EnvStep, GivenStep, PTL
    DEF Spec, HostLoggerKept
-----------------------------------------------------------------------------
(***************************************************************************)
(* The events that are queued.                                             *)
(***************************************************************************)
InQueue(n, i) == \E k \in 1 .. Len(queue[i]) : queue[i][k] = n

\* An event is in the queue of the logger that its thread read, which is the
\* queue of a live environment, exactly while it counts as queued, and only once;
\* it has read a logger, and is lost only after that logger's environment closed.
QueuedOnly ==
    \A i \in Slots : \A k \in 1 .. Len(queue[i]) :
        /\ fate[queue[i][k]] = "queued" /\ at[queue[i][k]] = i
        /\ env[installs[i].env] = "live"
QueuedOnce ==
    \A i \in Slots : \A k, m \in 1 .. Len(queue[i]) :
        queue[i][k] = queue[i][m] => k = m
QueuedIsThere == \A n \in Events : fate[n] = "queued" => InQueue(n, at[n])
ReadHasLogger == \A n \in Events : fate[n] \in {"none", "ignored"} <=> at[n] = 0
LostWithEnv ==
    \A n \in Events : fate[n] = "discarded" => env[installs[at[n]].env] = "closed"

QueueInv == /\ QueuedOnly /\ QueuedOnce /\ QueuedIsThere /\ ReadHasLogger
            /\ Len(installs) <= MaxInstalls

LEMMA QueueInit == Init => QueueInv /\ LostWithEnv
  BY LoggingAssumption
  DEF Init, QueueInv, QueuedOnly, QueuedOnce, QueuedIsThere, ReadHasLogger,
      LostWithEnv, Slots, Events

\* A queued event, or one that is about to be queued, belongs to a slot.
LEMMA SlotOfEvent ==
    ASSUME TypeOK, QueueInv, NEW n \in Events, fate[n] \in {"read", "queued"}
    PROVE  at[n] \in Slots /\ at[n] \in 1 .. Len(installs)
  <1>1. at[n] \in 0 .. Len(installs) /\ Len(installs) \in Nat
    BY DEF TypeOK
  <1> QED
    BY <1>1, LoggingAssumption DEF QueueInv, ReadHasLogger, Slots

\* Steps that change neither a queue nor what became of an event.
LEMMA QueueSame ==
    ASSUME TypeOK, QueueInv, UNCHANGED <<queue, at, fate>>,
           Len(installs') <= MaxInstalls,
           \A i \in 1 .. Len(installs) :
               env[installs[i].env] = "live" => env'[installs'[i].env] = "live"
    PROVE  QueueInv'
  <1>1. QueuedOnly'
    <2> SUFFICES ASSUME NEW i \in Slots, NEW k \in 1 .. Len(queue[i])
                 PROVE  /\ fate[queue[i][k]] = "queued" /\ at[queue[i][k]] = i
                        /\ env'[installs'[i].env] = "live"
      BY DEF QueuedOnly
    <2>1. /\ fate[queue[i][k]] = "queued" /\ at[queue[i][k]] = i
          /\ env[installs[i].env] = "live"
      BY DEF QueueInv, QueuedOnly
    <2>2. queue[i] \in Seq(Events)
      BY DEF TypeOK
    <2>3. queue[i][k] \in Events
      BY ONLY <2>2, k \in 1 .. Len(queue[i]), SMT
    <2> QED
      BY <2>1, <2>3, SlotOfEvent
  <1> QED
    BY <1>1 DEF QueueInv, QueuedOnce, QueuedIsThere, InQueue, ReadHasLogger

LEMMA ReadKeepsQueues ==
    ASSUME TypeOK, QueueInv, NEW n \in Events, ReadLogger(n) PROVE QueueInv'
  <1>1. /\ fate[n] = "none" /\ UNCHANGED <<env, installs, queue>>
        /\ \A d \in Events \ {n} : fate'[d] = fate[d] /\ at'[d] = at[d]
        /\ at'[n] = native
        /\ fate'[n] = IF native = 0 THEN "ignored" ELSE "read"
    BY DEF ReadLogger, TypeOK
  <1>2. QueuedOnly'
    <2> SUFFICES ASSUME NEW i \in Slots, NEW k \in 1 .. Len(queue[i])
                 PROVE  /\ fate'[queue[i][k]] = "queued" /\ at'[queue[i][k]] = i
                        /\ env[installs[i].env] = "live"
      BY <1>1 DEF QueuedOnly
    <2>1. /\ fate[queue[i][k]] = "queued" /\ at[queue[i][k]] = i
          /\ env[installs[i].env] = "live"
      BY DEF QueueInv, QueuedOnly
    <2>2. queue[i] \in Seq(Events)
      BY DEF TypeOK
    <2>3. queue[i][k] \in Events
      BY ONLY <2>2, k \in 1 .. Len(queue[i]), SMT
    <2> QED
      BY <1>1, <2>1, <2>3
  <1>3. QueuedIsThere'
    BY <1>1 DEF QueueInv, QueuedIsThere, InQueue
  <1>4. ReadHasLogger'
    BY <1>1 DEF QueueInv, ReadHasLogger
  <1> QED
    BY <1>1, <1>2, <1>3, <1>4 DEF QueueInv, QueuedOnce

LEMMA CloseKeepsInv ==
    ASSUME TypeOK, QueueInv, NEW e \in Envs, CloseEnv(e) PROVE QueueInv'
  <1>1. /\ UNCHANGED <<installs, at>> /\ \A d \in Envs \ {e} : env'[d] = env[d]
        /\ \A i \in Slots : queue'[i] = IF i \in Of(e) THEN << >> ELSE queue[i]
        /\ \A n \in Events : fate'[n] = IF fate[n] = "queued" /\ at[n] \in Of(e)
                                          THEN "discarded" ELSE fate[n]
    BY DEF CloseEnv, TypeOK
  <1>2. QueuedOnly'
    <2> SUFFICES ASSUME NEW i \in Slots, NEW k \in 1 .. Len(queue'[i])
                 PROVE  /\ fate'[queue'[i][k]] = "queued" /\ at[queue'[i][k]] = i
                        /\ env'[installs[i].env] = "live"
      BY <1>1 DEF QueuedOnly
    <2>1. i \notin Of(e) /\ queue'[i] = queue[i]
      <3>1. Len(<< >>) = 0
        OBVIOUS
      <3> QED
        BY <1>1, <3>1
    <2>2. /\ fate[queue[i][k]] = "queued" /\ at[queue[i][k]] = i
          /\ env[installs[i].env] = "live"
      BY <2>1 DEF QueueInv, QueuedOnly
    <2>3. queue[i] \in Seq(Events)
      BY DEF TypeOK
    <2>4. k \in 1 .. Len(queue[i])
      BY <2>1
    <2>5. queue[i][k] \in Events
      BY ONLY <2>3, <2>4, SMT
    <2>6. i \in 1 .. Len(installs)
      BY <2>2, <2>5, SlotOfEvent
    <2>7. installs[i].env \in Envs
      <3>1. installs \in Seq(JsLoggers)
        BY DEF TypeOK
      <3>2. installs[i] \in JsLoggers
        BY ONLY <2>6, <3>1, SMT
      <3> QED
        BY <3>2 DEF JsLoggers
    <2>8. installs[i].env # e
      BY <2>1, <2>6 DEF Of
    <2> QED
      BY <1>1, <2>1, <2>2, <2>5, <2>7, <2>8
  <1>3. QueuedOnce'
    <2> SUFFICES ASSUME NEW i \in Slots, NEW k \in 1 .. Len(queue'[i]),
                        NEW m \in 1 .. Len(queue'[i]), queue'[i][k] = queue'[i][m]
                 PROVE  k = m
      BY DEF QueuedOnce
    <2>1. Len(<< >>) = 0
      OBVIOUS
    <2>2. queue'[i] = queue[i]
      BY <1>1, <2>1
    <2> QED
      BY <2>2 DEF QueueInv, QueuedOnce
  <1>4. QueuedIsThere'
    <2> SUFFICES ASSUME NEW n \in Events, fate'[n] = "queued" PROVE InQueue(n, at[n])'
      BY <1>1 DEF QueuedIsThere, InQueue
    <2>1. fate[n] = "queued" /\ at[n] \notin Of(e)
      BY <1>1
    <2>2. at[n] \in Slots
      BY <2>1, SlotOfEvent
    <2> QED
      BY <1>1, <2>1, <2>2 DEF QueueInv, QueuedIsThere, InQueue
  <1>5. ReadHasLogger'
    BY <1>1 DEF QueueInv, ReadHasLogger
  <1> QED
    BY <1>1, <1>2, <1>3, <1>4, <1>5 DEF QueueInv

LEMMA DeliverKeepsInv ==
    ASSUME TypeOK, QueueInv, NEW i \in Slots, Deliver(i) PROVE QueueInv'
  <1> DEFINE h == Head(queue[i])
  <1>1. queue[i] \in Seq(Events) /\ queue[i] # << >>
    BY DEF Deliver, TypeOK
  <1>2. /\ Len(queue[i]) \in Nat /\ Len(queue[i]) > 0 /\ h = queue[i][1] /\ h \in Events
        /\ Len(Tail(queue[i])) = Len(queue[i]) - 1
        /\ \A k \in 1 .. Len(queue[i]) - 1 : Tail(queue[i])[k] = queue[i][k + 1]
        /\ \A k \in 1 .. Len(queue[i]) : queue[i][k] \in Events
    BY ONLY <1>1, SMT
  <1>3. /\ UNCHANGED <<env, installs, at>>
        /\ fate'[h] = "delivered" /\ \A n \in Events \ {h} : fate'[n] = fate[n]
        /\ queue'[i] = Tail(queue[i]) /\ \A j \in Slots \ {i} : queue'[j] = queue[j]
    BY <1>2 DEF Deliver, TypeOK
  <1>4. fate[h] = "queued" /\ at[h] = i
    BY <1>2 DEF QueueInv, QueuedOnly
  <1>5. ASSUME NEW j \in Slots, NEW k \in 1 .. Len(queue'[j])
        PROVE  \E m \in 1 .. Len(queue[j]) : /\ queue'[j][k] = queue[j][m]
                                             /\ m = IF j = i THEN k + 1 ELSE k
    <2>1. CASE j = i
      <3>1. k \in 1 .. Len(queue[i]) - 1
        BY <1>2, <1>3, <2>1
      <3>2. k + 1 \in 1 .. Len(queue[i])
        BY <1>2, <3>1
      <3>3. Tail(queue[i])[k] = queue[i][k + 1]
        BY <1>2, <3>1
      <3>4. queue'[j][k] = queue[j][k + 1]
        BY <1>3, <2>1, <3>3
      <3> QED
        BY <2>1, <3>2, <3>4
    <2>2. CASE j # i
      BY <1>3, <2>2
    <2> QED
      BY <2>1, <2>2
  <1>6. QueuedOnce'
    BY <1>2, <1>5 DEF QueueInv, QueuedOnce
  <1>7. QueuedOnly'
    <2> SUFFICES ASSUME NEW j \in Slots, NEW k \in 1 .. Len(queue'[j])
                 PROVE  /\ fate'[queue'[j][k]] = "queued" /\ at[queue'[j][k]] = j
                        /\ env[installs[j].env] = "live"
      BY <1>3 DEF QueuedOnly
    <2>1. PICK m \in 1 .. Len(queue[j]) : /\ queue'[j][k] = queue[j][m]
                                          /\ m = IF j = i THEN k + 1 ELSE k
      BY <1>5
    <2>2. /\ fate[queue[j][m]] = "queued" /\ at[queue[j][m]] = j
          /\ env[installs[j].env] = "live"
      BY DEF QueueInv, QueuedOnly
    <2>3. queue[j] \in Seq(Events)
      BY DEF TypeOK
    <2>4. queue[j][m] \in Events
      BY ONLY <2>3, m \in 1 .. Len(queue[j]), SMT
    <2>5. queue[j][m] # h
      <3>1. CASE j # i
        BY <1>4, <2>2, <3>1
      <3>2. CASE j = i
        <4>1. m # 1 /\ 1 \in 1 .. Len(queue[i]) /\ m \in 1 .. Len(queue[i])
          BY <1>2, <1>3, <2>1, <3>2
        <4> QED
          BY <1>2, <3>2, <4>1 DEF QueueInv, QueuedOnce
      <3> QED
        BY <3>1, <3>2
    <2> QED
      BY <1>3, <2>1, <2>2, <2>4, <2>5
  <1>8. QueuedIsThere'
    <2> SUFFICES ASSUME NEW n \in Events, fate'[n] = "queued"
                 PROVE  \E k \in 1 .. Len(queue'[at[n]]) : queue'[at[n]][k] = n
      BY <1>3 DEF QueuedIsThere, InQueue
    <2>1. n # h /\ fate[n] = "queued"
      BY <1>3
    <2>2. at[n] \in Slots
      BY <2>1, SlotOfEvent
    <2>3. PICK k \in 1 .. Len(queue[at[n]]) : queue[at[n]][k] = n
      BY <2>1 DEF QueueInv, QueuedIsThere, InQueue
    <2>4. CASE at[n] # i
      BY <1>3, <2>2, <2>3, <2>4
    <2>5. CASE at[n] = i
      <3>1. k - 1 \in 1 .. Len(queue[i]) - 1
        BY <1>2, <2>1, <2>3, <2>5
      <3>2. queue'[i][k - 1] = queue[i][k - 1 + 1]
        BY <1>2, <1>3, <3>1
      <3>3. k - 1 + 1 = k
        BY <1>2, <2>5
      <3>4. queue'[at[n]][k - 1] = n
        BY <2>3, <2>5, <3>2, <3>3
      <3>5. Len(queue'[at[n]]) = Len(queue[i]) - 1
        BY <1>2, <1>3, <2>5
      <3> QED
        BY <3>1, <3>4, <3>5
    <2> QED
      BY <2>4, <2>5
  <1>9. ReadHasLogger'
    BY <1>3, <1>4 DEF QueueInv, ReadHasLogger
  <1> QED
    BY <1>3, <1>6, <1>7, <1>8, <1>9 DEF QueueInv

\* Appending adds a slot and leaves the others.
LEMMA AppendedSlots ==
    ASSUME NEW S, NEW s \in Seq(S), NEW x
    PROVE  /\ Len(Append(s, x)) = Len(s) + 1
           /\ Append(s, x)[Len(s) + 1] = x
           /\ \A k \in 1 .. Len(s) : Append(s, x)[k] = s[k]
  OBVIOUS

LEMMA CallKeepsInv ==
    ASSUME TypeOK, QueueInv, NEW n \in Events, CallLogger(n) PROVE QueueInv'
  <1> DEFINE i == at[n]
  <1>1. /\ fate[n] = "read" /\ UNCHANGED <<env, installs, at>>
        /\ \A d \in Events \ {n} : fate'[d] = fate[d]
        /\ i \in Slots
    BY SlotOfEvent DEF CallLogger, TypeOK
  <1>2. \A j \in Slots : queue[j] \in Seq(Events)
    BY DEF TypeOK
  <1>3. \A j \in Slots : /\ Len(queue[j]) \in Nat
                         /\ \A k \in 1 .. Len(queue[j]) : queue[j][k] \in Events
    <2> TAKE j \in Slots
    <2>1. queue[j] \in Seq(Events)
      BY <1>2
    <2> QED
      BY ONLY <2>1, SMT
  <1>4. \A j \in Slots : \A k \in 1 .. Len(queue[j]) :
            /\ fate'[queue[j][k]] = "queued" /\ at[queue[j][k]] = j
            /\ env[installs[j].env] = "live" /\ queue[j][k] # n
    BY <1>1, <1>3 DEF QueueInv, QueuedOnly
  <1>5. CASE UNCHANGED queue /\ fate'[n] = "stderr"
    <2>1. QueuedOnly'
      BY <1>1, <1>4, <1>5 DEF QueuedOnly
    <2>2. QueuedIsThere'
      BY <1>1, <1>5 DEF QueueInv, QueuedIsThere, InQueue
    <2>3. ReadHasLogger'
      BY <1>1, <1>5 DEF QueueInv, ReadHasLogger
    <2> QED
      BY <1>1, <1>5, <2>1, <2>2, <2>3 DEF QueueInv, QueuedOnce
  <1>6. CASE /\ Accepts(i) /\ queue' = [queue EXCEPT ![i] = Append(@, n)]
             /\ fate'[n] = "queued"
    <2>1. queue'[i] = Append(queue[i], n) /\ \A j \in Slots \ {i} : queue'[j] = queue[j]
      BY <1>1, <1>6 DEF TypeOK
    <2>2. queue[i] \in Seq(Events)
      BY <1>1, <1>2
    <2>3. /\ Len(Append(queue[i], n)) = Len(queue[i]) + 1
          /\ Append(queue[i], n)[Len(queue[i]) + 1] = n
          /\ \A k \in 1 .. Len(queue[i]) : Append(queue[i], n)[k] = queue[i][k]
      BY ONLY <2>2, AppendedSlots
    <2>4. ASSUME NEW j \in Slots, NEW k \in 1 .. Len(queue'[j])
          PROVE  \/ k \in 1 .. Len(queue[j]) /\ queue'[j][k] = queue[j][k]
                 \/ j = i /\ k = Len(queue[i]) + 1 /\ queue'[j][k] = n
      <3>1. CASE j # i
        BY ONLY <2>1, <3>1, j \in Slots, k \in 1 .. Len(queue'[j])
      <3>2. CASE j = i
        <4>1. Len(queue[i]) \in Nat
          BY <1>1, <1>3
        <4>2. k \in 1 .. Len(queue[i]) + 1
          BY <2>1, <2>3, <3>2
        <4>3. k \in 1 .. Len(queue[i]) \/ k = Len(queue[i]) + 1
          BY ONLY <4>1, <4>2, SMT
        <4> QED
          BY ONLY <2>1, <2>3, <3>2, <4>3
      <3> QED
        BY <3>1, <3>2
    <2>5. QueuedOnly'
      <3>1. env[installs[i].env] = "live"
        BY <1>6 DEF Accepts
      <3> QED
        BY <1>1, <1>4, <1>6, <2>4, <3>1 DEF QueuedOnly
    <2>6. QueuedOnce'
      <3>1. SUFFICES ASSUME NEW j \in Slots, NEW k \in 1 .. Len(queue'[j]),
                            NEW m \in 1 .. Len(queue'[j]), queue'[j][k] = queue'[j][m]
                     PROVE  k = m
        BY <1>1 DEF QueuedOnce, Slots
      <3>2. \A x \in {k, m} :
              \/ x \in 1 .. Len(queue[j]) /\ queue'[j][x] = queue[j][x]
              \/ x = Len(queue[i]) + 1 /\ queue'[j][x] = n
        BY ONLY <2>4, j \in Slots, k \in 1 .. Len(queue'[j]), m \in 1 .. Len(queue'[j])
      <3>3. \A x, y \in 1 .. Len(queue[j]) : queue[j][x] = queue[j][y] => x = y
        BY DEF QueueInv, QueuedOnce
      <3>4. \A x \in 1 .. Len(queue[j]) : queue[j][x] # n
        BY <1>4
      <3> QED
        BY ONLY <3>1, <3>2, <3>3, <3>4
    <2>7. QueuedIsThere'
      <3>1. Len(queue[i]) + 1 \in 1 .. Len(queue'[i]) /\ queue'[i][Len(queue[i]) + 1] = n
        BY <1>1, <1>3, <2>1, <2>3
      <3>2. ASSUME NEW d \in Events \ {n}, fate[d] = "queued"
            PROVE  \E k \in 1 .. Len(queue'[at[d]]) : queue'[at[d]][k] = d
        <4>1. at[d] \in Slots
          BY <3>2, SlotOfEvent
        <4>2. PICK k \in 1 .. Len(queue[at[d]]) : queue[at[d]][k] = d
          BY <3>2 DEF QueueInv, QueuedIsThere, InQueue
        <4>3. CASE at[d] = i
          <5>1. Len(queue'[i]) = Len(queue[i]) + 1 /\ Len(queue[i]) \in Nat
            BY <1>1, <1>3, <2>1, <2>3
          <5>2. k \in 1 .. Len(queue[i]) /\ k \in 1 .. Len(queue'[i])
            BY <4>2, <4>3, <5>1
          <5>3. queue'[i][k] = d
            BY <2>1, <2>3, <4>2, <4>3, <5>2
          <5> QED
            BY <4>3, <5>2, <5>3
        <4>4. CASE at[d] # i
          BY <2>1, <4>1, <4>2, <4>4
        <4> QED
          BY <4>3, <4>4
      <3> QED
        BY <1>1, <3>1, <3>2 DEF QueuedIsThere, InQueue
    <2>8. ReadHasLogger'
      BY <1>1, <1>6 DEF QueueInv, ReadHasLogger
    <2> QED
      BY <1>1, <2>5, <2>6, <2>7, <2>8 DEF QueueInv
  <1> QED
    BY <1>5, <1>6 DEF CallLogger, TypeOK

LEMMA QueueStep == TypeOK /\ EnvInv /\ QueueInv /\ [Next]_vars => QueueInv'
  <1> SUFFICES ASSUME TypeOK, EnvInv, QueueInv, [Next]_vars PROVE QueueInv'
    OBVIOUS
  <1>1. CASE \/ \E e \in Envs : \/ Load(e)
                                \/ \E l \in Loggers : SetLogger(e, l) \/ SetLoggerIfUnset(e, l)
             \/ RunHook \/ UNCHANGED vars
    <2>1. UNCHANGED <<installs, queue, at, fate>>
      BY <1>1 DEF Load, SetLogger, SetLoggerIfUnset, RunHook, vars
    <2>2. \A d \in Envs : env[d] = "live" => env'[d] = "live"
      BY <1>1 DEF Load, SetLogger, SetLoggerIfUnset, RunHook, vars, TypeOK
    <2>3. ASSUME NEW i \in 1 .. Len(installs), env[installs[i].env] = "live"
          PROVE  env'[installs'[i].env] = "live"
      <3>1. installs \in Seq(JsLoggers)
        BY DEF TypeOK
      <3>2. installs[i] \in JsLoggers
        BY ONLY i \in 1 .. Len(installs), <3>1, SMT
      <3> QED
        BY <2>1, <2>2, <2>3, <3>2 DEF JsLoggers
    <2>4. Len(installs') <= MaxInstalls
      BY <2>1 DEF QueueInv
    <2> QED
      BY <2>1, <2>3, <2>4, QueueSame
  <1>2. ASSUME NEW e \in Envs, Store(e) PROVE QueueInv'
    <2>1. /\ Len(installs') = Len(installs) + 1
          /\ \A i \in 1 .. Len(installs) : installs'[i] = installs[i]
      BY <1>2, StoreAppends
    <2>2. UNCHANGED <<env, queue, at, fate>> /\ Len(installs) < MaxInstalls
      BY <1>2 DEF Store
    <2>3. Len(installs) \in Nat /\ MaxInstalls \in Nat
      BY LoggingAssumption DEF TypeOK
    <2>4. Len(installs') <= MaxInstalls
      BY <2>1, <2>2, <2>3
    <2> QED
      BY <2>1, <2>2, <2>4, QueueSame
  <1>3. CASE \E e \in Envs : CloseEnv(e)
    BY <1>3, CloseKeepsInv
  <1>4. CASE \E i \in Slots : Deliver(i)
    BY <1>4, DeliverKeepsInv
  <1>5. CASE \E n \in Events : ReadLogger(n)
    BY <1>5, ReadKeepsQueues
  <1>6. CASE \E n \in Events : CallLogger(n)
    BY <1>6, CallKeepsInv
  <1>7. ASSUME NEW e \in Envs, StoreFails(e) PROVE QueueInv'
    <2>1. /\ UNCHANGED <<installs, queue, at, fate>> /\ pending[e] # {}
          /\ env'[e] = IF current[e] = "default" THEN "absent" ELSE "live"
          /\ \A d \in Envs \ {e} : env'[d] = env[d]
      BY <1>7 DEF StoreFails, TypeOK
    <2>2. ASSUME NEW i \in 1 .. Len(installs), env[installs[i].env] = "live"
          PROVE  env'[installs'[i].env] = "live"
      <3>1. installs \in Seq(JsLoggers)
        BY DEF TypeOK
      <3>2. installs[i] \in JsLoggers
        BY ONLY i \in 1 .. Len(installs), <3>1, SMT
      <3>3. installs[i].env = e => current[e] # "default"
        BY <2>1 DEF EnvInv, EnvFacts
      <3> QED
        BY <2>1, <2>2, <3>2, <3>3 DEF JsLoggers
    <2>3. Len(installs') <= MaxInstalls
      BY <2>1 DEF QueueInv
    <2> QED
      BY <2>1, <2>2, <2>3, QueueSame
  <1> QED
    BY <1>1, <1>2, <1>3, <1>4, <1>5, <1>6, <1>7 DEF Next

\* Only the end of an environment makes an accepted event disappear.
LEMMA LostStep ==
    TypeOK /\ EnvInv /\ QueueInv /\ LostWithEnv /\ [Next]_vars => LostWithEnv'
  <1> SUFFICES ASSUME TypeOK, EnvInv, QueueInv, LostWithEnv, [Next]_vars,
                      NEW n \in Events, fate'[n] = "discarded"
               PROVE  env'[installs'[at'[n]].env] = "closed"
    BY DEF LostWithEnv
  <1>1. CASE fate[n] = "discarded"
    <2>1. at'[n] = at[n]
      BY <1>1
      DEF Next, Load, Store, StoreFails, SetLogger, SetLoggerIfUnset, Deliver,
          CloseEnv, RunHook, ReadLogger, CallLogger, TypeOK, vars
    <2>2. at[n] \in 1 .. Len(installs)
      <3>1. at[n] \in 0 .. Len(installs) /\ Len(installs) \in Nat
        BY DEF TypeOK
      <3>2. at[n] # 0
        BY <1>1 DEF QueueInv, ReadHasLogger
      <3> QED
        BY <3>1, <3>2
    <2>3. installs[at[n]].env \in Envs
      <3>1. installs \in Seq(JsLoggers)
        BY DEF TypeOK
      <3>2. installs[at[n]] \in JsLoggers
        BY ONLY <2>2, <3>1, SMT
      <3> QED
        BY <3>2 DEF JsLoggers
    <2>4. installs'[at[n]] = installs[at[n]]
      <3>1. (\E e \in Envs : Store(e)) \/ installs' = installs
        BY DEF Next, Load, StoreFails, SetLogger, SetLoggerIfUnset, Deliver,
               CloseEnv, RunHook, ReadLogger, CallLogger, vars
      <3>2. (\E e \in Envs : Store(e)) =>
                \A i \in 1 .. Len(installs) : installs'[i] = installs[i]
        BY StoreAppends
      <3> QED
        BY <2>2, <3>1, <3>2
    <2>5. \A e \in Envs : env[e] = "closed" => env'[e] = "closed"
      <3>1. ASSUME NEW d \in Envs, Load(d) \/ CloseEnv(d) \/ StoreFails(d),
                   NEW e \in Envs, env[e] = "closed"
            PROVE  env'[e] = "closed"
        <4>1. CASE e = d
          BY <3>1, <4>1 DEF Load, CloseEnv, StoreFails, EnvInv, EnvFacts
        <4>2. CASE e # d
          BY <3>1, <4>2 DEF Load, CloseEnv, StoreFails, TypeOK
        <4> QED
          BY <4>1, <4>2
      <3>2. \/ \E d \in Envs : Load(d) \/ CloseEnv(d) \/ StoreFails(d)
            \/ env' = env
        BY DEF Next, Store, SetLogger, SetLoggerIfUnset, Deliver, RunHook,
               ReadLogger, CallLogger, vars
      <3> QED
        BY <3>1, <3>2
    <2> QED
      BY <1>1, <2>1, <2>3, <2>4, <2>5 DEF LostWithEnv
  <1>2. CASE fate[n] # "discarded"
    <2>1. PICK e \in Envs : CloseEnv(e)
      BY <1>2 DEF Next, Load, Store, StoreFails, SetLogger, SetLoggerIfUnset,
                  Deliver, RunHook, ReadLogger, CallLogger, TypeOK, vars
    <2>2. /\ at[n] \in Of(e) /\ env'[e] = "closed"
          /\ UNCHANGED <<installs, at>>
      BY <1>2, <2>1 DEF CloseEnv, TypeOK
    <2> QED
      BY <2>2 DEF Of
  <1> QED
    BY <1>1, <1>2

\* An accepted event is in exactly one place, of the queue of the logger its thread
\* read and in a live environment, until it is delivered, and is lost only with
\* that environment, whatever loggers are swapped and environments closed while
\* native threads log; what is not accepted is on stderr.
THEOREM EventsAreAccounted == Spec => []EventsAccounted
  <1> DEFINE Places(n) == {p \in Slots \X (1 .. QueueSize) :
                             p[2] <= Len(queue[p[1]]) /\ queue[p[1]][p[2]] = n}
  <1>1. ASSUME TypeOK, QueueInv, LostWithEnv
        PROVE  EventsAccounted
    <2>1. ASSUME NEW n \in Events, NEW p \in Places(n)
          PROVE  /\ p = <<p[1], p[2]>> /\ p[1] \in Slots /\ p[2] \in 1 .. Len(queue[p[1]])
                 /\ queue[p[1]][p[2]] = n
      <3>1. Len(queue[p[1]]) \in Nat
        BY DEF TypeOK
      <3> QED
        BY <3>1
    <2>2. ASSUME NEW n \in Events, NEW p \in Places(n)
          PROVE  /\ fate[n] = "queued" /\ at[n] = p[1]
                 /\ env[installs[at[n]].env] = "live"
      BY <1>1, <2>1 DEF QueueInv, QueuedOnly
    <2>3. ASSUME NEW n \in Events, fate[n] = "queued"
          PROVE  /\ Cardinality(Places(n)) = 1
                 /\ env[installs[at[n]].env] = "live"
      <3>1. at[n] \in Slots
        BY <1>1, <2>3, SlotOfEvent
      <3>2. PICK k \in 1 .. Len(queue[at[n]]) : queue[at[n]][k] = n
        BY <1>1, <2>3 DEF QueueInv, QueuedIsThere, InQueue
      <3>3. Len(queue[at[n]]) \in Nat /\ Len(queue[at[n]]) <= QueueSize /\ QueueSize \in Nat
        BY <1>1, <3>1, LoggingAssumption DEF TypeOK
      <3>4. <<at[n], k>> \in Places(n)
        BY <3>1, <3>2, <3>3
      <3>5. ASSUME NEW p \in Places(n) PROVE p = <<at[n], k>>
        <4>1. p[1] = at[n] /\ p[2] \in 1 .. Len(queue[at[n]]) /\ queue[at[n]][p[2]] = n
          BY <2>1, <2>2
        <4>2. p[2] = k
          BY <1>1, <3>1, <3>2, <4>1 DEF QueueInv, QueuedOnce
        <4> QED
          BY <2>1, <4>1, <4>2
      <3>6. Places(n) = {<<at[n], k>>}
        BY <3>4, <3>5
      <3> QED
        <4>1. Cardinality(Places(n)) = 1
          BY <3>6, FS_Singleton
        <4> QED
          BY <2>2, <3>4, <4>1
    <2>4. ASSUME NEW n \in Events, fate[n] # "queued" PROVE Places(n) = {}
      BY <2>2, <2>4
    <2>5. \A n \in Events : \A p \in Places(n) : p[1] = at[n]
      BY <2>2
    <2>6. \A n \in Events :
            /\ fate[n] \in {"none", "ignored"} <=> at[n] = 0
            /\ fate[n] = "discarded" => env[installs[at[n]].env] = "closed"
      BY <1>1 DEF QueueInv, ReadHasLogger, LostWithEnv
    <2> HIDE DEF Places
    <2>7. \A n \in Events :
            /\ fate[n] \in {"none", "ignored"} <=> at[n] = 0
            /\ fate[n] # "queued" => Places(n) = {}
            /\ fate[n] = "queued" =>
                 /\ Cardinality(Places(n)) = 1 /\ \A p \in Places(n) : p[1] = at[n]
                 /\ env[installs[at[n]].env] = "live"
            /\ fate[n] = "discarded" => env[installs[at[n]].env] = "closed"
      BY <2>3, <2>4, <2>5, <2>6
    <2> QED
      BY <2>7 DEF EventsAccounted, Places
  <1> QED
    BY <1>1, TypeInit, TypeStep, EnvInit, EnvStep, QueueInit, QueueStep, LostStep, PTL
    DEF Spec
=============================================================================
