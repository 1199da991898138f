---------------------------- MODULE LoggingBridge ----------------------------
(***************************************************************************)
(* The way of native log events to a JavaScript logger: lib/logging.js and *)
(* src/src/logging/. The native side has one logger for the process; every *)
(* JavaScript environment (the main thread and each worker) loads its own  *)
(* copy of lib/logging.js and so has a current logger of its own.          *)
(*                                                                         *)
(* Native threads and the threads of the environments run side by side. A  *)
(* native thread reads the swappable logger and then calls it; setLogger   *)
(* changes the JavaScript side and then the native one. The model has one  *)
(* of the five log levels, which do not share a queue. A log event is a    *)
(* number; its text and fields are left out.                               *)
(***************************************************************************)
EXTENDS Naturals, Sequences, FiniteSets

CONSTANTS Envs,        \* the JavaScript environments of the process
          Loggers,     \* the loggers an application or a library can set
          QueueSize,   \* LOG_QUEUE_SIZE
          MaxInstalls, \* bound: how often a native logger is stored
          MaxEvents    \* bound: how many events are logged

ASSUME LoggingAssumption ==
    /\ "default" \notin Loggers /\ "none" \notin Envs /\ "ran" \notin Envs
    /\ QueueSize \in Nat \ {0} /\ MaxInstalls \in Nat /\ MaxEvents \in Nat

VARIABLES
    env,       \* env[e]: "absent" (the module is not loaded), "live", "closed"
    current,   \* current[e]: currentLogger of lib/logging.js in e
    pending,   \* pending[e]: setLoggerInternal calls under way in e, at most one
    threw,     \* threw[e]: the last setLoggerInternal call of e threw
    hook,      \* the environment with the cleanup hook; "none" before, "ran" after
    installs,  \* every JsLogger that was stored, in order
    native,    \* which of them LOGGER holds; 0 for none
    queue,     \* queue[i]: the thread-safe function's queue of installs[i]
    at,        \* at[n]: the JsLogger that the logging thread of event n read
    fate       \* fate[n]: what became of event n

vars == <<env, current, pending, threw, hook, installs, native, queue, at, fate>>

Events == 1 .. MaxEvents
Slots == 1 .. MaxInstalls

\* A JsLogger: its environment, the JavaScript logger behind it, and whether it
\* was stored only because no logger was set ("polite").
Install(e, l, polite) == [env |-> e, logger |-> l, polite |-> polite]

Init ==
    /\ env = [e \in Envs |-> "absent"]
    /\ current = [e \in Envs |-> "default"]
    /\ pending = [e \in Envs |-> {}]
    /\ threw = [e \in Envs |-> FALSE]
    /\ hook = "none"
    /\ installs = << >>
    /\ native = 0
    /\ queue = [i \in Slots |-> << >>]
    /\ at = [n \in Events |-> 0]
    /\ fate = [n \in Events |-> "none"]

-----------------------------------------------------------------------------
(***************************************************************************)
(* An environment. Its thread is busy while a setLoggerInternal call is    *)
(* under way.                                                              *)
(***************************************************************************)
Idle(e) == env[e] = "live" /\ pending[e] = {}

\* The first require("lib/logging"): initialize(), which adds the cleanup hook
\* once per process, and then setLoggerInternal with the console logger.
Load(e) ==
    /\ env[e] = "absent"
    /\ env' = [env EXCEPT ![e] = "live"]
    /\ hook' = IF hook = "none" THEN e ELSE hook
    /\ pending' = [pending EXCEPT ![e] = {Install(e, "default", TRUE)}]
    /\ UNCHANGED <<current, threw, installs, native, queue, at, fate>>

\* Mutant: only the native side learns about the logger.
SetNativeOnly(e, l) ==
    /\ Idle(e)
    /\ pending' = [pending EXCEPT ![e] = {Install(e, l, FALSE)}]
    /\ UNCHANGED <<env, current, threw, hook, installs, native, queue, at, fate>>

SetLogger(e, l) ==
    /\ Idle(e)
    /\ current' = [current EXCEPT ![e] = l]
    /\ pending' = [pending EXCEPT ![e] = {Install(e, l, FALSE)}]
    /\ UNCHANGED <<env, threw, hook, installs, native, queue, at, fate>>

\* Mutant: the test for a logger of the host is missing.
SetLoggerAnyway(e, l) ==
    /\ Idle(e)
    /\ current' = [current EXCEPT ![e] = l]
    /\ pending' = [pending EXCEPT ![e] = {Install(e, l, TRUE)}]
    /\ UNCHANGED <<env, threw, hook, installs, native, queue, at, fate>>

\* With a logger set, setLoggerIfUnset returns false and changes nothing.
SetLoggerIfUnset(e, l) ==
    /\ Idle(e)
    /\ current[e] = "default"
    /\ current' = [current EXCEPT ![e] = l]
    /\ pending' = [pending EXCEPT ![e] = {Install(e, l, TRUE)}]
    /\ UNCHANGED <<env, threw, hook, installs, native, queue, at, fate>>

\* set_logger: new thread-safe functions, and the swap.
Store(e) ==
    /\ Len(installs) < MaxInstalls
    /\ \E install \in pending[e] : installs' = Append(installs, install)
    /\ native' = Len(installs) + 1
    /\ pending' = [pending EXCEPT ![e] = {}]
    /\ threw' = [threw EXCEPT ![e] = FALSE]
    /\ UNCHANGED <<env, current, hook, queue, at, fate>>

\* Mutant: set_logger keeps the failure of JsLogger::new to itself.
StoreFailsQuietly(e) ==
    /\ pending[e] # {}
    /\ pending' = [pending EXCEPT ![e] = {}]
    /\ threw' = [threw EXCEPT ![e] = FALSE]
    /\ UNCHANGED <<env, current, hook, installs, native, queue, at, fate>>

\* A thread-safe function cannot be created: set_logger stores nothing and
\* throws. currentLogger stays as it was set; where the module was being
\* loaded, its require fails and a later one loads it anew.
StoreFails(e) ==
    /\ pending[e] # {}
    /\ pending' = [pending EXCEPT ![e] = {}]
    /\ threw' = [threw EXCEPT ![e] = TRUE]
    /\ env' = [env EXCEPT ![e] = IF current[e] = "default" THEN "absent" ELSE "live"]
    /\ UNCHANGED <<current, hook, installs, native, queue, at, fate>>

\* The environment runs the oldest queued call of one of its loggers; a logger
\* that was replaced still gets what was queued for it.
Deliver(i) ==
    /\ i <= Len(installs)
    /\ Idle(installs[i].env)
    /\ queue[i] # << >>
    /\ fate' = [fate EXCEPT ![Head(queue[i])] = "delivered"]
    /\ queue' = [queue EXCEPT ![i] = Tail(@)]
    /\ UNCHANGED <<env, current, pending, threw, hook, installs, native, at>>

\* The loggers that live in e.
Of(e) == {i \in 1 .. Len(installs) : installs[i].env = e}

\* The environment is destroyed and its thread-safe functions with it, and what
\* they have queued is not reported anywhere. It may not have loaded the module.
CloseEnv(e) ==
    /\ env[e] # "closed" /\ pending[e] = {}
    /\ env' = [env EXCEPT ![e] = "closed"]
    /\ queue' = [i \in Slots |-> IF i \in Of(e) THEN << >> ELSE queue[i]]
    /\ fate' = [n \in Events |->
                  IF fate[n] = "queued" /\ at[n] \in Of(e) THEN "discarded"
                                                           ELSE fate[n]]
    /\ UNCHANGED <<current, pending, threw, hook, installs, native, at>>

\* The cleanup hook: shutdown_logger.
RunHook ==
    /\ hook \in Envs /\ env[hook] = "closed"
    /\ hook' = "ran"
    /\ native' = 0
    /\ UNCHANGED <<env, current, pending, threw, installs, queue, at, fate>>

-----------------------------------------------------------------------------
(***************************************************************************)
(* A native thread logs event n: it reads the swappable logger, if there   *)
(* is one, and calls it without blocking.                                  *)
(***************************************************************************)
ReadLogger(n) ==
    /\ fate[n] = "none"
    /\ at' = [at EXCEPT ![n] = native]
    /\ fate' = [fate EXCEPT ![n] = IF native = 0 THEN "ignored" ELSE "read"]
    /\ UNCHANGED <<env, current, pending, threw, hook, installs, native, queue>>

\* Mutant: the bound of the queue is off by one.
AcceptsOneMore(i) == env[installs[i].env] = "live" /\ Len(queue[i]) <= QueueSize

Accepts(i) == env[installs[i].env] = "live" /\ Len(queue[i]) < QueueSize

\* Mutant: the status of the call is not looked at.
CallUnchecked(n) ==
    /\ fate[n] = "read"
    /\ \/ /\ Accepts(at[n])
          /\ queue' = [queue EXCEPT ![at[n]] = Append(@, n)]
          /\ fate' = [fate EXCEPT ![n] = "queued"]
       \/ /\ ~Accepts(at[n])
          /\ fate' = [fate EXCEPT ![n] = "discarded"]
          /\ UNCHANGED queue
    /\ UNCHANGED <<env, current, pending, threw, hook, installs, native, at>>

\* A call that is not accepted goes to stderr.
CallLogger(n) ==
    /\ fate[n] = "read"
    /\ \/ /\ Accepts(at[n])
          /\ queue' = [queue EXCEPT ![at[n]] = Append(@, n)]
          /\ fate' = [fate EXCEPT ![n] = "queued"]
       \/ /\ ~Accepts(at[n])
          /\ fate' = [fate EXCEPT ![n] = "stderr"]
          /\ UNCHANGED queue
    /\ UNCHANGED <<env, current, pending, threw, hook, installs, native, at>>

-----------------------------------------------------------------------------
Next ==
    \/ \E e \in Envs :
          \/ Load(e) \/ Store(e) \/ StoreFails(e) \/ CloseEnv(e)
          \/ \E l \in Loggers : SetLogger(e, l) \/ SetLoggerIfUnset(e, l)
    \/ \E i \in Slots : Deliver(i)
    \/ RunHook
    \/ \E n \in Events : ReadLogger(n) \/ CallLogger(n)

Spec == Init /\ [][Next]_vars

-----------------------------------------------------------------------------
JsLoggers == [env : Envs, logger : Loggers \cup {"default"}, polite : BOOLEAN]

\* Type correctness of the logging bridge; its queues are bounded.
TypeOK ==
    /\ env \in [Envs -> {"absent", "live", "closed"}]
    /\ current \in [Envs -> Loggers \cup {"default"}]
    /\ pending \in [Envs -> SUBSET JsLoggers]
    /\ threw \in [Envs -> BOOLEAN]
    /\ hook \in Envs \cup {"none", "ran"}
    /\ installs \in Seq(JsLoggers)
    /\ native \in 0 .. Len(installs)
    /\ queue \in [Slots -> Seq(Events)] /\ \A i \in Slots : Len(queue[i]) <= QueueSize
    /\ at \in [Events -> 0 .. Len(installs)]
    /\ fate \in [Events -> {"none", "ignored", "read", "queued", "delivered",
                            "stderr", "discarded"}]

\* What became of every log event is known, whatever loggers are swapped and
\* environments closed while native threads log. An event is passed over only if
\* its thread found no logger. Once accepted it is in exactly one place of the
\* queue of the logger its thread read, in a live environment, and leaves it to be
\* delivered; it is lost only together with that environment. An event that is
\* not accepted is on stderr.
EventsAccounted ==
    LET Places(n) == {p \in Slots \X (1 .. QueueSize) :
                        p[2] <= Len(queue[p[1]]) /\ queue[p[1]][p[2]] = n} IN
    \A n \in Events :
        /\ fate[n] \in {"none", "ignored"} <=> at[n] = 0
        /\ fate[n] # "queued" => Places(n) = {}
        /\ fate[n] = "queued" =>
             /\ Cardinality(Places(n)) = 1 /\ \A p \in Places(n) : p[1] = at[n]
             /\ env[installs[at[n]].env] = "live"
        /\ fate[n] = "discarded" => env[installs[at[n]].env] = "closed"

\* The logger that getCurrentLogger gives in an environment and the one native
\* code logs to are the same, once no call to set it is under way, for the
\* environment that set it last; they may differ only after a call that threw
\* ("@throws Error if creating the new JavaScript logger fails", logging.d.ts:46)
\* and until one that did not.
JsAndNativeAgree ==
    native # 0 =>
      LET e == installs[native].env IN
      Idle(e) /\ ~threw[e] => current[e] = installs[native].logger

\* Within an environment a logger that is set only because none is set (by
\* setLoggerIfUnset, or the console logger of the freshly loaded module) never
\* takes the place of one the application has set, whatever the other
\* environments do to the native logger in between.
ReplacesOwn(i, j) == /\ installs'[j].env = installs[i].env
                     /\ installs'[j].polite /\ ~installs[i].polite

OwnLoggerKept ==
    [][\A i \in 1 .. Len(installs) :
         native' \notin {0, native} => ~ReplacesOwn(i, native')]_vars

\* setLogger "configures the logging system to use the provided JavaScript
\* logger for all log output" and setLoggerIfUnset supplies one "without
\* replacing the logger of the host application" (logging.d.ts): the logger that
\* was set in an environment that still lives gives way only to one that the
\* application sets, neither to the console logger of a fresh copy of the module
\* nor to the cleanup hook of another environment.
HostLoggerKept ==
    [][/\ native # 0 /\ native' # native
       /\ installs[native].logger # "default"
       /\ env[installs[native].env] = "live"
       => native' # 0 /\ ~installs'[native'].polite]_vars
=============================================================================
