-------------------------- MODULE EventContextProofs --------------------------
(***************************************************************************)
(* Theorems about EventContext, for any collections, requests, calls and   *)
(* attempts.                                                               *)
(***************************************************************************)
EXTENDS EventContext, FiniteSetTheorems, TLAPS

-----------------------------------------------------------------------------
(***************************************************************************)
(* Calls. Every step makes a call, serves one, or begins or ends an        *)
(* attempt.                                                                *)
(***************************************************************************)
\* A call is made by JavaScript.
Makes(c) ==
    /\ stage[c] = "idle" /\ UNCHANGED <<storeVars, timers>>
    /\ \E n \in 0 .. attempt, r \in Requests, s \in {"native", "done"} :
          /\ by' = [by EXCEPT ![c] = n]
          /\ req' = [req EXCEPT ![c] = r]
          /\ stage' = [stage EXCEPT ![c] = s]
          /\ answer' = [answer EXCEPT ![c] = answer'[c]]
          /\ s = "native" => answer'[c] = answer[c]
          /\ s = "done" => answer'[c] \in {Plain("unvended"), Plain("noDate")}

\* A call is answered by native code.
Serve(c) ==
    /\ stage[c] = "native"
    /\ stage' = [stage EXCEPT ![c] = "done"]
    /\ answer' = [answer EXCEPT ![c] = answer'[c]]
    /\ answer'[c].is \in {"done", "found", "listed", "permanent", "failed", "refused"}
    /\ UNCHANGED <<attempt, running, by, req, handles>>

\* An attempt begins or ends.
Turn ==
    /\ attempt' \in {attempt, attempt + 1} /\ attempt' \in 0 .. MaxAttempts
    /\ running' \in BOOLEAN /\ UNCHANGED <<timers, handles, callVars>>

\* What is known of a call at each stage.
CallInv ==
    /\ attempt \in 0 .. MaxAttempts /\ running \in BOOLEAN
    /\ stage \in [Calls -> {"idle", "native", "done"}]
    /\ by \in [Calls -> 0 .. attempt]
    /\ req \in [Calls -> Requests \cup {NoRequest}]
    /\ answer = [c \in Calls |-> answer[c]]
    /\ \A c \in Calls :
         /\ stage[c] = "idle" => req[c] = NoRequest /\ by[c] = 0
         /\ stage[c] # "done" => answer[c] = Plain("none")
         /\ stage[c] = "done" => answer[c].is \in Words \ {"none"}

LEMMA CallInit == Init => CallInv
  <1> SUFFICES ASSUME Init PROVE CallInv
    OBVIOUS
  <1>0. MaxAttempts \in Nat
    BY ContextAssumption
  <1>1. /\ attempt \in 0 .. MaxAttempts /\ running \in BOOLEAN
        /\ \A c \in Calls : /\ stage[c] = "idle" /\ by[c] = 0 /\ req[c] = NoRequest
                            /\ answer[c] = Plain("none")
    <2>1. attempt \in 0 .. MaxAttempts
      BY <1>0 DEF Init
    <2>4. running \in BOOLEAN
      BY DEF Init
    <2>2. \A c \in Calls : stage[c] = "idle" /\ by[c] = 0 /\ req[c] = NoRequest
      BY DEF Init
    <2>3. \A c \in Calls : answer[c] = Plain("none")
      BY DEF Init
    <2> QED
      BY <2>1, <2>2, <2>3, <2>4
  <1>2. answer = [c \in Calls |-> answer[c]]
    BY DEF Init
  <1>3. /\ stage \in [Calls -> {"idle", "native", "done"}]
        /\ req \in [Calls -> Requests \cup {NoRequest}]
    BY DEF Init
  <1>4. by \in [Calls -> 0 .. attempt]
    BY DEF Init
  <1> QED
    BY <1>1, <1>2, <1>3, <1>4 DEF CallInv

\* What is known of answers after one of them changes.
LEMMA OneAnswer ==
    ASSUME NEW f, f = [x \in Calls |-> f[x]], NEW c \in Calls, NEW a,
           NEW g, g = [f EXCEPT ![c] = a]
    PROVE  g[c] = a /\ g = [f EXCEPT ![c] = g[c]]
  OBVIOUS

LEMMA SettleServes ==
    ASSUME CallInv, NEW c \in Calls, NEW a, Settle(c, a), stage[c] = "native",
           a.is \in {"done", "found", "listed", "permanent", "failed", "refused"},
           UNCHANGED <<attempt, running>>
    PROVE  Serve(c) /\ answer'[c] = a
  <1>1. answer = [d \in Calls |-> answer[d]] /\ answer' = [answer EXCEPT ![c] = a]
    BY DEF Settle, CallInv
  <1>2. answer'[c] = a /\ answer' = [answer EXCEPT ![c] = answer'[c]]
    BY ONLY <1>1, c \in Calls, OneAnswer
  <1> QED
    BY <1>2 DEF Settle, Serve

LEMMA LookupWord ==
    ASSUME NEW c, NEW s PROVE Lookup(c, s).is \in {"found", "permanent"}
  BY DEF Lookup, Items, Presence, Found, Plain

LEMMA PlainWord == ASSUME NEW w PROVE Plain(w).is = w
  BY DEF Plain

LEMMA MakesStep ==
    ASSUME CallInv, NEW c \in Calls, State(c) \/ AskTimers(c) \/ AskReader(c)
    PROVE  Makes(c)
  <1>1. answer = [d \in Calls |-> answer[d]]
    BY DEF CallInv
  <1>2. CASE State(c) \/ AskTimers(c)
    <2>1. PICK n \in 1 .. attempt, r \in Requests, ok \in BOOLEAN :
            /\ by' = [by EXCEPT ![c] = n]
            /\ req' = [req EXCEPT ![c] = r]
            /\ stage' = [stage EXCEPT ![c] = IF ok THEN "native" ELSE "done"]
            /\ \E w \in {"unvended", "noDate"} :
                 answer' = [answer EXCEPT ![c] = IF ok THEN answer[c] ELSE Plain(w)]
      BY <1>2 DEF State, AskTimers
    <2>2. PICK w \in {"unvended", "noDate"} :
            answer' = [answer EXCEPT ![c] = IF ok THEN answer[c] ELSE Plain(w)]
      BY <2>1
    <2>3. /\ answer'[c] = IF ok THEN answer[c] ELSE Plain(w)
          /\ answer' = [answer EXCEPT ![c] = answer'[c]]
      BY ONLY <1>1, <2>2, c \in Calls, OneAnswer
    <2>4. stage[c] = "idle" /\ UNCHANGED <<storeVars, timers>>
      BY <1>2 DEF State, AskTimers
    <2>5. n \in 0 .. attempt
      BY DEF CallInv
    <2>6. CASE ok
      BY <2>1, <2>3, <2>4, <2>5, <2>6 DEF Makes
    <2>7. CASE ~ok
      BY <2>1, <2>3, <2>4, <2>5, <2>7 DEF Makes
    <2> QED
      BY <2>6, <2>7
  <1>3. CASE AskReader(c)
    <2>1. /\ stage[c] = "idle" /\ UNCHANGED <<storeVars, timers, by, answer>>
          /\ stage' = [stage EXCEPT ![c] = "native"]
      BY <1>3 DEF AskReader
    <2>2. PICK r \in Requests : req' = [req EXCEPT ![c] = r]
      BY <1>3 DEF AskReader
    <2>3. answer' = [answer EXCEPT ![c] = answer'[c]]
      BY <1>1, <2>1
    <2>4. by' = [by EXCEPT ![c] = 0] /\ 0 \in 0 .. attempt
      BY <2>1 DEF CallInv
    <2> QED
      BY <2>1, <2>2, <2>3, <2>4 DEF Makes
  <1> QED
    BY <1>2, <1>3

LEMMA ReadServes ==
    ASSUME CallInv, NEW c \in Calls, stage[c] = "native", Read(c)
    PROVE  Serve(c) /\ UNCHANGED <<storeVars, timers>>
  <1>1. Lookup(c, view[req[c].on]).is \in {"found", "permanent"}
    BY LookupWord
  <1> QED
    BY <1>1, SettleServes DEF Read, storeVars

\* What a write does to the store.
Writing(c) ==
    /\ req[c].on \in Collections /\ ~Fenced(c) /\ by[c] # 0
    /\ \/ /\ req[c].method \in {"set", "add"}
          /\ view' = [view EXCEPT ![req[c].on] =
                        [view[req[c].on] EXCEPT ![req[c].args[1]] = c]]
       \/ /\ req[c].method = "delete"
          /\ view' = [view EXCEPT ![req[c].on] =
                        [view[req[c].on] EXCEPT ![req[c].args[1]] = None]]
       \/ /\ req[c].method = "clear"
          /\ view' = [view EXCEPT ![req[c].on] = [k \in Keys |-> None]]
    /\ fresh' = fresh \cup {c} /\ written' = Append(written, c)
    /\ answer'[c].is = "done"
    /\ UNCHANGED <<committed, kept, timers>>

LEMMA WriteServes ==
    ASSUME CallInv, NEW c \in Calls, stage[c] = "native", ~Fenced(c), by[c] # 0,
           req[c].on \in Collections, Put(c) \/ Remove(c) \/ Clear(c)
    PROVE  Serve(c) /\ Writing(c)
  <1>1. PICK contents : Write(c, contents)
    BY DEF Put, Remove, Clear
  <1>2. Plain("done").is = "done"
    BY PlainWord
  <1>3. Serve(c) /\ answer'[c].is = "done"
    BY <1>1, <1>2, SettleServes DEF Write
  <1> QED
    BY <1>3 DEF Writing, Put, Remove, Clear, Write

\* A read answers with what it looks up in what the attempt sees, or in what is
\* durable.
Reads(c) ==
    /\ req[c].on \in Collections /\ ~Fenced(c)
    /\ UNCHANGED <<storeVars, timers>>
    /\ \/ by[c] # 0 /\ answer'[c] = Lookup(c, view[req[c].on])
       \/ by[c] = 0 /\ answer'[c] = Lookup(c, committed[req[c].on])

\* Every operation on a collection reads or writes.
Operates(c) ==
    \/ JsonValue(c) \/ MessageValue(c) \/ JsonMap(c) \/ MessageMap(c) \/ MemberSet(c)
    \/ PublishedValue(c) \/ PublishedMap(c) \/ PublishedSet(c)

LEMMA OperationServes ==
    ASSUME CallInv, NEW c \in Calls, Operates(c)
    PROVE  Serve(c) /\ (Reads(c) \/ Writing(c))
  <1>1. CASE \E class \in Classes : Published(c, class)
    <2>1. /\ stage[c] = "native" /\ req[c].on \in Collections /\ ~Fenced(c) /\ by[c] = 0
          /\ UNCHANGED <<storeVars, timers>>
          /\ Settle(c, Lookup(c, committed[req[c].on]))
      BY <1>1 DEF Published, Serves
    <2>2. Lookup(c, committed[req[c].on]).is \in {"found", "permanent"}
      BY LookupWord
    <2>3. Serve(c) /\ answer'[c] = Lookup(c, committed[req[c].on])
      BY <2>1, <2>2, SettleServes DEF storeVars
    <2> QED
      BY <2>1, <2>3 DEF Reads
  <1>2. CASE \E class \in Classes :
               Owned(c, class) /\ (Read(c) \/ Put(c) \/ Remove(c) \/ Clear(c))
    <2>1. /\ stage[c] = "native" /\ req[c].on \in Collections /\ ~Fenced(c) /\ by[c] # 0
          /\ Read(c) \/ Put(c) \/ Remove(c) \/ Clear(c)
      BY <1>2 DEF Owned, Serves
    <2>2. CASE Read(c)
      <3>1. Settle(c, Lookup(c, view[req[c].on])) /\ UNCHANGED <<storeVars, timers>>
        BY <2>2 DEF Read
      <3>2. Lookup(c, view[req[c].on]).is \in {"found", "permanent"}
        BY LookupWord
      <3>3. Serve(c) /\ answer'[c] = Lookup(c, view[req[c].on])
        BY <2>1, <3>1, <3>2, SettleServes DEF storeVars
      <3> QED
        BY <2>1, <3>1, <3>3 DEF Reads
    <2>3. CASE Put(c) \/ Remove(c) \/ Clear(c)
      BY <2>1, <2>3, WriteServes
    <2> QED
      BY <2>1, <2>2, <2>3
  <1> QED
    BY <1>1, <1>2
    DEF Operates, JsonValue, MessageValue, JsonMap, MessageMap, MemberSet,
        PublishedValue, PublishedMap, PublishedSet, Classes

LEMMA TransactServes ==
    ASSUME CallInv, NEW c \in Calls, Commit(c) \/ Rollback(c)
    PROVE  Serve(c) /\ UNCHANGED timers /\ answer'[c].is = "done"
  <1>1. /\ stage[c] = "native" /\ Settle(c, Plain("done"))
        /\ UNCHANGED <<attempt, running, timers>> /\ ~Fenced(c)
    BY DEF Commit, Rollback, Transacts
  <1>2. Plain("done").is = "done"
    BY PlainWord
  <1> QED
    BY <1>1, <1>2, SettleServes

\* What a timer call does.
Ticking(c) ==
    /\ UNCHANGED storeVars
    /\ answer'[c].is \notin {"found", "permanent"}
    /\ \/ /\ req[c].method \in {"schedule", "clearAndSchedule"}
          /\ answer'[c].is = "done"
          /\ timers' = IF req[c].method = "schedule" THEN timers \cup {At(c)} ELSE {At(c)}
       \/ timers' \subseteq timers

LEMMA TickServes ==
    ASSUME CallInv, NEW c \in Calls,
           \/ schedule(c) \/ clear_and_schedule(c) \/ unschedule(c)
           \/ clear_scheduled(c) \/ scheduled(c)
           \/ RefuseItem(c) \/ FenceCall(c) \/ StoreFails(c)
    PROVE  Serve(c) /\ Ticking(c)
  <1>1. PICK a : Settle(c, a) /\ a.is \in {"done", "listed", "failed", "refused"}
    <2>1. /\ Plain("done").is = "done" /\ Plain("failed").is = "failed"
          /\ Plain("refused").is = "refused" /\ Listed(timers).is = "listed"
      BY DEF Plain, Listed
    <2> QED
      BY <2>1 DEF schedule, clear_and_schedule, unschedule, clear_scheduled, scheduled,
                  Tick, RefuseItem, FenceCall, StoreFails
  <1>2. stage[c] = "native" /\ UNCHANGED storeVars
    BY DEF schedule, clear_and_schedule, unschedule, clear_scheduled, scheduled,
           Tick, RefuseItem, FenceCall, StoreFails
  <1>3. Serve(c) /\ answer'[c] = a
    BY <1>1, <1>2, SettleServes DEF storeVars
  <1>4. answer'[c].is \notin {"found", "permanent"}
    BY <1>1, <1>3
  <1>5. Ticking(c)
    <2>1. CASE schedule(c) \/ clear_and_schedule(c)
      <3>1. Settle(c, Plain("done"))
        BY <2>1 DEF schedule, clear_and_schedule, Tick
      <3>2. Plain("done").is = "done"
        BY PlainWord
      <3>3. answer'[c].is = "done"
        BY <1>2, <3>1, <3>2, SettleServes DEF storeVars
      <3> QED
        BY <1>2, <1>4, <2>1, <3>3 DEF schedule, clear_and_schedule, Tick, Ticking
    <2>2. CASE \/ unschedule(c) \/ clear_scheduled(c) \/ scheduled(c)
               \/ RefuseItem(c) \/ FenceCall(c) \/ StoreFails(c)
      <3>1. timers' \subseteq timers
        BY <2>2 DEF unschedule, clear_scheduled, scheduled, Tick, RefuseItem, FenceCall,
                    StoreFails
      <3> QED
        BY <1>2, <1>4, <3>1 DEF Ticking
    <2> QED
      BY <2>1, <2>2
  <1> QED
    BY <1>3, <1>5

LEMMA TurnStep ==
    ASSUME CallInv, BeginAttempt \/ Succeed \/ Fail PROVE Turn
  <1>1. attempt \in 0 .. MaxAttempts /\ MaxAttempts \in Nat
    BY ContextAssumption DEF CallInv
  <1>2. attempt' \in {attempt, attempt + 1} /\ attempt' \in 0 .. MaxAttempts
    BY <1>1 DEF BeginAttempt, Succeed, Fail
  <1>3. running' \in BOOLEAN /\ UNCHANGED <<timers, handles, callVars>>
    BY DEF BeginAttempt, Succeed, Fail
  <1> QED
    BY <1>2, <1>3 DEF Turn

\* The kinds of steps.
Operation(c) ==
    \/ Reads(c) \/ Writing(c) \/ Ticking(c)
    \/ (Commit(c) \/ Rollback(c)) /\ UNCHANGED timers /\ answer'[c].is = "done"

LEMMA StepKinds ==
    ASSUME CallInv, [Next]_vars
    PROVE  \/ \E c \in Calls : Makes(c) /\ (State(c) \/ AskTimers(c) \/ AskReader(c))
           \/ \E c \in Calls : Serve(c) /\ Operation(c)
           \/ Turn /\ (BeginAttempt \/ Succeed \/ Fail)
           \/ UNCHANGED vars
  <1>1. CASE \E c \in Calls : State(c) \/ AskTimers(c) \/ AskReader(c)
    BY <1>1, MakesStep
  <1>2. CASE \E c \in Calls : Operates(c)
    <2>1. PICK c \in Calls : Operates(c)
      BY <1>2
    <2>2. Serve(c) /\ (Reads(c) \/ Writing(c))
      BY <2>1, OperationServes
    <2> QED
      BY <2>2 DEF Operation
  <1>3. CASE \E c \in Calls : Commit(c) \/ Rollback(c)
    BY <1>3, TransactServes DEF Operation
  <1>4. CASE \E c \in Calls : \/ schedule(c) \/ clear_and_schedule(c) \/ unschedule(c)
                              \/ clear_scheduled(c) \/ scheduled(c)
                              \/ RefuseItem(c) \/ FenceCall(c) \/ StoreFails(c)
    <2>1. PICK c \in Calls : \/ schedule(c) \/ clear_and_schedule(c) \/ unschedule(c)
                              \/ clear_scheduled(c) \/ scheduled(c)
                              \/ RefuseItem(c) \/ FenceCall(c) \/ StoreFails(c)
      BY <1>4
    <2>2. Serve(c) /\ Ticking(c)
      BY <2>1, TickServes
    <2> QED
      BY <2>2 DEF Operation
  <1>5. CASE BeginAttempt \/ Succeed \/ Fail
    <2>1. Turn
      BY ONLY <1>5, CallInv, TurnStep
    <2> QED
      BY <1>5, <2>1
  <1>6. CASE UNCHANGED vars
    BY <1>6
  <1> QED
    <2>1. \/ \E c \in Calls :
               \/ State(c) \/ AskTimers(c) \/ AskReader(c) \/ Operates(c)
               \/ Commit(c) \/ Rollback(c)
               \/ schedule(c) \/ clear_and_schedule(c) \/ unschedule(c)
               \/ clear_scheduled(c) \/ scheduled(c)
               \/ RefuseItem(c) \/ FenceCall(c) \/ StoreFails(c)
          \/ BeginAttempt \/ Succeed \/ Fail
          \/ UNCHANGED vars
      BY DEF Next, Rest, Operates
    <2> QED
      BY <1>1, <1>2, <1>3, <1>4, <1>5, <1>6, <2>1

\* A call that has begun keeps its attempt and what it asks; one that is settled
\* keeps its answer too.
CallsAreKept ==
    /\ \A c \in Calls : stage[c] # "idle" => /\ by'[c] = by[c] /\ req'[c] = req[c]
                                            /\ stage'[c] # "idle"
    /\ \A c \in Calls : stage[c] = "done" => answer'[c] = answer[c] /\ stage'[c] = "done"

LEMMA CallStep == CallInv /\ [Next]_vars => CallInv' /\ CallsAreKept
  <1> SUFFICES ASSUME CallInv, [Next]_vars PROVE CallInv' /\ CallsAreKept
    OBVIOUS
  <1>1. ASSUME NEW c \in Calls, Makes(c) PROVE CallInv' /\ CallsAreKept
    <2>1. PICK n \in 0 .. attempt, r \in Requests, s \in {"native", "done"} :
            /\ by' = [by EXCEPT ![c] = n] /\ req' = [req EXCEPT ![c] = r]
            /\ stage' = [stage EXCEPT ![c] = s]
            /\ answer' = [answer EXCEPT ![c] = answer'[c]]
            /\ s = "native" => answer'[c] = answer[c]
            /\ s = "done" => answer'[c] \in {Plain("unvended"), Plain("noDate")}
      BY <1>1 DEF Makes
    <2>2. stage[c] = "idle" /\ UNCHANGED <<attempt, running>>
      BY <1>1 DEF Makes, storeVars
    <2>3. /\ stage' \in [Calls -> {"idle", "native", "done"}]
          /\ by' \in [Calls -> 0 .. attempt'] /\ req' \in [Calls -> Requests \cup {NoRequest}]
      BY <2>1, <2>2 DEF CallInv
    <2>4. answer' = [d \in Calls |-> answer'[d]]
      BY <2>1 DEF CallInv
    <2>5. /\ stage'[c] = s /\ by'[c] = n /\ req'[c] = r
          /\ \A d \in Calls \ {c} : /\ stage'[d] = stage[d] /\ by'[d] = by[d]
                                    /\ req'[d] = req[d] /\ answer'[d] = answer[d]
      BY <2>1 DEF CallInv
    <2>6. Plain("unvended").is = "unvended" /\ Plain("noDate").is = "noDate"
      BY PlainWord
    <2>7. \A d \in Calls :
            /\ stage'[d] = "idle" => req'[d] = NoRequest /\ by'[d] = 0
            /\ stage'[d] # "done" => answer'[d] = Plain("none")
            /\ stage'[d] = "done" => answer'[d].is \in Words \ {"none"}
      BY <2>1, <2>2, <2>5, <2>6 DEF CallInv, Words
    <2>8. CallsAreKept
      BY <2>2, <2>5 DEF CallsAreKept
    <2> QED
      BY <2>2, <2>3, <2>4, <2>7, <2>8 DEF CallInv
  <1>2. ASSUME NEW c \in Calls, Serve(c) PROVE CallInv' /\ CallsAreKept
    <2>1. /\ stage'[c] = "done" /\ answer'[c].is \in Words \ {"none"}
          /\ \A d \in Calls \ {c} : stage'[d] = stage[d] /\ answer'[d] = answer[d]
          /\ UNCHANGED <<attempt, running, by, req>> /\ stage[c] = "native"
      BY <1>2 DEF Serve, CallInv, Words
    <2>2. stage' \in [Calls -> {"idle", "native", "done"}]
      BY <1>2 DEF Serve, CallInv
    <2>3. answer' = [d \in Calls |-> answer'[d]]
      BY <1>2 DEF Serve, CallInv
    <2>4. CallsAreKept
      BY <2>1 DEF CallsAreKept
    <2> QED
      BY <2>1, <2>2, <2>3, <2>4 DEF CallInv
  <1>3. CASE Turn
    <2>1. UNCHANGED <<stage, by, req, answer>>
      BY <1>3 DEF Turn, callVars
    <2>2. by \in [Calls -> 0 .. attempt']
      <3>1. 0 .. attempt \subseteq 0 .. attempt'
        BY <1>3 DEF Turn, CallInv
      <3> QED
        BY <3>1 DEF CallInv
    <2>3. CallsAreKept
      BY <2>1 DEF CallsAreKept
    <2> QED
      BY <1>3, <2>1, <2>2, <2>3 DEF CallInv, Turn
  <1>4. CASE UNCHANGED vars
    BY <1>4 DEF vars, CallInv, CallsAreKept
  <1> QED
    BY <1>1, <1>2, <1>3, <1>4, StepKinds

\* Of every call it is known at each stage what it asks and has been answered.
THEOREM CallInvariant == Spec => []CallInv
  BY CallInit, CallStep, PTL DEF Spec

-----------------------------------------------------------------------------
(***************************************************************************)
(* Timers.                                                                 *)
(***************************************************************************)
AskedFor(t) == \E c \in Calls : /\ req[c].method \in {"schedule", "clearAndSchedule"}
                                /\ At(c) = t /\ stage[c] = "done"
                                /\ answer[c].is = "done"

TimerInv == /\ timers \subseteq {Second[t] : t \in Times}
            /\ \A t \in timers : AskedFor(t)
            /\ (\A c \in Calls : req[c].method # "schedule") => \E x : timers \subseteq {x}

LEMMA TimerInit == Init => TimerInv
  BY DEF Init, TimerInv

\* What was asked for stays asked for.
LEMMA AskedForKept ==
    ASSUME CallInv, CallsAreKept, NEW t, AskedFor(t) PROVE AskedFor(t)'
  BY DEF CallsAreKept, AskedFor, At

\* A call that begins to ask only adds to what is asked.
LEMMA NoScheduleBefore ==
    ASSUME CallInv, CallsAreKept, NEW c \in Calls, req'[c].method # "schedule"
    PROVE  req[c].method # "schedule"
  BY DEF CallInv, CallsAreKept, NoRequest

LEMMA TimerStep == CallInv /\ TimerInv /\ [Next]_vars => TimerInv'
  <1> SUFFICES ASSUME CallInv, TimerInv, [Next]_vars PROVE TimerInv'
    OBVIOUS
  <1>0. CallsAreKept /\ CallInv'
    BY CallStep
  <1>1. CASE timers' \subseteq timers
    <2>1. timers' \subseteq {Second[t] : t \in Times} /\ \A t \in timers' : AskedFor(t)'
      BY <1>0, <1>1, AskedForKept DEF TimerInv
    <2>2. (\A c \in Calls : req'[c].method # "schedule") => \E x : timers' \subseteq {x}
      BY <1>0, <1>1, NoScheduleBefore DEF TimerInv
    <2> QED
      BY <2>1, <2>2 DEF TimerInv
  <1>2. ASSUME NEW c \in Calls, Serve(c), Ticking(c), ~(timers' \subseteq timers)
        PROVE  TimerInv'
    <2>0. PICK t : t = At(c)
      OBVIOUS
    <2>1. /\ req[c].method \in {"schedule", "clearAndSchedule"} /\ answer'[c].is = "done"
          /\ timers' = IF req[c].method = "schedule" THEN timers \cup {t} ELSE {t}
          /\ req' = req /\ stage'[c] = "done" /\ stage[c] = "native"
      BY <1>2, <2>0 DEF Ticking, Serve, CallInv
    <2>2. req[c] \in Requests
      BY <2>1 DEF CallInv, NoRequest
    <2>3. t \in {Second[u] : u \in Times}
      BY <2>0, <2>1, <2>2, ContextAssumption DEF At
    <2>4. AskedFor(t)'
      BY <2>0, <2>1 DEF AskedFor, At
    <2>5. \A u \in timers' : u = t \/ u \in timers
      BY <2>1
    <2>6. timers' \subseteq {Second[u] : u \in Times} /\ \A u \in timers' : AskedFor(u)'
      BY <1>0, <2>3, <2>4, <2>5, AskedForKept DEF TimerInv
    <2>7. (\A d \in Calls : req'[d].method # "schedule") => \E x : timers' \subseteq {x}
      BY <2>1
    <2> QED
      BY <2>6, <2>7 DEF TimerInv
  <1>3. ASSUME NEW c \in Calls, Serve(c), Operation(c) PROVE TimerInv'
    <2>1. CASE Ticking(c)
      BY <1>1, <1>2, <1>3, <2>1
    <2>2. CASE ~Ticking(c)
      <3>1. timers' = timers
        BY <1>3, <2>2 DEF Operation, Reads, Writing, storeVars
      <3> QED
        BY <1>1, <3>1
    <2> QED
      BY <2>1, <2>2
  <1>4. CASE timers' = timers
    BY <1>1, <1>4
  <1> QED
    BY <1>3, <1>4, StepKinds DEF Makes, Turn, vars

\* Without schedule a retried event never adds a timer to the ones it has, and
\* every timer that is scheduled was asked for.
THEOREM TimersAreAskedFor == Spec => []RetriesAddNoTimer
  <1>1. CallInv /\ TimerInv => RetriesAddNoTimer
    <2> SUFFICES ASSUME CallInv, TimerInv PROVE RetriesAddNoTimer
      OBVIOUS
    <2>1. ASSUME NEW x, timers \subseteq {x} PROVE Cardinality(timers) <= 1
      <3>1. timers = {} \/ timers = {x}
        BY <2>1
      <3>2. Cardinality({}) = 0 /\ Cardinality({x}) = 1
        BY FS_EmptySet, FS_Singleton
      <3> QED
        BY <3>1, <3>2
    <2>2. \A t \in timers : AskedFor(t)
      BY DEF TimerInv
    <2> QED
      BY <2>1, <2>2 DEF RetriesAddNoTimer, TimerInv, AskedFor
  <1> QED
    BY <1>1, CallInit, CallStep, TimerInit, TimerStep, PTL DEF Spec

-----------------------------------------------------------------------------
(***************************************************************************)
(* The store.                                                              *)
(***************************************************************************)
\* Covers, Stores and LeftBy, for any requests and any order of writes.
CoversIn(rq, c, col, k) ==
    /\ rq[c].on = col /\ rq[c].method \in Writes
    /\ rq[c].method = "clear" \/ rq[c].args[1] = k

StoresIn(rq, c, col, k) == CoversIn(rq, c, col, k) /\ rq[c].method \in {"set", "add"}

Last(sq, rq, W, col, k, i) ==
    /\ i \in DOMAIN sq /\ sq[i] \in W /\ CoversIn(rq, sq[i], col, k)
    /\ \A j \in DOMAIN sq : j > i /\ sq[j] \in W => ~CoversIn(rq, sq[j], col, k)

Item(rq, c, col, k) == IF StoresIn(rq, c, col, k) THEN c ELSE None

LeftIn(sq, rq, W, col, k, x) ==
    \/ x = Start[col][k] /\ \A c \in W : ~CoversIn(rq, c, col, k)
    \/ \E i : Last(sq, rq, W, col, k, i) /\ x = Item(rq, sq[i], col, k)

\* The writes W of sq leave a collection with the contents s.
Left(sq, rq, W, col, s) == \A k \in Keys : LeftIn(sq, rq, W, col, k, s[k])

LEMMA LeftByUnfolds ==
    ASSUME NEW W, NEW col, NEW k, NEW x
    PROVE  LeftBy(W, col, k, x) <=> LeftIn(written, req, W, col, k, x)
  BY DEF LeftBy, LeftIn, Last, Item, Covers, Stores, CoversIn, StoresIn

\* Only what the writes W ask matters.
LEMMA LeftSame ==
    ASSUME NEW sq, NEW rq, NEW rq2, NEW W, NEW col, NEW s,
           Left(sq, rq, W, col, s), \A c \in W : rq2[c] = rq[c]
    PROVE  Left(sq, rq2, W, col, s)
  <1>1. \A c \in W : \A k : /\ CoversIn(rq2, c, col, k) <=> CoversIn(rq, c, col, k)
                            /\ Item(rq2, c, col, k) = Item(rq, c, col, k)
    BY DEF CoversIn, StoresIn, Item
  <1>2. \A k, i : Last(sq, rq, W, col, k, i) => Last(sq, rq2, W, col, k, i) /\ sq[i] \in W
    BY <1>1 DEF Last
  <1> QED
    BY <1>1, <1>2 DEF Left, LeftIn

\* Only the writes on a collection matter to it.
LEMMA LeftByOwn ==
    ASSUME NEW sq, NEW rq, NEW V, NEW W, NEW col, NEW s,
           Left(sq, rq, V, col, s), \A c : rq[c].on = col => (c \in V <=> c \in W)
    PROVE  Left(sq, rq, W, col, s)
  <1>1. \A c, k : CoversIn(rq, c, col, k) => (c \in V <=> c \in W)
    BY DEF CoversIn
  <1>2. \A k, i : Last(sq, rq, V, col, k, i) => Last(sq, rq, W, col, k, i)
    BY <1>1 DEF Last
  <1> QED
    BY <1>1, <1>2 DEF Left, LeftIn

LEMMA AppendFacts ==
    ASSUME NEW sq \in Seq(Calls), NEW c \in Calls
    PROVE  /\ Append(sq, c) \in Seq(Calls)
           /\ Len(sq) + 1 \in DOMAIN Append(sq, c) /\ Append(sq, c)[Len(sq) + 1] = c
           /\ \A i \in DOMAIN sq : i \in DOMAIN Append(sq, c) /\ Append(sq, c)[i] = sq[i]
           /\ \A i \in DOMAIN Append(sq, c) : i \in DOMAIN sq \/ i = Len(sq) + 1
           /\ \A i \in DOMAIN Append(sq, c) : i \in Int /\ ~(i > Len(sq) + 1)
  OBVIOUS

\* A later write that covers no key of W, or is not one of W, changes nothing.
LEMMA LeftBefore ==
    ASSUME NEW sq \in Seq(Calls), NEW rq, NEW W, NEW V, NEW col, NEW k, NEW x,
           NEW c \in Calls, LeftIn(sq, rq, W, col, k, x),
           \/ V = W /\ c \notin W
           \/ V = W \cup {c} /\ ~CoversIn(rq, c, col, k)
    PROVE  LeftIn(Append(sq, c), rq, V, col, k, x)
  <1>1. CASE x = Start[col][k] /\ \A d \in W : ~CoversIn(rq, d, col, k)
    BY <1>1 DEF LeftIn
  <1>2. ASSUME NEW i, Last(sq, rq, W, col, k, i), x = Item(rq, sq[i], col, k)
        PROVE  LeftIn(Append(sq, c), rq, V, col, k, x)
    <2>1. i \in DOMAIN Append(sq, c) /\ Append(sq, c)[i] = sq[i] /\ sq[i] \in V
      BY <1>2, AppendFacts DEF Last
    <2>2. ASSUME NEW j \in DOMAIN Append(sq, c), j > i, Append(sq, c)[j] \in V
          PROVE  ~CoversIn(rq, Append(sq, c)[j], col, k)
      <3>1. CASE j \in DOMAIN sq /\ Append(sq, c)[j] = sq[j] /\ sq[j] \in W
        BY <1>2, <2>2, <3>1 DEF Last
      <3>2. CASE Append(sq, c)[j] = c
        BY <2>2, <3>2
      <3> QED
        BY <2>2, <3>1, <3>2, AppendFacts
    <2>3. Last(Append(sq, c), rq, V, col, k, i)
      BY <1>2, <2>1, <2>2 DEF Last
    <2> QED
      BY <1>2, <2>1, <2>3 DEF LeftIn
  <1> QED
    BY <1>1, <1>2 DEF LeftIn

LEMMA LeftAfter ==
    ASSUME NEW sq \in Seq(Calls), NEW rq, NEW W, NEW col, NEW k, NEW c \in Calls,
           CoversIn(rq, c, col, k)
    PROVE  LeftIn(Append(sq, c), rq, W \cup {c}, col, k, Item(rq, c, col, k))
  <1>1. Last(Append(sq, c), rq, W \cup {c}, col, k, Len(sq) + 1)
    BY AppendFacts DEF Last
  <1>2. Append(sq, c)[Len(sq) + 1] = c
    BY AppendFacts
  <1> QED
    BY <1>1, <1>2 DEF LeftIn

\* A write leaves the contents it makes.
LEMMA LeftByWrite ==
    ASSUME NEW sq \in Seq(Calls), NEW rq, NEW W, NEW col, NEW s, NEW s2, NEW c \in Calls,
           Left(sq, rq, W, col, s),
           \A k \in Keys : s2[k] = IF CoversIn(rq, c, col, k) THEN Item(rq, c, col, k)
                                                             ELSE s[k]
    PROVE  Left(Append(sq, c), rq, W \cup {c}, col, s2)
  <1> SUFFICES ASSUME NEW k \in Keys
               PROVE  LeftIn(Append(sq, c), rq, W \cup {c}, col, k, s2[k])
    BY DEF Left
  <1>1. CASE CoversIn(rq, c, col, k)
    BY <1>1, LeftAfter
  <1>2. CASE ~CoversIn(rq, c, col, k)
    <2>1. LeftIn(sq, rq, W, col, k, s[k]) /\ s2[k] = s[k]
      BY <1>2 DEF Left
    <2> QED
      BY <1>2, <2>1, LeftBefore
  <1> QED
    BY <1>1, <1>2

\* There is one item that the writes W leave.
LEMMA LeftOnce ==
    ASSUME NEW sq \in Seq(Calls), NEW rq, NEW W, NEW col, NEW k, NEW x, NEW y,
           LeftIn(sq, rq, W, col, k, x), LeftIn(sq, rq, W, col, k, y)
    PROVE  x = y
  <1>1. ASSUME NEW i, NEW j, Last(sq, rq, W, col, k, i), Last(sq, rq, W, col, k, j)
        PROVE  i = j
    <2>1. i \in Int /\ j \in Int /\ ~(i > j) /\ ~(j > i)
      BY <1>1 DEF Last
    <2> QED
      BY <2>1
  <1>2. \A i : Last(sq, rq, W, col, k, i) => sq[i] \in W /\ CoversIn(rq, sq[i], col, k)
    BY DEF Last
  <1> QED
    BY <1>1, <1>2 DEF LeftIn

Contents == [Keys -> Stored \cup Calls \cup {None}]

\* What is durable is what the writes that were kept have left, in their order,
\* and what an attempt sees what they and its own have left.
StoreInv ==
    /\ view \in [Collections -> Contents] /\ committed \in [Collections -> Contents]
    /\ fresh \subseteq Calls /\ kept \subseteq Calls /\ written \in Seq(Calls)
    /\ \A c \in fresh \cup kept : stage[c] = "done"
    /\ \A c \in fresh : /\ running /\ by[c] = attempt /\ by[c] # 0
                        /\ req[c].on \in Collections
    /\ \A col \in Collections : /\ Left(written, req, kept, col, committed[col])
                                /\ Left(written, req, kept \cup fresh, col, view[col])

LEMMA StoreInit == Init => StoreInv
  <1> SUFFICES ASSUME Init PROVE StoreInv
    OBVIOUS
  <1>1. /\ view = Start /\ committed = Start /\ fresh = {} /\ kept = {}
        /\ written = << >>
    BY DEF Init
  <1>2. Start \in [Collections -> [Keys -> Stored \cup {None}]]
    BY ContextAssumption
  <1>3. view \in [Collections -> Contents] /\ committed \in [Collections -> Contents]
    BY <1>1, <1>2 DEF Contents
  <1>4. ASSUME NEW col \in Collections PROVE Left(written, req, {}, col, Start[col])
    BY DEF Left, LeftIn
  <1>5. kept \cup fresh = {}
    BY <1>1
  <1> QED
    BY <1>1, <1>3, <1>4, <1>5 DEF StoreInv

\* Steps that leave the store alone.
LEMMA StoreSame ==
    ASSUME StoreInv, CallInv, CallsAreKept, UNCHANGED storeVars PROVE StoreInv'
  <1>1. UNCHANGED <<attempt, running, committed, view, fresh, kept, written>>
    BY DEF storeVars
  <1>2. \A c \in fresh \cup kept : stage'[c] = "done" /\ req'[c] = req[c] /\ by'[c] = by[c]
    BY DEF StoreInv, CallsAreKept
  <1>3. ASSUME NEW col \in Collections
        PROVE  /\ Left(written, req', kept, col, committed[col])
               /\ Left(written, req', kept \cup fresh, col, view[col])
    BY <1>2, LeftSame DEF StoreInv
  <1> QED
    BY <1>1, <1>2, <1>3 DEF StoreInv, Contents

LEMMA WritingKeepsStore ==
    ASSUME StoreInv, CallInv, NEW c \in Calls, Serve(c), Writing(c) PROVE StoreInv'
  <1> DEFINE on == req[c].on
             s == view[on]
             x == req[c].args[1]
  <1>1. /\ on \in Collections /\ running /\ by[c] = attempt /\ by[c] # 0
        /\ fresh' = fresh \cup {c} /\ UNCHANGED <<committed, kept>>
        /\ written' = Append(written, c)
    BY DEF Writing, Fenced
  <1>2. /\ UNCHANGED <<attempt, running, by, req>> /\ stage[c] = "native"
        /\ stage'[c] = "done" /\ \A d \in Calls \ {c} : stage'[d] = stage[d]
    BY DEF Serve, CallInv
  <1>3. PICK new : /\ view' = [view EXCEPT ![on] = new]
                   /\ \/ req[c].method \in {"set", "add"} /\ new = [s EXCEPT ![x] = c]
                      \/ req[c].method = "delete" /\ new = [s EXCEPT ![x] = None]
                      \/ req[c].method = "clear" /\ new = [k \in Keys |-> None]
    BY DEF Writing
  <1>4. view \in [Collections -> Contents] /\ s \in Contents
    BY <1>1 DEF StoreInv
  <1>5. new \in Contents
    BY <1>3, <1>4 DEF Contents
  <1>6. \A k \in Keys : new[k] = IF CoversIn(req, c, on, k) THEN Item(req, c, on, k) ELSE s[k]
    BY <1>3, <1>4 DEF Contents, CoversIn, StoresIn, Item, Writes
  <1>7. view'[on] = new /\ \A col \in Collections \ {on} : view'[col] = view[col]
    BY <1>1, <1>3, <1>4
  <1>8. view' \in [Collections -> Contents]
    BY <1>3, <1>4, <1>5
  <1>9. ASSUME NEW col \in Collections
        PROVE  Left(written', req, kept' \cup fresh', col, view'[col])
    <2>1. kept' \cup fresh' = (kept \cup fresh) \cup {c}
      BY <1>1
    <2>2. Left(written, req, kept \cup fresh, col, view[col]) /\ written \in Seq(Calls)
      BY DEF StoreInv
    <2>3. CASE col = on
      <3>1. Left(Append(written, c), req, (kept \cup fresh) \cup {c}, col, new)
        BY <1>6, <2>2, <2>3, LeftByWrite
      <3> QED
        BY <1>1, <1>7, <2>1, <2>3, <3>1
    <2>4. CASE col # on
      <3>1. \A k \in Keys : ~CoversIn(req, c, col, k)
        BY <2>4 DEF CoversIn
      <3>2. Left(Append(written, c), req, (kept \cup fresh) \cup {c}, col, view[col])
        BY <2>2, <3>1, LeftByWrite
      <3> QED
        BY <1>1, <1>7, <2>1, <2>4, <3>2
    <2> QED
      BY <2>3, <2>4
  <1>10. ASSUME NEW col \in Collections
         PROVE  Left(written', req, kept', col, committed'[col])
    <2>1. Left(written, req, kept, col, committed[col]) /\ written \in Seq(Calls)
      BY DEF StoreInv
    <2>2. c \notin kept
      BY <1>2 DEF StoreInv
    <2>3. Left(Append(written, c), req, kept, col, committed[col])
      <3> SUFFICES ASSUME NEW k \in Keys
                   PROVE  LeftIn(Append(written, c), req, kept, col, k, committed[col][k])
        BY DEF Left
      <3>1. LeftIn(written, req, kept, col, k, committed[col][k])
        BY <2>1 DEF Left
      <3> QED
        BY <2>1, <2>2, <3>1, LeftBefore
    <2> QED
      BY <1>1, <2>3
  <1>11. \A d \in fresh' \cup kept' : stage'[d] = "done"
    BY <1>1, <1>2 DEF StoreInv
  <1>12. \A d \in fresh' : /\ running' /\ by'[d] = attempt' /\ by'[d] # 0
                           /\ req'[d].on \in Collections
    BY <1>1, <1>2 DEF StoreInv
  <1>13. /\ committed' \in [Collections -> Contents] /\ fresh' \subseteq Calls
         /\ kept' \subseteq Calls /\ written' \in Seq(Calls)
    BY <1>1, AppendFacts DEF StoreInv
  <1>14. req' = req
    BY <1>2
  <1> QED
    BY <1>8, <1>9, <1>10, <1>11, <1>12, <1>13, <1>14 DEF StoreInv, Contents

\* Which writes are left, and which are kept, after those of some collections
\* are made durable or dropped.
LEMMA KeepKeepsStore ==
    ASSUME StoreInv, NEW cols, Keep(cols), UNCHANGED <<view, written, by, req, attempt>>,
           \A c \in fresh \cup kept : stage'[c] = "done",
           running' = running \/ Collections \subseteq cols
    PROVE  StoreInv'
  <1>1. /\ kept' = kept \cup On(cols) /\ fresh' = fresh \ On(cols)
        /\ \A col \in Collections : committed'[col] = IF col \in cols THEN view[col]
                                                                     ELSE committed[col]
        /\ \A c \in fresh : c \in On(cols) <=> req[c].on \in cols
    BY DEF Keep, On
  <1>2. On(cols) \subseteq fresh /\ kept' \cup fresh' = kept \cup fresh
    BY <1>1 DEF On
  <1>3. view' \in [Collections -> Contents] /\ committed' \in [Collections -> Contents]
    BY DEF Keep, StoreInv
  <1>4. ASSUME NEW col \in Collections
        PROVE  Left(written, req, kept', col, committed'[col])
    <2>1. /\ Left(written, req, kept \cup fresh, col, view[col])
          /\ Left(written, req, kept, col, committed[col])
      BY DEF StoreInv
    <2>2. CASE col \in cols
      <3>1. \A c : req[c].on = col => (c \in kept \cup fresh <=> c \in kept')
        BY <1>1, <1>2, <2>2
      <3>2. Left(written, req, kept', col, view[col])
        BY <2>1, <3>1, LeftByOwn
      <3> QED
        BY <1>1, <2>2, <3>2
    <2>3. CASE col \notin cols
      <3>1. \A c : req[c].on = col => (c \in kept <=> c \in kept')
        BY <1>1, <1>2, <2>3
      <3>2. Left(written, req, kept', col, committed[col])
        BY <2>1, <3>1, LeftByOwn
      <3> QED
        BY <1>1, <2>3, <3>2
    <2> QED
      BY <2>2, <2>3
  <1>5. \A col \in Collections : Left(written, req, kept' \cup fresh', col, view'[col])
    BY <1>2 DEF StoreInv
  <1>6. \A c \in fresh' : /\ running' /\ by[c] = attempt' /\ by[c] # 0
                          /\ req[c].on \in Collections
    BY <1>1 DEF StoreInv
  <1>7. fresh' \subseteq Calls /\ kept' \subseteq Calls /\ written \in Seq(Calls)
    BY <1>1, <1>2 DEF StoreInv
  <1>8. \A c \in fresh' \cup kept' : stage'[c] = "done"
    BY <1>2
  <1> QED
    BY <1>3, <1>4, <1>5, <1>6, <1>7, <1>8 DEF StoreInv, Contents

LEMMA DropKeepsStore ==
    ASSUME StoreInv, NEW cols, Drop(cols), UNCHANGED <<committed, kept, written, by, req>>,
           \A c \in fresh \cup kept : stage'[c] = "done",
           UNCHANGED <<running, attempt>> \/ Collections \subseteq cols
    PROVE  StoreInv'
  <1>1. /\ fresh' = fresh \ On(cols)
        /\ \A col \in Collections : view'[col] = IF col \in cols THEN committed[col]
                                                                ELSE view[col]
        /\ \A c \in fresh : c \in On(cols) <=> req[c].on \in cols
    BY DEF Drop, On
  <1>2. view' \in [Collections -> Contents] /\ committed' \in [Collections -> Contents]
    BY DEF Drop, StoreInv
  <1>3. ASSUME NEW col \in Collections
        PROVE  Left(written, req, kept' \cup fresh', col, view'[col])
    <2>1. /\ Left(written, req, kept \cup fresh, col, view[col])
          /\ Left(written, req, kept, col, committed[col])
      BY DEF StoreInv
    <2>2. CASE col \in cols
      <3>1. \A c : req[c].on = col => (c \in kept <=> c \in kept' \cup fresh')
        BY <1>1, <2>2
      <3>2. Left(written, req, kept' \cup fresh', col, committed[col])
        BY <2>1, <3>1, LeftByOwn
      <3> QED
        BY <1>1, <2>2, <3>2
    <2>3. CASE col \notin cols
      <3>1. \A c : req[c].on = col => (c \in kept \cup fresh <=> c \in kept' \cup fresh')
        BY <1>1, <2>3 DEF On
      <3>2. Left(written, req, kept' \cup fresh', col, view[col])
        BY <2>1, <3>1, LeftByOwn
      <3> QED
        BY <1>1, <2>3, <3>2
    <2> QED
      BY <2>2, <2>3
  <1>4. \A col \in Collections : Left(written, req, kept', col, committed'[col])
    BY DEF StoreInv
  <1>5. \A c \in fresh' : /\ running' /\ by[c] = attempt' /\ by[c] # 0
                          /\ req[c].on \in Collections
    BY <1>1 DEF StoreInv
  <1>6. fresh' \subseteq Calls /\ kept' \subseteq Calls /\ written \in Seq(Calls)
    BY <1>1 DEF StoreInv
  <1>7. \A c \in fresh' \cup kept' : stage'[c] = "done"
    BY <1>1
  <1> QED
    BY <1>2, <1>3, <1>4, <1>5, <1>6, <1>7 DEF StoreInv, Contents

LEMMA StoreStep == CallInv /\ StoreInv /\ [Next]_vars => StoreInv'
  <1> SUFFICES ASSUME CallInv, StoreInv, [Next]_vars PROVE StoreInv'
    OBVIOUS
  <1>0. CallsAreKept
    BY CallStep
  <1>1. CASE UNCHANGED storeVars
    BY <1>0, <1>1, StoreSame
  <1>2. \A c \in fresh \cup kept : stage'[c] = "done"
    BY <1>0 DEF StoreInv, CallsAreKept
  <1>3. ASSUME NEW c \in Calls, Serve(c), Operation(c) PROVE StoreInv'
    <2>1. UNCHANGED <<attempt, running, by, req>>
      BY <1>3 DEF Serve
    <2>2. CASE Writing(c)
      BY <1>3, <2>2, WritingKeepsStore
    <2>3. CASE Commit(c)
      <3>1. Keep({req[c].on}) /\ UNCHANGED <<view, written>>
        BY <2>3 DEF Commit, Transacts
      <3> QED
        BY <1>2, <2>1, <3>1, KeepKeepsStore
    <2>4. CASE Rollback(c)
      <3>1. Drop({req[c].on}) /\ UNCHANGED <<committed, kept, written>>
        BY <2>4 DEF Rollback, Transacts
      <3> QED
        BY <1>2, <2>1, <3>1, DropKeepsStore
    <2>5. CASE Reads(c) \/ Ticking(c)
      BY <1>1, <2>5 DEF Reads, Ticking
    <2> QED
      BY <1>3, <2>2, <2>3, <2>4, <2>5 DEF Operation
  <1>4. ASSUME Turn, BeginAttempt \/ Succeed \/ Fail PROVE StoreInv'
    <2>1. UNCHANGED <<by, req>>
      BY <1>4 DEF Turn, callVars
    <2>2. CASE Succeed
      <3>1. Keep(Collections) /\ UNCHANGED <<view, written, attempt>>
        BY <2>2 DEF Succeed
      <3> QED
        BY <1>2, <2>1, <3>1, KeepKeepsStore
    <2>3. CASE BeginAttempt \/ Fail
      <3>1. Drop(Collections) /\ UNCHANGED <<committed, kept, written>>
        BY <2>3 DEF BeginAttempt, Fail
      <3> QED
        BY <1>2, <2>1, <3>1, DropKeepsStore
    <2> QED
      BY <1>4, <2>2, <2>3
  <1>5. CASE UNCHANGED vars
    BY <1>1, <1>5 DEF vars, storeVars
  <1> QED
    BY <1>1, <1>3, <1>4, <1>5, StepKinds DEF Makes

\* What is durable is the work of the writes that a success or a commit() of that
\* collection has kept, and of all of them.
THEOREM DurableEntriesAreAccounted == Spec => []DurableEntriesAreKept
  <1>1. StoreInv => DurableEntriesAreKept
    <2> SUFFICES ASSUME StoreInv, NEW col \in Collections, NEW k \in Keys
                 PROVE  LET x == committed[col][k] IN
                        /\ x \in Calls => x \in kept /\ Stores(x, col, k)
                        /\ x # Start[col][k] => \E c \in kept : Covers(c, col, k)
                        /\ \A c \in kept : Stores(c, col, k) /\ x # c =>
                             \E d \in kept : d # c /\ Covers(d, col, k)
      BY DEF DurableEntriesAreKept
    <2> DEFINE x == committed[col][k]
    <2>1. LeftBy(kept, col, k, x)
      BY LeftByUnfolds DEF StoreInv, Left
    <2>2. Start[col][k] \notin Calls /\ None \notin Calls
      BY ContextAssumption
    <2> HIDE DEF x
    <2>3. CASE x = Start[col][k] /\ \A d \in kept : ~Covers(d, col, k)
      BY <2>2, <2>3 DEF Stores, x
    <2>4. CASE \E c \in kept : /\ Covers(c, col, k)
                               /\ x = IF Stores(c, col, k) THEN c ELSE None
      BY <2>2, <2>4 DEF x
    <2> QED
      BY <2>1, <2>3, <2>4 DEF LeftBy
  <1> QED
    BY <1>1, CallInit, CallStep, StoreInit, StoreStep, PTL DEF Spec

-----------------------------------------------------------------------------
(***************************************************************************)
(* What reads find.                                                        *)
(***************************************************************************)
\* The requests of keys are about keys.
LEMMA ArgsAreKeys ==
    ASSUME CallInv, NEW c \in Calls, req[c].on \in Collections,
           NEW i \in DOMAIN req[c].args
    PROVE  req[c].args[i] \in Keys
  <1>1. req[c] \in Requests
    BY ContextAssumption DEF CallInv, NoRequest
  <1>2. req[c].args \in Seq(Keys)
    BY <1>1, ContextAssumption
  <1> QED
    BY ONLY <1>2, i \in DOMAIN req[c].args, SMT

\* What is found is found as it is.
LEMMA FoundItems == ASSUME NEW x PROVE Found(x).is = "found" /\ Found(x).items = x
  BY DEF Found

\* What is looked up in the contents that the writes c is to see have left is
\* what c is owed.
LEMMA LookupOwed ==
    ASSUME CallInv, NEW c \in Calls, req[c].on \in Collections,
           NEW s, written \in Seq(Calls), Left(written, req, Seen(c), req[c].on, s),
           NEW a, a = Lookup(c, s)
    PROVE  Owed(c, a)
  <1> DEFINE col == req[c].on
             args == req[c].args
             m == req[c].method
             sees(k, x) == LeftBy(Seen(c), col, k, x)
             broken(k) == Class[col][2] = "json" /\ \E x \in Unreadable : sees(k, x)
  <1>1. ASSUME NEW k \in Keys, NEW x PROVE sees(k, x) <=> x = s[k]
    <2>1. LeftIn(written, req, Seen(c), col, k, s[k])
      BY DEF Left
    <2>2. sees(k, x) <=> LeftIn(written, req, Seen(c), col, k, x)
      BY LeftByUnfolds
    <2> QED
      BY <2>1, <2>2, LeftOnce
  <1>2. \A i \in DOMAIN args : args[i] \in Keys
    BY ArgsAreKeys
  <1>3. Owed(c, a) <=>
          IF m \in {"get", "getMany"} /\ \E i \in DOMAIN args : broken(args[i])
            THEN a.is = "permanent"
            ELSE /\ a.is = "found"
                 /\ m = "isEmpty" => a.items = <<\A k \in Keys : sees(k, None)>>
                 /\ m # "isEmpty" => DOMAIN a.items = DOMAIN args
                 /\ \A i \in DOMAIN args :
                       /\ m \in {"get", "getMany"} => sees(args[i], a.items[i])
                       /\ m \in {"has", "hasMany"} => a.items[i] = ~sees(args[i], None)
    BY DEF Owed
  <1> HIDE DEF sees
  <1>4. \A i \in DOMAIN args : broken(args[i]) <=> Class[col][2] = "json" /\ s[args[i]] \in Unreadable
    BY <1>1, <1>2
  <1>5. CASE m \in {"get", "getMany"}
    <2>1. a = Items(c, s)
      BY <1>5 DEF Lookup
    <2>2. CASE \E i \in DOMAIN args : broken(args[i])
      <3>1. a = Plain("permanent")
        BY <1>4, <2>1, <2>2 DEF Items
      <3> QED
        BY <1>3, <1>5, <2>2, <3>1, PlainWord
    <2>3. CASE ~\E i \in DOMAIN args : broken(args[i])
      <3>1. a = Found([i \in DOMAIN args |-> s[args[i]]])
        BY <1>4, <2>1, <2>3 DEF Items
      <3>2. a.is = "found" /\ a.items = [i \in DOMAIN args |-> s[args[i]]]
        BY <3>1 DEF Found
      <3>3. DOMAIN a.items = DOMAIN args
        BY <3>2
      <3>4. ASSUME NEW i \in DOMAIN args PROVE sees(args[i], a.items[i])
        <4>1. args[i] \in Keys /\ a.items[i] = s[args[i]]
          BY <1>2, <3>2
        <4> QED
          BY <1>1, <4>1
      <3> HIDE DEF broken, args
      <3> QED
        BY <1>3, <1>5, <2>3, <3>2, <3>3, <3>4
    <2> QED
      BY <2>2, <2>3
  <1>6. CASE m = "isEmpty"
    <2>1. a = Found(<<\A k \in Keys : s[k] = None>>)
      BY <1>6 DEF Lookup
    <2>2. a.is = "found" /\ a.items = <<\A k \in Keys : s[k] = None>>
      BY <2>1, FoundItems, Zenon
    <2>3. (\A k \in Keys : s[k] = None) <=> (\A k \in Keys : sees(k, None))
      BY <1>1
    <2>4. a.items = <<\A k \in Keys : sees(k, None)>>
      BY <2>2, <2>3, Zenon
    <2> HIDE DEF broken, args
    <2> QED
      BY <1>3, <1>6, <2>2, <2>4
  <1>7. CASE m \notin {"get", "getMany", "isEmpty"}
    <2>1. a = Presence(c, s)
      BY <1>7 DEF Lookup
    <2>2. a.is = "found" /\ a.items = [i \in DOMAIN args |-> s[args[i]] # None]
      BY <2>1 DEF Presence, Found
    <2>3. ASSUME NEW i \in DOMAIN args PROVE a.items[i] = ~sees(args[i], None)
      <3>1. a.items[i] = (s[args[i]] # None)
        BY <2>2
      <3>2. sees(args[i], None) <=> s[args[i]] = None
        BY <1>1, <1>2
      <3> QED
        BY <3>1, <3>2
    <2> QED
      BY <1>3, <1>7, <2>2, <2>3
  <1> QED
    BY <1>5, <1>6, <1>7

LEMMA ReadIsOwed ==
    ASSUME CallInv, StoreInv, NEW c \in Calls, Serve(c), Reads(c)
    PROVE  Owed(c, answer'[c])
  <1>1. /\ req[c].on \in Collections
        /\ by[c] # 0 => running /\ by[c] = attempt
    BY DEF Reads, Fenced
  <1>2. written \in Seq(Calls)
    BY DEF StoreInv
  <1>3. CASE by[c] # 0
    <2>1. answer'[c] = Lookup(c, view[req[c].on])
      BY <1>3 DEF Reads
    <2>2. Seen(c) = kept \cup fresh
      BY <1>1, <1>3 DEF StoreInv, Seen
    <2>3. Left(written, req, Seen(c), req[c].on, view[req[c].on])
      BY <1>1, <2>2 DEF StoreInv
    <2> QED
      BY <1>1, <1>2, <2>1, <2>3, LookupOwed
  <1>4. CASE by[c] = 0
    <2>1. answer'[c] = Lookup(c, committed[req[c].on])
      BY <1>4 DEF Reads
    <2>2. Seen(c) = kept
      BY <1>4 DEF StoreInv, Seen
    <2>3. Left(written, req, Seen(c), req[c].on, committed[req[c].on])
      BY <1>1, <2>2 DEF StoreInv
    <2> QED
      BY <1>1, <1>2, <2>1, <2>3, LookupOwed
  <1> QED
    BY <1>3, <1>4

\* Only reads find something or fail for good.
LEMMA OnlyReadsFind ==
    ASSUME CallInv, [Next]_vars, NEW c \in Calls, stage[c] = "native",
           answer'[c].is \in {"found", "permanent"}
    PROVE  Serve(c) /\ Reads(c)
  <1>1. answer[c].is = "none"
    BY PlainWord DEF CallInv
  <1>2. ASSUME NEW d \in Calls, Makes(d) PROVE FALSE
    <2>1. c # d
      BY <1>2 DEF Makes
    <2>2. answer'[c] = answer[c]
      BY <1>2, <2>1 DEF Makes, CallInv
    <2> QED
      BY <1>1, <2>2
  <1>3. ASSUME NEW d \in Calls, Serve(d), Operation(d) PROVE Serve(c) /\ Reads(c)
    <2>1. c = d
      BY <1>1, <1>3 DEF Serve, CallInv
    <2> QED
      BY <1>3, <2>1 DEF Operation, Writing, Ticking
  <1>4. ~Turn /\ ~UNCHANGED vars
    BY <1>1 DEF Turn, callVars, vars
  <1> QED
    BY <1>2, <1>3, <1>4, StepKinds

\* Every read answers what was last written under its keys by the writes that it
\* is to see, and fails for good just if an item of them has no JSON form.
THEOREM ReadsAreHonest == Spec => ReadsHonest
  <1>1. CallInv /\ StoreInv /\ [Next]_vars =>
          [\A c \in Calls : /\ stage[c] = "native" /\ req[c].on \in Collections
                            /\ answer'[c].is \in {"found", "permanent"}
                            => Owed(c, answer'[c])]_vars
    BY OnlyReadsFind, ReadIsOwed
  <1> QED
    BY <1>1, CallInit, CallStep, StoreInit, StoreStep, PTL DEF Spec, ReadsHonest

-----------------------------------------------------------------------------
(***************************************************************************)
(* Handles, and type correctness.                                          *)
(***************************************************************************)
\* Call c went through the handle of attempt n for a collection.
Through(c, n, col) == by[c] = n /\ req[c].on = col /\ answer[c].is # "unvended"

HandleInv ==
    /\ handles \in [1 .. MaxAttempts -> SUBSET Collections]
    /\ \A n \in 1 .. MaxAttempts, col \in Collections :
         col \in handles[n] <=> \E c \in Calls : Through(c, n, col)

LEMMA HandleInit == Init => HandleInv
  BY DEF Init, HandleInv, Through

\* Steps after which every call is as it was, as far as handles go.
LEMMA HandleSame ==
    ASSUME HandleInv, handles' = handles,
           \A c \in Calls, n \in 1 .. MaxAttempts, col \in Collections :
               Through(c, n, col)' <=> Through(c, n, col)
    PROVE  HandleInv'
  BY DEF HandleInv

LEMMA HandleStep == CallInv /\ HandleInv /\ [Next]_vars => HandleInv'
  <1> SUFFICES ASSUME CallInv, HandleInv, [Next]_vars PROVE HandleInv'
    OBVIOUS
  <1>0. {"timers", "none"} \cap Collections = {} /\ MaxAttempts \in Nat
    BY ContextAssumption
  <1>1. ASSUME NEW c \in Calls, State(c) PROVE HandleInv'
    <2>1. PICK n \in 1 .. attempt, r \in Requests, ok \in BOOLEAN :
            /\ r.on \in Collections
            /\ handles' = [handles EXCEPT ![n] = IF ok THEN @ \cup {r.on} ELSE @]
            /\ by' = [by EXCEPT ![c] = n]
            /\ req' = [req EXCEPT ![c] = r]
            /\ answer' = [answer EXCEPT ![c] = IF ok THEN answer[c] ELSE Plain("unvended")]
      BY <1>1 DEF State
    <2>2. stage[c] = "idle" /\ by[c] = 0 /\ answer[c] = Plain("none")
      BY <1>1 DEF State, CallInv
    <2>3. n \in 1 .. MaxAttempts
      BY <1>0 DEF CallInv
    <2>4. /\ by'[c] = n /\ req'[c] = r
          /\ answer'[c] = IF ok THEN answer[c] ELSE Plain("unvended")
          /\ \A d \in Calls \ {c} : by'[d] = by[d] /\ req'[d] = req[d] /\ answer'[d] = answer[d]
      BY <2>1 DEF CallInv
    <2>5. answer'[c].is # "unvended" <=> ok
      BY <2>2, <2>4, PlainWord
    <2>6. \A d \in Calls \ {c}, m \in 1 .. MaxAttempts, col \in Collections :
             Through(d, m, col)' <=> Through(d, m, col)
      BY <2>4 DEF Through
    <2>7. \A m \in 1 .. MaxAttempts, col \in Collections :
             /\ ~Through(c, m, col)
             /\ Through(c, m, col)' <=> ok /\ m = n /\ col = r.on
      BY <2>2, <2>4, <2>5 DEF Through
    <2>8. /\ handles' \in [1 .. MaxAttempts -> SUBSET Collections]
          /\ \A m \in 1 .. MaxAttempts, col \in Collections :
               col \in handles'[m] <=> col \in handles[m] \/ (ok /\ m = n /\ col = r.on)
      BY <2>1, <2>3 DEF HandleInv
    <2> QED
      BY <2>6, <2>7, <2>8 DEF HandleInv
  <1>2. ASSUME NEW c \in Calls, AskTimers(c) \/ AskReader(c) PROVE HandleInv'
    <2>1. /\ handles' = handles /\ stage[c] = "idle"
          /\ \A d \in Calls \ {c} : by'[d] = by[d] /\ req'[d] = req[d] /\ answer'[d] = answer[d]
          /\ req'[c].on = "timers" \/ by'[c] = by[c]
      BY <1>2 DEF AskTimers, AskReader, CallInv
    <2>2. by[c] = 0
      BY <2>1 DEF CallInv
    <2> QED
      BY <1>0, <2>1, <2>2, HandleSame DEF Through
  <1>3. ASSUME NEW c \in Calls, Serve(c) PROVE HandleInv'
    <2>1. /\ UNCHANGED <<handles, by, req>> /\ answer'[c].is # "unvended"
          /\ answer[c] = Plain("none")
          /\ \A d \in Calls \ {c} : answer'[d] = answer[d]
      BY <1>3 DEF Serve, CallInv
    <2>2. answer[c].is # "unvended"
      BY <2>1, PlainWord
    <2> QED
      BY <2>1, <2>2, HandleSame DEF Through
  <1>4. CASE Turn \/ UNCHANGED vars
    <2>1. UNCHANGED <<handles, by, req, answer>>
      BY <1>4 DEF Turn, callVars, vars
    <2> QED
      BY <2>1, HandleSame DEF Through
  <1>5. \/ \E c \in Calls : State(c) \/ AskTimers(c) \/ AskReader(c)
        \/ \E c \in Calls : Serve(c)
        \/ Turn \/ UNCHANGED vars
    BY StepKinds
  <1> QED
    BY <1>1, <1>2, <1>3, <1>4, <1>5

\* Type correctness; an attempt has a handle exactly of the collections that its
\* context vended one of.
THEOREM ContextTypeCorrect == Spec => []TypeOK
  <1>1. CallInv /\ StoreInv /\ TimerInv /\ HandleInv => TypeOK
    <2> SUFFICES ASSUME CallInv, StoreInv, TimerInv, HandleInv PROVE TypeOK
      OBVIOUS
    <2>1. ASSUME NEW c \in Calls PROVE answer[c].is \in Words
      <3>1. CASE stage[c] = "done"
        BY <3>1 DEF CallInv
      <3>2. CASE stage[c] # "done"
        <4>1. answer[c] = Plain("none")
          BY <3>2 DEF CallInv
        <4>2. Plain("none").is = "none" /\ "none" \in Words
          BY PlainWord DEF Words
        <4> QED
          BY <4>1, <4>2
      <3> QED
        BY <3>1, <3>2
    <2>2. ASSUME NEW n \in 1 .. MaxAttempts
          PROVE  handles[n] = {req[c].on : c \in {d \in Calls :
                                 /\ by[d] = n /\ req[d].on \in Collections
                                 /\ answer[d].is # "unvended"}}
      BY DEF HandleInv, Through
    <2>3. /\ committed \in [Collections -> [Keys -> Stored \cup Calls \cup {None}]]
          /\ view \in [Collections -> [Keys -> Stored \cup Calls \cup {None}]]
          /\ fresh \subseteq Calls /\ kept \subseteq Calls /\ written \in Seq(Calls)
          /\ timers \subseteq {Second[t] : t \in Times}
      BY DEF StoreInv, Contents, TimerInv
    <2>4. /\ attempt \in 0 .. MaxAttempts /\ running \in BOOLEAN
          /\ stage \in [Calls -> {"idle", "native", "done"}] /\ by \in [Calls -> 0 .. attempt]
          /\ \A c \in Calls : req[c] \in Requests \cup {NoRequest}
      BY DEF CallInv
    <2> QED
      BY <2>1, <2>2, <2>3, <2>4 DEF TypeOK
  <1> QED
    BY <1>1, CallInit, CallStep, StoreInit, StoreStep, TimerInit, TimerStep,
       HandleInit, HandleStep, PTL DEF Spec
=============================================================================
