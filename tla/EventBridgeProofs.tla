-------------------------- MODULE EventBridgeProofs --------------------------
(***************************************************************************)
(* Theorems about EventBridge, for any set of events and any limits.       *)
(***************************************************************************)
EXTENDS EventBridge, FiniteSetTheorems, TLAPS

-----------------------------------------------------------------------------
(***************************************************************************)
(* Facts about queues.                                                     *)
(***************************************************************************)
\* Taking the oldest entry of a queue shifts the others by one place.
LEMMA TailOfQueue ==
    ASSUME NEW S, NEW q \in Seq(S), q # << >>
    PROVE  /\ Head(q) = q[1] /\ Head(q) \in S /\ 1 \in 1 .. Len(q)
           /\ Tail(q) \in Seq(S)
           /\ Len(Tail(q)) = Len(q) - 1 /\ Len(q) \in Nat
           /\ \A i \in 1 .. Len(Tail(q)) :
                i + 1 \in 1 .. Len(q) /\ Tail(q)[i] = q[i + 1]
  OBVIOUS

\* A new entry goes to the end and leaves the others where they are.
LEMMA AppendToQueue ==
    ASSUME NEW S, NEW q \in Seq(S), NEW x \in S
    PROVE  /\ Append(q, x) \in Seq(S)
           /\ Len(Append(q, x)) = Len(q) + 1 /\ Len(q) \in Nat
           /\ \A i \in 1 .. Len(q) : Append(q, x)[i] = q[i]
           /\ Append(q, x)[Len(q) + 1] = x
  OBVIOUS

\* The empty queue.
LEMMA EmptyQueue ==
    ASSUME NEW S PROVE << >> \in Seq(S) /\ Len(<< >>) = 0
  OBVIOUS

\* Whatever the reporter does, a callback rejects with a known kind of error.
LEMMA RethrownErrors ==
    \A err \in {"permanent", "transient"} :
        Rethrown(err) \subseteq {err, "transient"}
  BY DEF Rethrown

-----------------------------------------------------------------------------
(***************************************************************************)
(* What most steps have in common: they move one attempt that is in flight *)
(* and leave the others alone.                                             *)
(***************************************************************************)
Touches(a) == \A b \in Attempts \ {a} :
                  /\ pc'[b] = pc[b] /\ result'[b] = result[b]
                  /\ rejection'[b] = rejection[b]
                  /\ completed'[b] = completed[b]
                  /\ verdict'[b] = verdict[b]

\* An attempt is the pair of its event and its number.
LEMMA AttemptPair ==
    \A a \in Attempts :
        a = <<a[1], a[2]>> /\ a[1] \in Events /\ a[2] \in 1 .. MaxAttempts
  BY DEF Attempts

\* A step of an attempt that has started and has no verdict yet leaves the
\* order of attempts alone.
LEMMA RetryKept ==
    ASSUME RetryInv, NEW a \in Attempts, Touches(a),
           pc[a] # "idle", verdict[a] = "none"
    PROVE  RetryInv'
<1> SUFFICES ASSUME NEW e \in Events, NEW m \in 1 .. MaxAttempts,
                    NEW n \in 1 .. MaxAttempts, m < n, pc'[<<e, n>>] # "idle"
             PROVE  verdict'[<<e, m>>] = "transient"
  BY DEF RetryInv
<1>1. <<e, m>> \in Attempts /\ <<e, n>> \in Attempts
  BY DEF Attempts
<1>2. pc[<<e, n>>] # "idle"
  BY <1>1 DEF Touches
<1>3. verdict[<<e, m>>] = "transient"
  BY <1>2 DEF RetryInv
<1> QED BY <1>1, <1>3 DEF Touches

\* No new task is in flight, so still at most one per key is.
LEMMA OneTaskKept ==
    ASSUME OneTaskPerKey, \A b \in Attempts : InFlight(b)' => InFlight(b)
    PROVE  OneTaskPerKey'
  BY DEF OneTaskPerKey

\* A step of an attempt that is in no queue leaves the queues alone.
LEMMA QueuesKept ==
    ASSUME TypeOK, QueueInv, NEW a \in Attempts, Touches(a),
           pc[a] \notin {"queued", "classifying"}, UNCHANGED <<handleQ, permQ>>
    PROVE  QueueInv'
<1>1. ASSUME NEW k \in Kinds, NEW i \in 1 .. Len(handleQ[k])
      PROVE  handleQ[k][i] \in Attempts \ {a}
  BY <1>1 DEF TypeOK, QueueInv
<1>2. ASSUME NEW i \in 1 .. Len(permQ)
      PROVE  permQ[i] \in Attempts \ {a}
  BY <1>2 DEF TypeOK, QueueInv
<1> QED BY <1>1, <1>2 DEF QueueInv, Touches, OncePerQueue

-----------------------------------------------------------------------------
\* StartAttempt preserves the invariant.
LEMMA StartAttemptInv ==
    ASSUME BridgeInv, NEW a \in Attempts, StartAttempt(a) PROVE BridgeInv'
<1> USE DEF BridgeInv
<1>0. /\ pc[a] = "idle" /\ verdict[a] = "none" /\ Touches(a)
      /\ pc' = [pc EXCEPT ![a] = pc'[a]] /\ pc'[a] \in {"queued", "ended"}
  BY DEF StartAttempt, MayStart, SkipInternalTimer, EnqueueCallback, StageInv,
         CallbackRefused, Verdict, Touches, TypeOK
<1>1. TypeOK'
  <2>1. CASE SkipInternalTimer(a)
    BY <2>1 DEF TypeOK, StartAttempt, SkipInternalTimer, Verdict
  <2>2. CASE EnqueueCallback(a)
    <3>1. KindOf[a[1]] \in Kinds /\ handleQ[KindOf[a[1]]] \in Seq(Attempts)
      BY <2>2 DEF EnqueueCallback, TypeOK
    <3>2. Append(handleQ[KindOf[a[1]]], a) \in Seq(Attempts)
      BY <3>1, AppendToQueue
    <3> QED
      BY <2>2, <3>1, <3>2 DEF TypeOK, StartAttempt, EnqueueCallback
  <2>3. CASE CallbackRefused(a)
    BY <2>3 DEF TypeOK, StartAttempt, CallbackRefused, Verdict, CallFailure
  <2> QED BY <2>1, <2>2, <2>3 DEF StartAttempt
<1>2. StageInv' /\ HonestVerdicts'
  BY <1>0 DEF StageInv, HonestVerdicts, StartAttempt, SkipInternalTimer,
     EnqueueCallback, CallbackRefused, Verdict, CallFailure, TypeOK
<1>3. QueueInv'
  <2>1. CASE EnqueueCallback(a)
    <3> DEFINE k == KindOf[a[1]]
    <3>1. /\ k \in Kinds /\ handleQ[k] \in Seq(Attempts)
          /\ handleQ' = [handleQ EXCEPT ![k] = Append(handleQ[k], a)]
          /\ permQ' = permQ /\ pc' = [pc EXCEPT ![a] = "queued"]
      BY <2>1 DEF EnqueueCallback, TypeOK
    <3>2. /\ Len(handleQ'[k]) = Len(handleQ[k]) + 1 /\ Len(handleQ[k]) \in Nat
          /\ \A i \in 1 .. Len(handleQ[k]) : handleQ'[k][i] = handleQ[k][i]
          /\ handleQ'[k][Len(handleQ[k]) + 1] = a
          /\ \A j \in Kinds \ {k} : handleQ'[j] = handleQ[j]
      BY <3>1, AppendToQueue DEF TypeOK
    <3>3. /\ \A j \in Kinds : \A i \in 1 .. Len(handleQ[j]) :
               handleQ[j][i] \in Attempts \ {a}
          /\ \A i \in 1 .. Len(permQ) : permQ[i] \in Attempts \ {a}
      BY <1>0 DEF QueueInv, TypeOK
    <3>4. \A b \in Attempts \ {a} : pc'[b] = pc[b]
      BY <3>1
    <3>5. pc'[a] = "queued"
      BY <3>1 DEF TypeOK
    <3>6. ASSUME NEW i \in 1 .. Len(handleQ'[k])
          PROVE  /\ pc'[handleQ'[k][i]] = "queued"
                 /\ KindOf[handleQ'[k][i][1]] = k
      <4>1. CASE i \in 1 .. Len(handleQ[k])
        BY <4>1, <3>1, <3>2, <3>3, <3>4 DEF QueueInv
      <4>2. CASE i = Len(handleQ[k]) + 1
        BY <4>2, <3>2, <3>5
      <4> QED BY <3>2, <4>1, <4>2
    <3>7. OncePerQueue(handleQ'[k])
      BY <3>1, <3>2, <3>3 DEF QueueInv, OncePerQueue
    <3>8. ASSUME NEW j \in Kinds \ {k}
          PROVE  /\ \A i \in 1 .. Len(handleQ'[j]) :
                      /\ pc'[handleQ'[j][i]] = "queued"
                      /\ KindOf[handleQ'[j][i][1]] = j
                 /\ OncePerQueue(handleQ'[j])
      BY <3>2, <3>3, <3>4 DEF QueueInv
    <3>9. /\ \A i \in 1 .. Len(permQ') : pc'[permQ'[i]] = "classifying"
          /\ OncePerQueue(permQ')
      BY <3>1, <3>3, <3>4 DEF QueueInv
    <3> HIDE DEF k
    <3> QED BY <3>6, <3>7, <3>8, <3>9 DEF QueueInv
  <2>2. CASE SkipInternalTimer(a) \/ CallbackRefused(a)
    BY <2>2, <1>0, QueuesKept DEF SkipInternalTimer, CallbackRefused
  <2> QED BY <2>1, <2>2 DEF StartAttempt
<1>4. OneTaskPerKey'
  <2>1. \A b \in Attempts \ {a} : InFlight(b)' <=> InFlight(b)
    BY <1>0 DEF InFlight, Touches
  <2>2. \A b \in Attempts : InFlight(b) => KeyOf[b[1]] # KeyOf[a[1]]
    BY DEF StartAttempt, MayStart, KeyIsFree
  <2> QED BY <2>1, <2>2 DEF OneTaskPerKey
<1>5. RetryInv'
  <2> SUFFICES ASSUME NEW e \in Events, NEW m \in 1 .. MaxAttempts,
                      NEW n \in 1 .. MaxAttempts, m < n,
                      pc'[<<e, n>>] # "idle"
               PROVE  verdict'[<<e, m>>] = "transient"
    BY DEF RetryInv
  <2>1. <<e, m>> \in Attempts /\ <<e, n>> \in Attempts
    BY DEF Attempts
  <2>2. verdict[<<e, m>>] = "transient"
    <3>1. CASE a = <<e, n>>
      <4>1. n - 1 \in 1 .. MaxAttempts /\ (m = n - 1 \/ m < n - 1)
        BY BridgeAssumption DEF BridgeAssumption
      <4>2. verdict[<<e, n - 1>>] = "transient" /\ <<e, n - 1>> \in Attempts
        BY <3>1, <4>1 DEF StartAttempt, MayStart, Attempts
      <4>3. pc[<<e, n - 1>>] # "idle"
        BY <4>2 DEF StageInv
      <4> QED BY <4>1, <4>2, <4>3 DEF RetryInv
    <3>2. CASE a # <<e, n>>
      BY <3>2, <1>0, <2>1 DEF Touches, RetryInv
    <3> QED BY <3>1, <3>2
  <2> QED BY <1>0, <2>1, <2>2 DEF Touches
<1> QED BY <1>1, <1>2, <1>3, <1>4, <1>5

\* DispatchCallback preserves the invariant.
LEMMA DispatchCallbackInv ==
    ASSUME BridgeInv, NEW k \in Kinds, DispatchCallback(k) PROVE BridgeInv'
<1> USE DEF BridgeInv
<1>0. PICK a \in Attempts : a = Head(handleQ[k])
  BY TailOfQueue DEF DispatchCallback, TypeOK
<1>1. /\ handleQ[k] \in Seq(Attempts) /\ handleQ[k] # << >>
      /\ handleQ' = [handleQ EXCEPT ![k] = Tail(handleQ[k])]
      /\ permQ' = permQ /\ pc' = [pc EXCEPT ![a] = "running"]
      /\ UNCHANGED <<result, rejection, completed, cancel, signal, verdict,
                     closing>>
  BY <1>0 DEF DispatchCallback, TypeOK
<1>2. /\ a = handleQ[k][1] /\ a \in Attempts /\ 1 \in 1 .. Len(handleQ[k])
      /\ Tail(handleQ[k]) \in Seq(Attempts)
      /\ Len(Tail(handleQ[k])) = Len(handleQ[k]) - 1
      /\ Len(handleQ[k]) \in Nat
      /\ \A i \in 1 .. Len(Tail(handleQ[k])) :
            /\ i + 1 \in 1 .. Len(handleQ[k])
            /\ Tail(handleQ[k])[i] = handleQ[k][i + 1]
  BY <1>0, <1>1, TailOfQueue
<1>3. pc[a] = "queued" /\ KindOf[a[1]] = k
  BY <1>2 DEF QueueInv
<1>4. Touches(a)
  BY <1>1, <1>2 DEF Touches, TypeOK
<1>5. TypeOK'
  BY <1>1, <1>2 DEF TypeOK
<1>6. StageInv' /\ HonestVerdicts'
  BY <1>1, <1>2, <1>3 DEF StageInv, HonestVerdicts, TypeOK
<1>7. QueueInv'
  <2>1. handleQ'[k] = Tail(handleQ[k]) /\ \A j \in Kinds \ {k} : handleQ'[j] = handleQ[j]
    BY <1>1 DEF TypeOK
  <2>a. /\ Len(handleQ'[k]) = Len(handleQ[k]) - 1
        /\ \A i \in 1 .. Len(handleQ'[k]) :
              /\ i + 1 \in 1 .. Len(handleQ[k]) /\ i + 1 # 1
              /\ handleQ'[k][i] = handleQ[k][i + 1]
    BY <1>2, <2>1
  <2>b. /\ \A i \in 1 .. Len(handleQ[k]) :
              /\ handleQ[k][i] \in Attempts
              /\ pc[handleQ[k][i]] = "queued" /\ KindOf[handleQ[k][i][1]] = k
        /\ \A i, j \in 1 .. Len(handleQ[k]) :
              handleQ[k][i] = handleQ[k][j] => i = j
    BY <1>1 DEF QueueInv, OncePerQueue
  <2>2. \A i \in 1 .. Len(handleQ'[k]) :
           /\ handleQ'[k][i] \in Attempts \ {a}
           /\ pc[handleQ'[k][i]] = "queued" /\ KindOf[handleQ'[k][i][1]] = k
    BY <1>2, <2>a, <2>b
  <2>3. OncePerQueue(handleQ'[k])
    <3> SUFFICES ASSUME NEW i \in 1 .. Len(handleQ'[k]),
                        NEW j \in 1 .. Len(handleQ'[k]),
                        handleQ'[k][i] = handleQ'[k][j]
                 PROVE  i = j
      BY DEF OncePerQueue
    <3>1. handleQ[k][i + 1] = handleQ[k][j + 1]
      BY <2>a
    <3>2. i + 1 = j + 1
      BY <3>1, <2>a, <2>b
    <3> QED BY <3>2
  <2>4. \A j \in Kinds \ {k} : \A i \in 1 .. Len(handleQ'[j]) :
           handleQ'[j][i] \in Attempts \ {a}
    BY <1>1, <1>3, <2>1 DEF QueueInv, TypeOK
  <2>5. \A i \in 1 .. Len(permQ) : permQ[i] \in Attempts \ {a}
    BY <1>3 DEF QueueInv, TypeOK
  <2>6. ASSUME NEW j \in Kinds
        PROVE  /\ \A i \in 1 .. Len(handleQ'[j]) :
                    /\ pc'[handleQ'[j][i]] = "queued"
                    /\ KindOf[handleQ'[j][i][1]] = j
               /\ OncePerQueue(handleQ'[j])
    <3>1. CASE j = k
      BY <3>1, <1>4, <2>2, <2>3 DEF Touches
    <3>2. CASE j # k
      BY <3>2, <1>4, <2>1, <2>4 DEF Touches, QueueInv
    <3> QED BY <3>1, <3>2
  <2>7. /\ \A i \in 1 .. Len(permQ') : pc'[permQ'[i]] = "classifying"
        /\ OncePerQueue(permQ')
    BY <1>1, <1>4, <2>5 DEF QueueInv, Touches
  <2> QED BY <2>6, <2>7 DEF QueueInv
<1>8. OneTaskPerKey'
  BY <1>1, <1>2, <1>3, OneTaskKept DEF InFlight, TypeOK
<1>9. RetryInv'
  BY <1>2, <1>3, <1>4, RetryKept DEF StageInv
<1> QED BY <1>5, <1>6, <1>7, <1>8, <1>9

\* The three ways a handler settles preserve the invariant.
LEMMA HandlerSettlesInv ==
    ASSUME BridgeInv, NEW a \in Attempts,
           HandlerReturns(a) \/ ResultUnencodable(a) \/ HandlerThrows(a)
    PROVE  BridgeInv'
<1> USE DEF BridgeInv
<1>1. PICK t \in Results, r \in {"resolved", "permanent", "transient"} :
        /\ result' = [result EXCEPT ![a] = t]
        /\ rejection' = [rejection EXCEPT ![a] = r]
        /\ completed' = [completed EXCEPT ![a] = TRUE]
        /\ pc' = [pc EXCEPT ![a] = "settled"]
        /\ r = "resolved" => t = "returned"
        /\ r = "permanent" => t = "threwPermanent"
  BY RethrownErrors DEF HandlerReturns, ResultUnencodable, HandlerThrows,
     Settle, Results
<1>2. /\ pc[a] = "running"
      /\ UNCHANGED <<handleQ, permQ, cancel, signal, verdict, closing>>
  BY DEF HandlerReturns, ResultUnencodable, HandlerThrows
<1>3. Touches(a)
  BY <1>1, <1>2 DEF Touches, TypeOK
<1>4. TypeOK'
  BY <1>1, <1>2 DEF TypeOK
<1>5. StageInv' /\ HonestVerdicts'
  BY <1>1, <1>2 DEF StageInv, HonestVerdicts, TypeOK
<1>6. QueueInv'
  BY <1>2, <1>3, QueuesKept
<1>7. OneTaskPerKey'
  BY <1>1, <1>2, OneTaskKept DEF InFlight, TypeOK
<1>8. RetryInv'
  BY <1>2, <1>3, RetryKept DEF StageInv
<1> QED BY <1>4, <1>5, <1>6, <1>7, <1>8

\* TaskResumes preserves the invariant.
LEMMA TaskResumesInv ==
    ASSUME BridgeInv, NEW a \in Attempts, TaskResumes(a) PROVE BridgeInv'
<1> USE DEF BridgeInv
<1>1. /\ pc[a] = "settled" /\ verdict[a] = "none"
      /\ UNCHANGED <<handleQ, result, rejection, completed, cancel, signal,
                     closing>>
  BY DEF TaskResumes, StageInv
<1>2. Touches(a)
  BY DEF TaskResumes, Verdict, Touches, TypeOK
<1>3. CASE pc'[a] = "ended"
  <2>1. /\ pc' = [pc EXCEPT ![a] = "ended"] /\ permQ' = permQ
        /\ \/ verdict' = [verdict EXCEPT ![a] = "ok"] /\ rejection[a] = "resolved"
           \/ verdict' = [verdict EXCEPT ![a] = "transient"]
    BY <1>3 DEF TaskResumes, Verdict, CallFailure, TypeOK
  <2>2. TypeOK'
    BY <1>1, <2>1 DEF TypeOK
  <2>3. StageInv' /\ HonestVerdicts'
    BY <1>1, <2>1 DEF StageInv, HonestVerdicts, TypeOK
  <2>4. QueueInv'
    BY <1>1, <1>2, <2>1, QueuesKept
  <2>5. OneTaskPerKey'
    BY <2>1, OneTaskKept DEF InFlight, TypeOK
  <2> QED BY <1>1, <1>2, <2>2, <2>3, <2>4, <2>5, RetryKept
<1>4. CASE pc'[a] # "ended"
  <2>1. /\ pc' = [pc EXCEPT ![a] = "classifying"] /\ verdict' = verdict
        /\ permQ' = Append(permQ, a) /\ rejection[a] # "resolved"
        /\ permQ \in Seq(Attempts)
    BY <1>4 DEF TaskResumes, Verdict, TypeOK
  <2>2. /\ permQ' \in Seq(Attempts)
        /\ Len(permQ') = Len(permQ) + 1 /\ Len(permQ) \in Nat
        /\ \A i \in 1 .. Len(permQ) : permQ'[i] = permQ[i]
        /\ permQ'[Len(permQ) + 1] = a
    BY <2>1, AppendToQueue
  <2>3. TypeOK'
    BY <1>1, <2>1, <2>2 DEF TypeOK
  <2>4. StageInv' /\ HonestVerdicts'
    BY <1>1, <2>1 DEF StageInv, HonestVerdicts, TypeOK
  <2>5. QueueInv'
    <3>1. /\ \A j \in Kinds : \A i \in 1 .. Len(handleQ[j]) :
               handleQ[j][i] \in Attempts \ {a}
          /\ \A i \in 1 .. Len(permQ) : permQ[i] \in Attempts \ {a}
      BY <1>1 DEF QueueInv, TypeOK
    <3>2. pc'[a] = "classifying" /\ \A b \in Attempts \ {a} : pc'[b] = pc[b]
      BY <2>1 DEF TypeOK
    <3>3. ASSUME NEW i \in 1 .. Len(permQ') PROVE pc'[permQ'[i]] = "classifying"
      <4>1. CASE i \in 1 .. Len(permQ)
        BY <4>1, <2>2, <3>1, <3>2 DEF QueueInv
      <4>2. CASE i = Len(permQ) + 1
        BY <4>2, <2>2, <3>2
      <4> QED BY <2>2, <4>1, <4>2
    <3>4. OncePerQueue(permQ')
      BY <2>2, <3>1 DEF QueueInv, OncePerQueue
    <3>5. \A j \in Kinds :
             /\ \A i \in 1 .. Len(handleQ'[j]) :
                  /\ pc'[handleQ'[j][i]] = "queued"
                  /\ KindOf[handleQ'[j][i][1]] = j
             /\ OncePerQueue(handleQ'[j])
      BY <1>1, <3>1, <3>2 DEF QueueInv
    <3> QED BY <3>3, <3>4, <3>5 DEF QueueInv
  <2>6. OneTaskPerKey'
    BY <1>1, <2>1, OneTaskKept DEF InFlight, TypeOK
  <2> QED BY <1>1, <1>2, <2>3, <2>4, <2>5, <2>6, RetryKept
<1> QED BY <1>3, <1>4

\* Classify preserves the invariant.
LEMMA ClassifyInv ==
    ASSUME BridgeInv, Classify PROVE BridgeInv'
<1> USE DEF BridgeInv
<1>0. PICK a \in Attempts : a = Head(permQ)
  BY TailOfQueue DEF Classify, TypeOK
<1>1. /\ permQ \in Seq(Attempts) /\ permQ # << >> /\ permQ' = Tail(permQ)
      /\ pc' = [pc EXCEPT ![a] = "ended"]
      /\ verdict' = [verdict EXCEPT ![a] = rejection[a]]
      /\ UNCHANGED <<handleQ, result, rejection, completed, cancel, signal,
                     closing>>
  BY <1>0 DEF Classify, Verdict, TypeOK
<1>2. /\ a = permQ[1] /\ a \in Attempts /\ 1 \in 1 .. Len(permQ)
      /\ Tail(permQ) \in Seq(Attempts)
      /\ Len(Tail(permQ)) = Len(permQ) - 1 /\ Len(permQ) \in Nat
      /\ \A i \in 1 .. Len(Tail(permQ)) :
            i + 1 \in 1 .. Len(permQ) /\ Tail(permQ)[i] = permQ[i + 1]
  BY <1>0, <1>1, TailOfQueue
<1>3. /\ pc[a] = "classifying" /\ rejection[a] \in {"permanent", "transient"}
      /\ rejection[a] = "permanent" => result[a] = "threwPermanent"
      /\ verdict[a] = "none"
  BY <1>2 DEF QueueInv, StageInv, TypeOK
<1>4. Touches(a)
  BY <1>1, <1>2 DEF Touches, TypeOK
<1>5. TypeOK'
  BY <1>1, <1>2, <1>3 DEF TypeOK
<1>6. StageInv' /\ HonestVerdicts'
  BY <1>1, <1>2, <1>3 DEF StageInv, HonestVerdicts, TypeOK
<1>7. QueueInv'
  <2>a. /\ Len(permQ') = Len(permQ) - 1
        /\ \A i \in 1 .. Len(permQ') :
              /\ i + 1 \in 1 .. Len(permQ) /\ i + 1 # 1
              /\ permQ'[i] = permQ[i + 1]
    BY <1>1, <1>2
  <2>b. /\ \A i \in 1 .. Len(permQ) :
              permQ[i] \in Attempts /\ pc[permQ[i]] = "classifying"
        /\ \A i, j \in 1 .. Len(permQ) : permQ[i] = permQ[j] => i = j
    BY <1>1 DEF QueueInv, OncePerQueue
  <2>1. \A i \in 1 .. Len(permQ') :
           permQ'[i] \in Attempts \ {a} /\ pc[permQ'[i]] = "classifying"
    BY <1>2, <2>a, <2>b
  <2>2. OncePerQueue(permQ')
    <3> SUFFICES ASSUME NEW i \in 1 .. Len(permQ'), NEW j \in 1 .. Len(permQ'),
                        permQ'[i] = permQ'[j]
                 PROVE  i = j
      BY DEF OncePerQueue
    <3>1. permQ[i + 1] = permQ[j + 1]
      BY <2>a
    <3>2. i + 1 = j + 1
      BY <3>1, <2>a, <2>b
    <3> QED BY <3>2
  <2>3. \A j \in Kinds : \A i \in 1 .. Len(handleQ[j]) :
           handleQ[j][i] \in Attempts \ {a}
    BY <1>3 DEF QueueInv, TypeOK
  <2> QED BY <1>1, <1>4, <2>1, <2>2, <2>3 DEF QueueInv, Touches
<1>8. OneTaskPerKey'
  BY <1>1, OneTaskKept DEF InFlight, TypeOK
<1>9. RetryInv'
  BY <1>2, <1>3, <1>4, RetryKept
<1> QED BY <1>5, <1>6, <1>7, <1>8, <1>9

\* Cancellation preserves the invariant.
LEMMA CancelInv ==
    ASSUME BridgeInv, NEW a \in Attempts, RequestCancel(a) \/ OnCancelResolves(a)
    PROVE  BridgeInv'
<1>1. /\ UNCHANGED <<pc, handleQ, permQ, result, rejection, completed, verdict,
                     closing>>
      /\ cancel' \in [Attempts -> {"none", "requested", "seen"}]
      /\ signal' \in [Attempts -> {"quiet", "aborted"}]
  BY DEF RequestCancel, OnCancelResolves, BridgeInv, TypeOK
<1> QED BY <1>1 DEF BridgeInv, TypeOK, StageInv, QueueInv, OneTaskPerKey,
         RetryInv, HonestVerdicts, InFlight, OncePerQueue

\* CloseEnv preserves the invariant.
LEMMA CloseEnvInv ==
    ASSUME BridgeInv, CloseEnv PROVE BridgeInv'
<1> USE DEF BridgeInv
<1> DEFINE Dropped == {a \in Attempts : pc[a] \in {"queued", "classifying"}}
<1>1. /\ pc' = [a \in Attempts |-> IF a \in Dropped THEN "ended" ELSE pc[a]]
      /\ verdict' = [a \in Attempts |->
                       IF a \in Dropped THEN "transient" ELSE verdict[a]]
      /\ handleQ' = [k \in Kinds |-> << >>] /\ permQ' = << >>
      /\ closing' = TRUE
      /\ UNCHANGED <<result, rejection, completed, cancel, signal>>
  BY DEF CloseEnv, CallFailure
<1>2. << >> \in Seq(Attempts) /\ Len(<< >>) = 0
  BY EmptyQueue
<1>3. TypeOK'
  BY <1>1, <1>2 DEF TypeOK
<1>4. StageInv' /\ HonestVerdicts'
  BY <1>1 DEF StageInv, HonestVerdicts, TypeOK
<1>5. QueueInv'
  BY <1>1, <1>2 DEF QueueInv, OncePerQueue
<1>6. OneTaskPerKey'
  BY <1>1, OneTaskKept DEF InFlight
<1>7. RetryInv'
  <2> SUFFICES ASSUME NEW e \in Events, NEW m \in 1 .. MaxAttempts,
                      NEW n \in 1 .. MaxAttempts, m < n,
                      pc'[<<e, n>>] # "idle"
               PROVE  verdict'[<<e, m>>] = "transient"
    BY DEF RetryInv
  <2>1. <<e, m>> \in Attempts /\ <<e, n>> \in Attempts
    BY DEF Attempts
  <2> QED BY <1>1, <2>1 DEF RetryInv
<1> QED BY <1>3, <1>4, <1>5, <1>6, <1>7

-----------------------------------------------------------------------------
\* The inductive invariant holds initially and in every step.
LEMMA InitInv == Init => BridgeInv
<1> SUFFICES ASSUME Init PROVE BridgeInv
  OBVIOUS
<1>1. << >> \in Seq(Attempts) /\ Len(<< >>) = 0
  BY EmptyQueue
<1>2. TypeOK
  BY <1>1 DEF Init, TypeOK
<1>3. StageInv /\ HonestVerdicts
  BY DEF Init, StageInv, HonestVerdicts
<1>4. QueueInv
  BY <1>1 DEF Init, QueueInv, OncePerQueue
<1>5. OneTaskPerKey
  BY DEF Init, OneTaskPerKey, InFlight
<1>6. RetryInv
  BY DEF Init, RetryInv, Attempts
<1> QED BY <1>2, <1>3, <1>4, <1>5, <1>6 DEF BridgeInv

LEMMA StepInv == BridgeInv /\ [Next]_vars => BridgeInv'
<1> SUFFICES ASSUME BridgeInv, [Next]_vars PROVE BridgeInv'
  OBVIOUS
<1>1. ASSUME NEW a \in Attempts, StartAttempt(a) PROVE BridgeInv'
  BY <1>1, StartAttemptInv
<1>2. ASSUME NEW a \in Attempts,
             HandlerReturns(a) \/ ResultUnencodable(a) \/ HandlerThrows(a)
      PROVE  BridgeInv'
  BY <1>2, HandlerSettlesInv
<1>3. ASSUME NEW a \in Attempts, TaskResumes(a) PROVE BridgeInv'
  BY <1>3, TaskResumesInv
<1>4. ASSUME NEW a \in Attempts, RequestCancel(a) \/ OnCancelResolves(a)
      PROVE  BridgeInv'
  BY <1>4, CancelInv
<1>5. ASSUME NEW k \in Kinds, DispatchCallback(k) PROVE BridgeInv'
  BY <1>5, DispatchCallbackInv
<1>6. CASE Classify
  BY <1>6, ClassifyInv
<1>7. CASE CloseEnv
  BY <1>7, CloseEnvInv
<1>8. CASE UNCHANGED vars
  BY <1>8 DEF vars, BridgeInv, TypeOK, StageInv, QueueInv, OneTaskPerKey,
     RetryInv, HonestVerdicts, InFlight, OncePerQueue
<1> QED
  BY <1>1, <1>2, <1>3, <1>4, <1>5, <1>6, <1>7, <1>8 DEF Next, Rest

\* Every reachable state satisfies the inductive invariant.
THEOREM BridgeInvariant == Spec => []BridgeInv
  BY InitInv, StepInv, PTL DEF Spec

\* The state of the bridge is always well typed.
THEOREM TypeCorrect == Spec => []TypeOK
  BY BridgeInvariant, PTL DEF BridgeInv

\* No queue limit, broken reporter, cancellation or teardown ever makes the
\* bridge report a success or a permanent failure the handler did not produce.
THEOREM VerdictsAreHonest == Spec => []HonestVerdicts
  BY BridgeInvariant, PTL DEF BridgeInv

\* The handlers of two attempts of one key never run at the same time.
THEOREM HandlersNeverOverlap == Spec => []NoOverlap
<1>1. BridgeInv => NoOverlap
  BY DEF BridgeInv, OneTaskPerKey, InFlight, NoOverlap
<1> QED BY <1>1, BridgeInvariant, PTL

\* A cancellation never changes the signal of a handler that is not running.
THEOREM LateCancellation == Spec => LateCancelIsQuiet
<1>1. ASSUME BridgeInv, [Next]_vars
      PROVE  [\A a \in Attempts : signal'[a] # signal[a] => pc[a] = "running"]_vars
  <2> SUFFICES ASSUME NEW a \in Attempts, signal'[a] # signal[a]
               PROVE  pc[a] = "running"
    OBVIOUS
  <2>1. PICK b \in Attempts : OnCancelResolves(b)
    BY <1>1 DEF Next, Rest, vars, StartAttempt, DispatchCallback, Classify,
       HandlerReturns, ResultUnencodable, HandlerThrows, TaskResumes,
       RequestCancel, CloseEnv
  <2>2. a = b /\ ~completed[a] /\ Started(a)
    BY <2>1, <1>1 DEF OnCancelResolves, BridgeInv, TypeOK
  <2> QED BY <2>2, <1>1 DEF Started, BridgeInv, StageInv
<1> QED BY <1>1, BridgeInvariant, PTL DEF Spec, LateCancelIsQuiet

-----------------------------------------------------------------------------
(***************************************************************************)
(* The isPermanent queue never fills when it has a slot for every task.    *)
(***************************************************************************)
\* The indices of a queue of length n are n in number.
LEMMA IndexCount ==
    ASSUME NEW n \in Nat PROVE Cardinality(1 .. n) = n
<1>1. Cardinality(1 .. n) = IF 1 > n THEN 0 ELSE n - 1 + 1
  BY FS_Interval
<1> QED BY <1>1

\* The number of tasks is a natural number.
LEMMA TaskCount ==
    ASSUME IsFiniteSet(Tasks) PROVE Cardinality(Tasks) \in Nat
<1> DEFINE T == Tasks
<1> HIDE DEF T
<1>1. IsFiniteSet(T) => Cardinality(T) \in Nat
  BY FS_CardinalityType
<1> QED BY <1>1 DEF T

\* While a task waits to classify its error, the queue holds fewer calls than
\* there are tasks: each entry is another task in flight.
LEMMA QueueShorterThanTasks ==
    ASSUME BridgeInv, NEW a \in Attempts, pc[a] = "settled", IsFiniteSet(Tasks)
    PROVE  Len(permQ) < Cardinality(Tasks)
<1> DEFINE Others == Tasks \ {a}
<1>1. a \in Tasks
  BY DEF Tasks, InFlight
<1>2. IsFiniteSet(Others) /\ Cardinality(Others) = Cardinality(Tasks) - 1
  BY <1>1, FS_RemoveElement
<1>3. permQ \in Seq(Attempts) /\ Len(permQ) \in Nat
  BY DEF BridgeInv, TypeOK
<1>4. \A i \in 1 .. Len(permQ) : permQ[i] \in Others
  BY <1>3 DEF BridgeInv, QueueInv, Tasks, InFlight
<1> DEFINE entry == [i \in 1 .. Len(permQ) |-> permQ[i]]
<1>5. entry \in Injection(1 .. Len(permQ), Others)
  BY <1>4 DEF BridgeInv, QueueInv, OncePerQueue, Injection, IsInjective
<1>6. Cardinality(1 .. Len(permQ)) <= Cardinality(Others)
  BY <1>2, <1>5, FS_Injection
<1>7. Cardinality(1 .. Len(permQ)) = Len(permQ)
  BY <1>3, IndexCount
<1>8. Cardinality(Tasks) \in Nat
  BY TaskCount
<1> QED BY <1>2, <1>3, <1>6, <1>7, <1>8

LEMMA TasksShrink ==
    ASSUME CapacityInv, Tasks' \subseteq Tasks, MaxConcurrency \in Nat
    PROVE  IsFiniteSet(Tasks') /\ Cardinality(Tasks') <= MaxConcurrency
<1>1. IsFiniteSet(Tasks') /\ Cardinality(Tasks') <= Cardinality(Tasks)
  BY FS_Subset DEF CapacityInv
<1>2. Cardinality(Tasks) \in Nat /\ Cardinality(Tasks') \in Nat
  BY <1>1, FS_CardinalityType DEF CapacityInv
<1> QED BY <1>1, <1>2 DEF CapacityInv

\* With room for every task, a permanent error is permanent to the end.
THEOREM PermanentErrorsAreFinal ==
    ASSUME PermQueueSize >= MaxConcurrency, ~ReporterMayThrow, ~EnvMayClose
    PROVE  Spec => []PermanentIsFinal
<1> USE BridgeAssumption DEF BridgeAssumption
<1>1. Init => CapacityInv
  <2> SUFFICES ASSUME Init PROVE CapacityInv
    OBVIOUS
  <2>1. Tasks = {}
    BY DEF Init, Tasks, InFlight
  <2> QED BY <2>1, FS_EmptySet DEF Init, CapacityInv
<1>2. BridgeInv /\ CapacityInv /\ [Next]_vars => CapacityInv'
  <2> SUFFICES ASSUME BridgeInv, CapacityInv, [Next]_vars PROVE CapacityInv'
    OBVIOUS
  <2>1. ASSUME NEW a \in Attempts, StartAttempt(a) PROVE CapacityInv'
    <3>1. /\ Touches(a) /\ pc[a] = "idle" /\ UNCHANGED <<result, closing>>
          /\ result[a] = "notRun"
      BY <2>1 DEF StartAttempt, MayStart, SkipInternalTimer, EnqueueCallback,
         CallbackRefused, Verdict, Touches, BridgeInv, StageInv, TypeOK
    <3>2. Tasks' \subseteq Tasks \cup {a}
      BY <3>1 DEF Tasks, InFlight, Touches
    <3>3. /\ IsFiniteSet(Tasks \cup {a})
          /\ Cardinality(Tasks \cup {a}) <= Cardinality(Tasks) + 1
          /\ Cardinality(Tasks) \in Nat
      <4>1. IsFiniteSet(Tasks) /\ Cardinality(Tasks) \in Nat
        BY TaskCount DEF CapacityInv
      <4>2. /\ IsFiniteSet(Tasks \cup {a})
            /\ Cardinality(Tasks \cup {a}) =
                 IF a \in Tasks THEN Cardinality(Tasks) ELSE Cardinality(Tasks) + 1
        BY <4>1, FS_AddElement
      <4> QED BY <4>1, <4>2
    <3>4. /\ IsFiniteSet(Tasks')
          /\ Cardinality(Tasks') <= Cardinality(Tasks \cup {a})
      BY <3>2, <3>3, FS_Subset
    <3>5. Cardinality(Tasks) < MaxConcurrency
      BY <2>1 DEF StartAttempt, MayStart
    <3>6. /\ Cardinality(Tasks \cup {a}) \in Nat
          /\ Cardinality(Tasks') \in Nat
      BY <3>3, <3>4, FS_CardinalityType
    <3>7. Cardinality(Tasks') <= MaxConcurrency
      BY <3>3, <3>4, <3>5, <3>6
    <3> QED BY <3>1, <3>4, <3>7 DEF CapacityInv, Touches
  <2>2. ASSUME NEW a \in Attempts,
               HandlerReturns(a) \/ ResultUnencodable(a) \/ HandlerThrows(a)
        PROVE  CapacityInv'
    <3>1. /\ pc[a] = "running" /\ closing' = closing
          /\ pc' = [pc EXCEPT ![a] = "settled"]
          /\ UNCHANGED verdict
      BY <2>2 DEF HandlerReturns, ResultUnencodable, HandlerThrows, Settle
    <3>2. PICK t, r : /\ result' = [result EXCEPT ![a] = t]
                      /\ rejection' = [rejection EXCEPT ![a] = r]
                      /\ t = "threwPermanent" => r = "permanent"
      BY <2>2 DEF HandlerReturns, ResultUnencodable, HandlerThrows, Settle,
         Rethrown
    <3>3. Tasks' \subseteq Tasks
      BY <3>1 DEF Tasks, InFlight, BridgeInv, TypeOK
    <3>4. IsFiniteSet(Tasks') /\ Cardinality(Tasks') <= MaxConcurrency
      BY <3>3, TasksShrink
    <3> QED BY <3>1, <3>2, <3>4 DEF CapacityInv, BridgeInv, TypeOK
  <2>3. ASSUME NEW a \in Attempts, TaskResumes(a) PROVE CapacityInv'
    <3>1. /\ pc[a] = "settled" /\ Touches(a)
          /\ UNCHANGED <<result, rejection, closing>>
      BY <2>3 DEF TaskResumes, Verdict, Touches, BridgeInv, TypeOK
    <3>2. Tasks' \subseteq Tasks
      BY <3>1 DEF Tasks, InFlight, Touches
    <3>3. IsFiniteSet(Tasks') /\ Cardinality(Tasks') <= MaxConcurrency
      BY <3>2, TasksShrink
    <3>4. HasRoom(permQ, PermQueueSize)
      <4>1. Len(permQ) < Cardinality(Tasks) /\ Cardinality(Tasks) <= MaxConcurrency
        BY <3>1, QueueShorterThanTasks DEF CapacityInv
      <4>2. Len(permQ) \in Nat /\ Cardinality(Tasks) \in Nat
        BY FS_CardinalityType DEF CapacityInv, BridgeInv, TypeOK
      <4> QED BY <4>1, <4>2 DEF HasRoom
    <3>5. result[a] = "threwPermanent" => pc'[a] = "classifying"
      BY <2>3, <3>1, <3>4 DEF TaskResumes, CapacityInv, BridgeInv, TypeOK
    <3> QED BY <3>1, <3>3, <3>5 DEF CapacityInv, Touches
  <2>4. ASSUME NEW a \in Attempts, RequestCancel(a) \/ OnCancelResolves(a)
        PROVE  CapacityInv'
    <3>1. UNCHANGED <<pc, result, rejection, verdict, closing>>
      BY <2>4 DEF RequestCancel, OnCancelResolves
    <3> QED BY <3>1 DEF CapacityInv, Tasks, InFlight
  <2>5. ASSUME NEW k \in Kinds, DispatchCallback(k) PROVE CapacityInv'
    <3>1. PICK a \in Attempts : a = Head(handleQ[k]) /\ pc[a] = "queued"
      BY <2>5, TailOfQueue DEF DispatchCallback, BridgeInv, TypeOK, QueueInv
    <3>2. /\ pc' = [pc EXCEPT ![a] = "running"]
          /\ UNCHANGED <<result, rejection, verdict, closing>>
      BY <2>5, <3>1 DEF DispatchCallback
    <3>3. Tasks' \subseteq Tasks
      BY <3>1, <3>2 DEF Tasks, InFlight, BridgeInv, TypeOK
    <3>4. IsFiniteSet(Tasks') /\ Cardinality(Tasks') <= MaxConcurrency
      BY <3>3, TasksShrink
    <3> QED BY <3>2, <3>4 DEF CapacityInv, BridgeInv, TypeOK
  <2>6. CASE Classify
    <3>1. PICK a \in Attempts : a = Head(permQ) /\ pc[a] = "classifying"
      BY <2>6, TailOfQueue DEF Classify, BridgeInv, TypeOK, QueueInv
    <3>2. /\ pc' = [pc EXCEPT ![a] = "ended"]
          /\ verdict' = [verdict EXCEPT ![a] = rejection[a]]
          /\ UNCHANGED <<result, rejection, closing>>
      BY <2>6, <3>1 DEF Classify, Verdict
    <3>3. Tasks' \subseteq Tasks
      BY <3>1, <3>2 DEF Tasks, InFlight, BridgeInv, TypeOK
    <3>4. IsFiniteSet(Tasks') /\ Cardinality(Tasks') <= MaxConcurrency
      BY <3>3, TasksShrink
    <3> QED BY <3>1, <3>2, <3>4 DEF CapacityInv, BridgeInv, TypeOK
  <2>7. CASE UNCHANGED vars
    BY <2>7 DEF vars, CapacityInv, Tasks, InFlight
  <2> QED
    BY <2>1, <2>2, <2>3, <2>4, <2>5, <2>6, <2>7 DEF Next, Rest, CloseEnv
<1>3. CapacityInv => PermanentIsFinal
  BY DEF CapacityInv, PermanentIsFinal
<1> QED BY <1>1, <1>2, <1>3, BridgeInvariant, PTL DEF Spec

-----------------------------------------------------------------------------
(***************************************************************************)
(* The bridge implements Delivery.                                         *)
(***************************************************************************)
\* How far along an attempt is, as Delivery sees it.
LEMMA StageOf ==
    \A a \in Attempts :
        /\ pc[a] = "idle" => Stage[a] = "idle"
        /\ pc[a] = "ended" => Stage[a] = "done"
        /\ pc[a] \notin {"idle", "ended"} => Stage[a] = "inFlight"
  BY DEF Stage

\* An event is undecided when the attempt before a new one was transient.
LEMMA UndecidedBefore ==
    ASSUME BridgeInv, NEW a \in Attempts, MayStart(a)
    PROVE  Promise!Undecided(a[1])
<1> SUFFICES ASSUME NEW b \in Attempts, b[1] = a[1],
                    verdict[b] \notin {"none", "transient"}
             PROVE  FALSE
  BY DEF Promise!Undecided
<1>1. PICK e \in Events, n \in 1 .. MaxAttempts, m \in 1 .. MaxAttempts :
        a = <<e, n>> /\ b = <<e, m>>
  BY AttemptPair
<1>2. pc[a] = "idle" /\ verdict[a] = "none" /\ pc[b] # "idle"
  BY DEF MayStart, BridgeInv, StageInv, TypeOK
<1>3. CASE n <= m
  BY <1>1, <1>2, <1>3 DEF BridgeInv, RetryInv
<1>4. CASE m < n
  <2>1. n - 1 \in 1 .. MaxAttempts /\ (m = n - 1 \/ m < n - 1)
    BY <1>4, BridgeAssumption DEF BridgeAssumption
  <2>2. verdict[<<e, n - 1>>] = "transient" /\ <<e, n - 1>> \in Attempts
    BY <1>1, <1>4, <2>1 DEF MayStart, Attempts
  <2>3. pc[<<e, n - 1>>] # "idle"
    BY <2>2 DEF BridgeInv, StageInv
  <2>4. verdict[<<e, m>>] = "transient"
    BY <2>1, <2>2, <2>3 DEF BridgeInv, RetryInv
  <2> QED BY <1>1, <2>4
<1> QED BY <1>3, <1>4

\* The oldest call of a handler queue belongs to a task that waits for it.
LEMMA OldestCall ==
    ASSUME BridgeInv, NEW k \in Kinds, handleQ[k] # << >>
    PROVE  Head(handleQ[k]) \in Attempts /\ pc[Head(handleQ[k])] = "queued"
<1>1. handleQ[k] \in Seq(Attempts)
  BY DEF BridgeInv, TypeOK
<1>2. /\ Head(handleQ[k]) = handleQ[k][1] /\ Head(handleQ[k]) \in Attempts
      /\ 1 \in 1 .. Len(handleQ[k])
  BY <1>1, TailOfQueue
<1> QED BY <1>2 DEF BridgeInv, QueueInv

\* A key is free in Delivery exactly when it is free in the bridge.
LEMMA FreeKey ==
    ASSUME TypeOK, NEW e \in Events, KeyIsFree(e) PROVE Promise!KeyIsFree(e)
  BY DEF KeyIsFree, InFlight, Promise!KeyIsFree, Stage, TypeOK

\* Every step of the bridge is a step of Delivery or changes none of it.
LEMMA StepImplements ==
    BridgeInv /\ [Next]_vars => [Promise!Next]_(Promise!dvars)
<1> SUFFICES ASSUME BridgeInv, [Next]_vars
             PROVE  Promise!Next \/ UNCHANGED <<Stage, result, verdict>>
  BY DEF Promise!dvars
<1> USE DEF Promise!Honest
<1>1. ASSUME NEW a \in Attempts, StartAttempt(a)
      PROVE  Promise!Begin(a) \/ Promise!Refuse(a)
  <2>1. /\ a[1] \in Events /\ pc[a] = "idle" /\ Stage[a] = "idle"
        /\ Promise!KeyIsFree(a[1]) /\ Promise!Undecided(a[1])
        /\ result' = result
    BY <1>1, AttemptPair, FreeKey, UndecidedBefore
    DEF StartAttempt, MayStart, Stage, BridgeInv
  <2>2. CASE EnqueueCallback(a)
    <3>1. Stage' = [Stage EXCEPT ![a] = "inFlight"] /\ verdict' = verdict
      BY <2>1, <2>2 DEF EnqueueCallback, Stage, BridgeInv, TypeOK
    <3> QED BY <2>1, <3>1 DEF Promise!Begin
  <2>3. CASE SkipInternalTimer(a) \/ CallbackRefused(a)
    <3>1. Stage' = [Stage EXCEPT ![a] = "done"]
      BY <2>1, <2>3 DEF SkipInternalTimer, CallbackRefused, Verdict, Stage,
         BridgeInv, TypeOK
    <3>2. \E v \in Promise!Honest(a[1], "notRun") :
             verdict' = [verdict EXCEPT ![a] = v]
      BY <2>1, <2>3 DEF SkipInternalTimer, CallbackRefused, Verdict, CallFailure
    <3> QED BY <2>1, <3>1, <3>2 DEF Promise!Refuse
  <2> QED BY <1>1, <2>2, <2>3 DEF StartAttempt
<1>2. ASSUME NEW a \in Attempts,
             HandlerReturns(a) \/ ResultUnencodable(a) \/ HandlerThrows(a)
      PROVE  Promise!Handle(a)
  <2>1. /\ pc[a] = "running" /\ pc' = [pc EXCEPT ![a] = "settled"]
        /\ verdict' = verdict
        /\ \E r \in Promise!Results : result' = [result EXCEPT ![a] = r]
    BY <1>2 DEF HandlerReturns, ResultUnencodable, HandlerThrows, Settle,
       Promise!Results
  <2>2. Stage[a] = "inFlight" /\ Stage' = Stage /\ result[a] = "notRun"
    BY <2>1 DEF Stage, BridgeInv, TypeOK, StageInv
  <2> QED BY <2>1, <2>2 DEF Promise!Handle
<1>3. ASSUME NEW a \in Attempts, TaskResumes(a)
      PROVE  Promise!Decide(a) \/ UNCHANGED <<Stage, result, verdict>>
  <2>1. pc[a] = "settled" /\ Stage[a] = "inFlight" /\ result' = result
    BY <1>3 DEF TaskResumes, Stage
  <2>2. CASE pc'[a] = "ended"
    <3>1. Stage' = [Stage EXCEPT ![a] = "done"]
      BY <1>3, <2>1, <2>2 DEF TaskResumes, Verdict, Stage, BridgeInv, TypeOK
    <3>2. \E v \in Promise!Honest(a[1], result[a]) :
             verdict' = [verdict EXCEPT ![a] = v]
      BY <1>3, <2>1, <2>2 DEF TaskResumes, Verdict, CallFailure, BridgeInv,
         StageInv, TypeOK
    <3> QED BY <2>1, <3>1, <3>2 DEF Promise!Decide
  <2>3. CASE pc'[a] # "ended"
    BY <1>3, <2>1, <2>3 DEF TaskResumes, Verdict, Stage, BridgeInv, TypeOK
  <2> QED BY <2>2, <2>3
<1>4. ASSUME NEW k \in Kinds, DispatchCallback(k)
      PROVE  UNCHANGED <<Stage, result, verdict>>
  <2>1. PICK a \in Attempts : a = Head(handleQ[k]) /\ pc[a] = "queued"
    BY <1>4, OldestCall DEF DispatchCallback
  <2> QED BY <1>4, <2>1 DEF DispatchCallback, Stage, BridgeInv, TypeOK
<1>5. ASSUME Classify PROVE \E a \in Attempts : Promise!Decide(a)
  <2>1. PICK a \in Attempts : a = Head(permQ) /\ pc[a] = "classifying"
    BY <1>5, TailOfQueue DEF Classify, BridgeInv, TypeOK, QueueInv
  <2>2. /\ Stage[a] = "inFlight" /\ Stage' = [Stage EXCEPT ![a] = "done"]
        /\ result' = result
    BY <1>5, <2>1 DEF Classify, Verdict, Stage, BridgeInv, TypeOK
  <2>3. rejection[a] \in Promise!Honest(a[1], result[a])
    BY <2>1 DEF BridgeInv, StageInv, TypeOK
  <2>4. verdict' = [verdict EXCEPT ![a] = rejection[a]]
    BY <1>5, <2>1 DEF Classify, Verdict
  <2> QED BY <2>2, <2>3, <2>4 DEF Promise!Decide
<1>6. ASSUME CloseEnv PROVE Promise!Abandon
  <2> DEFINE S == {a \in Attempts : pc[a] \in {"queued", "classifying"}}
  <2>1. S \in SUBSET {a \in Attempts : Stage[a] = "inFlight"}
    BY DEF Stage
  <2>2. Stage' = [a \in Attempts |-> IF a \in S THEN "done" ELSE Stage[a]]
    <3>1. pc' = [a \in Attempts |-> IF a \in S THEN "ended" ELSE pc[a]]
      BY <1>6 DEF CloseEnv
    <3>2. \A a \in Attempts :
             Stage'[a] = IF a \in S THEN "done" ELSE Stage[a]
      BY <3>1 DEF Stage
    <3> QED BY <3>2 DEF Stage
  <2>3. /\ verdict' = [a \in Attempts |->
                         IF a \in S THEN "transient" ELSE verdict[a]]
        /\ result' = result
    BY <1>6 DEF CloseEnv, CallFailure
  <2> QED BY <2>1, <2>2, <2>3 DEF Promise!Abandon
<1>7. ASSUME NEW a \in Attempts, RequestCancel(a) \/ OnCancelResolves(a)
      PROVE  UNCHANGED <<Stage, result, verdict>>
  BY <1>7 DEF RequestCancel, OnCancelResolves, Stage
<1>8. CASE UNCHANGED vars
  BY <1>8 DEF vars, Stage
<1> QED
  BY <1>1, <1>2, <1>3, <1>4, <1>5, <1>6, <1>7, <1>8
  DEF Next, Rest, Promise!Next

\* The bridge implements Delivery.
THEOREM BridgeImplementsDelivery == Spec => Implements
<1>1. Init => Promise!Init
  BY DEF Init, Promise!Init, Stage
<1> QED BY <1>1, StepImplements, BridgeInvariant, PTL
        DEF Spec, Implements, Promise!Spec

-----------------------------------------------------------------------------
(***************************************************************************)
(* The converse of QueueInv: every task that waits has its call in a queue. *)
(***************************************************************************)
Has(q, a) == \E i \in 1 .. Len(q) : q[i] = a

CallsWait ==
    \A a \in Attempts :
        /\ pc[a] = "queued" => /\ KindOf[a[1]] \in Kinds
                               /\ Has(handleQ[KindOf[a[1]]], a)
        /\ pc[a] = "classifying" => Has(permQ, a)

\* A queue has what it had, and the new entry, after an append.
LEMMA AppendHas ==
    ASSUME NEW S, NEW q \in Seq(S), NEW x \in S
    PROVE  /\ Has(Append(q, x), x)
           /\ \A y : Has(q, y) => Has(Append(q, x), y)
<1>1. /\ Len(Append(q, x)) = Len(q) + 1 /\ Len(q) \in Nat
      /\ \A i \in 1 .. Len(q) : Append(q, x)[i] = q[i]
      /\ Append(q, x)[Len(q) + 1] = x
  BY AppendToQueue
<1>2. Len(q) + 1 \in 1 .. Len(Append(q, x))
  BY <1>1
<1>3. \A i \in 1 .. Len(q) : i \in 1 .. Len(Append(q, x))
  BY <1>1
<1> QED BY <1>1, <1>2, <1>3 DEF Has

\* A queue without its oldest entry has all the others.
LEMMA TailHas ==
    ASSUME NEW S, NEW q \in Seq(S), q # << >>, NEW y, y # Head(q), Has(q, y)
    PROVE  Has(Tail(q), y)
<1>1. PICK i \in 1 .. Len(q) : q[i] = y
  BY DEF Has
<1>2. i # 1 /\ Len(Tail(q)) = Len(q) - 1 /\ Len(q) \in Nat
  BY <1>1, TailOfQueue
<1>3. i - 1 \in 1 .. Len(Tail(q)) /\ i - 1 + 1 = i
  BY <1>2
<1>4. Tail(q)[i - 1] = q[i - 1 + 1]
  BY <1>3, TailOfQueue
<1> QED BY <1>1, <1>3, <1>4 DEF Has

\* Steps that change no queue and let no attempt begin to wait.
LEMMA WaitSame ==
    ASSUME CallsWait, UNCHANGED <<handleQ, permQ>>,
           \A a \in Attempts : /\ pc'[a] = "queued" => pc[a] = "queued"
                               /\ pc'[a] = "classifying" => pc[a] = "classifying"
    PROVE  CallsWait'
  BY DEF CallsWait

\* A handler queue changes and at most attempt a moves.
LEMMA WaitHandle ==
    ASSUME CallsWait, NEW k \in Kinds, NEW a \in Attempts, permQ' = permQ,
           \A b \in Attempts \ {a} : /\ pc'[b] = pc[b]
                                     /\ Has(handleQ[k], b) => Has(handleQ'[k], b),
           \A j \in Kinds \ {k} : handleQ'[j] = handleQ[j],
           \/ pc'[a] = "running"
           \/ pc'[a] = "queued" /\ KindOf[a[1]] = k /\ Has(handleQ'[k], a)
    PROVE  CallsWait'
  BY DEF CallsWait

\* The queue of isPermanent changes and at most attempt a moves.
LEMMA WaitPerm ==
    ASSUME CallsWait, NEW a \in Attempts, handleQ' = handleQ,
           \A b \in Attempts \ {a} : /\ pc'[b] = pc[b]
                                     /\ Has(permQ, b) => Has(permQ', b),
           pc'[a] # "queued", pc'[a] = "classifying" => Has(permQ', a)
    PROVE  CallsWait'
  BY DEF CallsWait

LEMMA WaitStart ==
    ASSUME TypeOK, CallsWait, NEW a \in Attempts, StartAttempt(a) PROVE CallsWait'
<1>1. CASE EnqueueCallback(a)
  <2> DEFINE k == KindOf[a[1]]
  <2>1. /\ k \in Kinds /\ handleQ[k] \in Seq(Attempts) /\ permQ' = permQ
        /\ pc'[a] = "queued" /\ \A b \in Attempts \ {a} : pc'[b] = pc[b]
        /\ handleQ'[k] = Append(handleQ[k], a)
        /\ \A j \in Kinds \ {k} : handleQ'[j] = handleQ[j]
    BY <1>1 DEF EnqueueCallback, TypeOK
  <2>2. Has(handleQ'[k], a) /\ \A b : Has(handleQ[k], b) => Has(handleQ'[k], b)
    BY <2>1, AppendHas
  <2> HIDE DEF k
  <2> QED BY <2>1, <2>2, WaitHandle DEF k
<1>2. CASE SkipInternalTimer(a) \/ CallbackRefused(a)
  BY <1>2, WaitSame DEF SkipInternalTimer, CallbackRefused, Verdict, TypeOK
<1> QED BY <1>1, <1>2 DEF StartAttempt

LEMMA WaitDispatch ==
    ASSUME TypeOK, CallsWait, NEW k \in Kinds, DispatchCallback(k) PROVE CallsWait'
<1> DEFINE a == Head(handleQ[k])
<1>1. handleQ[k] \in Seq(Attempts) /\ handleQ[k] # << >>
  BY DEF DispatchCallback, TypeOK
<1>2. a \in Attempts
  BY <1>1, TailOfQueue
<1>3. /\ pc'[a] = "running" /\ \A b \in Attempts \ {a} : pc'[b] = pc[b]
      /\ handleQ'[k] = Tail(handleQ[k]) /\ permQ' = permQ
      /\ \A j \in Kinds \ {k} : handleQ'[j] = handleQ[j]
  BY <1>2 DEF DispatchCallback, TypeOK
<1>4. ASSUME NEW b \in Attempts \ {a}, Has(handleQ[k], b) PROVE Has(handleQ'[k], b)
  BY <1>1, <1>3, <1>4, TailHas
<1> HIDE DEF a
<1> QED BY <1>2, <1>3, <1>4, WaitHandle

LEMMA WaitClassify == ASSUME TypeOK, CallsWait, Classify PROVE CallsWait'
<1>1. permQ \in Seq(Attempts) /\ permQ # << >>
  BY DEF Classify, TypeOK
<1>2. PICK a \in Attempts : a = Head(permQ)
  BY <1>1, TailOfQueue
<1>3. /\ pc'[a] = "ended" /\ \A b \in Attempts \ {a} : pc'[b] = pc[b]
      /\ permQ' = Tail(permQ) /\ handleQ' = handleQ
  BY <1>2 DEF Classify, Verdict, TypeOK
<1>4. ASSUME NEW b \in Attempts \ {a}, Has(permQ, b) PROVE Has(permQ', b)
  BY <1>1, <1>2, <1>3, <1>4, TailHas
<1>5. \A b \in Attempts \ {a} : /\ pc'[b] = pc[b]
                                /\ Has(permQ, b) => Has(permQ', b)
  BY <1>3, <1>4
<1>6. handleQ' = handleQ /\ pc'[a] # "queued" /\ pc'[a] # "classifying"
  BY <1>3
<1> QED BY <1>5, <1>6, WaitPerm

LEMMA WaitResumes ==
    ASSUME TypeOK, CallsWait, NEW a \in Attempts, TaskResumes(a) PROVE CallsWait'
<1>1. CASE permQ' = Append(permQ, a) /\ pc' = [pc EXCEPT ![a] = "classifying"]
  <2>1. permQ \in Seq(Attempts)
    BY DEF TypeOK
  <2>2. Has(permQ', a) /\ \A b : Has(permQ, b) => Has(permQ', b)
    BY <1>1, <2>1, AppendHas
  <2>3. /\ pc'[a] = "classifying" /\ \A b \in Attempts \ {a} : pc'[b] = pc[b]
        /\ handleQ' = handleQ
    BY <1>1 DEF TaskResumes, TypeOK
  <2> QED BY <2>2, <2>3, WaitPerm
<1>2. CASE permQ' = permQ /\ pc' = [pc EXCEPT ![a] = "ended"]
  BY <1>2, WaitSame DEF TaskResumes, TypeOK
<1> QED BY <1>1, <1>2 DEF TaskResumes, Verdict

LEMMA WaitStep == TypeOK /\ CallsWait /\ [Next]_vars => CallsWait'
<1> SUFFICES ASSUME TypeOK, CallsWait, [Next]_vars PROVE CallsWait'
  OBVIOUS
<1>1. CASE \E a \in Attempts : HandlerReturns(a) \/ ResultUnencodable(a) \/ HandlerThrows(a)
  <2>1. PICK a \in Attempts : /\ pc' = [pc EXCEPT ![a] = "settled"]
                              /\ UNCHANGED <<handleQ, permQ>>
    BY <1>1 DEF HandlerReturns, ResultUnencodable, HandlerThrows, Settle
  <2>2. \A b \in Attempts : /\ pc'[b] = "queued" => pc[b] = "queued"
                            /\ pc'[b] = "classifying" => pc[b] = "classifying"
    BY <2>1 DEF TypeOK
  <2> QED BY <2>1, <2>2, WaitSame
<1>2. CASE \E a \in Attempts : RequestCancel(a) \/ OnCancelResolves(a)
  BY <1>2, WaitSame DEF RequestCancel, OnCancelResolves
<1>3. CASE UNCHANGED vars
  BY <1>3, WaitSame DEF vars
<1>4. CASE CloseEnv
  <2>1. \A a \in Attempts : pc'[a] \notin {"queued", "classifying"}
    BY <1>4 DEF CloseEnv
  <2> QED BY <2>1 DEF CallsWait
<1> QED
  BY <1>1, <1>2, <1>3, <1>4, WaitStart, WaitDispatch, WaitResumes, WaitClassify
  DEF Next, Rest

\* A queue in which nothing is twice has as many members as entries.
LEMMA MembersOfQueue ==
    ASSUME NEW S, NEW q \in Seq(S), OncePerQueue(q)
    PROVE  Cardinality({q[i] : i \in 1 .. Len(q)}) = Len(q)
<1> DEFINE M == {q[i] : i \in 1 .. Len(q)}
           f == [i \in 1 .. Len(q) |-> q[i]]
<1>1. Len(q) \in Nat
  OBVIOUS
<1>2. f \in Bijection(1 .. Len(q), M)
  BY DEF OncePerQueue, Bijection, Injection, Surjection, IsInjective
<1>3. ExistsBijection(1 .. Len(q), M)
  BY <1>2 DEF ExistsBijection
<1> QED BY <1>1, <1>3, FS_CountingElements

\* Every queued call belongs to exactly one waiting task and every waiting task
\* has exactly one queued call: no callback is lost or runs twice.
THEOREM NoCallIsLost == Spec => []QueuesMatchTasks
<1>1. Init => CallsWait
  BY DEF Init, CallsWait
<1>2. ASSUME BridgeInv, CallsWait PROVE QueuesMatchTasks
  <2>1. \A k \in Kinds : handleQ[k] \in Seq(Attempts)
    BY <1>2 DEF BridgeInv, TypeOK
  <2>2. permQ \in Seq(Attempts)
    BY <1>2 DEF BridgeInv, TypeOK
  <2>3. ASSUME NEW k \in Kinds
        PROVE  /\ {handleQ[k][i] : i \in 1 .. Len(handleQ[k])} =
                    {a \in Attempts : pc[a] = "queued" /\ KindOf[a[1]] = k}
               /\ Cardinality({handleQ[k][i] : i \in 1 .. Len(handleQ[k])}) =
                    Len(handleQ[k])
    <3>1. /\ OncePerQueue(handleQ[k])
          /\ \A i \in 1 .. Len(handleQ[k]) :
               /\ pc[handleQ[k][i]] = "queued" /\ KindOf[handleQ[k][i][1]] = k
      BY <1>2 DEF BridgeInv, QueueInv
    <3>2. \A i \in 1 .. Len(handleQ[k]) : handleQ[k][i] \in Attempts
      BY <2>1
    <3>3. \A a \in Attempts : pc[a] = "queued" /\ KindOf[a[1]] = k =>
            \E i \in 1 .. Len(handleQ[k]) : handleQ[k][i] = a
      BY <1>2 DEF CallsWait, Has
    <3>4. Cardinality({handleQ[k][i] : i \in 1 .. Len(handleQ[k])}) = Len(handleQ[k])
      BY <2>1, <3>1, MembersOfQueue
    <3> QED BY <3>1, <3>2, <3>3, <3>4
  <2>4. /\ {permQ[i] : i \in 1 .. Len(permQ)} = {a \in Attempts : pc[a] = "classifying"}
        /\ Cardinality({permQ[i] : i \in 1 .. Len(permQ)}) = Len(permQ)
    <3>1. /\ OncePerQueue(permQ)
          /\ \A i \in 1 .. Len(permQ) : pc[permQ[i]] = "classifying"
      BY <1>2 DEF BridgeInv, QueueInv
    <3>2. \A i \in 1 .. Len(permQ) : permQ[i] \in Attempts
      BY <2>2
    <3>3. \A a \in Attempts : pc[a] = "classifying" => \E i \in 1 .. Len(permQ) : permQ[i] = a
      BY <1>2 DEF CallsWait, Has
    <3>4. Cardinality({permQ[i] : i \in 1 .. Len(permQ)}) = Len(permQ)
      BY <2>2, <3>1, MembersOfQueue
    <3> QED BY <3>1, <3>2, <3>3, <3>4
  <2> QED BY <2>3, <2>4 DEF QueuesMatchTasks
<1>3. BridgeInv => TypeOK
  BY DEF BridgeInv
<1> QED BY <1>1, <1>2, <1>3, WaitStep, BridgeInvariant, PTL DEF Spec
=============================================================================
