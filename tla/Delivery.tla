------------------------------ MODULE Delivery ------------------------------
(***************************************************************************)
(* What the event bridge promises its consumer framework, whatever the     *)
(* queues, threads and callbacks in between do:                            *)
(*                                                                         *)
(*  - an attempt hands its event to the application handler at most once,  *)
(*    and never while another attempt of the same key is in flight;        *)
(*  - an attempt is reported ok only when the handler returned, and        *)
(*    permanent only when the handler itself threw a permanent error;      *)
(*  - anything else is transient, and only a transient report is followed  *)
(*    by another attempt.                                                  *)
(*                                                                         *)
(* EventBridge implements this specification (EventBridge!Implements).     *)
(***************************************************************************)
EXTENDS Naturals

CONSTANTS Events,      \* the events handed to the consumer
          Attempts,    \* the attempts at them: pairs <<event, number>>
          KeyOf,       \* the Kafka key of each event
          HandlerFree  \* the events that need no application handler

VARIABLES stage,   \* stage[a]: "idle", "inFlight" or "done"
          result,  \* result[a]: what the application handler did
          verdict  \* verdict[a]: what the framework was told

dvars == <<stage, result, verdict>>

\* What an application handler can do with an event.
Results == {"returned", "unencodable", "threwPermanent", "threwTransient"}

\* The reports that are honest about what the handler did.
Honest(e, r) ==
    {"transient"}
      \cup (IF r = "returned" \/ e \in HandlerFree THEN {"ok"} ELSE {})
      \cup (IF r = "threwPermanent" THEN {"permanent"} ELSE {})

Undecided(e) ==
    \A b \in Attempts : b[1] = e => verdict[b] \in {"none", "transient"}

KeyIsFree(e) ==
    \A b \in Attempts : KeyOf[b[1]] = KeyOf[e] => stage[b] # "inFlight"

Init == /\ stage = [a \in Attempts |-> "idle"]
        /\ result = [a \in Attempts |-> "notRun"]
        /\ verdict = [a \in Attempts |-> "none"]

Begin(a) ==
    /\ stage[a] = "idle"
    /\ KeyIsFree(a[1])
    /\ Undecided(a[1])
    /\ stage' = [stage EXCEPT ![a] = "inFlight"]
    /\ UNCHANGED <<result, verdict>>

\* The attempt fails, or needs no handler, before it reaches one.
Refuse(a) ==
    /\ stage[a] = "idle"
    /\ KeyIsFree(a[1])
    /\ Undecided(a[1])
    /\ stage' = [stage EXCEPT ![a] = "done"]
    /\ \E v \in Honest(a[1], "notRun") : verdict' = [verdict EXCEPT ![a] = v]
    /\ UNCHANGED result

Handle(a) ==
    /\ stage[a] = "inFlight"
    /\ result[a] = "notRun"
    /\ \E r \in Results : result' = [result EXCEPT ![a] = r]
    /\ UNCHANGED <<stage, verdict>>

Decide(a) ==
    /\ stage[a] = "inFlight"
    /\ stage' = [stage EXCEPT ![a] = "done"]
    /\ \E v \in Honest(a[1], result[a]) : verdict' = [verdict EXCEPT ![a] = v]
    /\ UNCHANGED result

\* The host can drop every unfinished attempt at once when it stops.
Abandon ==
    \E S \in SUBSET {a \in Attempts : stage[a] = "inFlight"} :
        /\ stage' = [a \in Attempts |-> IF a \in S THEN "done" ELSE stage[a]]
        /\ verdict' = [a \in Attempts |->
                         IF a \in S THEN "transient" ELSE verdict[a]]
        /\ UNCHANGED result

Next == \/ \E a \in Attempts : Begin(a) \/ Refuse(a) \/ Handle(a) \/ Decide(a)
        \/ Abandon

Spec == Init /\ [][Next]_dvars
=============================================================================
