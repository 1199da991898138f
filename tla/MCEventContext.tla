--------------------------- MODULE MCEventContext ---------------------------
(***************************************************************************)
(* A collection of every class with an item that cannot be read, and a few *)
(* requests that together use every method.                                *)
(***************************************************************************)
EXTENDS EventContext, TLC

CONSTANTS c1, c2, c3, k1, k2, t1, h1, t2, s1, s2

MCCollections == {"value", "messageValue", "map", "messageMap", "members"}

MCClass == [value |-> <<"value", "json">>, messageValue |-> <<"value", "message">>,
            map |-> <<"map", "json">>, messageMap |-> <<"map", "message">>,
            members |-> <<"set", "none">>]

MCStart == [col \in MCCollections |->
              [k \in {k1, k2} |-> IF k = k1 THEN s1
                                  ELSE IF col \in {"map", "messageMap"} THEN s2 ELSE None]]

\* h1 is half a second off t1.
MCSecond == (t1 :> t1) @@ (h1 :> t1) @@ (t2 :> t2)

Asks(col, m, args) == [on |-> col, method |-> m, args |-> args]

MCRequests ==
    {Asks("map", "set", <<k2>>), Asks("map", "getMany", <<k2, k1, k2>>),
     Asks("map", "delete", <<k2>>), Asks("map", "commit", << >>),
     Asks("map", "rollback", << >>),
     Asks("value", "set", <<k1>>), Asks("value", "get", <<k1>>),
     Asks("messageValue", "clear", << >>),
     Asks("messageMap", "getMany", <<k1, k2>>),
     Asks("members", "add", <<k2>>), Asks("members", "hasMany", <<k1, k2>>),
     Asks("members", "clear", << >>), Asks("members", "isEmpty", << >>),
     Asks("timers", "schedule", <<h1>>), Asks("timers", "clearAndSchedule", <<h1>>),
     Asks("timers", "clearAndSchedule", <<t2>>), Asks("timers", "unschedule", <<t1>>),
     Asks("timers", "clearScheduled", << >>), Asks("timers", "scheduled", << >>)}

Alike == Permutations(Calls)
=============================================================================
