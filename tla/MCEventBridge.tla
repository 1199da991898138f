--------------------------- MODULE MCEventBridge ---------------------------
(***************************************************************************)
(* Small workloads for EventBridge.                                        *)
(***************************************************************************)
EXTENDS EventBridge, TLC

CONSTANTS e1, e2, e3

\* One key: a message and timers that must take turns; e3 is internal.
SharedKey == e1 :> "k1" @@ e2 :> "k1" @@ e3 :> "k1"
MessageAndTimers == e1 :> "message" @@ e2 :> "timer" @@ e3 :> "internal"

\* Every event has its own key, so all of them may be in flight together.
OwnKeys == e1 :> "k1" @@ e2 :> "k2" @@ e3 :> "k3"
Records == e1 :> "message" @@ e2 :> "message" @@ e3 :> "excise"
=============================================================================
