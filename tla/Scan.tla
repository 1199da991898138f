-------------------------------- MODULE Scan --------------------------------
(***************************************************************************)
(* What an iterator over a state collection promises its caller: calls are *)
(* answered one at a time in the order they were made, the items of the    *)
(* scan come in order, each once and none left out, and the first answer   *)
(* that is not an item is the last that depends on the scan.               *)
(***************************************************************************)
EXTENDS Naturals, Sequences

CONSTANT ItemCount   \* the scan selects the items 1 .. ItemCount

VARIABLES requests,  \* calls not answered yet: "next", "return", "throw"
          replies,   \* the answers given so far
          delivered, \* how many items were answered
          ended      \* whether the scan is over

svars == <<requests, replies, delivered, ended>>

Item(n) == [is |-> "item", n |-> n]
Other(what) == [is |-> what, n |-> 0]

Init == requests = << >> /\ replies = << >> /\ delivered = 0 /\ ended = FALSE

Ask == /\ \E r \in {"next", "return", "throw"} : requests' = Append(requests, r)
       /\ UNCHANGED <<replies, delivered, ended>>

Answer(reply) == /\ requests # << >>
                 /\ requests' = Tail(requests)
                 /\ replies' = Append(replies, reply)

Give == /\ ~ended /\ Head(requests) = "next" /\ delivered < ItemCount
        /\ Answer(Item(delivered + 1))
        /\ delivered' = delivered + 1
        /\ UNCHANGED ended

\* How a scan can end, by the call that ends it.
Endings(r) ==
    {"closeError"} \cup
    CASE r = "next" -> {"pullError", "decodeError"}
                         \cup (IF delivered = ItemCount THEN {"done"} ELSE {})
      [] r = "return" -> {"done"}
      [] OTHER -> {"thrown"}

End == /\ ~ended /\ requests # << >>
       /\ \E what \in Endings(Head(requests)) : Answer(Other(what))
       /\ ended' = TRUE
       /\ UNCHANGED delivered

\* A finished scan has nothing more to say.
AfterEnd == /\ ended
            /\ Answer(Other(IF Head(requests) = "throw" THEN "thrown"
                                                        ELSE "done"))
            /\ UNCHANGED <<delivered, ended>>

Next == Ask \/ Give \/ End \/ AfterEnd

Spec == Init /\ [][Next]_svars
=============================================================================
