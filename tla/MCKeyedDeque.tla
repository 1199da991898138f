---------------------------- MODULE MCKeyedDeque ----------------------------
(***************************************************************************)
(* A backlog of two items, one of which cannot be read, under a few calls. *)
(***************************************************************************)
EXTENDS KeyedDeque, TLC

CONSTANTS c1, c2, c3, s1, s2

Backlog == <<s1, s2>>

\* From the back, from the front, one that takes two reads, and one past every
\* position.
FewIndexes == {-2, -1, 0, 4}

Alike == Permutations(Calls)
=============================================================================
