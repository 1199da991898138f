-------------------------- MODULE MCAbortableCall ---------------------------
(***************************************************************************)
(* Calls that share one signal, beside a call that has none.               *)
(***************************************************************************)
EXTENDS AbortableCall

CONSTANTS c1, c2, c3
=============================================================================
