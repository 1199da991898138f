----------------------------- MODULE JsNumbers ------------------------------
(***************************************************************************)
(* The conversion of a JavaScript number into an integer or a duration of  *)
(* the native side (src/src/number.rs).                                    *)
(*                                                                         *)
(* A number is NaN, an infinity or a multiple of one half. The halves      *)
(* stand for every number that is not whole. The integer types are scaled  *)
(* down: only the order of their limits matters.                           *)
(***************************************************************************)
EXTENDS Integers

CONSTANTS MaxOf,       \* the largest value of each integer type
          MaxDuration  \* the longest duration, in half milliseconds

IntTypes == {"u16", "u32", "i64", "usize", "nonZeroUsize"}

ASSUME NumberAssumption ==
    /\ MaxOf \in [IntTypes -> Nat \ {0}] /\ MaxDuration \in Nat
    /\ \A t \in IntTypes : MaxOf[t] <= MaxOf["usize"]

\* An option value: a number, or a text that does or does not parse.
Finite(halves) == [is |-> "finite", halves |-> halves]
Num(n) == Finite(2 * n)
NaN == [is |-> "nan", halves |-> 0]
Infinity == [is |-> "infinite", halves |-> 0]

\* A JavaScript number. The halves of one that is not finite mean nothing.
JsNumber == [is : {"finite", "nan", "infinite"}, halves : Int]

Converted(x) == [ok |-> TRUE, value |-> x]
Rejected == [ok |-> FALSE, value |-> 0]

\* Mutant: a number that is too large wraps around, as a bare cast does.
Wrapped(v, t) ==
    IF v.is = "finite" /\ v.halves \in 0 .. 2 * MaxOf["usize"] + 1 /\ v.halves % 2 = 0
      THEN Converted((v.halves \div 2) % (MaxOf[t] + 1)) ELSE Rejected

\* whole: a whole number in the range of usize that the type can hold.
Whole(v, t) ==
    IF /\ v.is = "finite" /\ v.halves \in 0 .. 2 * MaxOf["usize"] + 1
       /\ v.halves % 2 = 0
       /\ v.halves \div 2 <= MaxOf[t]
       /\ t = "nonZeroUsize" => v.halves # 0
      THEN Converted(v.halves \div 2) ELSE Rejected

\* Duration::try_from_secs_f64 of so many half milliseconds.
Duration(v, halves) ==
    IF v.is = "finite" /\ halves \in 0 .. MaxDuration
      THEN Converted(halves) ELSE Rejected

Seconds(v) == Duration(v, 1000 * v.halves)
Milliseconds(v) == Duration(v, v.halves)
=============================================================================
