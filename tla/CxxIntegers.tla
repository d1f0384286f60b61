----------------------------- MODULE CxxIntegers -----------------------------
(* Division and remainder of C++, towards zero. *)
EXTENDS Integers

Quot(a, b) == IF a < 0 THEN -((-a) \div b) ELSE a \div b
Rem(a, b)  == a - b * Quot(a, b)
AbsOf(a)   == IF a < 0 THEN -a ELSE a
=============================================================================
