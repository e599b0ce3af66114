------------------------------- MODULE Binary -------------------------------
(***************************************************************************)
(* Numbers by their bits.                                                  *)
(***************************************************************************)
EXTENDS Integers

\* The powers of two.
TwoTo[n \in Nat] == IF n = 0 THEN 1 ELSE 2 * TwoTo[n - 1]

\* A bit of a number, those below a width that are 1, and the number of that
\* width with given ones.
Bit(x, n)        == (x \div TwoTo[n]) % 2
Bits(x, width)   == {n \in 0 .. width - 1 : Bit(x, n) = 1}
Number(S, width) == CHOOSE x \in 0 .. TwoTo[width] - 1 : Bits(x, width) = S
=============================================================================
