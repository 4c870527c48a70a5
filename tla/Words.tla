------------------------------- MODULE Words -------------------------------
(***************************************************************************)
(* The machine word of the processor: every bus, register and port of the  *)
(* design is a UInt(32.W), so an unsigned number that wraps modulo 2^32.   *)
(* The width is a parameter; the checks use narrower words, the proofs     *)
(* hold for every width.                                                   *)
(***************************************************************************)
EXTENDS Integers

CONSTANT W   \* bits per word, 32 in the code

WordMod == 2^W
Word == 0 .. (WordMod - 1)

\* The second conjunct is a fact of arithmetic, stated because the provers
\* know nothing about exponents.
ASSUME WordAssumption ==
  /\ W \in Nat \ {0}
  /\ WordMod \in Nat \ {0}

\* A fault: the carry is kept.
AddWithCarry(a, b) == a + b

Add(a, b) == (a + b) % WordMod
Sub(a, b) == (a - b) % WordMod

\* The two's complement reading of a word (asSInt) and back (asUInt).
Signed(a)   == IF 2 * a < WordMod THEN a ELSE a - WordMod
Unsigned(n) == n % WordMod
=============================================================================
