------------------------------ MODULE Program ------------------------------
(***************************************************************************)
(* The test program of c-tools: main of prog.c with square, memcpy and     *)
(* putchar of std.c, and the multiplication of helper.c that square is     *)
(* compiled to.  The program is a record m; every operator gives the       *)
(* record after a step.  An int is Width bytes, the lowest first, of which *)
(* each is a number below ByteMod.                                         *)
(***************************************************************************)
EXTENDS Integers, Sequences

CONSTANTS Elements,         \* of the arrays, 20 in the code
          Width, ByteMod    \* 4 and 256 in the code

IntMod == ByteMod^Width

\* An int holds every index of an array.  That powers are numbers above zero is said here
\* for the provers, which know no exponentiation.
ASSUME ProgramAssumption ==
  /\ Elements \in Nat /\ Width \in Nat \ {0} /\ ByteMod \in Nat \ {0, 1}
  /\ \A b \in 0..Width : ByteMod^b \in Nat \ {0}
  /\ Elements < IntMod

Bytes(n) == [b \in 1..Width |-> (n \div ByteMod^(b - 1)) % ByteMod]
Zeros == [b \in 1..(Elements * Width) |-> 0]

Start(success) == [pc |-> "square", i |-> 0, x |-> Zeros, array |-> Zeros, chars |-> success,
                   mulx |-> 0, muly |-> 0, ans |-> 0]

\* square(i) calls __mulsi3, whose x, y and ans are mulx, muly and ans.
Square(m) ==
  IF m.i = Elements THEN [m EXCEPT !.pc = "copy", !.i = 0]
  ELSE [m EXCEPT !.pc = "multiply", !.mulx = m.i, !.muly = m.i, !.ans = 0]

\* x[i] = square(i)
Assign(x, i, product) ==
  [b \in DOMAIN x |-> IF (b - 1) \div Width = i THEN Bytes(product)[((b - 1) % Width) + 1] ELSE x[b]]

\* Fault: the loop ends before the last bit of x is looked at.
MultiplyShort(m) ==
  IF m.mulx \div 2 = 0 THEN [m EXCEPT !.pc = "square", !.i = @ + 1, !.x = Assign(@, m.i, m.ans)]
  ELSE [m EXCEPT !.mulx = @ \div 2, !.muly = (2 * @) % IntMod,
                 !.ans = IF m.mulx % 2 = 1 THEN (@ + m.muly) % IntMod ELSE @]

\* A round of the loop of __mulsi3.
Multiply(m) ==
  LET sum == IF m.mulx % 2 = 1 THEN (m.ans + m.muly) % IntMod ELSE m.ans
  IN IF m.mulx \div 2 = 0 THEN [m EXCEPT !.pc = "square", !.i = @ + 1, !.x = Assign(@, m.i, sum)]
     ELSE [m EXCEPT !.mulx = @ \div 2, !.muly = (2 * @) % IntMod, !.ans = sum]

\* memcpy: n bytes, each read and written.
Copy(m) ==
  IF m.i = Elements * Width THEN [m EXCEPT !.pc = "print", !.i = 0]
  ELSE [m EXCEPT !.i = @ + 1, !.array[m.i + 1] = m.x[m.i + 1]]

\* The loop over success, its final NUL included.
Prints(m) == m.pc = "print" /\ m.i < Len(m.chars)
PutChar(m) == [m EXCEPT !.i = @ + 1]
Next1(m) == m.chars[m.i + 1]
=============================================================================
