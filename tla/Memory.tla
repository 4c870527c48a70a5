------------------------------- MODULE Memory -------------------------------
(***************************************************************************)
(* The address and byte logic of the two memories (Memory.scala).  The     *)
(* instruction memory is an array of words; the data memory an array of    *)
(* cells of four bytes that can be written separately.                     *)
(*                                                                         *)
(* An address selects a cell by what is left of it after the shift, cut to *)
(* the width of the array's index: the memories repeat themselves          *)
(* throughout the address space.                                           *)
(***************************************************************************)
EXTENDS Control

CONSTANTS
  IMemWords, DMemWords,   \* the sizes of the arrays, powers of two
  DMemBase                \* the address of the first byte of data memory

ByteMod == 2^(W \div 4)   \* W = 32 in the code, hence bytes
Byte == 0 .. (ByteMod - 1)
Cell == [0 .. 3 -> Byte]

ASSUME MemoryAssumption ==
  /\ IMemWords \in Nat \ {0} /\ DMemWords \in Nat \ {0}
  /\ DMemBase \in Word
  /\ ByteMod \in Nat \ {0} /\ ByteMod * ByteMod * ByteMod * ByteMod = WordMod

IMem == [0 .. (IMemWords - 1) -> Word]
DMem == [0 .. (DMemWords - 1) -> Cell]

-----------------------------------------------------------------------------

IIndex(addr) == (addr \div 4) % IMemWords
DIndex(addr) == (Sub(addr, DMemBase) \div 4) % DMemWords

Subword(addr) == Sub(addr, DMemBase) % 4

\* ByteMod to the k.
Place(k) == CASE k = 0 -> 1
              [] k = 1 -> ByteMod
              [] k = 2 -> ByteMod * ByteMod
              [] k = 3 -> ByteMod * ByteMod * ByteMod

ToCell(w) == [k \in 0 .. 3 |-> (w \div Place(k)) % ByteMod]
ToWord(c) == c[0] + ByteMod * (c[1] + ByteMod * (c[2] + ByteMod * c[3]))

\* 1 << subword, or bits 7..4 of 0x33 << subword: a half word at an odd
\* address takes two adjacent bytes of the cell, the last and the first
\* when it starts at the last.
WriteMask(length, s) ==
  CASE length = "B" -> {s}
    [] length = "H" -> {s, (s + 1) % 4}
    [] OTHER        -> 0 .. 3

\* What is offered to each byte of the cell, whether or not the mask is set.
Lanes(length, w) ==
  CASE length = "B" -> [k \in 0 .. 3 |-> ToCell(w)[0]]
    [] length = "H" -> [k \in 0 .. 3 |-> ToCell(w)[k % 2]]
    [] OTHER        -> ToCell(w)

DMemWrite(mem, addr, length, w) ==
  [mem EXCEPT ![DIndex(addr)] =
     [k \in 0 .. 3 |-> IF k \in WriteMask(length, Subword(addr))
                       THEN Lanes(length, w)[k] ELSE @[k]]]

\* The low n bits of the result, extended to a word by their sign.
Extend(sign, n, mod) ==
  IF sign = "S" /\ 2 * n >= mod THEN Unsigned(n - mod) ELSE n

\* A whole word is read as it is, whatever the low bits of the address.
DMemRead(mem, addr, length, sign) ==
  LET c == mem[DIndex(addr)]
      s == Subword(addr)
  IN CASE length = "B" -> Extend(sign, c[s], ByteMod)
       [] length = "H" -> Extend(sign, c[s] + ByteMod * c[(s + 1) % 4],
                                 ByteMod * ByteMod)
       [] OTHER        -> ToWord(c)
=============================================================================
