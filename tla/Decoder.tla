------------------------------ MODULE Decoder ------------------------------
(***************************************************************************)
(* What the other modules take as the constant Decode: the bit patterns of *)
(* Instructions.scala in the order of the table of Control.scala's map,    *)
(* and ImmGen.  A word is a function from the places 31..0 to bits; a      *)
(* slice of it, and a pattern, is written with its highest bit first.      *)
(***************************************************************************)
EXTENDS Integers, Sequences

Slice(word, high, low) == [i \in 1..(high - low + 1) |-> word[high + 1 - i]]

(***************************************************************************)
(* The rows of the control table, by what tells them apart: an opcode and, *)
(* where the pattern has them, the three bits above rd and the upper seven.*)
(***************************************************************************)
Any == <<>>
Plain == <<0, 0, 0, 0, 0, 0, 0>>
Alternate == <<0, 1, 0, 0, 0, 0, 0>>

Pattern(class, opcode, funct3, funct7) ==
  [class |-> class, opcode |-> opcode, funct3 |-> funct3, funct7 |-> funct7,
   alu |-> "ADD", branch |-> "XX", length |-> "X", sign |-> "U"]

Loads    == {<<"B", "S", <<0, 0, 0>>>>, <<"H", "S", <<0, 0, 1>>>>, <<"W", "S", <<0, 1, 0>>>>,
             <<"B", "U", <<1, 0, 0>>>>, <<"H", "U", <<1, 0, 1>>>>}
Stores   == {<<"B", <<0, 0, 0>>>>, <<"H", <<0, 0, 1>>>>, <<"W", <<0, 1, 0>>>>}
Branches == {<<"EQ", <<0, 0, 0>>>>, <<"NE", <<0, 0, 1>>>>, <<"LT", <<1, 0, 0>>>>,
             <<"GE", <<1, 0, 1>>>>, <<"LTU", <<1, 1, 0>>>>, <<"GEU", <<1, 1, 1>>>>}
Shifts   == {<<"SLL", <<0, 0, 1>>, Plain>>, <<"SRL", <<1, 0, 1>>, Plain>>, <<"SRA", <<1, 0, 1>>, Alternate>>}
Others   == {<<"ADD", <<0, 0, 0>>, Plain>>, <<"SLT", <<0, 1, 0>>, Plain>>, <<"SLTU", <<0, 1, 1>>, Plain>>,
             <<"XOR", <<1, 0, 0>>, Plain>>, <<"OR", <<1, 1, 0>>, Plain>>, <<"AND", <<1, 1, 1>>, Plain>>}

Rows ==
  {[Pattern("LOAD", <<0, 0, 0, 0, 0, 1, 1>>, l[3], Any) EXCEPT !.length = l[1], !.sign = l[2]] : l \in Loads}
  \union {[Pattern("STORE", <<0, 1, 0, 0, 0, 1, 1>>, s[2], Any) EXCEPT !.length = s[1]] : s \in Stores}
  \union {[Pattern("BRANCH", <<1, 1, 0, 0, 0, 1, 1>>, b[2], Any) EXCEPT !.branch = b[1]] : b \in Branches}
  \union {[Pattern("OP", <<0, 1, 1, 0, 0, 1, 1>>, o[2], o[3]) EXCEPT !.alu = o[1]] :
            o \in Shifts \union Others \union {<<"SUB", <<0, 0, 0>>, Alternate>>}}
  \union {[Pattern("OPIMM", <<0, 0, 1, 0, 0, 1, 1>>, o[2], o[3]) EXCEPT !.alu = o[1]] : o \in Shifts}
  \union {[Pattern("OPIMM", <<0, 0, 1, 0, 0, 1, 1>>, o[2], Any) EXCEPT !.alu = o[1]] : o \in Others}
  \union {Pattern("LUI", <<0, 1, 1, 0, 1, 1, 1>>, Any, Any), Pattern("AUIPC", <<0, 0, 1, 0, 1, 1, 1>>, Any, Any),
          Pattern("JAL", <<1, 1, 0, 1, 1, 1, 1>>, Any, Any), Pattern("JALR", <<1, 1, 0, 0, 1, 1, 1>>, <<0, 0, 0>>, Any)}

Unknown == Pattern("UNKNOWN", Any, Any, Any)

RowMatches(row, word) ==
  /\ row.opcode = Slice(word, 6, 0)
  /\ row.funct3 \in {Any, Slice(word, 14, 12)}
  /\ row.funct7 \in {Any, Slice(word, 31, 25)}

\* ListLookup; no two rows of the table match one word, so their order does not matter.
RowOf(word) == IF \E row \in Rows : RowMatches(row, word)
               THEN CHOOSE row \in Rows : RowMatches(row, word) ELSE Unknown

(***************************************************************************)
(* ImmGen.                                                                 *)
(***************************************************************************)
\* asSInt, in a word: the highest bit of a slice fills the places above it.
Extended(s) == [i \in 0..31 |-> IF i < Len(s) THEN s[Len(s) - i] ELSE s[1]]

ImmSel(row) == CASE row.class = "STORE"             -> "S"
                 [] row.class = "BRANCH"            -> "B"
                 [] row.class \in {"LUI", "AUIPC"}  -> "U"
                 [] row.class = "JAL"               -> "J"
                 [] OTHER                           -> "I"

\* Fault: the bits of a jump in the order of the word.
ImmGenStraight(word, sel) ==
  LET cut(high, low) == Slice(word, high, low)
  IN Extended(CASE sel = "I" -> cut(31, 20)
              [] sel = "S" -> cut(31, 25) \o cut(11, 7)
              [] sel = "B" -> cut(31, 31) \o cut(7, 7) \o cut(30, 25) \o cut(11, 8) \o <<0>>
              [] sel = "U" -> cut(31, 12) \o [i \in 1..12 |-> 0]
              [] sel = "J" -> cut(31, 31) \o cut(20, 20) \o cut(19, 12) \o cut(30, 25) \o cut(24, 21) \o <<0>>)

ImmGen(word, sel) ==
  LET cut(high, low) == Slice(word, high, low)
  IN Extended(CASE sel = "I" -> cut(31, 20)
              [] sel = "S" -> cut(31, 25) \o cut(11, 7)
              [] sel = "B" -> cut(31, 31) \o cut(7, 7) \o cut(30, 25) \o cut(11, 8) \o <<0>>
              [] sel = "U" -> cut(31, 12) \o [i \in 1..12 |-> 0]
              [] sel = "J" -> cut(31, 31) \o cut(19, 12) \o cut(20, 20) \o cut(30, 25) \o cut(24, 21) \o <<0>>)

\* An instruction as Control has it, with the register fields raw.
Decoded32(word) ==
  LET row == RowOf(word)
  IN [row |-> row, rd |-> Slice(word, 11, 7), rs1 |-> Slice(word, 19, 15),
      rs2 |-> Slice(word, 24, 20), imm |-> ImmGen(word, ImmSel(row))]

(***************************************************************************)
(* What an instruction should decode to.                                   *)
(***************************************************************************)
VARIABLE tried   \* sets of places, among those a pattern leaves free, that hold ones

\* The word of an instruction, with ones where the pattern leaves a place free.
WordOf(row, free) ==
  [p \in 0..31 |-> CASE p < 7 -> row.opcode[7 - p]
                     [] p \in 12..14 /\ row.funct3 # Any -> row.funct3[15 - p]
                     [] p \in 25..31 /\ row.funct7 # Any -> row.funct7[32 - p]
                     [] OTHER -> IF p \in free THEN 1 ELSE 0]

\* The instruction formats of the RISC-V manual: which bit of the immediate each place holds.
Holds(class) ==
  CASE class \in {"OPIMM", "LOAD", "JALR"} -> [p \in 20..31 |-> p - 20]
    [] class = "STORE"  -> [p \in (7..11) \union (25..31) |-> IF p < 12 THEN p - 7 ELSE p - 20]
    [] class = "BRANCH" -> [p \in (7..11) \union (25..31) |->
                              CASE p = 7 -> 11 [] p \in 8..11 -> p - 7 [] p = 31 -> 12 [] OTHER -> p - 20]
    [] class = "JAL"    -> [p \in 12..31 |->
                              CASE p < 20 -> p [] p = 20 -> 11 [] p = 31 -> 20 [] OTHER -> p - 20]
    [] class \in {"LUI", "AUIPC"} -> [p \in 12..31 |-> p]

\* It matches that instruction alone, and its immediate is put together as the manual says, with
\* the sign above it and zeros below.
Decodes(row, free) ==
  LET word == WordOf(row, free)
      imm == Decoded32(word).imm
      bitAt == Holds(row.class)
      held == {bitAt[p] : p \in DOMAIN bitAt}
  IN /\ {r \in Rows : RowMatches(r, word)} = {row}
     /\ row.class # "OP" =>
          /\ \A p \in DOMAIN bitAt : imm[bitAt[p]] = word[p]
          /\ \A k \in (0..31) \ held : imm[k] = IF k > bitAt[31] THEN word[31] ELSE 0

\* The word of every instruction decodes to it, although instructions share opcodes and are
\* told apart by bits that in others belong to the immediate (Instructions.scala, ImmGen.scala).
DecodesAsEncoded == \A row \in Rows, free \in tried : Decodes(row, free)
=============================================================================
