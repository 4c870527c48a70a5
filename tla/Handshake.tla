----------------------------- MODULE Handshake -----------------------------
(***************************************************************************)
(* The answer to a websocket key: the SHA-1 digest of the key followed by  *)
(* a fixed text, in base64 (sha1::SHA1, crow::utility::base64encode and    *)
(* the constructor of websocket::Connection).  A byte is a number, a       *)
(* 32-bit word the sequence of its bits, the highest first.                *)
(***************************************************************************)
EXTENDS Integers, Sequences

(***************************************************************************)
(* Words.                                                                  *)
(***************************************************************************)
Bits(n, width) == [i \in 1..width |-> (n \div 2^(width - i)) % 2]

\* A constant of the code, given by its halves.
Const(high, low) == Bits(high, 16) \o Bits(low, 16)

LeftRotate(w, count) == SubSeq(w, count + 1, 32) \o SubSeq(w, 1, count)

\* Bit by bit: the exclusive or, the majority, and the choice of c or d by b.
Parity(b, c, d)   == [i \in 1..32 |-> (b[i] + c[i] + d[i]) % 2]
Majority(b, c, d) == [i \in 1..32 |-> (b[i] + c[i] + d[i]) \div 2]
Choose(b, c, d)   == [i \in 1..32 |-> IF b[i] = 1 THEN c[i] ELSE d[i]]

\* The sum of words modulo 2^32, from the lowest bit on.
RECURSIVE SumFrom(_, _, _, _)
SumFrom(words, i, carry, done) ==
  IF Len(done) = 32 THEN done
  ELSE LET column == carry + words[1][i] + words[2][i]
       IN SumFrom(words, i - 1, column \div 2, <<column % 2>> \o done)

Plus(x, y) == SumFrom(<<x, y>>, 32, 0, <<>>)

(***************************************************************************)
(* One block of 64 bytes.                                                  *)
(***************************************************************************)
Constants == <<Const(23170, 31129), Const(28377, 60321), Const(36635, 48348), Const(51810, 49622)>>
InitialDigest == <<Const(26437, 8961), Const(61389, 43913), Const(39098, 56574),
                   Const(4146, 21622), Const(50130, 57840)>>

\* The first 16 words are the block's; each later one is made of four before it.
RECURSIVE Schedule(_)
Schedule(w) ==
  LET n == Len(w) + 1
  IN IF n > 80 THEN w
     ELSE Schedule(Append(w, LeftRotate(Parity(Parity(w[n - 3], w[n - 8], w[n - 14]), w[n - 16], Const(0, 0)), 1)))

Round(r, i, word) ==
  LET f == CASE i < 20              -> Choose(r[2], r[3], r[4])
             [] i >= 40 /\ i < 60   -> Majority(r[2], r[3], r[4])
             [] OTHER               -> Parity(r[2], r[3], r[4])
      temp == Plus(LeftRotate(r[1], 5), Plus(f, Plus(r[5], Plus(Constants[i \div 20 + 1], word))))
  IN <<temp, r[1], LeftRotate(r[2], 30), r[3], r[4]>>

RECURSIVE Rounds(_, _, _)
Rounds(r, i, w) ==
  IF i = 80 \/ Len(r) = 0   \* the length has TLC compute a round before the next
  THEN r ELSE Rounds(Round(r, i, w[i + 1]), i + 1, w)

ProcessBlock(digest, block) ==
  LET words == [i \in 1..16 |-> Bits(block[4*i - 3], 8) \o Bits(block[4*i - 2], 8)
                                  \o Bits(block[4*i - 1], 8) \o Bits(block[4*i], 8)]
      r == Rounds(digest, 0, Schedule(words))
  IN [i \in 1..5 |-> Plus(digest[i], r[i])]

(***************************************************************************)
(* The object: the bytes since the last full block, how many there were,   *)
(* the digest so far and how many blocks went into it.                     *)
(***************************************************************************)
Reset == [block |-> <<>>, byteCount |-> 0, digest |-> InitialDigest]

ProcessByte(s, octet) ==
  LET full == Append(s.block, octet)
  IN IF Len(full) = 64
     THEN [s EXCEPT !.block = <<>>, !.byteCount = @ + 1, !.digest = ProcessBlock(@, full)]
     ELSE [s EXCEPT !.block = full, !.byteCount = @ + 1]

RECURSIVE ProcessBytes(_, _), ZerosTo(_, _)
ProcessBytes(s, bytes) ==
  IF bytes = <<>> \/ s.byteCount < 0 THEN s   \* as above, for the bytes
  ELSE ProcessBytes(ProcessByte(s, Head(bytes)), Tail(bytes))
ZerosTo(s, index) == IF Len(s.block) = index THEN s ELSE ZerosTo(ProcessByte(s, 0), index)

\* The padding that getDigest adds: a one, zeros up to the last eight bytes of a block, of
\* which the first four are zero, and the number of bits.
Count(bits) == <<0, 0, 0, 0, bits \div 2^24, (bits \div 2^16) % 256, (bits \div 256) % 256, bits % 256>>
Pad(s) ==
  LET one == ProcessByte(s, 128)
      room == IF Len(one.block) > 56 THEN ZerosTo(one, 0) ELSE one
  IN ZerosTo(room, 56)

\* Fault: the number of bits is taken after the one was added.
GetDigestLate(s) == ProcessBytes(Pad(s), Count(8 * (s.byteCount + 1))).digest

GetDigest(s) == ProcessBytes(Pad(s), Count(8 * s.byteCount)).digest

\* The digest as 20 bytes.
Number(bits) == 128 * bits[1] + 64 * bits[2] + 32 * bits[3] + 16 * bits[4]
                 + 8 * bits[5] + 4 * bits[6] + 2 * bits[7] + bits[8]
GetDigestBytes(s) ==
  LET digest == GetDigest(s)
  IN [i \in 1..20 |-> LET from == 8 * ((i - 1) % 4) IN Number(SubSeq(digest[(i + 3) \div 4], from + 1, from + 8))]

(***************************************************************************)
(* Base64: an index into the alphabet for every six bits; Filler stands    *)
(* for "=".                                                                *)
(***************************************************************************)
Filler == 64

RECURSIVE Base64(_)

Base64(data) ==
  LET first(a)     == a \div 4
      second(a, b) == (a % 4) * 16 + b \div 16
      third(b, c)  == (b % 16) * 4 + c \div 64
  IN CASE Len(data) >= 3 -> <<first(data[1]), second(data[1], data[2]), third(data[2], data[3]), data[3] % 64>>
                            \o Base64(SubSeq(data, 4, Len(data)))
       [] Len(data) = 1  -> <<first(data[1]), second(data[1], 0), Filler, Filler>>
       [] Len(data) = 2  -> <<first(data[1]), second(data[1], data[2]), third(data[2], 0), Filler>>
       [] Len(data) = 0  -> <<>>

\* The fixed text, "258EAFA5-E914-47DA-95CA-C5AB0DC85B11".
Magic == <<50, 53, 56, 69, 65, 70, 65, 53, 45, 69, 57, 49, 52, 45, 52, 55, 68, 65, 45,
           57, 53, 67, 65, 45, 67, 53, 65, 66, 48, 68, 67, 56, 53, 66, 49, 49>>

AcceptKey(key) == Base64(GetDigestBytes(ProcessBytes(Reset, key \o Magic)))
=============================================================================
