----------------------------- MODULE QueryString -----------------------------
(***************************************************************************)
(* crow::query_string: the pairs of a request's URL, of which each is      *)
(* decoded in place, in the one buffer that holds them all.  A text is a   *)
(* sequence of characters; NUL ends it, and a read past its end is a NUL.  *)
(***************************************************************************)
EXTENDS Integers, Sequences

CONSTANT MaxPairs   \* MAX_KEY_VALUE_PAIRS_COUNT

ASSUME PairsAssumption == MaxPairs \in Nat \ {0}

HexDigit(c) == c \in {"1", "a"}
IsQsChr(c)  == c \notin {"=", "#", "&", "NUL"}
Char(qs, i) == IF i \in DOMAIN qs THEN qs[i] ELSE "NUL"

\* strcspn: the first place from p on that holds one of the characters, or the end.
First(qs, p, chars) ==
  CHOOSE q \in p..(p + Len(qs)) : /\ Char(qs, q) \in chars \union {"NUL"}
                                  /\ \A i \in p..(q - 1) : Char(qs, i) \notin chars \union {"NUL"}

RECURSIVE DecodeFrom(_, _, _), Starts(_, _), DecodeAll(_, _, _)

\* qs_decode: from place j to the earlier place i; "A" is the character of number 11, aa,
\* 1a and a1.
DecodeFrom(qs, i, j) ==
  LET put(c, n) == DecodeFrom([qs EXCEPT ![i] = c], i + 1, j + n)
      c == Char(qs, j)
      end == IF i \in DOMAIN qs THEN [qs EXCEPT ![i] = "NUL"] ELSE qs
  IN CASE ~IsQsChr(c) -> end
       [] c = "+" -> put("SP", 1)
       [] c = "%" -> IF HexDigit(Char(qs, j + 1)) /\ HexDigit(Char(qs, j + 2)) THEN put("A", 3) ELSE end
       [] OTHER -> put(c, 1)

\* Where the pairs start: after the first "?" or "#", and after every "&".
Starts(qs, p) ==
  LET amp == First(qs, p, {"&"})
  IN IF Char(qs, amp) = "NUL" THEN <<p>> ELSE <<p>> \o Starts(qs, amp + 1)

\* Fault: a pair without a value is decoded as well.
DecodeAllBlank(qs, starts, j) ==
  IF j > Len(starts) THEN qs
  ELSE LET at == First(qs, starts[j], {"=", "&", "#"})
       IN DecodeAll(DecodeFrom(qs, at + 1, at + 1), starts, j + 1)

DecodeAll(qs, starts, j) ==
  IF j > Len(starts) THEN qs
  ELSE LET at == First(qs, starts[j], {"=", "&", "#"})
       IN DecodeAll(IF Char(qs, at) \notin {"&", "NUL"} THEN DecodeFrom(qs, at + 1, at + 1)
                    ELSE IF at \in DOMAIN qs THEN [qs EXCEPT ![at] = "NUL"] ELSE qs, starts, j + 1)

\* What i is after the loop over the ampersands, which stops when the array is full, and
\* one more: the pairs to be decoded, and what qs_parse returns.
PairCount(starts) == (IF Len(starts) - 1 < MaxPairs THEN Len(starts) - 1 ELSE MaxPairs) + 1

\* qs_parse: the texts of the pairs, by the array of their starts.  When the count is more
\* than the array has places, the loop that decodes takes for a start what lies behind the
\* array; nothing is known of what comes of that, and of the pairs.
QsParse(qs) ==
  LET query == First(qs, 1, {"?", "#"})
      starts == Starts(qs, query + 1)
      done == DecodeAll(qs, starts, 1)
      outside == PairCount(starts) > MaxPairs
  IN IF query \notin DOMAIN qs THEN [outside |-> FALSE, pairs |-> <<>>]
     ELSE [outside |-> outside,
           pairs |-> IF outside THEN <<>>
                     ELSE [j \in 1..PairCount(starts) |->
                             SubSeq(done, starts[j], First(done, starts[j], {}) - 1)]]

\* url: what comes before the first "?".
Url(raw) == SubSeq(raw, 1, First(raw, 1, {"?"}) - 1)
=============================================================================
