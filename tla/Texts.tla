------------------------------- MODULE Texts -------------------------------
(***************************************************************************)
(* The server's readers and writers of text, and the core's decoder, over  *)
(* texts that are made piece by piece: what each makes of a text is held   *)
(* against a definition of what it should be that says nothing of how it   *)
(* is found.                                                               *)
(***************************************************************************)
EXTENDS Json, Router, Handshake, QueryString, Decoder

CONSTANTS Pieces,     \* by kind of text, the pieces it is made of
          Longest,    \* by kind of text, the pieces it may have
          RuleSets,   \* sequences of paths that a router is built from
          Kinds,      \* the kinds of the rules of the first of them
          Published   \* websocket keys with the answer published for each

VARIABLES kind, text

vars == <<kind, text, tried>>

\* A text of kind "instruction" has places of a word: they have the ones of it, or the others.
Encodings(k, s) == LET ones == {s[i] : i \in DOMAIN s}
                   IN IF k = "instruction" THEN {ones, (7..31) \ ones} ELSE {}

Init == kind \in DOMAIN Pieces /\ text = <<>> /\ tried = Encodings(kind, text)

Next == /\ Len(text) < Longest[kind] /\ \E piece \in Pieces[kind] : text' = Append(text, piece)
        /\ tried' = Encodings(kind, text')
        /\ UNCHANGED kind

Spec == Init /\ [][Next]_vars

Prefix(s, n) == SubSeq(s, 1, n)
After(s, n)  == SubSeq(s, n + 1, Len(s))
RECURSIVE Concat(_)
Concat(ss) == IF ss = <<>> THEN <<>> ELSE Head(ss) \o Concat(Tail(ss))

(***************************************************************************)
(* JSON: the grammar, by the ways a text can be split.                     *)
(***************************************************************************)
Blank(s)   == \A i \in DOMAIN s : s[i] \in Space
Trimmed(s) == LET inner == {i \in DOMAIN s : s[i] \notin Space}
              IN IF inner = {} THEN <<>>
                 ELSE SubSeq(s, CHOOSE i \in inner : \A k \in inner : i <= k,
                                CHOOSE i \in inner : \A k \in inner : i >= k)
Within(s, open, close) == Len(s) >= 2 /\ s[1] = open /\ s[Len(s)] = close
Inner(s) == SubSeq(s, 2, Len(s) - 1)

AllDigits(s) == \A i \in DOMAIN s : s[i] \in Digits
Natural(s)   == AllDigits(s) /\ s # <<>> /\ (s[1] = "0" => Len(s) = 1)

\* A sign may stand alone after the "e", and nothing need follow the point; a lone zero
\* has no exponent.
Mantissa(s) == \/ Natural(s)
               \/ \E n \in 1..(Len(s) - 1) : /\ Natural(Prefix(s, n)) /\ s[n + 1] = "."
                                             /\ AllDigits(After(s, n + 1))
Exponent(s) == s # <<>> /\ s[1] \in Digits \union Signs /\ AllDigits(Tail(s))
Unsigned(s) == \/ Mantissa(s)
               \/ \E n \in 1..(Len(s) - 1) : /\ Mantissa(Prefix(s, n)) /\ Prefix(s, n) # <<"0">>
                                             /\ s[n + 1] = "e" /\ Exponent(After(s, n + 1))
IsNumber(s) == Unsigned(s) \/ (s # <<>> /\ s[1] = "-" /\ Unsigned(Tail(s)))

RECURSIVE IsChars(_), IsValue(_), IsItems(_), IsMembers(_)
IsChars(s) ==
  \/ s = <<>>
  \/ s # <<>> /\ s[1] \notin {"QUOTE", "BSL"} /\ IsChars(Tail(s))
  \/ Len(s) > 1 /\ s[1] = "BSL" /\ s[2] \in Escapes /\ IsChars(After(s, 2))
  \/ Len(s) > 5 /\ s[1] = "BSL" /\ s[2] = "u" /\ (\A i \in 3..6 : s[i] \in Hex) /\ IsChars(After(s, 6))
IsString(s) == Within(s, "QUOTE", "QUOTE") /\ IsChars(Inner(s))

IsValue(s) ==
  \/ IsNumber(s)
  \/ IsString(s)
  \/ \E w \in Words3 : s = <<w[1], w[2]>>
  \/ Within(s, "[", "]") /\ (Blank(Inner(s)) \/ IsItems(Inner(s)))
  \/ Within(s, "{", "}") /\ (Blank(Inner(s)) \/ IsMembers(Inner(s)))

IsItems(s) == \/ IsValue(Trimmed(s))
              \/ \E n \in DOMAIN s : s[n] = "," /\ IsValue(Trimmed(Prefix(s, n - 1))) /\ IsItems(After(s, n))

IsMember(s) == \E n \in DOMAIN s : /\ s[n] = ":" /\ IsString(Trimmed(Prefix(s, n - 1)))
                                   /\ IsValue(Trimmed(After(s, n)))
IsMembers(s) == \/ IsMember(s)
                \/ \E n \in DOMAIN s : s[n] = "," /\ IsMember(Prefix(s, n - 1)) /\ IsMembers(After(s, n))

\* load reads exactly the texts of JSON, and the numbers that the comment at Mantissa adds
\* or leaves out.
JsonAsGrammar ==
  kind \in {"value", "object", "number", "string"} =>
    LET symbols == IF kind = "object" THEN Concat(text) ELSE text
    IN Load(symbols).ok = IsValue(Trimmed(symbols))

(***************************************************************************)
(* Messages: a text of kind "message" is a sequence of members, written    *)
(* with or without white space.                                            *)
(***************************************************************************)
RECURSIVE Written(_, _)
Written(members, sp) ==
  IF members = <<>> THEN <<>>
  ELSE LET m == Head(members)
       IN sp \o <<"QUOTE", m.key, "QUOTE">> \o sp \o <<":">> \o sp \o m.value \o sp
          \o (IF Len(members) > 1 THEN <<",">> ELSE <<>>) \o Written(Tail(members), sp)

Message(members, sp) == sp \o <<"{">> \o Written(members, sp) \o <<"}">> \o sp

Asked(members, key) == {m.means : m \in {members[i] : i \in {n \in DOMAIN members : members[n].key = key}}}

\* The handler takes from a message the reset and the switches that its members give, in
\* whatever order, with whatever else and white space is between them, and throws when one
\* of the two is not there or not a whole number.
SaidAsSent ==
  kind = "message" =>
    \A sp \in {<<>>, <<"SP", "LF">>} : \A said \in Said(Message(text, sp)) :
      /\ said.parses
      /\ said.reset \in IF Asked(text, "reset") = {} THEN {Throws} ELSE Asked(text, "reset")
      /\ said.sw \in IF Asked(text, "sw") = {} THEN {Throws} ELSE Asked(text, "sw")

(***************************************************************************)
(* Routes.                                                                 *)
(***************************************************************************)
\* A parameter takes as much as it can.
Takes(t, s) ==
  LET numeral(n) == \E signed \in {0, 1} : /\ n > signed
                                           /\ signed = 1 => s[1] \in (IF t = "INT" THEN {"+", "-"} ELSE {"+"})
                                           /\ \A i \in (signed + 1)..n : s[i] \in NumberCh
      fits(n) == CASE t \in {"INT", "UINT"} -> numeral(n)
                   [] t = "STRING" -> \A i \in 1..n : s[i] # "/"
                   [] t = "PATH" -> TRUE
  IN {n \in DOMAIN s : fits(n) /\ \A k \in DOMAIN s : fits(k) => k <= n}

RECURSIVE Matches(_, _)
Matches(path, s) ==
  IF path = <<>> THEN s = <<>>
  ELSE IF Head(path) \in Params THEN \E n \in Takes(Head(path), s) : Matches(Tail(path), After(s, n))
  ELSE s # <<>> /\ Head(s) = Head(path) /\ Matches(Tail(path), Tail(s))

\* The rules a URL matches, and the redirection for one without the last "/".
Matching(paths, s) ==
  {i + 1 : i \in {n \in DOMAIN paths : Matches(paths[n], s)}}
  \union {Redirect : i \in {n \in DOMAIN paths : /\ Len(paths[n]) > 1 /\ paths[n][Len(paths[n])] = "/"
                                                 /\ Matches(Prefix(paths[n], Len(paths[n]) - 1), s)}}

\* The merged trie leads every URL to the first rule that it matches, and to none if it
\* matches none.
TrieFindsFirstRule ==
  kind = "url" => \A paths \in RuleSets : Find(Trie(paths), text, 1, 1) = Least(Matching(paths, text))

\* With the two rules of ustcrv_ws.cpp: the page under "/", the socket under "/ws" for an
\* upgrade, and 404 for the rest.
OwnRules == CHOOSE paths \in RuleSets : paths = <<<<"/", "w", "s">>, <<"/">>>>
AnswersAsRouted ==
  kind = "url" =>
    \A method \in {"GET", "POST"}, upgrade \in BOOLEAN :
      Answer(Trie(OwnRules), Kinds, text, method, upgrade) =
        CASE text = <<"/">> /\ method = "GET" /\ ~upgrade          -> 200
          [] text = <<"/", "w", "s">> /\ method = "GET" /\ upgrade -> 101
          [] OTHER -> 404

(***************************************************************************)
(* Query strings.                                                          *)
(***************************************************************************)
RECURSIVE Split(_, _), Decoded(_)
Split(s, sep) ==
  IF \A i \in DOMAIN s : s[i] # sep THEN <<s>>
  ELSE LET n == CHOOSE n \in DOMAIN s : s[n] = sep /\ \A i \in 1..(n - 1) : s[i] # sep
       IN <<Prefix(s, n - 1)>> \o Split(After(s, n), sep)

\* A value ends at a character that separates, or at a "%" without its two digits.
Decoded(s) ==
  CASE s = <<>> \/ s[1] \in {"=", "#"} -> <<>>
    [] s # <<>> /\ s[1] = "+" -> <<"SP">> \o Decoded(Tail(s))
    [] s # <<>> /\ s[1] = "%" -> IF Len(s) > 2 /\ HexDigit(s[2]) /\ HexDigit(s[3]) THEN <<"A">> \o Decoded(After(s, 3)) ELSE <<>>
    [] OTHER -> <<s[1]>> \o Decoded(Tail(s))

Pair(s) ==
  LET ends == {i \in DOMAIN s : s[i] \in {"=", "#"}}
      n == CHOOSE n \in ends : \A i \in ends : n <= i
  IN IF ends = {} THEN s ELSE Prefix(s, n) \o Decoded(After(s, n))

\* The pairs are those between the ampersands, each decoded as if it were alone, although
\* all are decoded in one buffer: up to as many as the array of their starts has places.
\* With the first one more than that, and with any number more, a place behind the array is
\* used.
PairsAsSplit ==
  kind = "query" =>
    LET marks == {i \in DOMAIN text : text[i] \in {"?", "#"}}
        start == CHOOSE n \in marks : \A i \in marks : n <= i
        parts == IF marks = {} THEN <<>> ELSE Split(After(text, start), "&")
    IN IF Len(parts) > MaxPairs THEN QsParse(text).outside
       ELSE QsParse(text) = [outside |-> FALSE, pairs |-> [j \in DOMAIN parts |-> Pair(parts[j])]]

(***************************************************************************)
(* The handshake.                                                          *)
(***************************************************************************)
SixBits(n) == [i \in 1..6 |-> (n \div 2^(6 - i)) % 2]

\* Base64 gives four characters for every three bytes, begun or full, which hold their bits
\* in order, then zeros, and a filler for every character past the last bit.
Encodes(code, bytes) ==
  LET digits == SelectSeq(code, LAMBDA c : c # Filler)
      bits == Concat([i \in DOMAIN bytes |-> Bits(bytes[i], 8)])
      coded == Concat([i \in DOMAIN digits |-> SixBits(digits[i])])
  IN /\ Len(code) = 4 * ((Len(bytes) + 2) \div 3)
     /\ code = digits \o [i \in 1..(Len(code) - Len(digits)) |-> Filler]
     /\ Len(coded) - Len(bits) \in 0..5
     /\ Prefix(coded, Len(bits)) = bits /\ \A i \in (Len(bits) + 1)..Len(coded) : coded[i] = 0

\* The answer to a key is the one published for it, and bytes of any number are encoded.
AnswersTheKey ==
  /\ kind = "key" => \A i \in DOMAIN text : AcceptKey(text[i]) = Published[text[i]]
  /\ kind = "bytes" => Encodes(Base64(text), text)
=============================================================================
