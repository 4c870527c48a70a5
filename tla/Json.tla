-------------------------------- MODULE Json --------------------------------
(***************************************************************************)
(* crow::json::load, the recursive descent parser that reads the messages  *)
(* of the page, the look-ups in what it returns, and what the message      *)
(* handler of ustcrv_ws.cpp makes of a message.                            *)
(*                                                                         *)
(* A text is a sequence of symbols: a character, or a piece of a word at   *)
(* which the parser does not branch ("rue" after "t", the name of a key).  *)
(* "1" stands for the digits 1 to 9.  The text ends with the NUL that load *)
(* puts behind it.                                                         *)
(***************************************************************************)
EXTENDS Integers, Sequences

Digits  == {"0", "1"}
Space   == {"SP", "LF"}
Escapes == {"QUOTE", "BSL", "/", "b", "f", "n", "r", "t"}
Hex     == Digits \union {"a", "b", "f", "e"}
Signs   == {"-", "+"}

At(text, i) == IF i \in DOMAIN text THEN text[i] ELSE "NUL"

\* A value: its type, the text it was read from, and its items, each with its key.
Value(type, text, items) == [t |-> type, text |-> text, items |-> items]
NoValue   == Value("Error", <<>>, <<>>)
Failed    == [ok |-> FALSE, pos |-> 0, v |-> NoValue]
Read(p, v) == [ok |-> TRUE, pos |-> p, v |-> v]

WsSkip(text, p) ==
  CHOOSE q \in p..(p + Len(text) + 1) : /\ \A i \in p..(q - 1) : At(text, i) \in Space
                                        /\ At(text, q) \notin Space

(***************************************************************************)
(* Strings.                                                                *)
(***************************************************************************)
RECURSIVE StringFrom(_, _, _)
StringFrom(text, start, p) ==
  LET ch == At(text, p)
      esc == At(text, p + 1)
  IN CASE ch = "QUOTE" -> Read(p + 1, Value("String", SubSeq(text, start, p - 1), <<>>))
       [] ch = "NUL"   -> Failed
       [] ch = "BSL"   ->
            IF esc = "u"
            THEN IF \A i \in 2..5 : At(text, p + i) \in Hex THEN StringFrom(text, start, p + 6) ELSE Failed
            ELSE IF esc \in Escapes THEN StringFrom(text, start, p + 2) ELSE Failed
       [] OTHER -> StringFrom(text, start, p + 1)

DecodeString(text, p) == IF At(text, p) # "QUOTE" THEN Failed ELSE StringFrom(text, p + 1, p + 1)

\* s(): an escape is replaced by the character it stands for; the one given by its number
\* is written as "code" and the digits.
RECURSIVE Unescape(_)
Unescape(s) ==
  IF s = <<>> THEN <<>>
  ELSE IF Head(s) # "BSL" THEN <<Head(s)>> \o Unescape(Tail(s))
  ELSE IF s[2] = "u" THEN <<"code">> \o SubSeq(s, 3, 6) \o Unescape(SubSeq(s, 7, Len(s)))
  ELSE <<(CASE s[2] = "n" -> "LF" [] s[2] \in {"b", "f", "r", "t"} -> "control" [] OTHER -> s[2])>>
         \o Unescape(SubSeq(s, 3, Len(s)))

(***************************************************************************)
(* Numbers: the automaton's tables, by state.                              *)
(***************************************************************************)
NumberStates == <<"Minus", "AfterMinus", "ZeroFirst", "Digits", "DigitsAfterPoints", "E",
                  "DigitsAfterE", "Invalid">>
Row(entries) == [i \in 1..7 |-> NumberStates[entries[i] + 1]]
Table == [c \in Digits \union Signs \union {".", "e"} |->
            CASE c = "0" -> Row(<<2, 2, 7, 3, 4, 6, 6>>)
              [] c = "1" -> Row(<<3, 3, 7, 3, 4, 6, 6>>)
              [] c = "." -> Row(<<7, 7, 4, 4, 7, 7, 7>>)
              [] c = "-" -> Row(<<1, 7, 7, 7, 7, 6, 7>>)
              [] c = "+" -> Row(<<7, 7, 7, 7, 7, 6, 7>>)
              [] c = "e" -> Row(<<7, 7, 7, 5, 5, 7, 7>>)]
NextState(state, ch) == Table[ch][CHOOSE i \in 1..7 : NumberStates[i] = state]

RECURSIVE NumberFrom(_, _, _, _)
NumberFrom(text, start, p, state) ==
  LET ch == At(text, p)
  IN IF state = "Invalid" THEN Failed
     ELSE IF ch \in DOMAIN Table THEN NumberFrom(text, start, p + 1, NextState(state, ch))
     ELSE IF state \in {"ZeroFirst", "Digits", "DigitsAfterPoints", "DigitsAfterE"}
     THEN Read(p, Value("Number", SubSeq(text, start, p - 1), <<>>)) ELSE Failed

DecodeNumber(text, p) == NumberFrom(text, p, p, "Minus")

(***************************************************************************)
(* Lists, objects, values.                                                 *)
(***************************************************************************)
RECURSIVE DecodeValue(_, _), ListFrom(_, _, _), ObjectFrom(_, _, _)

\* Fault: a list may end after a comma.
ListFromComma(text, p, items) ==
  LET v == DecodeValue(text, p)
      q == WsSkip(text, v.pos)
      grown == Append(items, [key |-> <<>>, v |-> v.v])
  IN CASE At(text, p) = "]" -> Read(p + 1, Value("List", <<>>, items))
       [] At(text, p) # "]" /\ ~v.ok -> Failed
       [] At(text, p) # "]" /\ v.ok /\ At(text, q) = "]" -> Read(q + 1, Value("List", <<>>, grown))
       [] At(text, p) # "]" /\ v.ok /\ At(text, q) = "," -> ListFrom(text, WsSkip(text, q + 1), grown)
       [] OTHER -> Failed

ListFrom(text, p, items) ==
  LET v == DecodeValue(text, p)
      q == WsSkip(text, v.pos)
      grown == Append(items, [key |-> <<>>, v |-> v.v])
  IN CASE ~v.ok -> Failed
       [] v.ok /\ At(text, q) = "]" -> Read(q + 1, Value("List", <<>>, grown))
       [] v.ok /\ At(text, q) = "," -> ListFrom(text, WsSkip(text, q + 1), grown)
       [] OTHER -> Failed

DecodeList(text, p) ==
  LET q == WsSkip(text, p + 1)
  IN IF At(text, q) = "]" THEN Read(q + 1, Value("List", <<>>, <<>>)) ELSE ListFrom(text, q, <<>>)

ObjectFrom(text, p, items) ==
  LET k == DecodeString(text, p)
      colon == WsSkip(text, k.pos)
      v == DecodeValue(text, WsSkip(text, colon + 1))
      q == WsSkip(text, v.pos)
      grown == Append(items, [key |-> Unescape(k.v.text), v |-> v.v])
  IN CASE ~k.ok -> Failed
       [] k.ok /\ At(text, colon) # ":" -> Failed
       [] k.ok /\ At(text, colon) = ":" /\ ~v.ok -> Failed
       [] k.ok /\ At(text, colon) = ":" /\ v.ok /\ At(text, q) = "}" ->
            Read(q + 1, Value("Object", <<>>, grown))
       [] k.ok /\ At(text, colon) = ":" /\ v.ok /\ At(text, q) = "," ->
            ObjectFrom(text, WsSkip(text, q + 1), grown)
       [] OTHER -> Failed

DecodeObject(text, p) ==
  LET q == WsSkip(text, p + 1)
  IN IF At(text, q) = "}" THEN Read(q + 1, Value("Object", <<>>, <<>>)) ELSE ObjectFrom(text, q, <<>>)

\* The words, in two pieces: <<first letter, the rest, type>>.
Words3 == {<<"t", "rue", "True">>, <<"f", "alse", "False">>, <<"n", "ull", "Null">>}

DecodeValue(text, p) ==
  LET ch == At(text, p)
  IN CASE ch = "[" -> DecodeList(text, p)
       [] ch = "{" -> DecodeObject(text, p)
       [] ch = "QUOTE" -> DecodeString(text, p)
       [] ch \in {"t", "f", "n"} ->
            IF \E w \in Words3 : w[1] = ch /\ w[2] = At(text, p + 1)
            THEN Read(p + 2, Value((CHOOSE w \in Words3 : w[1] = ch)[3], <<>>, <<>>)) ELSE Failed
       [] OTHER -> DecodeNumber(text, p)

\* parse(): after the value there is only white space.
Load(text) ==
  LET ret == DecodeValue(text, WsSkip(text, 1))
      end == WsSkip(text, ret.pos)
  IN IF ret.ok /\ At(text, end) = "NUL" THEN ret ELSE Failed

(***************************************************************************)
(* Look-ups.  The items are sorted by their keys first; which of two with  *)
(* the same key comes first is not said.                                   *)
(***************************************************************************)
Throws == "throws"

Lookups(v, key) ==
  IF v.t # "Object" THEN {} ELSE {v.items[i].v : i \in {n \in DOMAIN v.items : v.items[n].key = key}}

\* i(): a number or a string that is a whole number; told apart are its sign and whether
\* it is zero.
Whole(v) ==
  LET signed == v.text # <<>> /\ v.text[1] \in Signs
      digits == IF signed THEN Tail(v.text) ELSE v.text
  IN IF v.t \notin {"Number", "String"} \/ digits = <<>> \/ \E i \in DOMAIN digits : digits[i] \notin Digits
     THEN Throws
     ELSE IF \A i \in DOMAIN digits : digits[i] = "0" THEN "0"
     ELSE IF signed /\ v.text[1] = "-" THEN "-1" ELSE "1"

\* Fault: as built without error checks, a key that is missing is a null, here 0.
InputUnchecked(v, key) == IF Lookups(v, key) = {} THEN {"0"} ELSE {Whole(w) : w \in Lookups(v, key)}

\* req["reset"].i() or req["sw"].i()
Input(v, key) == IF Lookups(v, key) = {} THEN {Throws} ELSE {Whole(w) : w \in Lookups(v, key)}

\* What the message handler of ustcrv_ws.cpp may take from a text.
Said(text) ==
  LET req == Load(text)
  IN IF ~req.ok THEN {[parses |-> FALSE, reset |-> Throws, sw |-> Throws]}
     ELSE {[parses |-> TRUE, reset |-> r, sw |-> w] :
             r \in Input(req.v, <<"reset">>), w \in Input(req.v, <<"sw">>)}
=============================================================================
