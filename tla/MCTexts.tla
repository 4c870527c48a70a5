------------------------------ MODULE MCTexts ------------------------------
(***************************************************************************)
(* The texts that the readers are tried on.                                *)
(***************************************************************************)
EXTENDS Texts

\* Members of a message: a key, a value as it is written, and the number it is.
Member(key, value, means) == [key |-> key, value |-> value, means |-> means]
Members ==
  {Member(key, v[1], v[2]) : key \in {"reset", "sw"},
     v \in {<<<<"0">>, "0">>, <<<<"1", "0">>, "1">>, <<<<"-", "1">>, "-1">>, <<<<"1", ".", "0">>, Throws>>,
            <<<<"QUOTE", "1", "QUOTE">>, "1">>, <<<<"QUOTE", "BSL", "n", "QUOTE">>, Throws>>, <<<<"t", "rue">>, Throws>>}}
  \union {Member("other", <<"[", "1", ",", "{", "QUOTE", "sw", "QUOTE", ":", "1", "}", "]">>, Throws)}

KeyA == <<100, 71, 104, 108, 73, 72, 78, 104, 98, 88, 66, 115, 90, 83, 66, 117, 98, 50, 53, 106, 90, 81, 61, 61>>
KeyB == <<120, 51, 74, 74, 72, 77, 98, 68, 76, 49, 69, 122, 76, 107, 104, 57, 71, 66, 104, 88, 68, 119, 61, 61>>

\* The example of RFC 6455, section 1.3, and one of the Wikipedia article on websockets.
PublishedValue ==
  [k \in {KeyA, KeyB} |->
     IF k = KeyA
     THEN <<44, 55, 41, 15, 11, 12, 1, 34, 19, 49, 26, 16, 61, 36, 24, 6, 51, 51, 33, 25, 17, 27, 10, 62, 49, 14, 40, 64>>
     ELSE <<7, 18, 38, 43, 28, 52, 44, 12, 37, 24, 20, 36, 0, 6, 38, 38, 57, 14, 15, 41, 6, 54, 7, 26, 6, 22, 36, 64>>]

PiecesValue ==
  [value |-> {"{", "}", "[", "]", ":", ",", "QUOTE", "1", "SP"},
   object |-> {<<"{">>, <<"}">>, <<",">>, <<"QUOTE", "n", "QUOTE", ":">>, <<"1">>, <<"SP">>},
   number |-> {"0", "1", ".", "-", "+", "e"},
   string |-> {"QUOTE", "BSL", "u", "1"},
   message |-> Members,
   url |-> {"/", "w", "s", "1", "-"},
   query |-> {"a", "?", "#", "&", "=", "%", "+"},
   bytes |-> {0, 1, 129, 190, 255},
   key |-> {KeyA, KeyB},
   instruction |-> 7..31]

LongestValue == [value |-> 5, object |-> 7, number |-> 6, string |-> 8, message |-> 3, url |-> 5, query |-> 5, bytes |-> 5, key |-> 1,
   instruction |-> 2]

RuleSetsValue == {
  <<<<"/", "w", "s">>, <<"/">>>>,
  <<<<"/", "s", "/">>, <<"/", "STRING">>, <<"/", "w", "s">>>>,
  <<<<"/", "INT">>, <<"/", "UINT", "s">>, <<"/", "1", "/", "PATH">>>>,
  <<<<"/", "STRING", "/", "s">>, <<"/", "PATH">>, <<"/", "w", "/", "s">>, <<"/", "w", "/", "w">>>>,
  <<<<"/", "w">>, <<"/", "w", "s", "w">>, <<"/", "w", "s", "/", "s">>, <<"/", "INT", "w", "UINT">>>>}

KindsValue == <<"socket", "page">>
=============================================================================
