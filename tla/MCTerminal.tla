----------------------------- MODULE MCTerminal -----------------------------
(***************************************************************************)
(* A screen of two lines of two characters, each of two by two pixels, and *)
(* texts that fill it more than once.                                      *)
(***************************************************************************)
EXTENDS Terminal

FontValue == [c \in {"A", "B"} |-> [y \in 0..1 |-> [x \in 0..1 |-> IF (c = "A") = (x = y) THEN 1 ELSE 0]]]

StringsValue == {<<"A", "B", "LF", "high LF", "A">>, <<"B", "A", "A", "LF", "NUL">>}
=============================================================================
