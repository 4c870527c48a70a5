----------------------------- MODULE MCSimServer -----------------------------
EXTENDS SimServer, TLC

CONSTANTS a, b

Says(r, w)  == [parses |-> TRUE, reset |-> r, sw |-> w]
Part(p, m)  == <<[part |-> p, says |-> m]>>
Whole(op, body) == [op |-> op, fin |-> TRUE, arrives |-> "whole", body |-> body]

Text(m)    == Whole("text", Part("whole", m))
First(m)   == [Whole("text", Part("first", m)) EXCEPT !.fin = FALSE]
Second(m)  == Whole("continuation", Part("second", m))
Bad        == Says(Throws, Throws)
CloseIt    == Whole("close", <<>>)
Ping       == Whole("ping", <<>>)
Cut(f, at) == [f EXCEPT !.arrives = at]

\* What one peer sends alone, and beside a second one that is silent.
Alone ==
  {<<Text(Says(1, 1)), Text(Says(0, 1))>>, <<Text(Says(1, Throws))>>, <<Text(Bad)>>,
   <<First(Says(1, 0)), Second(Says(1, 0))>>, <<Cut(Text(Says(1, 1)), "in_pieces")>>,
   <<Cut(Ping, "header_only")>>, <<Cut(Ping, "to_mask")>>, <<Cut(CloseIt, "unmasked")>>,
   <<Ping>>, <<CloseIt, CloseIt>>}
Beside == {<<>>}

Pair(s, comes) == (a :> [comes |-> TRUE, leaves |-> TRUE, frames |-> s])
               @@ (b :> [comes |-> comes, leaves |-> FALSE, frames |-> <<>>])

ScriptsValue == {Pair(s, FALSE) : s \in Alone} \union {Pair(s, TRUE) : s \in Beside}
=============================================================================
