------------------------- MODULE MCHttpConnections -------------------------
EXTENDS HttpConnections, TLC

CONSTANTS c1, c2

Req(r) == [route |-> r, expect |-> FALSE, close |-> FALSE, last |-> FALSE]
Closing(r) == [Req(r) EXCEPT !.close = TRUE, !.last = TRUE]

\* What the first peer sends alone, and beside a second one that connects and stays
\* silent.
Alone ==
  {<<Req("page"), Req("missing")>>, <<Req("missing"), Req("page")>>,
   <<Req("nohost"), Req("page")>>, <<Req("page"), Closing("page")>>,
   <<Closing("page"), Req("page")>>, <<[Req("page") EXCEPT !.last = TRUE], Req("page")>>,
   <<[Req("page") EXCEPT !.expect = TRUE]>>, <<[Closing("missing") EXCEPT !.expect = TRUE]>>,
   <<Req("page"), Req("ws")>>, <<Req("nows")>>}
Beside == {<<Req("page"), Req("missing")>>, <<Closing("page")>>}

Peers2(s, w, comes) == (c1 :> [comes |-> TRUE, requests |-> s, waits |-> w])
                    @@ (c2 :> [comes |-> comes, requests |-> <<>>, waits |-> TRUE])

ScriptsValue == {Peers2(s, w, FALSE) : s \in Alone, w \in BOOLEAN}
                  \union {Peers2(s, w, TRUE) : s \in Beside, w \in BOOLEAN}
=============================================================================
