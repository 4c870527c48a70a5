--------------------------- MODULE RequestStream ---------------------------
(***************************************************************************)
(* A peer's requests, rendered as HTTP/1.x and cut anywhere into buffers,  *)
(* read by the server's parser: what Connection::do_read feeds it.  The    *)
(* peer may also depart from its script by a symbol too many or too few.   *)
(***************************************************************************)
EXTENDS HttpParser

CONSTANTS Scripts,     \* sequences of requests (see Render)
          Strays,      \* symbols that may be put in by mistake
          MaxStrays    \* departures from a script, at most

VARIABLES script, rest, sent, strays, word, p

vars == <<script, rest, sent, strays, word, p>>

(***************************************************************************)
(* What a request is and how it is written.                                *)
(***************************************************************************)
CRLF == <<"CR", "LF">>
Line(h)   == h[1] \o <<":">> \o (IF h[2] = <<>> THEN <<>> ELSE <<"SP">>) \o h[2] \o CRLF
Lines(hs) == FlattenSeq([i \in DOMAIN hs |-> Line(hs[i])])
Digit(n)  == CHOOSE d \in Digits : Value[d] = n
Chunk(s)  == <<Digit(Len(s))>> \o CRLF \o s \o CRLF

Body(m) == IF m.chunked
           THEN FlattenSeq([i \in DOMAIN m.body |-> Chunk(m.body[i])])
                  \o <<"0">> \o CRLF \o Lines(m.trailers) \o CRLF
           ELSE FlattenSeq(m.body)

Render(m) == Spelling[m.method] \o <<"SP">> \o m.url \o <<"SP", "H", "TTP", "/", "1", ".", Digit(m.minor)>>
               \o CRLF \o Lines(m.headers) \o CRLF \o Body(m)

(***************************************************************************)
(* What the connection should be told of it.  Two things are lost on the   *)
(* way: a header without a value, unless it is the last; and every trailer *)
(* that no other trailer with a value follows.                             *)
(***************************************************************************)
Kept(hs) == LET keep == {i \in DOMAIN hs : hs[i][2] # <<>> \/ i = Len(hs)}
            IN [i \in 1..Cardinality(keep) |->
                  hs[CHOOSE k \in keep : Cardinality({j \in keep : j <= k}) = i]]

KeptTrailers(ts) == SelectSeq(SubSeq(ts, 1, Len(ts) - 1), LAMBDA h : h[2] # <<>>)

Has(m, h) == \E i \in DOMAIN m.headers : m.headers[i] = h

Upgrades(m) == m.method = "CONNECT" \/ \E i \in DOMAIN m.headers :
                 m.headers[i][1] = <<"u", "pgrade">> /\ m.headers[i][2] # <<>>

Connection(v)      == <<<<"con", "nection">>, v>>
ProxyConnection(v) == <<<<"proxy-", "con", "nection">>, v>>
Asks(m, v) == Has(m, Connection(v)) \/ Has(m, ProxyConnection(v))
IsLast(m) == \/ Upgrades(m)
           \/ IF m.minor > 0 THEN Asks(m, <<"c", "lose">>) ELSE ~Asks(m, <<"k", "eep-alive">>)

Told(m) == [call |-> "message", method |-> m.method, raw_url |-> m.url,
            url |-> UpTo(m.url, "?"), version |-> <<1, m.minor>>,
            headers |-> Kept(m.headers) \o (IF m.chunked THEN KeptTrailers(m.trailers) ELSE <<>>),
            body |-> FlattenSeq(m.body), upgrade |-> Upgrades(m)]

\* Position of the end of the k-th request in the text of the script.
EndOf(s, k) == Len(FlattenSeq([i \in 1..k |-> Render(s[i])]))

Arrived == {k \in DOMAIN script : EndOf(script, k) <= sent /\ \A i \in 1..(k - 1) : ~IsLast(script[i])}

(***************************************************************************)
(* The stream.                                                             *)
(***************************************************************************)
Init == /\ script \in Scripts
        /\ rest = FlattenSeq([i \in DOMAIN script |-> Render(script[i])])
        /\ sent = 0 /\ strays = 0 /\ word = <<>>
        /\ p = Begin(ParserInit)

\* The next symbol reaches the parser.
Feed == /\ rest # <<>> /\ ~p.gone
        /\ p' = Byte(p, Head(rest))
        /\ rest' = Tail(rest)
        /\ sent' = sent + 1
        /\ word' = IF p.state \in {"s_start_req", "s_req_method"} /\ Head(rest) \in Letters \union {"-"}
                   THEN Append(IF p.state = "s_start_req" THEN <<>> ELSE word, Head(rest)) ELSE word
        /\ UNCHANGED <<script, strays>>

\* The buffer ends here, and the rest comes with the next one.
Split == /\ ~p.gone /\ p' = Begin(End(p)) /\ p' # p
         /\ UNCHANGED <<script, rest, sent, strays, word>>

Insert == /\ strays < MaxStrays /\ rest # <<>> /\ ~p.gone
          /\ \E ch \in Strays : rest' = <<ch>> \o rest
          /\ strays' = strays + 1
          /\ UNCHANGED <<script, sent, word, p>>

Drop == /\ strays < MaxStrays /\ rest # <<>> /\ ~p.gone
        /\ rest' = Tail(rest)
        /\ strays' = strays + 1
        /\ UNCHANGED <<script, sent, word, p>>

\* The connection is given up: the call ends and done() is called.
HangUp == /\ strays = 0 /\ p.errno = "OK"
          /\ p' = Eof(End(p)) /\ p' # p
          /\ rest' = <<>>
          /\ UNCHANGED <<script, sent, strays, word>>

Next == Feed \/ Split \/ Insert \/ Drop \/ HangUp

Spec == Init /\ [][Next]_vars

(***************************************************************************)
(* Properties.                                                             *)
(***************************************************************************)
\* Wherever the buffers end, a request is handed to the connection when its last
\* symbol has arrived, once, in order, and with the words it was sent with.
DeliveredAsSent ==
  strays = 0 =>
    SelectSeq(p.calls, LAMBDA c : c.call = "message")
      = [k \in 1..Cardinality(Arrived) |-> Told(script[k])]

\* The asserts of http_parser_execute hold whatever arrives: a connection or an
\* encoding that waits for its value has one, a chunk's size is its first byte
\* counted, and a body that is read has bytes left to read.
AssertsHold ==
  p.errno = "OK" =>
    /\ p.state = "s_header_value" => p.hs \notin {"h_connection", "h_transfer_encoding"}
    /\ p.state = "s_chunk_size_start" => p.nread = 0 /\ "chunked" \in p.flags
    /\ p.state \in {"s_body_identity", "s_chunk_data"} => p.cl \notin {0, MaxLength}
    /\ p.state = "s_chunk_data_almost_done" => p.cl = 0

\* The letters of a method that is accepted spell it.
MethodIsSpelled == p.state = "s_req_spaces_before_url" => word = Spelling[p.method]

\* The number the digits of s spell, whatever else s holds between them.
Number(s) ==
  LET n[i \in 0..Len(s)] == IF i = 0 THEN 0
                            ELSE IF s[i] \in Digits THEN 10 * n[i - 1] + Value[s[i]] ELSE n[i - 1]
  IN n[Len(s)]

\* What has come of the value that is read.
ValueSoFar(q) == (IF q.hbs = 0 THEN q.value ELSE <<>>) \o q.held

\* While a content length is read, the parser's number is the number read so far,
\* in whatever buffers its digits came: it never wraps around.
LengthIsRead ==
  p.state = "s_header_value" /\ p.hs = "h_content_length" /\ p.errno = "OK" =>
    p.cl = Number(ValueSoFar(p))
=============================================================================
