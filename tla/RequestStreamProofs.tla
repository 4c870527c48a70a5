------------------------ MODULE RequestStreamProofs ------------------------
(***************************************************************************)
(* Proofs about the HTTP parser, for every script and every departure from *)
(* it, cut into buffers anywhere, and for every limit: the assertions in   *)
(* http_parser_execute hold, a method that is accepted is spelled as it    *)
(* was sent, and a content length is the number its digits spell.          *)
(*                                                                         *)
(* Symbols are not restricted at all: what the proofs say of the automaton *)
(* holds whatever arrives.                                                 *)
(***************************************************************************)
EXTENDS RequestStream, SequenceTheorems, WellFoundedInduction, TLAPS

-----------------------------------------------------------------------------
(***************************************************************************)
(* The invariant.  Of the parser's record only the automaton's own fields  *)
(* matter; what the callbacks collect is left open.                        *)
(***************************************************************************)
Fields == {"state", "hs", "flags", "cl", "nread", "index", "method", "major", "minor", "errno",
           "upgrade", "raw_url", "hbs", "field", "value", "headers", "body", "calls", "mark",
           "held", "gone"}

LineStates == {"s_req_http_start", "s_req_http_H", "s_req_http_HTTP", "s_req_first_http_major",
               "s_req_http_major", "s_req_first_http_minor", "s_req_http_minor",
               "s_req_line_almost_done"}
HeaderStates == {"s_header_field_start", "s_header_field", "s_header_value_discard_ws",
                 "s_header_value", "s_header_almost_done", "s_header_value_lws",
                 "s_header_value_discard_ws_almost_done", "s_header_value_discard_lws",
                 "s_headers_almost_done"}
SizeStates  == {"s_chunk_size", "s_chunk_parameters", "s_chunk_size_almost_done"}
ChunkStates == SizeStates \union {"s_chunk_size_start", "s_chunk_data", "s_chunk_data_almost_done",
                                  "s_chunk_data_done"}
States == {"s_dead", "s_start_req", "s_req_method", "s_req_spaces_before_url", "s_body_identity"}
            \union UrlStates \union LineStates \union HeaderStates \union ChunkStates

\* What a value that is being read may be.
ValueGuesses == {"h_general", "h_content_length", "h_matching_transfer_encoding_chunked",
                 "h_matching_connection_keep_alive", "h_matching_connection_close",
                 "h_transfer_encoding_chunked", "h_connection_keep_alive", "h_connection_close"}

\* What holds in any state, also in those the automaton only passes through.
Counts(q) ==
  /\ DOMAIN q = Fields
  /\ q.cl \in 0 .. MaxLength /\ q.nread \in Nat
  /\ q.gone \/ q.errno = "OK"
  /\ q.errno = "OK" => q.nread <= MaxHeader

\* What holds while a symbol is dispatched, when it has been counted.
Sound(q) ==
  /\ Counts(q)
  /\ q.errno = "OK" =>
       /\ q.state \in States
       /\ q.state = "s_header_value" => q.hs \in ValueGuesses
       /\ q.state \in ChunkStates => "chunked" \in q.flags
       /\ q.state \in SizeStates => q.cl # MaxLength
       /\ q.state \in {"s_body_identity", "s_chunk_data"} => q.cl \notin {0, MaxLength}
       /\ q.state = "s_chunk_data_almost_done" => q.cl = 0

\* What holds between two symbols.
Rests(q) == Sound(q) /\ (q.errno = "OK" /\ q.state = "s_chunk_size_start" => q.nread = 0)

\* The letters read so far are those of the method guessed so far.
Spells(q, w) ==
  /\ q.method \in Methods
  /\ q.errno = "OK" /\ q.state = "s_req_method" =>
       /\ w \in Seq(Letters \union {"-"}) /\ Len(w) = q.index
       /\ q.index \in 1 .. Len(Spelling[q.method])
       /\ \A i \in 1 .. q.index : w[i] = Spelling[q.method][i]
  /\ q.state = "s_req_spaces_before_url" => w = Spelling[q.method]

ParserInv == Rests(p) /\ Spells(p, word)

\* A symbol behind the method takes q to r.
Goes(q, r) ==
  /\ Rests(r)
  /\ r.method = q.method /\ r.state # "s_req_method"
  /\ r.state = "s_req_spaces_before_url" => q.state = "s_req_spaces_before_url"

-----------------------------------------------------------------------------
(***************************************************************************)
(* The callbacks leave the automaton alone.                                *)
(***************************************************************************)
Same(q, r) ==
  /\ DOMAIN r = Fields
  /\ r.state = q.state /\ r.hs = q.hs /\ r.flags = q.flags /\ r.cl = q.cl /\ r.nread = q.nread
  /\ r.index = q.index /\ r.method = q.method /\ r.errno = q.errno /\ r.gone = q.gone
  /\ r.upgrade = q.upgrade

LEMMA CallbacksSame ==
  ASSUME NEW q, DOMAIN q = Fields
  PROVE  /\ Same(q, OnMessageBegin(q)) /\ Same(q, OnHeadersComplete(q))
         /\ Same(q, OnMessageComplete(q)) /\ Same(q, Data(q))
         /\ \A m : Same(q, Mark(q, m))
<1>1. Same(q, OnMessageBegin(q)) /\ Same(q, OnMessageComplete(q))
  BY DEF OnMessageBegin, OnMessageComplete, Same, Fields
<1>2. \A m : Same(q, Mark(q, m))
  BY DEF Mark, Same, Fields
<1>3. Same(q, OnHeadersComplete(q))
  <2> DEFINE r == IF q.field # <<>>
                  THEN [q EXCEPT !.headers = Append(@, <<q.field, q.value>>), !.field = <<>>, !.value = <<>>]
                  ELSE q
  <2>1. Same(q, r)
    BY DEF Same, Fields
  <2>2. Same(r, OnHeadersComplete(q))
    <3> HIDE DEF r
    <3>1. \A c : Same(r, [r EXCEPT !.calls = Append(@, c)])
      BY <2>1 DEF Same, Fields
    <3> QED
      BY <3>1 DEF OnHeadersComplete, r
  <2> QED
    BY <2>1, <2>2 DEF Same
<1>4. Same(q, Data(q))
  <2>1. \A s : Same(q, OnHeaderField(q, s)) /\ Same(q, OnHeaderValue(q, s))
    BY DEF OnHeaderField, OnHeaderValue, Same, Fields
  <2> DEFINE r == CASE q.mark = "url" -> [q EXCEPT !.raw_url = @ \o q.held]
                    [] q.mark = "header_field" -> OnHeaderField(q, q.held)
                    [] q.mark = "header_value" -> OnHeaderValue(q, q.held)
                    [] q.mark = "body" -> [q EXCEPT !.body = @ \o q.held]
                    [] OTHER -> q
  <2>2. Same(q, r)
    <3>1. Same(q, [q EXCEPT !.raw_url = @ \o q.held]) /\ Same(q, [q EXCEPT !.body = @ \o q.held])
          /\ Same(q, q)
      BY DEF Same, Fields
    <3> QED
      BY <2>1, <3>1
  <2>3. Same(r, [r EXCEPT !.mark = "none", !.held = <<>>])
    <3> HIDE DEF r
    <3> QED
      BY <2>2 DEF Same, Fields
  <2>4. Data(q) = [r EXCEPT !.mark = "none", !.held = <<>>]
    BY DEF Data
  <2> QED
    BY <2>2, <2>3, <2>4 DEF Same
<1> QED
  BY <1>1, <1>2, <1>3, <1>4

\* So what is sound or rests stays so.
LEMMA SameRests ==
  ASSUME NEW q, NEW r, Same(q, r)
  PROVE  /\ Sound(q) => Sound(r)
         /\ Rests(q) => Rests(r)
BY DEF Same, Counts, Sound, Rests

\* An error leaves nothing to say.
LEMMA FailGoes ==
  ASSUME NEW q, Sound(q), NEW e, e # "OK"
  PROVE  /\ Rests(Fail(q, e)) /\ Fail(q, e).state = q.state /\ Fail(q, e).method = q.method
         /\ Fail(q, e).errno # "OK"
BY DEF Fail, Counts, Sound, Rests, Fields

-----------------------------------------------------------------------------
(***************************************************************************)
(* Numbers.                                                                *)
(***************************************************************************)
LEMMA DigitValues ==
  /\ \A d \in Digits : Value[d] \in 0 .. 9
  /\ \A d \in DOMAIN Unhex : Unhex[d] \in 0 .. 15
<1>1. \A d \in Digits : Value[d] \in 0 .. 9
  BY DEF Digits, Value
<1>2. \A d \in DOMAIN Unhex : Unhex[d] \in 0 .. 15
  BY <1>1 DEF Unhex
<1> QED
  BY <1>1, <1>2

(***************************************************************************)
(* A length that takes another digit is exactly ten or sixteen times what  *)
(* it was and the digit, and below the largest number of its type, or the  *)
(* request is refused: the test before the product is enough, for every    *)
(* limit.                                                                  *)
(***************************************************************************)
THEOREM LengthsNeverWrap ==
  ASSUME NEW q, DOMAIN q = Fields, q.cl \in 0 .. MaxLength,
         NEW base \in {10, 16}, NEW d \in 0 .. (base - 1)
  PROVE  LET r == AnotherDigit(q, base, d)
         IN \/ r = Fail(q, "INVALID_CONTENT_LENGTH")
            \/ /\ r = [q EXCEPT !.cl = base * q.cl + d]
               /\ base * q.cl + d < MaxLength
<1>1. MaxLength \in Nat /\ MaxLength > 32
  BY LimitsAssumption
<1>2. CASE (MaxLength - base) \div base < q.cl
  BY <1>2 DEF AnotherDigit
<1>3. CASE ~((MaxLength - base) \div base < q.cl)
  <2>1. base * q.cl + d < MaxLength
    <3>1. CASE base = 10
      BY <1>1, <1>3, <3>1
    <3>2. CASE base = 16
      BY <1>1, <1>3, <3>2
    <3> QED
      BY <3>1, <3>2
  <2>2. q.cl * base + d = base * q.cl + d /\ base * q.cl + d \in Nat
    OBVIOUS
  <2>3. (q.cl * base + d) % (MaxLength + 1) = base * q.cl + d
    <3>1. \A x \in Nat : x < MaxLength => x % (MaxLength + 1) = x
      BY <1>1
    <3> QED
      BY <2>1, <2>2, <3>1
  <2> QED
    BY <1>3, <2>1, <2>3 DEF AnotherDigit
<1> QED
  BY <1>2, <1>3

-----------------------------------------------------------------------------
(***************************************************************************)
(* The handlers behind the method, each for a sound parser without error.  *)
(***************************************************************************)
\* States that ask for nothing.
PlainStates == {"s_dead", "s_start_req"} \union UrlStates \union LineStates
                 \union (HeaderStates \ {"s_header_value"})

LEMMA PlainGoes ==
  ASSUME NEW q, Counts(q), NEW s \in PlainStates
  PROVE  Goes(q, Goto(q, s)) /\ Sound(Goto(q, s))
<1>1. s \in States \ (ChunkStates \union {"s_header_value", "s_body_identity", "s_req_method",
                                          "s_req_spaces_before_url"})
  BY DEF PlainStates, States, ChunkStates, SizeStates, UrlStates, LineStates, HeaderStates
<1>2. /\ DOMAIN Goto(q, s) = Fields /\ Goto(q, s).state = s
      /\ \A f \in Fields \ {"state"} : Goto(q, s)[f] = q[f]
  BY DEF Goto, Counts, Fields
<1>3. Sound(Goto(q, s))
  BY <1>1, <1>2 DEF Counts, Sound, Fields, ChunkStates, SizeStates
<1> QED
  BY <1>1, <1>2, <1>3 DEF Goes, Rests, Fields, ChunkStates

LEMMA GoesFail ==
  ASSUME NEW q, Sound(q), NEW e, e # "OK",
         q.state \notin {"s_req_method", "s_req_spaces_before_url"}
  PROVE  Goes(q, Fail(q, e))
BY FailGoes DEF Goes

\* Two steps in a row, the second of which leaves the automaton alone.
LEMMA GoesSame ==
  ASSUME NEW q, NEW r, NEW s, Goes(q, r), Same(r, s)
  PROVE  Goes(q, s)
BY SameRests DEF Goes, Same

LEMMA CompleteGoes ==
  ASSUME NEW q, Counts(q)
  PROVE  Goes(q, MessageComplete(q)) /\ Goes(q, [MessageComplete(q) EXCEPT !.gone = TRUE])
<1>1. Goes(q, NewMessage(q)) /\ DOMAIN NewMessage(q) = Fields
  BY PlainGoes DEF NewMessage, PlainStates, Goes, Rests, Counts, Sound
<1>2. Same(NewMessage(q), MessageComplete(q))
  BY <1>1, CallbacksSame DEF MessageComplete
<1>3. Goes(q, MessageComplete(q))
  BY <1>1, <1>2, GoesSame
<1> DEFINE r == MessageComplete(q)
<1> HIDE DEF r
<1>4. ASSUME NEW s, Goes(q, s) PROVE Goes(q, [s EXCEPT !.gone = TRUE])
  BY <1>4 DEF Goes, Rests, Counts, Sound, Fields
<1> QED
  BY <1>3, <1>4

LEMMA HeadersDoneGoes ==
  ASSUME NEW q, Counts(q), q.errno = "OK"
  PROVE  Goes(q, HeadersDone(q, "LF"))
<1> DEFINE r == [q EXCEPT !.nread = 0]
<1>1. /\ Counts(r) /\ r.state = q.state /\ r.method = q.method /\ r.flags = q.flags
      /\ r.cl = q.cl /\ r.upgrade = q.upgrade /\ r.nread = 0 /\ r.errno = q.errno
      /\ r.gone = q.gone
  BY LimitsAssumption DEF Counts, Fields
<1> HIDE DEF r
<1>2. ASSUME NEW s, Goes(r, s) PROVE Goes(q, s)
  BY <1>1, <1>2 DEF Goes
<1>3. CASE q.upgrade \/ ("chunked" \notin q.flags /\ q.cl \in {0, MaxLength})
  <2>1. HeadersDone(q, "LF") \in {MessageComplete(r), [MessageComplete(r) EXCEPT !.gone = TRUE]}
    BY <1>1, <1>3 DEF HeadersDone, r
  <2> QED
    BY <1>1, <1>2, <2>1, CompleteGoes
<1>4. CASE ~q.upgrade /\ "chunked" \in q.flags
  <2>1. HeadersDone(q, "LF") = Goto(r, "s_chunk_size_start")
    BY <1>4 DEF HeadersDone, r
  <2>2. Goes(r, Goto(r, "s_chunk_size_start"))
    BY <1>1, <1>4 DEF Goes, Rests, Counts, Sound, Goto, Fields, States, ChunkStates, SizeStates
  <2> QED
    BY <1>2, <2>1, <2>2
<1>5. CASE ~q.upgrade /\ "chunked" \notin q.flags /\ q.cl \notin {0, MaxLength}
  <2>1. HeadersDone(q, "LF") = Goto(r, "s_body_identity")
    BY <1>5 DEF HeadersDone, r
  <2>2. Goes(r, Goto(r, "s_body_identity"))
    BY <1>1, <1>5 DEF Goes, Rests, Counts, Sound, Goto, Fields, States, ChunkStates, SizeStates
  <2> QED
    BY <1>2, <2>1, <2>2
<1> QED
  BY <1>3, <1>4, <1>5

LEMMA HeadersAlmostDoneGoes ==
  ASSUME NEW q, Sound(q), q.errno = "OK", NEW ch,
         q.state \notin {"s_req_method", "s_req_spaces_before_url"}
  PROVE  Goes(q, HeadersAlmostDone(q, ch))
<1>1. CASE ch # "LF"
  BY <1>1, GoesFail DEF HeadersAlmostDone
<1>2. CASE ch = "LF" /\ "trailing" \in q.flags
  BY <1>2, CompleteGoes DEF HeadersAlmostDone, Sound
<1>3. CASE ch = "LF" /\ "trailing" \notin q.flags
  <2> DEFINE s == [q EXCEPT !.upgrade = "upgrade" \in q.flags \/ q.method = "CONNECT",
                            !.state = "s_headers_done"]
             t == OnHeadersComplete(s)
  <2>1. HeadersAlmostDone(q, ch) = HeadersDone(t, "LF")
    BY <1>3 DEF HeadersAlmostDone
  <2>2. Counts(s) /\ s.errno = "OK" /\ s.method = q.method /\ s.state = "s_headers_done"
    BY DEF Counts, Sound, Fields
  <2>3. Same(s, t)
    BY <2>2, CallbacksSame DEF Counts
  <2> HIDE DEF s, t
  <2>4. Counts(t) /\ t.errno = "OK" /\ t.method = q.method /\ t.state = "s_headers_done"
    BY <2>2, <2>3 DEF Same, Counts
  <2>5. Goes(t, HeadersDone(t, "LF"))
    BY <2>4, HeadersDoneGoes
  <2> QED
    BY <2>1, <2>4, <2>5 DEF Goes
<1> QED
  BY <1>1, <1>2, <1>3

\* Behind the method and the spaces that follow it.
Behind(q) == Sound(q) /\ q.errno = "OK" /\ q.state \notin {"s_req_method", "s_req_spaces_before_url"}

\* A plain state, then a callback.
LEMMA PlainSame ==
  ASSUME NEW q, Sound(q), NEW s \in PlainStates, NEW r, Same(Goto(q, s), r)
  PROVE  Goes(q, r)
BY PlainGoes, GoesSame DEF Sound

LEMMA PlainData ==
  ASSUME NEW q, Sound(q), NEW s \in PlainStates
  PROVE  Goes(q, Data(Goto(q, s)))
<1>1. DOMAIN Goto(q, s) = Fields
  BY DEF Goto, Sound, Counts
<1> QED
  BY <1>1, CallbacksSame, PlainSame

LEMMA HeaderFieldStartGoes ==
  ASSUME NEW q, Behind(q), q.state # "s_header_value", NEW ch
  PROVE  Goes(q, HeaderFieldStart(q, ch))
<1> USE DEF Behind
<1>1. CASE ch \in {"CR", "LF"}
  <2> DEFINE r == Goto(q, "s_headers_almost_done")
  <2>1. Goes(q, r) /\ Sound(r)
    BY PlainGoes DEF PlainStates, HeaderStates, Sound
  <2>2. r.errno = "OK" /\ r.state = "s_headers_almost_done" /\ r.method = q.method
    BY DEF Goto, Sound, Counts, Fields
  <2> HIDE DEF r
  <2>3. Goes(r, HeadersAlmostDone(r, ch))
    BY <2>1, <2>2, HeadersAlmostDoneGoes
  <2>4. HeaderFieldStart(q, ch) \in {r, HeadersAlmostDone(r, ch)}
    BY <1>1 DEF HeaderFieldStart, r
  <2> QED
    BY <2>1, <2>2, <2>3, <2>4 DEF Goes
<1>2. CASE ch \notin {"CR", "LF"} /\ ~IsToken(ch)
  BY <1>2, GoesFail DEF HeaderFieldStart
<1>3. CASE ch \notin {"CR", "LF"} /\ IsToken(ch)
  <2> DEFINE r == Mark(q, "header_field")
             h == IF Lower(ch) \in DOMAIN NameGuess THEN NameGuess[Lower(ch)] ELSE "h_general"
  <2>1. Same(q, r)
    BY CallbacksSame DEF Sound, Counts
  <2>2. Sound(r) /\ r.errno = "OK" /\ r.method = q.method
    BY <2>1, SameRests DEF Same
  <2>3. HeaderFieldStart(q, ch) = [r EXCEPT !.index = 0, !.state = "s_header_field", !.hs = h]
    BY <1>3 DEF HeaderFieldStart
  <2> HIDE DEF r, h
  <2>4. Goes(r, [r EXCEPT !.index = 0, !.state = "s_header_field", !.hs = h])
    BY <2>2 DEF Goes, Rests, Sound, Counts, Fields, States, HeaderStates, ChunkStates, SizeStates
  <2>5. r.state = q.state
    BY <2>1 DEF Same
  <2> QED
    BY <2>2, <2>3, <2>4, <2>5 DEF Goes
<1> QED
  BY <1>1, <1>2, <1>3

LEMMA HeaderFieldGoes ==
  ASSUME NEW q, Behind(q), q.state = "s_header_field", NEW ch
  PROVE  Goes(q, HeaderField(q, ch))
<1> USE DEF Behind
<1>1. CASE IsToken(ch)
  <2>1. \A h : Goes(q, [q EXCEPT !.hs = h])
    BY DEF Goes, Rests, Sound, Counts, Fields
  <2> QED
    BY <1>1, <2>1 DEF HeaderField
<1>2. CASE ~IsToken(ch)
  <2>1. \A s \in {"s_header_value_discard_ws", "s_header_almost_done", "s_header_field_start"} :
           Goes(q, Data(Goto(q, s)))
    BY PlainData DEF PlainStates, HeaderStates
  <2>2. Goes(q, Fail(q, "INVALID_HEADER_TOKEN"))
    BY GoesFail
  <2> QED
    BY <1>2, <2>1, <2>2 DEF HeaderField
<1> QED
  BY <1>1, <1>2

LEMMA HeaderValueStartGoes ==
  ASSUME NEW q, Counts(q), q.errno = "OK", NEW ch
  PROVE  Goes(q, HeaderValueStart(q, ch))
<1> DEFINE m == Mark(q, "header_value")
           r == [m EXCEPT !.state = "s_header_value", !.index = 0]
<1>1. Same(q, m)
  BY CallbacksSame DEF Counts
<1>2. /\ Counts(r) /\ r.errno = "OK" /\ r.method = q.method /\ r.state = "s_header_value"
      /\ r.hs = q.hs /\ r.gone = q.gone
  <2> HIDE DEF m
  <2> QED
    BY <1>1 DEF Same, Counts, Fields
<1> HIDE DEF r
<1>3. ASSUME NEW s, Sound(s), s.state = "s_header_value", s.method = r.method
      PROVE  Goes(q, s)
  BY <1>2, <1>3 DEF Goes, Rests
<1>4. \A h \in ValueGuesses : Goes(q, [r EXCEPT !.hs = h])
  BY <1>2, <1>3 DEF Sound, Counts, Fields, States, HeaderStates, ChunkStates, SizeStates
<1>5. ASSUME NEW f PROVE Goes(q, [r EXCEPT !.flags = f, !.hs = "h_general"])
  <2> DEFINE s == [r EXCEPT !.flags = f, !.hs = "h_general"]
  <2>1. Sound(s) /\ s.state = "s_header_value" /\ s.method = r.method
    BY <1>2 DEF Sound, Counts, Fields, States, HeaderStates, ChunkStates, SizeStates, ValueGuesses
  <2> QED
    BY <1>3, <2>1
<1>6. r.hs = "h_content_length" => \A n \in 0 .. 9 : Goes(q, [r EXCEPT !.cl = n])
  BY <1>2, <1>3, LimitsAssumption
     DEF Sound, Counts, Fields, States, HeaderStates, ChunkStates, SizeStates, ValueGuesses
<1>7. Goes(q, Fail(r, "INVALID_CONTENT_LENGTH"))
  <2> DEFINE s == Fail(r, "INVALID_CONTENT_LENGTH")
  <2>1. Sound(s) /\ s.state = "s_header_value" /\ s.method = r.method
    BY <1>2 DEF Fail, Sound, Counts, Fields
  <2> QED
    BY <1>3, <2>1
<1>8. /\ q.hs = "h_upgrade" => HeaderValueStart(q, ch) =
                [r EXCEPT !.flags = r.flags \union {"upgrade"}, !.hs = "h_general"]
      /\ q.hs = "h_content_length" => HeaderValueStart(q, ch) =
                IF ch \in Digits THEN [r EXCEPT !.cl = Value[ch]] ELSE Fail(r, "INVALID_CONTENT_LENGTH")
      /\ q.hs \notin {"h_upgrade", "h_content_length"} =>
           \E h \in ValueGuesses : HeaderValueStart(q, ch) = [r EXCEPT !.hs = h]
  <2>1. CASE q.hs = "h_upgrade"
    BY <1>2, <2>1 DEF HeaderValueStart, r
  <2>2. CASE q.hs = "h_content_length"
    BY <1>2, <2>2 DEF HeaderValueStart, r
  <2>3. CASE q.hs = "h_transfer_encoding"
    BY <1>2, <2>3 DEF HeaderValueStart, r, ValueGuesses
  <2>4. CASE q.hs = "h_connection"
    BY <1>2, <2>4 DEF HeaderValueStart, r, ValueGuesses
  <2>5. CASE q.hs \notin {"h_upgrade", "h_content_length", "h_transfer_encoding", "h_connection"}
    BY <1>2, <2>5 DEF HeaderValueStart, r, ValueGuesses
  <2> QED
    BY <2>1, <2>2, <2>3, <2>4, <2>5
<1>9. CASE q.hs = "h_upgrade"
  BY <1>5, <1>8, <1>9
<1>10. CASE q.hs = "h_content_length"
  <2>1. CASE ch \in Digits
    BY <1>2, <1>6, <1>8, <1>10, <2>1, DigitValues
  <2>2. CASE ch \notin Digits
    BY <1>7, <1>8, <1>10, <2>2
  <2> QED
    BY <2>1, <2>2
<1>11. CASE q.hs \notin {"h_upgrade", "h_content_length"}
  BY <1>4, <1>8, <1>11
<1> QED
  BY <1>9, <1>10, <1>11

LEMMA HeaderValueDiscardWsGoes ==
  ASSUME NEW q, Behind(q), q.state = "s_header_value_discard_ws", NEW ch
  PROVE  Goes(q, HeaderValueDiscardWs(q, ch))
<1> USE DEF Behind
<1>1. Goes(q, q)
  BY DEF Goes, Rests, Sound
<1>2. \A s \in {"s_header_value_discard_ws_almost_done", "s_header_value_discard_lws"} :
         Goes(q, Goto(q, s))
  BY PlainGoes DEF PlainStates, HeaderStates, Sound
<1>3. Goes(q, HeaderValueStart(q, ch))
  BY HeaderValueStartGoes DEF Sound
<1> QED
  BY <1>1, <1>2, <1>3 DEF HeaderValueDiscardWs

LEMMA HeaderAlmostDoneGoes ==
  ASSUME NEW q, Behind(q), NEW ch
  PROVE  Goes(q, HeaderAlmostDone(q, ch))
<1> USE DEF Behind
<1>1. Goes(q, Fail(q, "STRICT"))
  BY GoesFail
<1>2. Goes(q, Goto(q, "s_header_value_lws"))
  BY PlainGoes DEF PlainStates, HeaderStates, Sound
<1> QED
  BY <1>1, <1>2 DEF HeaderAlmostDone

\* No value is taken for the header it would have to be.
LEMMA GuessesStay ==
  ASSUME NEW h \in ValueGuesses, NEW ch
  PROVE  NextGuess(h, ch) \in ValueGuesses
<1> DEFINE C == {c \in Completes : c[1] = h /\ c[2] = ch}
<1>1. \A c \in C : c[3] \in ValueGuesses
  BY DEF Completes, ValueGuesses
<1>2. CASE C = {}
  BY <1>2 DEF NextGuess, ValueGuesses
<1>3. CASE C # {}
  <2>1. (CHOOSE c \in Completes : c[1] = h /\ c[2] = ch) \in C
    BY <1>3
  <2>2. NextGuess(h, ch) = (CHOOSE c \in Completes : c[1] = h /\ c[2] = ch)[3]
    BY <1>3 DEF NextGuess
  <2> QED
    BY <1>1, <2>1, <2>2
<1> QED
  BY <1>2, <1>3

LEMMA HeaderValueGoes ==
  ASSUME NEW q, Behind(q), q.state = "s_header_value", NEW ch
  PROVE  Goes(q, HeaderValue(q, ch))
<1> USE DEF Behind
<1> DEFINE r == Data(Goto(q, "s_header_almost_done"))
<1>1. Goes(q, r)
  BY PlainData DEF PlainStates, HeaderStates
<1>2. r.errno = "OK" /\ r.state = "s_header_almost_done"
  <2>1. DOMAIN Goto(q, "s_header_almost_done") = Fields
    BY DEF Goto, Sound, Counts
  <2> QED
    BY <2>1, CallbacksSame DEF Same, Goto, Sound, Counts, Fields
<1>3. CASE ch = "CR"
  BY <1>1, <1>3 DEF HeaderValue
<1>4. CASE ch = "LF"
  <2>1. HeaderValue(q, ch) = HeaderAlmostDone(r, ch)
    BY <1>4 DEF HeaderValue
  <2> HIDE DEF r
  <2>2. Goes(r, HeaderAlmostDone(r, ch))
    BY <1>1, <1>2, HeaderAlmostDoneGoes DEF Goes, Rests
  <2> QED
    BY <1>1, <1>2, <2>1, <2>2 DEF Goes
<1>5. Goes(q, q)
  BY DEF Goes, Rests
<1>6. \A h \in ValueGuesses : Goes(q, [q EXCEPT !.hs = h])
  BY DEF Goes, Rests, Sound, Counts, Fields
<1>7. ASSUME q.hs = "h_content_length", ch \in Digits
      PROVE  Goes(q, AnotherDigit(q, 10, Value[ch]))
  <2>1. Value[ch] \in 0 .. 9 /\ q.cl \in 0 .. MaxLength /\ DOMAIN q = Fields
    BY <1>7, DigitValues DEF Sound, Counts
  <2>2. \/ AnotherDigit(q, 10, Value[ch]) = Fail(q, "INVALID_CONTENT_LENGTH")
        \/ /\ AnotherDigit(q, 10, Value[ch]) = [q EXCEPT !.cl = 10 * q.cl + Value[ch]]
           /\ 10 * q.cl + Value[ch] < MaxLength
    BY <2>1, LengthsNeverWrap
  <2>3. \A n \in 0 .. MaxLength : Goes(q, [q EXCEPT !.cl = n])
    BY DEF Goes, Rests, Sound, Counts, Fields, ChunkStates, SizeStates
  <2>4. 10 * q.cl + Value[ch] \in Nat
    BY <2>1
  <2> QED
    BY <2>2, <2>3, <2>4, GoesFail, LimitsAssumption
<1>8. CASE ch \notin {"CR", "LF"} /\ q.hs = "h_content_length"
  <2>1. HeaderValue(q, ch) = IF ch = "SP" THEN q
                             ELSE IF ch \in Digits THEN AnotherDigit(q, 10, Value[ch])
                             ELSE Fail(q, "INVALID_CONTENT_LENGTH")
    BY <1>8 DEF HeaderValue
  <2> QED
    BY <1>5, <1>7, <1>8, <2>1, GoesFail
<1>9. CASE ch \notin {"CR", "LF"} /\ q.hs # "h_content_length"
  <2>1. HeaderValue(q, ch) \in {q, [q EXCEPT !.hs = NextGuess(q.hs, ch)]}
    BY <1>9 DEF HeaderValue
  <2>2. NextGuess(q.hs, ch) \in ValueGuesses
    BY GuessesStay DEF Sound
  <2> QED
    BY <1>5, <1>6, <2>1, <2>2
<1> QED
  BY <1>3, <1>4, <1>8, <1>9

LEMMA HeaderValueLwsGoes ==
  ASSUME NEW q, Behind(q), q.state = "s_header_value_lws", NEW ch
  PROVE  Goes(q, HeaderValueLws(q, ch))
<1> USE DEF Behind
<1>1. CASE ch \in {"SP", "HT"}
  <2> DEFINE r == Goto(q, "s_header_value_start")
  <2>1. Counts(r) /\ r.errno = "OK" /\ r.method = q.method /\ r.state = "s_header_value_start"
    BY DEF Goto, Sound, Counts, Fields
  <2>2. HeaderValueLws(q, ch) = HeaderValueStart(r, ch)
    BY <1>1 DEF HeaderValueLws
  <2> HIDE DEF r
  <2> QED
    BY <2>1, <2>2, HeaderValueStartGoes DEF Goes
<1>2. CASE ch \notin {"SP", "HT"}
  <2> DEFINE more == CASE q.hs = "h_connection_keep_alive" -> {"keep_alive"}
                       [] q.hs = "h_connection_close" -> {"close"}
                       [] q.hs = "h_transfer_encoding_chunked" -> {"chunked"}
                       [] OTHER -> {}
             r == [q EXCEPT !.state = "s_header_field_start", !.flags = @ \union more]
  <2>1. HeaderValueLws(q, ch) = HeaderFieldStart(r, ch)
    BY <1>2 DEF HeaderValueLws
  <2> HIDE DEF more
  <2>2. Behind(r) /\ r.state = "s_header_field_start" /\ r.method = q.method
    BY DEF Sound, Counts, Fields, States, HeaderStates, ChunkStates, SizeStates
  <2> HIDE DEF r
  <2>3. Goes(r, HeaderFieldStart(r, ch))
    BY <2>2, HeaderFieldStartGoes
  <2> QED
    BY <2>1, <2>2, <2>3 DEF Goes
<1> QED
  BY <1>1, <1>2

LEMMA HeaderValueDiscardLwsGoes ==
  ASSUME NEW q, Behind(q), q.state = "s_header_value_discard_lws", NEW ch
  PROVE  Goes(q, HeaderValueDiscardLws(q, ch))
<1> USE DEF Behind
<1>1. CASE ch \in {"SP", "HT"}
  BY <1>1, PlainGoes DEF PlainStates, HeaderStates, Sound, HeaderValueDiscardLws
<1>2. CASE ch \notin {"SP", "HT"}
  <2> DEFINE r == Goto(q, "s_header_field_start")
             s == Mark(r, "header_value")
             t == Data(s)
  <2>1. Sound(r) /\ r.errno = "OK" /\ r.method = q.method /\ r.state = "s_header_field_start"
    BY PlainGoes DEF PlainStates, HeaderStates, Sound, Counts, Goto, Fields
  <2>2. Same(r, s)
    BY <2>1, CallbacksSame DEF Sound, Counts
  <2>3. Same(s, t)
    BY <2>2, CallbacksSame DEF Same
  <2>4. HeaderValueDiscardLws(q, ch) = HeaderFieldStart(t, ch)
    BY <1>2 DEF HeaderValueDiscardLws
  <2> HIDE DEF r, s, t
  <2>5. Behind(t) /\ t.method = q.method /\ t.state = "s_header_field_start"
    BY <2>1, <2>2, <2>3, SameRests DEF Same
  <2>6. Goes(t, HeaderFieldStart(t, ch))
    BY <2>5, HeaderFieldStartGoes
  <2> QED
    BY <2>4, <2>5, <2>6 DEF Goes
<1> QED
  BY <1>1, <1>2

-----------------------------------------------------------------------------
(***************************************************************************)
(* The method.  A better guess agrees with the one before in the letters   *)
(* read so far, and its next letter is the one that decided for it.        *)
(***************************************************************************)
Spelled(m) == Spelling[m] \in Seq(Letters \union {"-"}) /\ Len(Spelling[m]) > 0

LEMMA Spellings ==
  ASSUME NEW m \in Methods PROVE Spelled(m)
<1>1. /\ Spelled("DELETE") /\ Spelled("GET") /\ Spelled("HEAD") /\ Spelled("POST") /\ Spelled("PUT")
      /\ Spelled("CONNECT") /\ Spelled("OPTIONS") /\ Spelled("TRACE") /\ Spelled("COPY")
  BY DEF Spelled, Spelling, Letters
<1>2. /\ Spelled("LOCK") /\ Spelled("MKCOL") /\ Spelled("MOVE") /\ Spelled("PROPFIND")
      /\ Spelled("PROPPATCH") /\ Spelled("SEARCH") /\ Spelled("UNLOCK") /\ Spelled("REPORT")
  BY DEF Spelled, Spelling, Letters
<1>3. /\ Spelled("MKACTIVITY") /\ Spelled("CHECKOUT") /\ Spelled("MERGE") /\ Spelled("MSEARCH")
      /\ Spelled("NOTIFY") /\ Spelled("SUBSCRIBE")
  BY DEF Spelled, Spelling, Letters
<1>4. Spelled("UNSUBSCRIBE") /\ Spelled("PATCH") /\ Spelled("PURGE") /\ Spelled("MKCALENDAR")
  BY DEF Spelled, Spelling, Letters
<1>5. m \in {"DELETE", "GET", "HEAD", "POST", "PUT", "CONNECT", "OPTIONS", "TRACE", "COPY", "LOCK",
             "MKCOL", "MOVE", "PROPFIND", "PROPPATCH", "SEARCH", "UNLOCK", "REPORT", "MKACTIVITY",
             "CHECKOUT", "MERGE", "MSEARCH", "NOTIFY", "SUBSCRIBE", "UNSUBSCRIBE", "PATCH",
             "PURGE", "MKCALENDAR"}
  BY DEF Methods, Spelling
<1> QED
  BY <1>1, <1>2, <1>3, <1>4, <1>5

LEMMA FirstGuesses ==
  ASSUME NEW ch \in DOMAIN FirstGuess
  PROVE  FirstGuess[ch] \in Methods /\ ch \in Letters /\ Spelling[FirstGuess[ch]][1] = ch
BY DEF FirstGuess, Methods, Spelling, Letters

Agrees(b) ==
  /\ b[4] \in Methods /\ b[2] \in Nat
  /\ Len(Spelling[b[4]]) > b[2] /\ Spelling[b[4]][b[2] + 1] = b[3]
  /\ \A i \in 1 .. b[2] : Spelling[b[4]][i] = Spelling[b[1]][i]
  /\ b[3] \in Letters \union {"-"}

LEMMA BetterGuesses ==
  ASSUME NEW b \in BetterGuess PROVE Agrees(b)
<1>1. /\ Agrees(<<"CONNECT",1,"H","CHECKOUT">>) /\ Agrees(<<"CONNECT",2,"P","COPY">>)
      /\ Agrees(<<"MKCOL",1,"O","MOVE">>) /\ Agrees(<<"MKCOL",1,"E","MERGE">>)
  BY DEF Agrees, Methods, Spelling, Letters
<1>2. /\ Agrees(<<"MKCOL",1,"-","MSEARCH">>) /\ Agrees(<<"SUBSCRIBE",1,"E","SEARCH">>)
      /\ Agrees(<<"POST",1,"R","PROPFIND">>) /\ Agrees(<<"POST",1,"U","PUT">>)
  BY DEF Agrees, Methods, Spelling, Letters
<1>3. Agrees(<<"MKCOL",2,"A","MKACTIVITY">>) /\ Agrees(<<"MKCOL",3,"A","MKCALENDAR">>)
  BY DEF Agrees, Methods, Spelling, Letters
<1>4. Agrees(<<"POST",1,"A","PATCH">>) /\ Agrees(<<"PUT",2,"R","PURGE">>)
  BY DEF Agrees, Methods, Spelling, Letters
<1>5. Agrees(<<"UNLOCK",2,"S","UNSUBSCRIBE">>)
  BY DEF Agrees, Methods, Spelling, Letters
<1>6. Agrees(<<"PROPFIND",4,"P","PROPPATCH">>)
  BY DEF Agrees, Methods, Spelling, Letters
<1> QED
  BY <1>1, <1>2, <1>3, <1>4, <1>5, <1>6 DEF BetterGuess

\* What RequestStream records of the method's letters.
NewWord(q, w, ch) ==
  IF q.state \in {"s_start_req", "s_req_method"} /\ ch \in Letters \union {"-"}
  THEN Append(IF q.state = "s_start_req" THEN <<>> ELSE w, ch) ELSE w

LEMMA StartReqStep ==
  ASSUME NEW q, Sound(q), q.errno = "OK", q.state = "s_start_req", q.method \in Methods, NEW w, NEW ch
  PROVE  Rests(StartReq(q, ch)) /\ Spells(StartReq(q, ch), NewWord(q, w, ch))
<1> DEFINE r == [q EXCEPT !.flags = {}, !.cl = MaxLength]
<1>1. /\ Sound(r) /\ r.errno = "OK" /\ r.state = "s_start_req" /\ r.method = q.method
  BY LimitsAssumption DEF Sound, Counts, Fields, ChunkStates, SizeStates
<1> HIDE DEF r
<1>2. CASE ch \in {"CR", "LF"}
  BY <1>2 DEF StartReq, Rests, Spells
<1>3. CASE ch \notin {"CR", "LF"} /\ ch \notin DOMAIN FirstGuess
  <2>1. StartReq(q, ch) = Fail(r, "INVALID_METHOD")
    BY <1>3 DEF StartReq, r
  <2> QED
    BY <1>1, <2>1, FailGoes DEF Spells
<1>4. CASE ch \notin {"CR", "LF"} /\ ch \in DOMAIN FirstGuess
  <2> DEFINE m == FirstGuess[ch]
             s == [r EXCEPT !.method = m, !.index = 1, !.state = "s_req_method"]
  <2>1. /\ Sound(s) /\ s.errno = "OK" /\ s.state = "s_req_method" /\ s.method = m /\ s.index = 1
    BY <1>1 DEF Sound, Counts, Fields, States, ChunkStates, SizeStates
  <2>2. StartReq(q, ch) = OnMessageBegin(s)
    BY <1>4 DEF StartReq, r
  <2>3. Same(s, OnMessageBegin(s))
    BY <2>1, CallbacksSame DEF Sound, Counts
  <2>4. m \in Methods /\ ch \in Letters /\ Spelling[m][1] = ch /\ Spelled(m)
    BY <1>4, FirstGuesses, Spellings
  <2>5. NewWord(q, w, ch) = <<ch>>
    BY <2>4 DEF NewWord
  <2> HIDE DEF s, m
  <2>6. Rests(OnMessageBegin(s))
    BY <2>1, <2>3, SameRests DEF Rests
  <2>7. Spells(OnMessageBegin(s), <<ch>>)
    BY <2>1, <2>3, <2>4 DEF Same, Spells, Spelled
  <2> QED
    BY <2>2, <2>5, <2>6, <2>7
<1> QED
  BY <1>2, <1>3, <1>4

LEMMA ReqMethodStep ==
  ASSUME NEW q, Sound(q), q.errno = "OK", q.state = "s_req_method", NEW w, Spells(q, w), NEW ch
  PROVE  Rests(ReqMethod(q, ch)) /\ Spells(ReqMethod(q, ch), NewWord(q, w, ch))
<1> DEFINE m == q.method
           name == Spelling[m]
           better == {b \in BetterGuess : b[1] = m /\ b[2] = q.index /\ b[3] = ch}
<1>1. /\ m \in Methods /\ w \in Seq(Letters \union {"-"}) /\ Len(w) = q.index
      /\ q.index \in 1 .. Len(name) /\ \A i \in 1 .. q.index : w[i] = name[i]
      /\ Spelled(m) /\ q.index \in Nat
  BY Spellings DEF Spells, Spelled
\* Another letter of the name n.
<1>2. ASSUME NEW r, NEW n \in Methods, ch \in Letters \union {"-"}, q.index < Len(Spelling[n]),
             Spelling[n][q.index + 1] = ch, \A i \in 1 .. q.index : w[i] = Spelling[n][i],
             r.method = n, r.state = "s_req_method", r.index = q.index + 1
      PROVE  Spells(r, NewWord(q, w, ch))
  <2>1. NewWord(q, w, ch) = Append(w, ch)
    BY <1>2 DEF NewWord
  <2>2. /\ Append(w, ch) \in Seq(Letters \union {"-"}) /\ Len(Append(w, ch)) = r.index
        /\ \A i \in 1 .. r.index : Append(w, ch)[i] = IF i <= q.index THEN w[i] ELSE ch
    BY <1>1, <1>2
  <2>3. r.index \in 1 .. Len(Spelling[n])
    BY <1>1, <1>2, Spellings DEF Spelled
  <2>4. \A i \in 1 .. r.index : Append(w, ch)[i] = Spelling[n][i]
    BY <1>1, <1>2, <2>2
  <2> QED
    BY <1>2, <2>1, <2>2, <2>3, <2>4 DEF Spells
<1>3. CASE ch = "SP" /\ q.index = Len(name)
  <2> DEFINE r == [q EXCEPT !.state = "s_req_spaces_before_url", !.index = @ + 1]
  <2>1. ReqMethod(q, ch) = r
    BY <1>3 DEF ReqMethod
  <2>2. Rests(r) /\ r.method = m /\ r.state = "s_req_spaces_before_url"
    BY DEF Rests, Sound, Counts, Fields, States, ChunkStates, SizeStates
  <2>3. NewWord(q, w, ch) = w
    BY <1>3 DEF NewWord, Letters
  <2>4. w = name
    BY <1>1, <1>3, SeqEqual DEF Spelled
  <2> HIDE DEF r
  <2> QED
    BY <1>1, <2>1, <2>2, <2>3, <2>4 DEF Spells
<1>4. CASE ~(ch = "SP" /\ q.index = Len(name)) /\ q.index < Len(name) /\ ch = name[q.index + 1]
  <2> DEFINE r == [q EXCEPT !.index = @ + 1]
  <2>1. ReqMethod(q, ch) = r
    BY <1>4 DEF ReqMethod
  <2>2. Rests(r) /\ r.method = m /\ r.state = "s_req_method" /\ r.index = q.index + 1
    BY DEF Rests, Sound, Counts, Fields, ChunkStates, SizeStates
  <2>3. ch \in Letters \union {"-"}
    BY <1>1, <1>4 DEF Spelled
  <2> HIDE DEF r
  <2> QED
    BY <1>1, <1>2, <1>4, <2>1, <2>2, <2>3
<1>5. CASE ~(ch = "SP" /\ q.index = Len(name)) /\ ~(q.index < Len(name) /\ ch = name[q.index + 1])
           /\ better # {}
  <2> DEFINE b == CHOOSE x \in better : TRUE
             r == [q EXCEPT !.method = b[4], !.index = @ + 1]
  <2>1. ReqMethod(q, ch) = r
    BY <1>5 DEF ReqMethod
  <2>2. b \in better
    BY <1>5
  <2> HIDE DEF b
  <2>3. Agrees(b) /\ b[1] = m /\ b[2] = q.index /\ b[3] = ch
    BY <2>2, BetterGuesses
  <2>4. Rests(r) /\ r.method = b[4] /\ r.state = "s_req_method" /\ r.index = q.index + 1
    BY DEF Rests, Sound, Counts, Fields, ChunkStates, SizeStates
  <2> HIDE DEF r, better
  <2>5. \A i \in 1 .. q.index : w[i] = Spelling[b[4]][i]
    BY <1>1, <2>3 DEF Agrees
  <2>6. Spells(r, NewWord(q, w, ch))
    BY <1>2, <2>3, <2>4, <2>5 DEF Agrees
  <2> QED
    BY <2>1, <2>4, <2>6
<1>6. CASE ~(ch = "SP" /\ q.index = Len(name)) /\ ~(q.index < Len(name) /\ ch = name[q.index + 1])
           /\ better = {}
  <2>1. ReqMethod(q, ch) = Fail(q, "INVALID_METHOD")
    BY <1>6 DEF ReqMethod
  <2> QED
    BY <1>1, <2>1, FailGoes DEF Spells
<1> QED
  BY <1>3, <1>4, <1>5, <1>6

-----------------------------------------------------------------------------
(***************************************************************************)
(* The rest of the request line.                                           *)
(***************************************************************************)
LEMMA ParsesUrl ==
  ASSUME NEW s, NEW ch
  PROVE  ParseUrlChar(s, ch) \in UrlStates \union {"s_dead"}
BY DEF ParseUrlChar, UrlStates

LEMMA UrlCharGoes ==
  ASSUME NEW q, Sound(q), q.errno = "OK", NEW s, NEW ch
  PROVE  Goes(q, UrlChar(q, s, ch))
<1> DEFINE next == ParseUrlChar(s, ch)
           r == Goto(q, next)
<1>1. next \in UrlStates \union {"s_dead"} /\ next \in PlainStates
  BY ParsesUrl DEF PlainStates
<1> HIDE DEF next
<1>2. Goes(q, r) /\ Sound(r)
  BY <1>1, PlainGoes DEF Sound
<1>3. r.state = next
  BY DEF Goto, Sound, Counts, Fields
<1> HIDE DEF r
<1>4. CASE next = "s_dead"
  <2>1. UrlChar(q, s, ch) = Fail(r, "INVALID_URL")
    BY <1>4 DEF UrlChar, r, next
  <2>2. Goes(r, Fail(r, "INVALID_URL"))
    BY <1>2, <1>3, <1>4, GoesFail
  <2> QED
    BY <1>2, <1>3, <1>4, <2>1, <2>2 DEF Goes
<1>5. CASE next # "s_dead"
  <2>1. UrlChar(q, s, ch) = r
    BY <1>5 DEF UrlChar, r, next
  <2> QED
    BY <1>2, <2>1
<1> QED
  BY <1>4, <1>5

LEMMA ReqUrlGoes ==
  ASSUME NEW q, Sound(q), q.errno = "OK", NEW ch,
         q.state \in UrlStates \union {"s_req_spaces_before_url"}
  PROVE  Goes(q, ReqUrl(q, ch))
<1>1. CASE q.state = "s_req_spaces_before_url"
  <2> DEFINE r == Mark(q, "url")
             s == IF q.method = "CONNECT" THEN "s_req_server_start" ELSE r.state
  <2>1. Same(q, r)
    BY CallbacksSame DEF Sound, Counts
  <2>2. Sound(r) /\ r.errno = "OK" /\ r.method = q.method /\ r.state = q.state
    BY <2>1, SameRests DEF Same
  <2>3. ReqUrl(q, ch) \in {q, UrlChar(r, s, ch)}
    BY <1>1, <2>2 DEF ReqUrl
  <2> HIDE DEF r, s
  <2>4. Goes(r, UrlChar(r, s, ch))
    BY <2>2, UrlCharGoes
  <2>5. Goes(q, q)
    BY <1>1 DEF Goes, Rests
  <2> QED
    BY <2>2, <2>3, <2>4, <2>5 DEF Goes
<1>2. CASE q.state \in UrlStates
  <2>1. Goes(q, UrlChar(q, q.state, ch))
    BY UrlCharGoes
  <2>2. Goes(q, Data(Goto(q, "s_req_http_start")))
    BY PlainData DEF PlainStates, LineStates
  <2>3. ASSUME NEW s \in PlainStates
        PROVE  Goes(q, Data([q EXCEPT !.major = 0, !.minor = 9, !.state = s]))
    <3> DEFINE r == [q EXCEPT !.major = 0, !.minor = 9, !.state = s]
    <3>1. Same(Goto(q, s), r)
      BY DEF Same, Goto, Sound, Counts, Fields
    <3>2. Same(r, Data(r))
      BY <3>1, CallbacksSame DEF Same
    <3> QED
      BY <3>1, <3>2, PlainSame, GoesSame
  <2>4. "s_req_line_almost_done" \in PlainStates /\ "s_header_field_start" \in PlainStates
    BY DEF PlainStates, LineStates, HeaderStates
  <2>5. q.state # "s_req_spaces_before_url"
    BY <1>2 DEF UrlStates
  <2>6. ReqUrl(q, ch) \in {UrlChar(q, q.state, ch), Data(Goto(q, "s_req_http_start")),
                           Data([q EXCEPT !.major = 0, !.minor = 9, !.state = "s_req_line_almost_done"]),
                           Data([q EXCEPT !.major = 0, !.minor = 9, !.state = "s_header_field_start"])}
    BY <2>5 DEF ReqUrl
  <2> QED
    BY <2>1, <2>2, <2>3, <2>4, <2>6
<1> QED
  BY <1>1, <1>2

LEMMA ReqHttpGoes ==
  ASSUME NEW q, Behind(q), q.state \in LineStates, NEW ch
  PROVE  Goes(q, ReqHttp(q, ch))
<1> USE DEF Behind
<1>1. \A s \in LineStates \union {"s_header_field_start"} : Goes(q, Goto(q, s))
  BY PlainGoes DEF PlainStates, HeaderStates, Sound
<1>2. \A e \in {"INVALID_CONSTANT", "STRICT", "INVALID_VERSION", "LF_EXPECTED"} : Goes(q, Fail(q, e))
  BY GoesFail
<1>3. ASSUME NEW n, NEW s \in LineStates
      PROVE  Goes(q, [q EXCEPT !.major = n, !.state = s]) /\ Goes(q, [q EXCEPT !.minor = n, !.state = s])
  <2>1. s \in PlainStates
    BY DEF PlainStates
  <2>2. /\ Same(Goto(q, s), [q EXCEPT !.major = n, !.state = s])
        /\ Same(Goto(q, s), [q EXCEPT !.minor = n, !.state = s])
    BY DEF Same, Goto, Sound, Counts, Fields
  <2> QED
    BY <2>1, <2>2, PlainSame
<1>4. ASSUME NEW n PROVE Goes(q, [q EXCEPT !.major = n]) /\ Goes(q, [q EXCEPT !.minor = n])
  <2>1. Goes(q, q)
    BY DEF Goes, Rests, LineStates
  <2>2. Same(q, [q EXCEPT !.major = n]) /\ Same(q, [q EXCEPT !.minor = n])
    BY DEF Same, Sound, Counts, Fields
  <2> QED
    BY <2>1, <2>2, GoesSame
<1>5. Goes(q, q)
  BY DEF Goes, Rests, LineStates
<1>6. CASE q.state \in {"s_req_http_start", "s_req_http_H", "s_req_http_HTTP"}
  BY <1>1, <1>2, <1>5, <1>6 DEF ReqHttp, LineStates
<1>7. CASE q.state = "s_req_first_http_major"
  <2>1. \A n : Goes(q, [q EXCEPT !.major = n, !.state = "s_req_http_major"])
    BY <1>3 DEF LineStates
  <2> QED
    BY <1>2, <1>7, <2>1 DEF ReqHttp
<1>8. CASE q.state = "s_req_http_major"
  <2>1. Goes(q, Goto(q, "s_req_first_http_minor")) /\ Goes(q, Fail(q, "INVALID_VERSION"))
    BY <1>1, <1>2 DEF LineStates
  <2> QED
    BY <1>4, <1>8, <2>1 DEF ReqHttp
<1>9. CASE q.state = "s_req_first_http_minor"
  <2>1. \A n : Goes(q, [q EXCEPT !.minor = n, !.state = "s_req_http_minor"])
    BY <1>3 DEF LineStates
  <2> QED
    BY <1>2, <1>9, <2>1 DEF ReqHttp
<1>10. CASE q.state = "s_req_http_minor"
  <2>1. /\ Goes(q, Goto(q, "s_req_line_almost_done")) /\ Goes(q, Goto(q, "s_header_field_start"))
        /\ Goes(q, Fail(q, "INVALID_VERSION"))
    BY <1>1, <1>2 DEF LineStates
  <2> QED
    BY <1>4, <1>10, <2>1 DEF ReqHttp
<1>11. CASE q.state = "s_req_line_almost_done"
  BY <1>1, <1>2, <1>11 DEF ReqHttp
<1> QED
  BY <1>6, <1>7, <1>8, <1>9, <1>10, <1>11 DEF LineStates

-----------------------------------------------------------------------------
(***************************************************************************)
(* Bodies.                                                                 *)
(***************************************************************************)
LEMMA BodyIdentityGoes ==
  ASSUME NEW q, Behind(q), q.state = "s_body_identity", NEW ch
  PROVE  Goes(q, BodyIdentity(q, ch))
<1> USE DEF Behind
<1> DEFINE m == Mark(q, "body")
           r == [m EXCEPT !.cl = @ - 1]
           s == [r EXCEPT !.held = Append(@, ch)]
<1>1. Same(q, m)
  BY CallbacksSame DEF Sound, Counts
<1>2. /\ Counts(r) /\ r.state = q.state /\ r.method = q.method /\ r.errno = "OK"
      /\ r.cl = q.cl - 1 /\ r.cl \in Nat /\ r.cl < MaxLength
  <2> HIDE DEF m
  <2> QED
    BY <1>1, LimitsAssumption DEF Same, Sound, Counts, Fields
<1> HIDE DEF r
<1>3. CASE r.cl > 0
  <2>1. BodyIdentity(q, ch) = r
    BY <1>3 DEF BodyIdentity, r
  <2>2. Goes(q, r)
    BY <1>2, <1>3 DEF Goes, Rests, Sound, States, ChunkStates, SizeStates
  <2> QED
    BY <2>1, <2>2
<1>4. CASE ~(r.cl > 0)
  <2>1. BodyIdentity(q, ch) = MessageComplete(Data(s))
    BY <1>4 DEF BodyIdentity, r
  <2>2. Same(r, s)
    BY <1>2 DEF Same, Counts, Fields
  <2>3. Same(s, Data(s))
    BY <2>2, CallbacksSame DEF Same
  <2> HIDE DEF s
  <2>4. Counts(Data(s)) /\ Data(s).method = q.method
    BY <1>2, <2>2, <2>3 DEF Same, Counts
  <2>5. Goes(Data(s), MessageComplete(Data(s)))
    BY <2>4, CompleteGoes
  <2>6. Data(s).state = "s_body_identity"
    BY <1>2, <2>2, <2>3 DEF Same
  <2> QED
    BY <2>1, <2>4, <2>5, <2>6 DEF Goes
<1> QED
  BY <1>3, <1>4

\* The states of a chunked body.
LEMMA ChunksGo ==
  ASSUME NEW q, Behind(q), q.state \in ChunkStates, NEW ch
  PROVE  /\ q.state = "s_chunk_size_start" => Goes(q, ChunkSizeStart(q, ch))
         /\ q.state = "s_chunk_size" => Goes(q, ChunkSize(q, ch))
         /\ q.state = "s_chunk_parameters" =>
              Goes(q, q) /\ Goes(q, Goto(q, "s_chunk_size_almost_done"))
         /\ q.state = "s_chunk_size_almost_done" => Goes(q, ChunkSizeAlmostDone(q, ch))
         /\ q.state = "s_chunk_data" => Goes(q, ChunkData(q, ch))
         /\ q.state = "s_chunk_data_almost_done" => Goes(q, ChunkDataAlmostDone(q, ch))
         /\ q.state = "s_chunk_data_done" => Goes(q, ChunkDataDone(q, ch))
<1> USE DEF Behind
<1>1. /\ DOMAIN q = Fields /\ q.cl \in 0 .. MaxLength /\ "chunked" \in q.flags /\ q.errno = "OK"
      /\ q.state \in SizeStates => q.cl < MaxLength
  BY LimitsAssumption DEF Sound, Counts
<1>2. \A e \in {"INVALID_CHUNK_SIZE", "STRICT", "INVALID_CONTENT_LENGTH"} : Goes(q, Fail(q, e))
  BY GoesFail
<1>3. ASSUME NEW n \in 0 .. (MaxLength - 1), NEW s \in SizeStates
      PROVE  Goes(q, [q EXCEPT !.cl = n, !.state = s])
  BY <1>1, LimitsAssumption
     DEF Goes, Rests, Sound, Counts, Fields, States, ChunkStates, SizeStates, UrlStates,
         LineStates, HeaderStates
<1>4. ASSUME q.state = "s_chunk_size_start" PROVE Goes(q, ChunkSizeStart(q, ch))
  <2>1. ch \in DOMAIN Unhex => Unhex[ch] \in 0 .. (MaxLength - 1)
    BY DigitValues, LimitsAssumption
  <2>2. ch \in DOMAIN Unhex => Goes(q, [q EXCEPT !.cl = Unhex[ch], !.state = "s_chunk_size"])
    BY <1>3, <2>1 DEF SizeStates
  <2> QED
    BY <1>2, <2>2 DEF ChunkSizeStart
<1>5. ASSUME q.state \in SizeStates, NEW s \in SizeStates PROVE Goes(q, Goto(q, s))
  BY <1>1, <1>5, LimitsAssumption
     DEF Goto, Goes, Rests, Sound, Counts, Fields, States, ChunkStates, SizeStates, UrlStates,
         LineStates, HeaderStates
<1>6. ASSUME q.state = "s_chunk_size" PROVE Goes(q, ChunkSize(q, ch))
  <2>1. ASSUME ch \in DOMAIN Unhex PROVE Goes(q, AnotherDigit(q, 16, Unhex[ch]))
    <3>1. Unhex[ch] \in 0 .. 15
      BY <2>1, DigitValues
    <3>2. \/ AnotherDigit(q, 16, Unhex[ch]) = Fail(q, "INVALID_CONTENT_LENGTH")
          \/ /\ AnotherDigit(q, 16, Unhex[ch]) = [q EXCEPT !.cl = 16 * q.cl + Unhex[ch]]
             /\ 16 * q.cl + Unhex[ch] < MaxLength
      BY <1>1, <3>1, LengthsNeverWrap
    <3>3. 16 * q.cl + Unhex[ch] \in Nat
      BY <1>1, <3>1
    <3>4. \A n \in 0 .. (MaxLength - 1) : Goes(q, [q EXCEPT !.cl = n])
      BY <1>1, <1>6, LimitsAssumption
         DEF Goes, Rests, Sound, Counts, Fields, States, ChunkStates, SizeStates
    <3> QED
      BY <1>2, <3>2, <3>3, <3>4, LimitsAssumption
  <2>2. Goes(q, Goto(q, "s_chunk_size_almost_done")) /\ Goes(q, Goto(q, "s_chunk_parameters"))
    BY <1>5, <1>6 DEF SizeStates
  <2> QED
    BY <1>2, <2>1, <2>2 DEF ChunkSize
<1>7. ASSUME q.state = "s_chunk_parameters"
      PROVE  Goes(q, q) /\ Goes(q, Goto(q, "s_chunk_size_almost_done"))
  BY <1>5, <1>7 DEF SizeStates, Goes, Rests
<1>8. ASSUME q.state = "s_chunk_size_almost_done" PROVE Goes(q, ChunkSizeAlmostDone(q, ch))
  <2>1. \A f : Goes(q, [q EXCEPT !.nread = 0, !.flags = f, !.state = "s_header_field_start"])
    BY LimitsAssumption
       DEF Goes, Rests, Sound, Counts, Fields, States, HeaderStates, ChunkStates, SizeStates
  <2>2. q.cl # 0 => Goes(q, [q EXCEPT !.nread = 0, !.state = "s_chunk_data"])
    BY <1>1, <1>8, LimitsAssumption
       DEF Goes, Rests, Sound, Counts, Fields, States, ChunkStates, SizeStates
  <2> QED
    BY <1>2, <2>1, <2>2 DEF ChunkSizeAlmostDone
<1>9. ASSUME q.state = "s_chunk_data" PROVE Goes(q, ChunkData(q, ch))
  <2> DEFINE m == Mark(q, "body")
             r == [m EXCEPT !.cl = @ - 1]
  <2>1. Same(q, m)
    BY <1>1, CallbacksSame
  <2>2. /\ Counts(r) /\ r.state = "s_chunk_data" /\ r.method = q.method /\ r.errno = "OK"
        /\ "chunked" \in r.flags /\ r.cl = q.cl - 1 /\ r.cl \in Nat /\ r.cl < MaxLength
    <3> HIDE DEF m
    <3> QED
      BY <1>1, <1>9, <2>1, LimitsAssumption DEF Same, Sound, Counts, Fields
  <2>3. ChunkData(q, ch) = IF r.cl = 0 THEN Goto(r, "s_chunk_data_almost_done") ELSE r
    BY DEF ChunkData
  <2> HIDE DEF r
  <2>4. r.cl # 0 => Goes(q, r)
    BY <2>2 DEF Goes, Rests, Sound, States, ChunkStates, SizeStates
  <2>5. r.cl = 0 => Goes(q, Goto(r, "s_chunk_data_almost_done"))
    BY <2>2, LimitsAssumption
       DEF Goto, Goes, Rests, Sound, Counts, Fields, States, ChunkStates, SizeStates
  <2> QED
    BY <2>3, <2>4, <2>5
<1>10. ASSUME q.state = "s_chunk_data_almost_done" PROVE Goes(q, ChunkDataAlmostDone(q, ch))
  <2> DEFINE r == Goto(q, "s_chunk_data_done")
  <2>1. Goes(q, r) /\ DOMAIN r = Fields
    BY <1>1 DEF Goto, Goes, Rests, Sound, Counts, Fields, States, ChunkStates, SizeStates
  <2>2. Goes(q, Data(r))
    BY <2>1, CallbacksSame, GoesSame
  <2> QED
    BY <1>2, <2>2 DEF ChunkDataAlmostDone
<1>11. ASSUME q.state = "s_chunk_data_done" PROVE Goes(q, ChunkDataDone(q, ch))
  <2>1. Goes(q, [q EXCEPT !.nread = 0, !.state = "s_chunk_size_start"])
    BY <1>1, LimitsAssumption
       DEF Goes, Rests, Sound, Counts, Fields, States, ChunkStates, SizeStates
  <2> QED
    BY <1>2, <2>1 DEF ChunkDataDone
<1> QED
  BY <1>4, <1>6, <1>7, <1>8, <1>9, <1>10, <1>11

-----------------------------------------------------------------------------
(***************************************************************************)
(* A symbol, the beginning and the end of a call.                          *)
(***************************************************************************)
LEMMA DispatchGoes ==
  ASSUME NEW q, Sound(q), q.errno = "OK", q.state \notin {"s_start_req", "s_req_method"}, NEW ch
  PROVE  Goes(q, Dispatch(q, ch))
<1>1. CASE q.state \in UrlStates \union {"s_req_spaces_before_url"}
  <2>1. Dispatch(q, ch) = ReqUrl(q, ch)
    BY <1>1 DEF Dispatch, UrlStates
  <2> QED
    BY <1>1, <2>1, ReqUrlGoes
<1>2. CASE q.state \in LineStates
  <2>1. Dispatch(q, ch) = ReqHttp(q, ch)
    BY <1>2 DEF Dispatch, UrlStates, LineStates
  <2>2. Behind(q)
    BY <1>2 DEF Behind, LineStates
  <2> QED
    BY <1>2, <2>1, <2>2, ReqHttpGoes
<1>3. CASE q.state = "s_dead"
  <2>1. Goes(q, q) /\ Goes(q, Fail(q, "CLOSED_CONNECTION"))
    BY <1>3, GoesFail DEF Goes, Rests
  <2> QED
    BY <1>3, <2>1 DEF Dispatch, UrlStates
<1>4. CASE q.state \in HeaderStates
  <2>1. Behind(q)
    BY <1>4 DEF Behind, HeaderStates
  <2>2. CASE q.state \in {"s_header_field_start", "s_header_field"}
    BY <2>1, <2>2, HeaderFieldStartGoes, HeaderFieldGoes DEF Dispatch, UrlStates
  <2>3. CASE q.state \in {"s_header_value_discard_ws", "s_header_value"}
    BY <2>1, <2>3, HeaderValueDiscardWsGoes, HeaderValueGoes DEF Dispatch, UrlStates
  <2>4. CASE q.state \in {"s_header_almost_done", "s_header_value_lws"}
    BY <2>1, <2>4, HeaderAlmostDoneGoes, HeaderValueLwsGoes DEF Dispatch, UrlStates
  <2>5. CASE q.state = "s_header_value_discard_ws_almost_done"
    <3>1. Goes(q, Fail(q, "STRICT")) /\ Goes(q, Goto(q, "s_header_value_discard_lws"))
      BY <2>1, GoesFail, PlainGoes DEF Behind, Sound, PlainStates, HeaderStates
    <3> QED
      BY <2>5, <3>1 DEF Dispatch, UrlStates
  <2>6. CASE q.state = "s_header_value_discard_lws"
    BY <2>1, <2>6, HeaderValueDiscardLwsGoes DEF Dispatch, UrlStates
  <2>7. CASE q.state = "s_headers_almost_done"
    BY <2>1, <2>7, HeadersAlmostDoneGoes DEF Behind, Dispatch, UrlStates
  <2> QED
    BY <1>4, <2>2, <2>3, <2>4, <2>5, <2>6, <2>7 DEF HeaderStates
<1>5. CASE q.state = "s_body_identity"
  BY <1>5, BodyIdentityGoes DEF Behind, Dispatch, UrlStates
<1>6. CASE q.state \in ChunkStates
  <2>1. Behind(q)
    BY <1>6 DEF Behind, ChunkStates, SizeStates
  <2>2. CASE q.state \in SizeStates
    BY <1>6, <2>1, <2>2, ChunksGo DEF Dispatch, UrlStates, SizeStates
  <2>3. CASE q.state \in {"s_chunk_size_start", "s_chunk_data"}
    BY <1>6, <2>1, <2>3, ChunksGo DEF Dispatch, UrlStates
  <2>4. CASE q.state \in {"s_chunk_data_almost_done", "s_chunk_data_done"}
    BY <1>6, <2>1, <2>4, ChunksGo DEF Dispatch, UrlStates
  <2> QED
    BY <1>6, <2>2, <2>3, <2>4 DEF ChunkStates
<1> QED
  BY <1>1, <1>2, <1>3, <1>4, <1>5, <1>6 DEF Sound, States

LEMMA DispatchStep ==
  ASSUME NEW q, Sound(q), q.errno = "OK", NEW w, Spells(q, w), NEW ch
  PROVE  Rests(Dispatch(q, ch)) /\ Spells(Dispatch(q, ch), NewWord(q, w, ch))
<1>1. CASE q.state = "s_start_req"
  <2>1. Dispatch(q, ch) = StartReq(q, ch)
    BY <1>1 DEF Dispatch, UrlStates
  <2> QED
    BY <1>1, <2>1, StartReqStep DEF Spells
<1>2. CASE q.state = "s_req_method"
  <2>1. Dispatch(q, ch) = ReqMethod(q, ch)
    BY <1>2 DEF Dispatch, UrlStates
  <2> QED
    BY <1>2, <2>1, ReqMethodStep
<1>3. CASE q.state \notin {"s_start_req", "s_req_method"}
  BY <1>3, DispatchGoes DEF Goes, Spells, NewWord
<1> QED
  BY <1>1, <1>2, <1>3

LEMMA ByteStep ==
  ASSUME NEW q, Rests(q), ~q.gone, NEW w, Spells(q, w), NEW ch
  PROVE  Rests(Byte(q, ch)) /\ Spells(Byte(q, ch), NewWord(q, w, ch))
<1> DEFINE counted == IF q.state \in BodyStates THEN q ELSE [q EXCEPT !.nread = @ + 1]
           r == IF counted.nread > MaxHeader /\ q.state \notin BodyStates
                THEN Fail(counted, "HEADER_OVERFLOW") ELSE Dispatch(counted, ch)
<1>1. /\ DOMAIN counted = Fields /\ counted.cl \in 0 .. MaxLength /\ counted.nread \in Nat
      /\ counted.state = q.state /\ counted.errno = "OK" /\ counted.hs = q.hs
      /\ counted.flags = q.flags /\ counted.cl = q.cl /\ counted.gone = q.gone
      /\ counted.method = q.method /\ counted.index = q.index
      /\ q.state \in BodyStates => counted = q
  BY DEF Rests, Sound, Counts, Fields
<1>2. q.errno = "OK"
  BY DEF Rests, Sound, Counts
<1> HIDE DEF counted
<1>3. Rests(r) /\ Spells(r, NewWord(q, w, ch))
  <2>1. CASE counted.nread > MaxHeader /\ q.state \notin BodyStates
    <3>1. r = Fail(counted, "HEADER_OVERFLOW")
      BY <2>1
    <3>2. DOMAIN r = Fields /\ r.cl = q.cl /\ r.nread \in Nat /\ r.gone /\ r.errno # "OK"
          /\ r.state = q.state /\ r.method = q.method
      BY <1>1, <3>1 DEF Fail, Fields
    <3>3. q.state = "s_req_spaces_before_url" => NewWord(q, w, ch) = w
      BY DEF NewWord
    <3> HIDE DEF r
    <3> QED
      BY <1>1, <3>2, <3>3 DEF Rests, Sound, Counts, Spells
  <2>2. CASE ~(counted.nread > MaxHeader /\ q.state \notin BodyStates)
    <3>1. Sound(counted)
      BY <1>1, <1>2, <2>2, LimitsAssumption DEF Rests, Sound, Counts
    <3>2. Spells(counted, w) /\ NewWord(counted, w, ch) = NewWord(q, w, ch)
      BY <1>1, <1>2 DEF Spells, NewWord
    <3> QED
      BY <1>1, <2>2, <3>1, <3>2, DispatchStep
  <2> QED
    BY <2>1, <2>2
<1>4. Byte(q, ch) = IF r.mark = "none" THEN r ELSE [r EXCEPT !.held = Append(@, ch)]
  BY DEF Byte, counted
<1> HIDE DEF r
<1>5. Same(r, Byte(q, ch))
  BY <1>3, <1>4 DEF Rests, Sound, Counts, Same, Fields
<1> QED
  BY <1>3, <1>5, SameRests DEF Same, Spells

LEMMA CallStep ==
  ASSUME NEW q, Rests(q), NEW w, Spells(q, w)
  PROVE  /\ Rests(Begin(q)) /\ Spells(Begin(q), w)
         /\ Rests(End(q)) /\ Spells(End(q), w)
         /\ Rests(Eof(q)) /\ Spells(Eof(q), w)
<1>1. /\ \A m : Rests([q EXCEPT !.gone = (q.errno # "OK"), !.held = <<>>, !.mark = m])
      /\ \A m : Spells([q EXCEPT !.gone = (q.errno # "OK"), !.held = <<>>, !.mark = m], w)
  BY DEF Rests, Sound, Counts, Spells, Fields
<1>2. Rests(Begin(q)) /\ Spells(Begin(q), w)
  BY <1>1 DEF Begin
<1>3. Rests(End(q)) /\ Spells(End(q), w)
  <2>1. Same(q, [q EXCEPT !.mark = "none", !.held = <<>>])
    BY DEF Rests, Sound, Counts, Same, Fields
  <2>2. Same(q, Data(q))
    BY CallbacksSame DEF Rests, Sound, Counts
  <2>3. Same(q, End(q))
    BY <2>1, <2>2 DEF End
  <2> QED
    BY <2>3, SameRests DEF Same, Spells
<1>4. Rests(Eof(q)) /\ Spells(Eof(q), w)
  <2>1. Rests(Fail(q, "INVALID_EOF_STATE")) /\ Spells(Fail(q, "INVALID_EOF_STATE"), w)
    BY FailGoes DEF Rests, Spells
  <2> QED
    BY <2>1 DEF Eof
<1> QED
  BY <1>2, <1>3, <1>4

-----------------------------------------------------------------------------
(***************************************************************************)
(* The invariant is one, and what follows from it.                         *)
(***************************************************************************)
LEMMA ParserInvInit == Init => ParserInv
<1>1. Rests(ParserInit) /\ \A w : Spells(ParserInit, w)
  BY LimitsAssumption
     DEF ParserInit, Rests, Sound, Counts, Spells, Fields, States, ChunkStates, SizeStates, Methods, Spelling
<1> QED
  BY <1>1, CallStep DEF Init, ParserInv

LEMMA ParserInvStep == ParserInv /\ [Next]_vars => ParserInv'
<1> SUFFICES ASSUME ParserInv, [Next]_vars PROVE ParserInv'
  OBVIOUS
<1> USE DEF ParserInv
<1>1. ASSUME Feed PROVE ParserInv'
  <2>1. word' = NewWord(p, word, Head(rest))
    BY <1>1 DEF Feed, NewWord
  <2>2. Rests(Byte(p, Head(rest))) /\ Spells(Byte(p, Head(rest)), NewWord(p, word, Head(rest)))
    BY <1>1, ByteStep DEF Feed
  <2> QED
    BY <1>1, <2>1, <2>2 DEF Feed
<1>2. ASSUME Split PROVE ParserInv'
  BY <1>2, CallStep DEF Split
<1>3. ASSUME Insert \/ Drop PROVE ParserInv'
  BY <1>3 DEF Insert, Drop
<1>4. ASSUME HangUp PROVE ParserInv'
  BY <1>4, CallStep DEF HangUp
<1>5. ASSUME UNCHANGED vars PROVE ParserInv'
  BY <1>5 DEF vars
<1> QED
  BY <1>1, <1>2, <1>3, <1>4, <1>5 DEF Next

(***************************************************************************)
(* The asserts of http_parser_execute hold whatever arrives, in whatever   *)
(* buffers, for every limit of the header and of lengths.                  *)
(***************************************************************************)
THEOREM AssertionsHold == Spec => []AssertsHold
<1>1. ParserInv => AssertsHold
  BY DEF ParserInv, Rests, Sound, AssertsHold, ValueGuesses, ChunkStates
<1> QED
  BY <1>1, ParserInvInit, ParserInvStep, PTL DEF Spec

(***************************************************************************)
(* A method that is accepted is the one its letters spell, for every way   *)
(* the automaton's guesses may go.                                         *)
(***************************************************************************)
THEOREM MethodsAreSpelled == Spec => []MethodIsSpelled
<1>1. ParserInv => MethodIsSpelled
  BY DEF ParserInv, Spells, MethodIsSpelled
<1> QED
  BY <1>1, ParserInvInit, ParserInvStep, PTL DEF Spec

(***************************************************************************)
(* A request line and header longer than CROW_HTTP_MAX_HEADER_SIZE are     *)
(* refused: what is still read has not been counted beyond it, and the     *)
(* length of what is to come fits its type.                                *)
(***************************************************************************)
THEOREM LimitsAreKept ==
  Spec => [](p.errno = "OK" => p.nread <= MaxHeader /\ p.cl \in 0 .. MaxLength)
<1>1. ParserInv => (p.errno = "OK" => p.nread <= MaxHeader /\ p.cl \in 0 .. MaxLength)
  BY DEF ParserInv, Rests, Sound, Counts
<1> QED
  BY <1>1, ParserInvInit, ParserInvStep, PTL DEF Spec

-----------------------------------------------------------------------------
(***************************************************************************)
(* The number a sequence of symbols spells.  Number is defined by a        *)
(* recursive function: one exists for every length, what it says of the    *)
(* beginning of a sequence does not depend on what follows, and so a digit *)
(* at the end makes ten times the number and the digit.                    *)
(***************************************************************************)
LEMMA LeastNat ==
  ASSUME NEW T, T \subseteq Nat, T # {}
  PROVE  \E x \in T : \A y \in T : x <= y
<1>1. PICK x \in T : \A y \in T : ~(<<y, x>> \in OpToRel(<, Nat))
  BY WFMin, NatLessThanWellFounded
<1>2. \A y \in T : ~(y < x)
  BY <1>1 DEF OpToRel
<1> QED
  BY <1>2

\* f[i] is the number the digits among the first i symbols of s spell.
OneMore(s, f, i) == IF s[i] \in Digits THEN 10 * f[i - 1] + Value[s[i]] ELSE f[i - 1]
Reckons(s, n, f) == f = [i \in 0 .. n |-> IF i = 0 THEN 0 ELSE OneMore(s, f, i)]

LEMMA ReckonsExists ==
  ASSUME NEW s, NEW n \in Nat
  PROVE  \E f : Reckons(s, n, f)
<1> DEFINE T == {i \in Nat : ~\E f : Reckons(s, i, f)}
<1> SUFFICES ASSUME T # {} PROVE FALSE
  OBVIOUS
<1>1. PICK i \in T : \A j \in T : i <= j
  BY LeastNat
<1> i \in Nat
  BY <1>1
<1>2. CASE i = 0
  <2>1. Reckons(s, 0, [j \in 0 .. 0 |-> 0])
    BY DEF Reckons
  <2> QED
    BY <1>1, <1>2, <2>1
<1>3. CASE i # 0
  <2>1. i - 1 \in Nat /\ i - 1 \notin T
    BY <1>1, <1>3
  <2>2. PICK g : Reckons(s, i - 1, g)
    BY <2>1
  <2> DEFINE f == [j \in 0 .. i |-> IF j = i THEN OneMore(s, g, i) ELSE g[j]]
  <2>3. \A j \in 0 .. i : j # 0 => OneMore(s, f, j) = OneMore(s, g, j)
    BY <2>1 DEF OneMore
  <2>4. \A j \in 0 .. (i - 1) : g[j] = IF j = 0 THEN 0 ELSE OneMore(s, g, j)
    BY <2>2 DEF Reckons
  <2>5. Reckons(s, i, f)
    <3> HIDE DEF T
    <3>1. f[i] = OneMore(s, f, i) /\ i \in 0 .. i
      BY <1>1, <1>3, <2>3
    <3>2. \A j \in 0 .. (i - 1) : j # i /\ j \in 0 .. i /\ f[j] = IF j = 0 THEN 0 ELSE OneMore(s, f, j)
      BY <1>1, <2>1, <2>3, <2>4
    <3>3. \A j \in 0 .. i : j = i \/ j \in 0 .. (i - 1)
      BY <1>1
    <3>4. f = [j \in 0 .. i |-> f[j]]
      OBVIOUS
    <3> HIDE DEF f
    <3>5. \A j \in 0 .. i : f[j] = IF j = 0 THEN 0 ELSE OneMore(s, f, j)
      BY <1>3, <3>1, <3>2, <3>3
    <3> QED
      BY <3>4, <3>5 DEF Reckons
  <2> QED
    BY <1>1, <2>5
<1> QED
  BY <1>2, <1>3

LEMMA ReckonsNat ==
  ASSUME NEW s, NEW n \in Nat, NEW f, Reckons(s, n, f)
  PROVE  \A i \in 0 .. n : f[i] \in Nat
<1> DEFINE T == {i \in 0 .. n : f[i] \notin Nat}
<1> SUFFICES ASSUME T # {} PROVE FALSE
  OBVIOUS
<1> T \subseteq Nat
  OBVIOUS
<1>1. PICK i \in T : \A j \in T : i <= j
  BY LeastNat
<1>2. i # 0 /\ f[i] = OneMore(s, f, i)
  BY <1>1 DEF Reckons
<1>3. i - 1 \in 0 .. n /\ i - 1 \notin T
  BY <1>1, <1>2
<1>4. f[i - 1] \in Nat
  BY <1>3
<1>5. OneMore(s, f, i) \in Nat
  BY <1>4, DigitValues DEF OneMore
<1> QED
  BY <1>1, <1>2, <1>5

\* Sequences that begin alike are reckoned alike.
Alike(s, t, n) == \A i \in 1 .. n : s[i] = t[i]

LEMMA ReckonsAgrees ==
  ASSUME NEW s, NEW t, NEW n \in Nat, NEW m \in Nat, n <= m,
         Alike(s, t, n),
         NEW f, Reckons(s, n, f), NEW g, Reckons(t, m, g)
  PROVE  \A i \in 0 .. n : f[i] = g[i]
<1> DEFINE T == {i \in 0 .. n : f[i] # g[i]}
<1> SUFFICES ASSUME T # {} PROVE FALSE
  OBVIOUS
<1> T \subseteq Nat
  OBVIOUS
<1>1. PICK i \in T : \A j \in T : i <= j
  BY LeastNat
<1>2. f[0] = 0 /\ g[0] = 0
  BY DEF Reckons
<1>3. i # 0 /\ i \in 1 .. n
  BY <1>1, <1>2
<1>4. i - 1 \in 0 .. n /\ i - 1 \notin T
  BY <1>1, <1>3
<1>5. f[i - 1] = g[i - 1] /\ s[i] = t[i]
  BY <1>3, <1>4 DEF Alike
<1>6. f[i] = OneMore(s, f, i) /\ g[i] = OneMore(t, g, i)
  BY <1>3 DEF Reckons
<1>7. f[i] = g[i]
  BY <1>5, <1>6 DEF OneMore
<1> QED
  BY <1>1, <1>7

\* Symbols are not restricted: a sequence is one over some set.
IsSeq(s) == \E S : s \in Seq(S)

LEMMA NumberIsReckoned ==
  ASSUME NEW s, IsSeq(s), NEW f, Reckons(s, Len(s), f)
  PROVE  Number(s) = f[Len(s)]
<1>1. Len(s) \in Nat
  BY DEF IsSeq
<1> DEFINE C(g) == g = [i \in 0 .. Len(s) |-> IF i = 0 THEN 0
                            ELSE IF s[i] \in Digits THEN 10 * g[i - 1] + Value[s[i]] ELSE g[i - 1]]
           n == CHOOSE g : C(g)
<1>2. \A g : C(g) <=> Reckons(s, Len(s), g)
  BY DEF Reckons, OneMore
<1>3. Number(s) = n[Len(s)]
  BY DEF Number
<1> HIDE DEF C
<1>4. C(f)
  BY <1>2
<1>5. C(n)
  BY <1>4
<1>6. Reckons(s, Len(s), n)
  BY <1>2, <1>5
<1>7. \A i \in 0 .. Len(s) : n[i] = f[i]
  <2> HIDE DEF n
  <2>1. Len(s) <= Len(s) /\ Alike(s, s, Len(s))
    BY <1>1 DEF Alike
  <2> QED
    BY <1>1, <1>6, <2>1, ReckonsAgrees
<1> QED
  BY <1>1, <1>3, <1>7

LEMMA NumberIsNat ==
  ASSUME NEW s, IsSeq(s)
  PROVE  Number(s) \in Nat
<1>1. Len(s) \in Nat
  BY DEF IsSeq
<1>2. PICK f : Reckons(s, Len(s), f)
  BY <1>1, ReckonsExists
<1>3. Number(s) = f[Len(s)]
  BY <1>2, NumberIsReckoned
<1> QED
  BY <1>1, <1>2, <1>3, ReckonsNat

LEMMA NumberOfNothing == Number(<<>>) = 0 /\ IsSeq(<<>>)
<1>1. IsSeq(<<>>) /\ Len(<<>>) = 0
  BY DEF IsSeq
<1>2. PICK f : Reckons(<<>>, 0, f)
  BY ReckonsExists
<1>3. f[0] = 0
  BY <1>2 DEF Reckons
<1> QED
  BY <1>1, <1>2, <1>3, NumberIsReckoned

LEMMA Longer ==
  ASSUME NEW s, IsSeq(s), NEW ch
  PROVE  /\ IsSeq(Append(s, ch)) /\ Len(s) \in Nat /\ Len(Append(s, ch)) = Len(s) + 1
         /\ \A i \in 1 .. Len(s) : Append(s, ch)[i] = s[i]
         /\ Append(s, ch)[Len(s) + 1] = ch
<1>1. PICK S : s \in Seq(S)
  BY DEF IsSeq
<1>2. s \in Seq(S \union {ch})
  BY <1>1
<1>3. Append(s, ch) \in Seq(S \union {ch})
  BY <1>2
<1> QED
  BY <1>2, <1>3 DEF IsSeq

LEMMA NumberGrows ==
  ASSUME NEW s, IsSeq(s), NEW ch
  PROVE  Number(Append(s, ch)) =
           IF ch \in Digits THEN 10 * Number(s) + Value[ch] ELSE Number(s)
<1> DEFINE t == Append(s, ch)
           n == Len(s)
<1>1. IsSeq(t) /\ n \in Nat /\ Len(t) = n + 1 /\ t[n + 1] = ch /\ \A i \in 1 .. n : s[i] = t[i]
  BY Longer
<1> HIDE DEF t, n
<1>2. PICK f : Reckons(s, n, f)
  BY <1>1, ReckonsExists
<1>3. PICK g : Reckons(t, n + 1, g)
  BY <1>1, ReckonsExists
<1>4. f[n] = g[n]
  <2>1. n + 1 \in Nat /\ n <= n + 1 /\ n \in 0 .. n /\ Alike(s, t, n)
    BY <1>1 DEF Alike
  <2>2. \A i \in 0 .. n : f[i] = g[i]
    BY <1>1, <1>2, <1>3, <2>1, ReckonsAgrees
  <2> QED
    BY <2>1, <2>2
<1>5. g[n + 1] = OneMore(t, g, n + 1)
  BY <1>1, <1>3 DEF Reckons
<1>6. Number(s) = f[n] /\ Number(t) = g[n + 1]
  BY <1>1, <1>2, <1>3, NumberIsReckoned DEF n
<1>7. OneMore(t, g, n + 1) = IF ch \in Digits THEN 10 * g[n] + Value[ch] ELSE g[n]
  BY <1>1 DEF OneMore
<1> QED
  BY <1>4, <1>5, <1>6, <1>7 DEF t

-----------------------------------------------------------------------------
(***************************************************************************)
(* The content length.  Its digits may come in several buffers: at the end *)
(* of each one the mark hands over what is held, the callback puts it      *)
(* behind the value so far, and the next call sets the mark again.  The    *)
(* text is whole if a mark is set exactly where symbols belong to a name,  *)
(* a value, a URL or a body, and if a value begins only after its name has *)
(* been handed over (hbs = 1): then what is left of an earlier value is    *)
(* not taken for the beginning of this one.                                *)
(***************************************************************************)
\* States in which a mark may be set, and states between a name and its value.
MarkedStates == UrlStates \union {"s_header_field", "s_header_value", "s_body_identity",
                                  "s_chunk_data", "s_chunk_data_almost_done"}
BlankStates  == {"s_header_value_discard_ws", "s_header_value_discard_ws_almost_done",
                 "s_header_value_discard_lws"}

Marks(q) ==
  q.errno = "OK" =>
    /\ q.gone => q.state \in {"s_start_req", "s_dead"}
    /\ q.state = "s_header_field" => q.mark = "header_field"
    /\ q.state \notin MarkedStates => q.mark = "none"
    /\ q.state \in BlankStates => q.hbs = 1

OnLength(q) == q.state = "s_header_value" /\ q.hs = "h_content_length" /\ q.errno = "OK"

\* What has come of a content length is a number, and the parser has it.
Reads(q) ==
  /\ Marks(q)
  /\ OnLength(q) => /\ q.mark = "header_value" /\ IsSeq(q.held)
                    /\ q.hbs = 0 => IsSeq(q.value)
                    /\ q.cl = Number(ValueSoFar(q))

\* A handler that does not stay in, or come to, a content length.
Leaves(r) == Marks(r) /\ ~OnLength(r)

\* The end of Byte.
Took(q, ch) == IF q.mark = "none" THEN q ELSE [q EXCEPT !.held = Append(@, ch)]

\* Between two symbols, and no mark is set.
Unmarked(q) == DOMAIN q = Fields /\ q.mark = "none" /\ ~q.gone

LEMMA CallbackMarks ==
  ASSUME NEW q, DOMAIN q = Fields
  PROVE  /\ OnMessageBegin(q).mark = q.mark /\ OnMessageComplete(q).mark = q.mark
         /\ OnHeadersComplete(q).mark = q.mark
         /\ Data(q).mark = "none" /\ (q.mark = "header_field" => Data(q).hbs = 1)
         /\ \A m : q.mark = "none" => /\ Mark(q, m).mark = m /\ Mark(q, m).held = <<>>
                                      /\ Mark(q, m).hbs = q.hbs
         /\ \A m : q.mark # "none" => Mark(q, m) = q
<1>1. OnMessageBegin(q).mark = q.mark /\ OnMessageComplete(q).mark = q.mark
  BY DEF OnMessageBegin, OnMessageComplete, Fields
<1>2. \A m : /\ q.mark = "none" => /\ Mark(q, m).mark = m /\ Mark(q, m).held = <<>>
                                   /\ Mark(q, m).hbs = q.hbs
             /\ q.mark # "none" => Mark(q, m) = q
  BY DEF Mark, Fields
<1>3. OnHeadersComplete(q).mark = q.mark
  <2> DEFINE r == IF q.field # <<>>
                  THEN [q EXCEPT !.headers = Append(@, <<q.field, q.value>>), !.field = <<>>, !.value = <<>>]
                  ELSE q
  <2>1. r.mark = q.mark /\ DOMAIN r = Fields
    BY DEF Fields
  <2> HIDE DEF r
  <2>2. \A c : [r EXCEPT !.calls = Append(@, c)].mark = q.mark
    BY <2>1 DEF Fields
  <2> QED
    BY <2>2 DEF OnHeadersComplete, r
<1>4. Data(q).mark = "none" /\ (q.mark = "header_field" => Data(q).hbs = 1)
  <2> DEFINE r == CASE q.mark = "url" -> [q EXCEPT !.raw_url = @ \o q.held]
                    [] q.mark = "header_field" -> OnHeaderField(q, q.held)
                    [] q.mark = "header_value" -> OnHeaderValue(q, q.held)
                    [] q.mark = "body" -> [q EXCEPT !.body = @ \o q.held]
                    [] OTHER -> q
  <2>1. \A s : /\ DOMAIN OnHeaderField(q, s) = Fields /\ OnHeaderField(q, s).hbs = 1
               /\ DOMAIN OnHeaderValue(q, s) = Fields
    BY DEF OnHeaderField, OnHeaderValue, Fields
  <2>2. /\ DOMAIN [q EXCEPT !.raw_url = @ \o q.held] = Fields
        /\ DOMAIN [q EXCEPT !.body = @ \o q.held] = Fields
    OBVIOUS
  <2>3. DOMAIN r = Fields /\ (q.mark = "header_field" => r.hbs = 1)
    BY <2>1, <2>2
  <2>4. Data(q) = [r EXCEPT !.mark = "none", !.held = <<>>]
    BY DEF Data
  <2> HIDE DEF r
  <2> QED
    BY <2>3, <2>4 DEF Fields
<1> QED
  BY <1>1, <1>2, <1>3, <1>4

\* A callback's record, with what is known of its mark.
LEMMA DataLeaves ==
  ASSUME NEW q, DOMAIN q = Fields, ~q.gone,
         q.state \notin {"s_header_field", "s_header_value"},
         q.state \in BlankStates => q.mark = "header_field"
  PROVE  Leaves(Data(q)) /\ Unmarked(Data(q)) /\ Data(q).state = q.state
<1>1. Same(q, Data(q)) /\ Data(q).mark = "none" /\ (q.mark = "header_field" => Data(q).hbs = 1)
  BY CallbacksSame, CallbackMarks
<1> QED
  BY <1>1 DEF Same, Leaves, Marks, OnLength, Unmarked

\* States that no mark and no name belongs to.
FreeStates == (States \union {"s_header_value_start", "s_headers_done"})
                \ (BlankStates \union {"s_header_field", "s_header_value"})

LEMMA UnmarkedLeaves ==
  ASSUME NEW q, Unmarked(q), q.state \in FreeStates
  PROVE  Leaves(q)
BY DEF Unmarked, FreeStates, Leaves, Marks, OnLength

LEMMA GotoFields ==
  ASSUME NEW q, DOMAIN q = Fields, NEW s
  PROVE  /\ DOMAIN Goto(q, s) = Fields /\ Goto(q, s).state = s
         /\ \A f \in Fields \ {"state"} : Goto(q, s)[f] = q[f]
BY DEF Goto, Fields

LEMMA GotoLeaves ==
  ASSUME NEW q, Unmarked(q), NEW s
  PROVE  Unmarked(Goto(q, s)) /\ (s \in FreeStates => Leaves(Goto(q, s)))
<1>1. Unmarked(Goto(q, s)) /\ Goto(q, s).state = s
  BY GotoFields DEF Unmarked, Fields
<1> QED
  BY <1>1, UnmarkedLeaves

LEMMA FailLeaves ==
  ASSUME NEW q, DOMAIN q = Fields, NEW e, e # "OK"
  PROVE  Leaves(Fail(q, e))
<1>1. Fail(q, e).errno = e
  BY DEF Fail, Fields
<1> QED
  BY <1>1 DEF Leaves, Marks, OnLength

\* A symbol at the end changes nothing where no length is read.
LEMMA TookLeaves ==
  ASSUME NEW r, DOMAIN r = Fields, Leaves(r), NEW ch
  PROVE  Reads(Took(r, ch))
<1>1. \A h : /\ [r EXCEPT !.held = h].errno = r.errno /\ [r EXCEPT !.held = h].state = r.state
             /\ [r EXCEPT !.held = h].hs = r.hs /\ [r EXCEPT !.held = h].mark = r.mark
             /\ [r EXCEPT !.held = h].hbs = r.hbs /\ [r EXCEPT !.held = h].gone = r.gone
  BY DEF Fields
<1> QED
  BY <1>1 DEF Took, Leaves, Reads, Marks, OnLength

LEMMA CompleteLeaves ==
  ASSUME NEW q, Unmarked(q)
  PROVE  Leaves(MessageComplete(q)) /\ Leaves([MessageComplete(q) EXCEPT !.gone = TRUE])
<1> DEFINE r == NewMessage(q)
           s == MessageComplete(q)
<1>1. Unmarked(r) /\ r.state \in {"s_start_req", "s_dead"}
  BY GotoLeaves, GotoFields DEF NewMessage, Unmarked
<1>2. s = OnMessageComplete(r)
  BY DEF MessageComplete
<1> HIDE DEF r, s
<1>3. Same(r, s) /\ s.mark = "none"
  BY <1>1, <1>2, CallbacksSame, CallbackMarks DEF Unmarked
<1>4. Leaves(s)
  BY <1>1, <1>3 DEF Same, Unmarked, Leaves, Marks, OnLength, BlankStates
<1>5. Leaves([s EXCEPT !.gone = TRUE])
  BY <1>1, <1>3 DEF Same, Fields, Leaves, Marks, OnLength, BlankStates
<1> QED
  BY <1>4, <1>5 DEF s

LEMMA HeadersDoneLeaves ==
  ASSUME NEW q, Unmarked(q), NEW ch
  PROVE  Leaves(HeadersDone(q, ch))
<1> DEFINE r == [q EXCEPT !.nread = 0]
<1>1. Unmarked(r)
  BY DEF Unmarked, Fields
<1> HIDE DEF r
<1>2. /\ Leaves(MessageComplete(r)) /\ Leaves([MessageComplete(r) EXCEPT !.gone = TRUE])
      /\ Leaves(Goto(r, "s_chunk_size_start")) /\ Leaves(Goto(r, "s_body_identity"))
  BY <1>1, CompleteLeaves, GotoLeaves
     DEF FreeStates, States, BlankStates, ChunkStates, SizeStates
<1>3. Leaves(Fail(q, "STRICT"))
  BY FailLeaves DEF Unmarked
<1> QED
  BY <1>2, <1>3 DEF HeadersDone, r

LEMMA HeadersAlmostDoneLeaves ==
  ASSUME NEW q, Unmarked(q), NEW ch
  PROVE  Leaves(HeadersAlmostDone(q, ch))
<1> DEFINE s == [q EXCEPT !.upgrade = "upgrade" \in q.flags \/ q.method = "CONNECT",
                          !.state = "s_headers_done"]
           t == OnHeadersComplete(s)
<1>1. Unmarked(s)
  BY DEF Unmarked, Fields
<1> HIDE DEF s
<1>2. Unmarked(t)
  BY <1>1, CallbacksSame, CallbackMarks DEF Same, Unmarked
<1> HIDE DEF t
<1>3. Leaves(HeadersDone(t, ch)) /\ Leaves(MessageComplete(q)) /\ Leaves(Fail(q, "STRICT"))
  BY <1>2, HeadersDoneLeaves, CompleteLeaves, FailLeaves DEF Unmarked
<1> QED
  BY <1>3 DEF HeadersAlmostDone, s, t

LEMMA HeaderFieldStartLeaves ==
  ASSUME NEW q, Unmarked(q), NEW ch
  PROVE  Leaves(HeaderFieldStart(q, ch))
<1> DEFINE r == Goto(q, "s_headers_almost_done")
           m == Mark(q, "header_field")
           h == IF Lower(ch) \in DOMAIN NameGuess THEN NameGuess[Lower(ch)] ELSE "h_general"
           t == [m EXCEPT !.index = 0, !.state = "s_header_field", !.hs = h]
<1>1. Unmarked(r) /\ Leaves(r)
  BY GotoLeaves DEF FreeStates, States, HeaderStates, BlankStates
<1>2. Leaves(HeadersAlmostDone(r, ch))
  <2> HIDE DEF r
  <2> QED
    BY <1>1, HeadersAlmostDoneLeaves
<1>3. Leaves(Fail(q, "INVALID_HEADER_TOKEN"))
  BY FailLeaves DEF Unmarked
<1>4. Leaves(t)
  <2>1. Same(q, m) /\ m.mark = "header_field"
    BY CallbacksSame, CallbackMarks DEF Unmarked
  <2> HIDE DEF m, h
  <2>2. t.state = "s_header_field" /\ t.mark = "header_field" /\ t.gone = q.gone
    BY <2>1 DEF Same, Fields
  <2> HIDE DEF t
  <2> QED
    BY <2>2 DEF Unmarked, Leaves, Marks, OnLength, MarkedStates, BlankStates
<1> QED
  BY <1>1, <1>2, <1>3, <1>4 DEF HeaderFieldStart

LEMMA HeaderFieldLeaves ==
  ASSUME NEW q, DOMAIN q = Fields, ~q.gone, q.state = "s_header_field", q.mark = "header_field", NEW ch
  PROVE  Leaves(HeaderField(q, ch))
<1>1. \A h : Leaves([q EXCEPT !.hs = h])
  BY DEF Fields, Leaves, Marks, OnLength, MarkedStates, BlankStates
<1>2. ASSUME NEW s, s \notin {"s_header_field", "s_header_value"} PROVE Leaves(Data(Goto(q, s)))
  <2>1. /\ DOMAIN Goto(q, s) = Fields /\ ~Goto(q, s).gone /\ Goto(q, s).state = s
        /\ Goto(q, s).mark = "header_field"
    BY GotoFields DEF Fields
  <2> QED
    BY <1>2, <2>1, DataLeaves
<1>3. Leaves(Fail(q, "INVALID_HEADER_TOKEN"))
  BY FailLeaves
<1> QED
  BY <1>1, <1>2, <1>3 DEF HeaderField

\* The first symbol of a value; where it is a content length's, its name has come.
LEMMA HeaderValueStartReads ==
  ASSUME NEW q, Unmarked(q), NEW ch, q.hs = "h_content_length" /\ ch \in Digits => q.hbs = 1
  PROVE  Reads(Took(HeaderValueStart(q, ch), ch))
<1> DEFINE m == Mark(q, "header_value")
           r == [m EXCEPT !.state = "s_header_value", !.index = 0]
<1>1. /\ DOMAIN r = Fields /\ r.state = "s_header_value" /\ r.hs = q.hs /\ ~r.gone
      /\ r.mark = "header_value" /\ r.held = <<>> /\ r.hbs = q.hbs
  <2>1. Same(q, m) /\ m.mark = "header_value" /\ m.held = <<>> /\ m.hbs = q.hbs
    BY CallbacksSame, CallbackMarks DEF Unmarked
  <2> HIDE DEF m
  <2> QED
    BY <2>1 DEF Same, Fields, Unmarked
<1> HIDE DEF r
<1>2. ASSUME NEW s, DOMAIN s = Fields, s.state = "s_header_value", ~s.gone, s.hs # "h_content_length"
      PROVE  Reads(Took(s, ch))
  <2>1. Leaves(s)
    BY <1>2 DEF Leaves, Marks, OnLength, MarkedStates, BlankStates
  <2> QED
    BY <1>2, <2>1, TookLeaves
<1>3. \A h : h # "h_content_length" => Reads(Took([r EXCEPT !.hs = h], ch))
  <2> TAKE h
  <2>1. /\ DOMAIN [r EXCEPT !.hs = h] = Fields /\ [r EXCEPT !.hs = h].state = "s_header_value"
        /\ ~[r EXCEPT !.hs = h].gone /\ [r EXCEPT !.hs = h].hs = h
    BY <1>1 DEF Fields
  <2> QED
    BY <1>2, <2>1
<1>4. CASE q.hs = "h_upgrade"
  <2> DEFINE s == [r EXCEPT !.flags = r.flags \union {"upgrade"}, !.hs = "h_general"]
  <2>1. HeaderValueStart(q, ch) = s
    BY <1>4 DEF HeaderValueStart, r
  <2>2. DOMAIN s = Fields /\ s.state = "s_header_value" /\ ~s.gone /\ s.hs = "h_general"
    BY <1>1 DEF Fields
  <2> HIDE DEF s
  <2> QED
    BY <1>2, <2>1, <2>2
<1>5. CASE q.hs = "h_transfer_encoding"
  <2>1. \E h : h # "h_content_length" /\ HeaderValueStart(q, ch) = [r EXCEPT !.hs = h]
    BY <1>5 DEF HeaderValueStart, r
  <2> QED
    BY <1>3, <2>1
<1>6. CASE q.hs = "h_connection"
  <2>1. \E h : h # "h_content_length" /\ HeaderValueStart(q, ch) = [r EXCEPT !.hs = h]
    BY <1>6 DEF HeaderValueStart, r
  <2> QED
    BY <1>3, <2>1
<1>7. CASE q.hs \notin {"h_upgrade", "h_transfer_encoding", "h_connection", "h_content_length"}
  <2>1. HeaderValueStart(q, ch) = [r EXCEPT !.hs = "h_general"]
    BY <1>7 DEF HeaderValueStart, r
  <2> QED
    BY <1>3, <2>1
<1>8. CASE q.hs = "h_content_length" /\ ch \notin Digits
  <2>1. HeaderValueStart(q, ch) = Fail(r, "INVALID_CONTENT_LENGTH")
    BY <1>8 DEF HeaderValueStart, r
  <2>2. DOMAIN Fail(r, "INVALID_CONTENT_LENGTH") = Fields
    BY <1>1 DEF Fail
  <2> QED
    BY <1>1, <2>1, <2>2, FailLeaves, TookLeaves
<1>9. CASE q.hs = "h_content_length" /\ ch \in Digits
  <2> DEFINE s == [r EXCEPT !.cl = Value[ch]]
             t == [s EXCEPT !.held = Append(@, ch)]
  <2>1. HeaderValueStart(q, ch) = s
    BY <1>9 DEF HeaderValueStart, r
  <2>2. /\ t.state = "s_header_value" /\ ~t.gone /\ t.mark = "header_value" /\ t.hbs = 1
        /\ t.held = Append(<<>>, ch) /\ t.cl = Value[ch] /\ s.mark = "header_value"
    BY <1>1, <1>9 DEF Fields
  <2>3. Took(s, ch) = t
    BY <2>2 DEF Took
  <2> HIDE DEF s, t
  <2>4. IsSeq(t.held) /\ ValueSoFar(t) = t.held
    <3>1. IsSeq(t.held)
      <4>1. IsSeq(Append(<<>>, ch))
        BY NumberOfNothing, Longer
      <4> QED
        BY <2>2, <4>1
    <3>2. ValueSoFar(t) = <<>> \o t.held
      BY <2>2 DEF ValueSoFar
    <3>3. <<>> \o t.held = t.held
      BY <3>1 DEF IsSeq
    <3> QED
      BY <3>1, <3>2, <3>3
  <2>5. Number(t.held) = 10 * 0 + Value[ch]
    BY <1>9, <2>2, NumberOfNothing, NumberGrows
  <2>6. Value[ch] \in Nat
    BY <1>9, DigitValues
  <2>7. t.cl = Number(ValueSoFar(t))
    BY <2>2, <2>4, <2>5, <2>6
  <2>8. Reads(t)
    BY <2>2, <2>4, <2>7 DEF Reads, Marks, MarkedStates, BlankStates
  <2> QED
    BY <2>1, <2>3, <2>8
<1> QED
  BY <1>4, <1>5, <1>6, <1>7, <1>8, <1>9

\* Whatever is held and has been handed over, one more symbol comes behind it.
LEMMA TextGrows ==
  ASSUME NEW q, DOMAIN q = Fields, q.mark = "header_value", IsSeq(q.held),
         q.hbs = 0 => IsSeq(q.value), NEW ch
  PROVE  LET r == Took(q, ch)
         IN /\ IsSeq(r.held) /\ r.hbs = q.hbs /\ r.value = q.value
            /\ IsSeq(ValueSoFar(q)) /\ ValueSoFar(r) = Append(ValueSoFar(q), ch)
<1> DEFINE r == Took(q, ch)
           v == IF q.hbs = 0 THEN q.value ELSE <<>>
<1>1. r.held = Append(q.held, ch) /\ r.hbs = q.hbs /\ r.value = q.value
  BY DEF Took, Fields
<1>2. IsSeq(v)
  BY NumberOfNothing
<1>3. PICK S : v \in Seq(S)
  BY <1>2 DEF IsSeq
<1>4. PICK T : q.held \in Seq(T)
  BY DEF IsSeq
<1> DEFINE U == S \union T \union {ch}
<1>5. v \in Seq(U) /\ q.held \in Seq(U) /\ ch \in U
  BY <1>3, <1>4
<1>6. ValueSoFar(q) = v \o q.held /\ ValueSoFar(r) = v \o r.held
  BY <1>1 DEF ValueSoFar
<1> HIDE DEF r, v, U
<1>7. v \o Append(q.held, ch) = Append(v \o q.held, ch) /\ v \o q.held \in Seq(U)
      /\ Append(q.held, ch) \in Seq(U)
  BY <1>5
<1> QED
  BY <1>1, <1>6, <1>7 DEF IsSeq, r

LEMMA HeaderValueDiscardWsReads ==
  ASSUME NEW q, Unmarked(q), q.state = "s_header_value_discard_ws", q.hbs = 1, NEW ch
  PROVE  Reads(Took(HeaderValueDiscardWs(q, ch), ch))
<1>1. ASSUME NEW s \in BlankStates PROVE Reads(Took(Goto(q, s), ch))
  <2>1. /\ DOMAIN Goto(q, s) = Fields /\ Goto(q, s).state = s /\ Goto(q, s).mark = "none"
        /\ ~Goto(q, s).gone /\ Goto(q, s).hbs = 1
    BY GotoFields DEF Unmarked, Fields
  <2>2. Leaves(Goto(q, s))
    BY <2>1 DEF Leaves, Marks, OnLength, BlankStates
  <2> QED
    BY <2>1, <2>2, TookLeaves
<1>2. Reads(Took(q, ch))
  BY TookLeaves DEF Unmarked, Leaves, Marks, OnLength
<1>3. Reads(Took(HeaderValueStart(q, ch), ch))
  BY HeaderValueStartReads
<1> QED
  BY <1>1, <1>2, <1>3 DEF HeaderValueDiscardWs, BlankStates

LEMMA HeaderAlmostDoneLeaves ==
  ASSUME NEW q, Unmarked(q), NEW ch
  PROVE  Leaves(HeaderAlmostDone(q, ch))
<1>1. Leaves(Fail(q, "STRICT"))
  BY FailLeaves DEF Unmarked
<1>2. Leaves(Goto(q, "s_header_value_lws"))
  BY GotoLeaves DEF FreeStates, States, HeaderStates, BlankStates
<1> QED
  BY <1>1, <1>2 DEF HeaderAlmostDone

\* No value is taken for a content length that has not begun as one.
LEMMA GuessesNoLength ==
  ASSUME NEW h \in ValueGuesses, NEW ch
  PROVE  NextGuess(h, ch) # "h_content_length"
<1> DEFINE C == {c \in Completes : c[1] = h /\ c[2] = ch}
<1>1. \A c \in C : c[3] # "h_content_length"
  BY DEF Completes, ValueGuesses
<1>2. CASE C = {}
  BY <1>2 DEF NextGuess
<1>3. CASE C # {}
  <2>1. (CHOOSE c \in Completes : c[1] = h /\ c[2] = ch) \in C
    BY <1>3
  <2>2. NextGuess(h, ch) = (CHOOSE c \in Completes : c[1] = h /\ c[2] = ch)[3]
    BY <1>3 DEF NextGuess
  <2> QED
    BY <1>1, <2>1, <2>2
<1> QED
  BY <1>2, <1>3

LEMMA HeaderValueReads ==
  ASSUME NEW q, Behind(q), ~q.gone, Reads(q), q.state = "s_header_value", NEW ch
  PROVE  Reads(Took(HeaderValue(q, ch), ch))
<1> DEFINE r == Data(Goto(q, "s_header_almost_done"))
<1>1. DOMAIN q = Fields /\ q.errno = "OK" /\ q.hs \in ValueGuesses /\ q.cl \in 0 .. MaxLength
  BY DEF Behind, Sound, Counts
<1>2. Leaves(r) /\ Unmarked(r)
  <2>1. /\ DOMAIN Goto(q, "s_header_almost_done") = Fields
        /\ Goto(q, "s_header_almost_done").state = "s_header_almost_done"
        /\ ~Goto(q, "s_header_almost_done").gone
    BY <1>1, GotoFields DEF Fields
  <2> QED
    BY <2>1, DataLeaves DEF BlankStates
<1> HIDE DEF r
<1>3. CASE ch = "CR"
  <2>1. HeaderValue(q, ch) = r
    BY <1>3 DEF HeaderValue, r
  <2> QED
    BY <1>2, <2>1, TookLeaves DEF Unmarked
<1>4. CASE ch = "LF"
  <2>1. HeaderValue(q, ch) = Goto(r, "s_header_value_lws")
    BY <1>4 DEF HeaderValue, HeaderAlmostDone, r
  <2>2. Leaves(Goto(r, "s_header_value_lws")) /\ DOMAIN Goto(r, "s_header_value_lws") = Fields
    BY <1>2, GotoLeaves DEF Unmarked, FreeStates, States, HeaderStates, BlankStates
  <2> QED
    BY <2>1, <2>2, TookLeaves
<1>5. \A e : e # "OK" => Reads(Took(Fail(q, e), ch))
  <2>1. \A e : DOMAIN Fail(q, e) = Fields
    BY <1>1 DEF Fail
  <2> QED
    BY <1>1, <2>1, FailLeaves, TookLeaves
<1>6. CASE ch \notin {"CR", "LF"} /\ q.hs = "h_content_length"
  <2>1. /\ q.mark = "header_value" /\ IsSeq(q.held) /\ (q.hbs = 0 => IsSeq(q.value))
        /\ q.cl = Number(ValueSoFar(q))
    BY <1>1, <1>6 DEF Reads, OnLength
  <2> DEFINE t == Took(q, ch)
  <2>2. /\ IsSeq(t.held) /\ t.hbs = q.hbs /\ t.value = q.value
        /\ IsSeq(ValueSoFar(q)) /\ ValueSoFar(t) = Append(ValueSoFar(q), ch)
    BY <1>1, <2>1, TextGrows
  <2>3. /\ t.state = q.state /\ t.hs = q.hs /\ t.errno = "OK" /\ ~t.gone /\ t.cl = q.cl
        /\ t.mark = "header_value" /\ DOMAIN t = Fields
    BY <1>1, <2>1 DEF Took, Fields
  <2>4. t = [q EXCEPT !.held = Append(@, ch)]
    BY <2>1 DEF Took
  <2> HIDE DEF t
  <2>5. CASE ch = "SP"
    <3>1. Number(ValueSoFar(t)) = q.cl
      BY <2>1, <2>2, <2>5, NumberGrows DEF Digits
    <3>2. Reads(t)
      BY <2>1, <2>2, <2>3, <3>1 DEF Reads, Marks, MarkedStates, BlankStates
    <3>3. HeaderValue(q, ch) = q
      BY <1>6, <2>5 DEF HeaderValue
    <3> QED
      BY <3>2, <3>3 DEF t
  <2>6. CASE ch \in Digits
    <3> DEFINE n == 10 * q.cl + Value[ch]
               s == [q EXCEPT !.cl = n]
    <3>1. HeaderValue(q, ch) = AnotherDigit(q, 10, Value[ch])
      BY <1>6, <2>6 DEF HeaderValue, Digits
    <3>2. AnotherDigit(q, 10, Value[ch]) \in {Fail(q, "INVALID_CONTENT_LENGTH"), s}
      <4>1. Value[ch] \in 0 .. (10 - 1)
        BY <2>6, DigitValues
      <4> QED
        BY <1>1, <4>1, LengthsNeverWrap
    <3>3. Number(ValueSoFar(t)) = n
      BY <2>1, <2>2, <2>6, NumberGrows
    <3> HIDE DEF n
    <3>4. Took(s, ch) = [t EXCEPT !.cl = n]
      BY <1>1, <2>1, <2>4 DEF Took, Fields
    <3> DEFINE u == [t EXCEPT !.cl = n]
    <3>5. /\ u.state = q.state /\ u.hs = q.hs /\ u.errno = "OK" /\ ~u.gone /\ u.cl = n
          /\ u.mark = "header_value" /\ u.held = t.held /\ u.value = t.value /\ u.hbs = t.hbs
      BY <2>3 DEF Fields
    <3> HIDE DEF u
    <3>6. Number(ValueSoFar(u)) = n
      BY <3>3, <3>5 DEF ValueSoFar
    <3>7. Reads(u)
      BY <2>1, <2>2, <3>5, <3>6 DEF Reads, Marks, MarkedStates, BlankStates
    <3> QED
      BY <1>5, <3>1, <3>2, <3>4, <3>7 DEF u
  <2>7. CASE ch # "SP" /\ ch \notin Digits
    <3>1. HeaderValue(q, ch) = Fail(q, "INVALID_CONTENT_LENGTH")
      BY <1>6, <2>7 DEF HeaderValue
    <3> QED
      BY <1>5, <3>1
  <2> QED
    BY <2>5, <2>6, <2>7
<1>7. CASE ch \notin {"CR", "LF"} /\ q.hs # "h_content_length"
  <2>1. HeaderValue(q, ch) \in {q, [q EXCEPT !.hs = NextGuess(q.hs, ch)]}
    BY <1>7 DEF HeaderValue
  <2>2. NextGuess(q.hs, ch) # "h_content_length"
    BY <1>1, GuessesNoLength
  <2>3. ASSUME NEW h, h # "h_content_length" PROVE Leaves([q EXCEPT !.hs = h])
    <3>1. /\ [q EXCEPT !.hs = h].state = "s_header_value" /\ [q EXCEPT !.hs = h].hs = h
          /\ ~[q EXCEPT !.hs = h].gone
      BY <1>1 DEF Fields
    <3> QED
      BY <2>3, <3>1 DEF Leaves, Marks, OnLength, MarkedStates, BlankStates
  <2>4. Leaves(q)
    BY <1>7 DEF Leaves, Reads, OnLength
  <2>5. DOMAIN [q EXCEPT !.hs = NextGuess(q.hs, ch)] = Fields
    BY <1>1
  <2> QED
    BY <1>1, <2>1, <2>2, <2>3, <2>4, <2>5, TookLeaves
<1> QED
  BY <1>3, <1>4, <1>6, <1>7

LEMMA HeaderValueLwsReads ==
  ASSUME NEW q, Unmarked(q), q.state = "s_header_value_lws", NEW ch
  PROVE  Reads(Took(HeaderValueLws(q, ch), ch)) \/ Leaves(HeaderValueLws(q, ch))
<1>1. CASE ch \in {"SP", "HT"}
  <2>1. Unmarked(Goto(q, "s_header_value_start"))
    BY GotoLeaves
  <2>2. ch \notin Digits
    BY <1>1 DEF Digits
  <2> QED
    BY <1>1, <2>1, <2>2, HeaderValueStartReads DEF HeaderValueLws
<1>2. CASE ch \notin {"SP", "HT"}
  <2> DEFINE more == CASE q.hs = "h_connection_keep_alive" -> {"keep_alive"}
                       [] q.hs = "h_connection_close" -> {"close"}
                       [] q.hs = "h_transfer_encoding_chunked" -> {"chunked"}
                       [] OTHER -> {}
             r == [q EXCEPT !.state = "s_header_field_start", !.flags = @ \union more]
  <2>1. HeaderValueLws(q, ch) = HeaderFieldStart(r, ch)
    BY <1>2 DEF HeaderValueLws
  <2> HIDE DEF more
  <2>2. Unmarked(r)
    BY DEF Unmarked, Fields
  <2> HIDE DEF r
  <2> QED
    BY <2>1, <2>2, HeaderFieldStartLeaves
<1> QED
  BY <1>1, <1>2

LEMMA HeaderValueDiscardLwsLeaves ==
  ASSUME NEW q, Unmarked(q), q.hbs = 1, NEW ch
  PROVE  Leaves(HeaderValueDiscardLws(q, ch))
<1>1. CASE ch \in {"SP", "HT"}
  <2> DEFINE r == Goto(q, "s_header_value_discard_ws")
  <2>1. /\ r.state = "s_header_value_discard_ws" /\ r.mark = "none" /\ ~r.gone /\ r.hbs = 1
    BY GotoFields DEF Unmarked, Fields
  <2>2. HeaderValueDiscardLws(q, ch) = r
    BY <1>1 DEF HeaderValueDiscardLws
  <2> HIDE DEF r
  <2> QED
    BY <2>1, <2>2 DEF Leaves, Marks, OnLength
<1>2. CASE ch \notin {"SP", "HT"}
  <2> DEFINE r == Goto(q, "s_header_field_start")
             s == Mark(r, "header_value")
             t == Data(s)
  <2>1. Unmarked(r) /\ r.state = "s_header_field_start"
    BY GotoLeaves, GotoFields DEF Unmarked
  <2> HIDE DEF r
  <2>2. DOMAIN s = Fields /\ ~s.gone /\ s.state = "s_header_field_start"
    BY <2>1, CallbacksSame DEF Unmarked, Same
  <2> HIDE DEF s
  <2>3. Unmarked(t)
    BY <2>2, DataLeaves DEF BlankStates
  <2>4. HeaderValueDiscardLws(q, ch) = HeaderFieldStart(t, ch)
    BY <1>2 DEF HeaderValueDiscardLws, r, s
  <2> HIDE DEF t
  <2> QED
    BY <2>3, <2>4, HeaderFieldStartLeaves
<1> QED
  BY <1>1, <1>2

\* A state that is not a header's, and whose mark is its own.
LEMMA MarkedLeaves ==
  ASSUME NEW q, ~q.gone, q.state \in MarkedStates \ {"s_header_field", "s_header_value"}
  PROVE  Leaves(q)
BY DEF Leaves, Marks, OnLength, MarkedStates, BlankStates, UrlStates

LEMMA StartReqLeaves ==
  ASSUME NEW q, Unmarked(q), q.state = "s_start_req", NEW ch
  PROVE  Leaves(StartReq(q, ch))
<1> DEFINE r == [q EXCEPT !.flags = {}, !.cl = MaxLength]
           s == [r EXCEPT !.method = FirstGuess[ch], !.index = 1, !.state = "s_req_method"]
<1>1. Leaves(q)
  BY UnmarkedLeaves DEF FreeStates, States, BlankStates
<1>2. Unmarked(r)
  BY DEF Unmarked, Fields
<1> HIDE DEF r
<1>3. Leaves(Fail(r, "INVALID_METHOD"))
  BY <1>2, FailLeaves DEF Unmarked
<1>4. Unmarked(s) /\ s.state = "s_req_method"
  BY <1>2 DEF Unmarked, Fields
<1> HIDE DEF s
<1>5. Unmarked(OnMessageBegin(s)) /\ OnMessageBegin(s).state = "s_req_method"
  BY <1>4, CallbacksSame, CallbackMarks DEF Same, Unmarked
<1>6. Leaves(OnMessageBegin(s))
  BY <1>5, UnmarkedLeaves DEF FreeStates, States, BlankStates
<1> QED
  BY <1>1, <1>3, <1>6 DEF StartReq, r, s

LEMMA ReqMethodLeaves ==
  ASSUME NEW q, Unmarked(q), q.state = "s_req_method", NEW ch
  PROVE  Leaves(ReqMethod(q, ch))
<1>1. ASSUME NEW s \in {"s_req_method", "s_req_spaces_before_url"}, NEW r, Unmarked(r), r.state = s
      PROVE  Leaves(r)
  BY <1>1, UnmarkedLeaves DEF FreeStates, States, BlankStates
<1>2. \A n : /\ Leaves([q EXCEPT !.state = "s_req_spaces_before_url", !.index = n])
             /\ Leaves([q EXCEPT !.index = n])
             /\ \A m : Leaves([q EXCEPT !.method = m, !.index = n])
  <2> TAKE n
  <2>1. Unmarked([q EXCEPT !.state = "s_req_spaces_before_url", !.index = n])
        /\ [q EXCEPT !.state = "s_req_spaces_before_url", !.index = n].state = "s_req_spaces_before_url"
    BY DEF Unmarked, Fields
  <2>2. Unmarked([q EXCEPT !.index = n]) /\ [q EXCEPT !.index = n].state = "s_req_method"
    BY DEF Unmarked, Fields
  <2>3. \A m : /\ Unmarked([q EXCEPT !.method = m, !.index = n])
               /\ [q EXCEPT !.method = m, !.index = n].state = "s_req_method"
    BY DEF Unmarked, Fields
  <2> QED
    BY <1>1, <2>1, <2>2, <2>3
<1>3. Leaves(Fail(q, "INVALID_METHOD"))
  BY FailLeaves DEF Unmarked
<1> QED
  BY <1>2, <1>3 DEF ReqMethod

LEMMA UrlCharLeaves ==
  ASSUME NEW q, DOMAIN q = Fields, ~q.gone, NEW s, NEW ch
  PROVE  Leaves(UrlChar(q, s, ch))
<1> DEFINE next == ParseUrlChar(s, ch)
           r == Goto(q, next)
<1>1. next \in UrlStates \union {"s_dead"}
  BY ParsesUrl
<1> HIDE DEF next
<1>2. DOMAIN r = Fields /\ ~r.gone /\ r.state = next
  BY GotoFields DEF Fields
<1> HIDE DEF r
<1>3. Leaves(Fail(r, "INVALID_URL"))
  BY <1>2, FailLeaves
<1>4. next # "s_dead" => Leaves(r)
  BY <1>1, <1>2, MarkedLeaves DEF MarkedStates, UrlStates
<1> QED
  BY <1>3, <1>4 DEF UrlChar, r, next

LEMMA ReqUrlLeaves ==
  ASSUME NEW q, DOMAIN q = Fields, ~q.gone, NEW ch,
         q.state \in UrlStates \/ (q.state = "s_req_spaces_before_url" /\ q.mark = "none")
  PROVE  Leaves(ReqUrl(q, ch))
<1>1. CASE q.state = "s_req_spaces_before_url" /\ q.mark = "none"
  <2> DEFINE r == Mark(q, "url")
             s == IF q.method = "CONNECT" THEN "s_req_server_start" ELSE q.state
  <2>1. Leaves(q)
    BY <1>1, UnmarkedLeaves DEF Unmarked, FreeStates, States, BlankStates
  <2>2. DOMAIN r = Fields /\ ~r.gone
    BY CallbacksSame DEF Same
  <2> HIDE DEF r, s
  <2>3. Leaves(UrlChar(r, s, ch))
    BY <2>2, UrlCharLeaves
  <2> QED
    BY <1>1, <2>1, <2>3 DEF ReqUrl, r, s
<1>2. CASE q.state \in UrlStates
  <2>1. Leaves(UrlChar(q, q.state, ch))
    BY UrlCharLeaves
  <2>2. ASSUME NEW r, DOMAIN r = Fields, ~r.gone, r.state \in FreeStates
        PROVE  Leaves(Data(r))
    BY <2>2, DataLeaves DEF FreeStates
  <2>3. Leaves(Data(Goto(q, "s_req_http_start")))
    <3>1. /\ DOMAIN Goto(q, "s_req_http_start") = Fields /\ ~Goto(q, "s_req_http_start").gone
          /\ Goto(q, "s_req_http_start").state = "s_req_http_start"
      BY GotoFields DEF Fields
    <3> QED
      BY <2>2, <3>1 DEF FreeStates, States, LineStates, BlankStates
  <2>4. ASSUME NEW s \in {"s_req_line_almost_done", "s_header_field_start"}
        PROVE  Leaves(Data([q EXCEPT !.major = 0, !.minor = 9, !.state = s]))
    <3>1. /\ DOMAIN [q EXCEPT !.major = 0, !.minor = 9, !.state = s] = Fields
          /\ ~[q EXCEPT !.major = 0, !.minor = 9, !.state = s].gone
          /\ [q EXCEPT !.major = 0, !.minor = 9, !.state = s].state = s
      BY DEF Fields
    <3>2. s \in FreeStates
      BY DEF FreeStates, States, LineStates, HeaderStates, BlankStates
    <3> QED
      BY <2>2, <3>1, <3>2
  <2>5. q.state # "s_req_spaces_before_url"
    BY <1>2 DEF UrlStates
  <2>6. ReqUrl(q, ch) \in {UrlChar(q, q.state, ch), Data(Goto(q, "s_req_http_start")),
                           Data([q EXCEPT !.major = 0, !.minor = 9, !.state = "s_req_line_almost_done"]),
                           Data([q EXCEPT !.major = 0, !.minor = 9, !.state = "s_header_field_start"])}
    BY <2>5 DEF ReqUrl
  <2> QED
    BY <2>1, <2>3, <2>4, <2>6
<1> QED
  BY <1>1, <1>2

LEMMA ReqHttpLeaves ==
  ASSUME NEW q, Unmarked(q), q.state \in LineStates, NEW ch
  PROVE  Leaves(ReqHttp(q, ch))
<1>1. \A s \in LineStates \union {"s_header_field_start"} : Leaves(Goto(q, s))
  <2>1. LineStates \union {"s_header_field_start"} \subseteq FreeStates
    BY DEF FreeStates, States, LineStates, HeaderStates, BlankStates
  <2> QED
    BY <2>1, GotoLeaves
<1>2. \A e : e # "OK" => Leaves(Fail(q, e))
  BY FailLeaves DEF Unmarked
<1>3. ASSUME NEW s \in LineStates, NEW r, Unmarked(r), r.state = s PROVE Leaves(r)
  BY <1>3, UnmarkedLeaves DEF FreeStates, States, LineStates, BlankStates
<1>4. ASSUME NEW n, NEW s \in LineStates
      PROVE  Leaves([q EXCEPT !.major = n, !.state = s]) /\ Leaves([q EXCEPT !.minor = n, !.state = s])
  <2>1. /\ Unmarked([q EXCEPT !.major = n, !.state = s]) /\ [q EXCEPT !.major = n, !.state = s].state = s
        /\ Unmarked([q EXCEPT !.minor = n, !.state = s]) /\ [q EXCEPT !.minor = n, !.state = s].state = s
    BY DEF Unmarked, Fields
  <2> QED
    BY <1>3, <2>1
<1>5. ASSUME NEW n PROVE Leaves([q EXCEPT !.major = n]) /\ Leaves([q EXCEPT !.minor = n])
  <2>1. /\ Unmarked([q EXCEPT !.major = n]) /\ [q EXCEPT !.major = n].state = q.state
        /\ Unmarked([q EXCEPT !.minor = n]) /\ [q EXCEPT !.minor = n].state = q.state
    BY DEF Unmarked, Fields
  <2> QED
    BY <1>3, <2>1
<1>6. Leaves(q)
  BY <1>3
<1>7. CASE q.state \in {"s_req_http_start", "s_req_http_H", "s_req_http_HTTP"}
  <2>1. /\ Leaves(Goto(q, "s_req_http_H")) /\ Leaves(Goto(q, "s_req_http_HTTP"))
        /\ Leaves(Goto(q, "s_req_first_http_major"))
    BY <1>1 DEF LineStates
  <2> QED
    BY <1>2, <1>6, <1>7, <2>1 DEF ReqHttp
<1>8. CASE q.state = "s_req_first_http_major"
  <2>1. \A n : Leaves([q EXCEPT !.major = n, !.state = "s_req_http_major"])
    BY <1>4 DEF LineStates
  <2> QED
    BY <1>2, <1>8, <2>1 DEF ReqHttp
<1>9. CASE q.state = "s_req_http_major"
  <2>1. Leaves(Goto(q, "s_req_first_http_minor"))
    BY <1>1 DEF LineStates
  <2> QED
    BY <1>2, <1>5, <1>9, <2>1 DEF ReqHttp
<1>10. CASE q.state = "s_req_first_http_minor"
  <2>1. \A n : Leaves([q EXCEPT !.minor = n, !.state = "s_req_http_minor"])
    BY <1>4 DEF LineStates
  <2> QED
    BY <1>2, <1>10, <2>1 DEF ReqHttp
<1>11. CASE q.state = "s_req_http_minor"
  <2>1. Leaves(Goto(q, "s_req_line_almost_done")) /\ Leaves(Goto(q, "s_header_field_start"))
    BY <1>1 DEF LineStates
  <2> QED
    BY <1>2, <1>5, <1>11, <2>1 DEF ReqHttp
<1>12. CASE q.state = "s_req_line_almost_done"
  BY <1>1, <1>2, <1>12 DEF ReqHttp
<1> QED
  BY <1>7, <1>8, <1>9, <1>10, <1>11, <1>12 DEF LineStates

LEMMA BodyIdentityLeaves ==
  ASSUME NEW q, DOMAIN q = Fields, ~q.gone, q.state = "s_body_identity", NEW ch
  PROVE  Leaves(BodyIdentity(q, ch))
<1> DEFINE m == Mark(q, "body")
           r == [m EXCEPT !.cl = @ - 1]
           s == [r EXCEPT !.held = Append(@, ch)]
<1>1. Same(q, m)
  BY CallbacksSame
<1>2. DOMAIN r = Fields /\ r.state = "s_body_identity" /\ ~r.gone
  <2> HIDE DEF m
  <2> QED
    BY <1>1 DEF Same, Fields
<1> HIDE DEF r
<1>3. DOMAIN s = Fields /\ s.state = "s_body_identity" /\ ~s.gone
  BY <1>2 DEF Fields
<1> HIDE DEF s
<1>4. Unmarked(Data(s))
  BY <1>3, DataLeaves DEF BlankStates
<1>5. Leaves(MessageComplete(Data(s)))
  BY <1>4, CompleteLeaves
<1>6. Leaves(r)
  BY <1>2, MarkedLeaves DEF MarkedStates
<1> QED
  BY <1>5, <1>6 DEF BodyIdentity, r, s

LEMMA ChunksLeave ==
  ASSUME NEW q, Behind(q), q.state \in ChunkStates, ~q.gone,
         q.state \notin {"s_chunk_data", "s_chunk_data_almost_done"} => q.mark = "none", NEW ch
  PROVE  /\ q.state = "s_chunk_size_start" => Leaves(ChunkSizeStart(q, ch))
         /\ q.state = "s_chunk_size" => Leaves(ChunkSize(q, ch))
         /\ q.state = "s_chunk_parameters" =>
              Leaves(q) /\ Leaves(Goto(q, "s_chunk_size_almost_done"))
         /\ q.state = "s_chunk_size_almost_done" => Leaves(ChunkSizeAlmostDone(q, ch))
         /\ q.state = "s_chunk_data" => Leaves(ChunkData(q, ch))
         /\ q.state = "s_chunk_data_almost_done" => Leaves(ChunkDataAlmostDone(q, ch))
         /\ q.state = "s_chunk_data_done" => Leaves(ChunkDataDone(q, ch))
<1>1. DOMAIN q = Fields
  BY DEF Behind, Sound, Counts
<1>2. \A e : e # "OK" => Leaves(Fail(q, e))
  BY <1>1, FailLeaves
<1>3. ASSUME NEW r, Unmarked(r),
             r.state \in SizeStates \union {"s_chunk_size_start", "s_chunk_data", "s_chunk_data_done",
                                            "s_header_field_start"}
      PROVE  Leaves(r)
  BY <1>3, UnmarkedLeaves
     DEF FreeStates, States, ChunkStates, SizeStates, HeaderStates, BlankStates
<1>4. CASE q.state \in {"s_chunk_data", "s_chunk_data_almost_done"}
  <2> DEFINE m == Mark(q, "body")
             r == [m EXCEPT !.cl = @ - 1]
  <2>1. Same(q, m)
    BY <1>1, CallbacksSame
  <2>2. DOMAIN r = Fields /\ r.state = q.state /\ ~r.gone
    <3> HIDE DEF m
    <3> QED
      BY <2>1 DEF Same, Fields
  <2> HIDE DEF r
  <2>3. /\ Goto(r, "s_chunk_data_almost_done").state = "s_chunk_data_almost_done"
        /\ ~Goto(r, "s_chunk_data_almost_done").gone
    BY <2>2, GotoFields DEF Fields
  <2>4. Leaves(Goto(r, "s_chunk_data_almost_done")) /\ (q.state = "s_chunk_data" => Leaves(r))
    BY <2>2, <2>3, MarkedLeaves DEF MarkedStates
  <2>5. /\ DOMAIN Goto(q, "s_chunk_data_done") = Fields /\ ~Goto(q, "s_chunk_data_done").gone
        /\ Goto(q, "s_chunk_data_done").state = "s_chunk_data_done"
    BY <1>1, GotoFields DEF Fields
  <2>6. Leaves(Data(Goto(q, "s_chunk_data_done")))
    BY <2>5, DataLeaves DEF BlankStates
  <2>7. q.state = "s_chunk_data" => Leaves(ChunkData(q, ch))
    BY <2>4 DEF ChunkData, r
  <2>8. Leaves(ChunkDataAlmostDone(q, ch))
    BY <1>2, <2>6 DEF ChunkDataAlmostDone
  <2> QED
    BY <1>4, <2>7, <2>8
<1>5. CASE q.state \notin {"s_chunk_data", "s_chunk_data_almost_done"}
  <2>1. Unmarked(q)
    BY <1>1, <1>5 DEF Unmarked
  <2>2. \A s : Unmarked(Goto(q, s)) /\ Goto(q, s).state = s
    BY <1>1, <2>1, GotoLeaves, GotoFields
  <2>3. \A n : /\ Unmarked([q EXCEPT !.cl = n, !.state = "s_chunk_size"])
               /\ [q EXCEPT !.cl = n, !.state = "s_chunk_size"].state = "s_chunk_size"
               /\ Unmarked([q EXCEPT !.cl = n]) /\ [q EXCEPT !.cl = n].state = q.state
    BY <2>1 DEF Unmarked, Fields
  <2>4. q.state = "s_chunk_size_start" => Leaves(ChunkSizeStart(q, ch))
    BY <1>2, <1>3, <2>3 DEF ChunkSizeStart, SizeStates
  <2>5. q.state = "s_chunk_size" => Leaves(AnotherDigit(q, 16, Unhex[ch]))
    BY <1>2, <1>3, <2>3 DEF AnotherDigit, SizeStates
  <2>6. Leaves(Goto(q, "s_chunk_size_almost_done")) /\ Leaves(Goto(q, "s_chunk_parameters"))
    BY <1>3, <2>2 DEF SizeStates
  <2>7. q.state = "s_chunk_size" => Leaves(ChunkSize(q, ch))
    BY <1>2, <2>5, <2>6 DEF ChunkSize
  <2>8. q.state = "s_chunk_parameters" => Leaves(q)
    BY <1>3, <2>1 DEF SizeStates
  <2>9. \A f : /\ Unmarked([q EXCEPT !.nread = 0, !.flags = f, !.state = "s_header_field_start"])
               /\ [q EXCEPT !.nread = 0, !.flags = f, !.state = "s_header_field_start"].state
                    = "s_header_field_start"
    BY <2>1 DEF Unmarked, Fields
  <2>10. \A s : /\ Unmarked([q EXCEPT !.nread = 0, !.state = s])
                /\ [q EXCEPT !.nread = 0, !.state = s].state = s
    BY <2>1 DEF Unmarked, Fields
  <2>11. Leaves(ChunkSizeAlmostDone(q, ch)) /\ Leaves(ChunkDataDone(q, ch))
    BY <1>2, <1>3, <2>9, <2>10 DEF ChunkSizeAlmostDone, ChunkDataDone
  <2> QED
    BY <1>5, <2>4, <2>6, <2>7, <2>8, <2>11
<1> QED
  BY <1>4, <1>5

\* A symbol is read.
LEMMA DispatchReads ==
  ASSUME NEW q, Sound(q), q.errno = "OK", ~q.gone, Reads(q), NEW ch, DOMAIN Dispatch(q, ch) = Fields
  PROVE  Reads(Took(Dispatch(q, ch), ch))
<1>1. DOMAIN q = Fields /\ q.state \in States
  BY DEF Sound, Counts
<1>2. /\ q.state \notin MarkedStates => Unmarked(q)
      /\ q.state \in BlankStates => q.hbs = 1
      /\ q.state = "s_header_field" => q.mark = "header_field"
  BY <1>1 DEF Reads, Marks, Unmarked
<1>3. SUFFICES Leaves(Dispatch(q, ch)) \/ Reads(Took(Dispatch(q, ch), ch))
  BY TookLeaves
<1>4. CASE q.state \in {"s_dead", "s_start_req", "s_req_method"}
  <2>1. Unmarked(q)
    BY <1>2, <1>4 DEF MarkedStates, UrlStates
  <2>2. q.state = "s_dead" => Leaves(q) /\ Leaves(Fail(q, "CLOSED_CONNECTION"))
    BY <1>1, <2>1, UnmarkedLeaves, FailLeaves DEF FreeStates, States, BlankStates
  <2>3. CASE q.state = "s_dead"
    BY <2>2, <2>3 DEF Dispatch, UrlStates
  <2>4. CASE q.state = "s_start_req"
    <3>1. Dispatch(q, ch) = StartReq(q, ch)
      BY <2>4 DEF Dispatch, UrlStates
    <3> QED
      BY <2>1, <2>4, <3>1, StartReqLeaves
  <2>5. CASE q.state = "s_req_method"
    <3>1. Dispatch(q, ch) = ReqMethod(q, ch)
      BY <2>5 DEF Dispatch, UrlStates
    <3> QED
      BY <2>1, <2>5, <3>1, ReqMethodLeaves
  <2> QED
    BY <1>4, <2>3, <2>4, <2>5
<1>5. CASE q.state \in UrlStates \union {"s_req_spaces_before_url"}
  <2>1. Dispatch(q, ch) = ReqUrl(q, ch)
    BY <1>5 DEF Dispatch, UrlStates
  <2>2. q.state = "s_req_spaces_before_url" => q.mark = "none"
    BY <1>2 DEF Unmarked, MarkedStates, UrlStates
  <2> QED
    BY <1>1, <1>5, <2>1, <2>2, ReqUrlLeaves
<1>6. CASE q.state \in LineStates
  <2>1. Dispatch(q, ch) = ReqHttp(q, ch)
    BY <1>6 DEF Dispatch, UrlStates, LineStates
  <2>2. Unmarked(q)
    BY <1>2, <1>6 DEF MarkedStates, UrlStates, LineStates
  <2> QED
    BY <1>6, <2>1, <2>2, ReqHttpLeaves
<1>7. CASE q.state \in {"s_header_field_start", "s_header_field"}
  <2>1. q.state = "s_header_field_start" => Unmarked(q)
    BY <1>2 DEF MarkedStates, UrlStates
  <2> QED
    BY <1>1, <1>2, <1>7, <2>1, HeaderFieldStartLeaves, HeaderFieldLeaves DEF Dispatch, UrlStates
<1>8. CASE q.state = "s_header_value"
  <2>1. Behind(q)
    BY <1>8 DEF Behind
  <2> QED
    BY <1>8, <2>1, HeaderValueReads DEF Dispatch, UrlStates
<1>9. CASE q.state \in BlankStates
  <2>1. Unmarked(q) /\ q.hbs = 1
    BY <1>2, <1>9 DEF MarkedStates, UrlStates, BlankStates
  <2>2. CASE q.state = "s_header_value_discard_ws"
    BY <2>1, <2>2, HeaderValueDiscardWsReads DEF Dispatch, UrlStates
  <2>3. CASE q.state = "s_header_value_discard_ws_almost_done"
    <3> DEFINE r == Goto(q, "s_header_value_discard_lws")
    <3>1. r.state = "s_header_value_discard_lws" /\ r.mark = "none" /\ ~r.gone /\ r.hbs = 1
      BY <2>1, GotoFields DEF Unmarked, Fields
    <3>2. Leaves(r)
      BY <3>1 DEF Leaves, Marks, OnLength
    <3>3. Leaves(Fail(q, "STRICT"))
      BY <1>1, FailLeaves
    <3> QED
      BY <2>3, <3>2, <3>3 DEF Dispatch, UrlStates
  <2>4. CASE q.state = "s_header_value_discard_lws"
    BY <2>1, <2>4, HeaderValueDiscardLwsLeaves DEF Dispatch, UrlStates
  <2> QED
    BY <1>9, <2>2, <2>3, <2>4 DEF BlankStates
<1>10. CASE q.state \in {"s_header_almost_done", "s_header_value_lws", "s_headers_almost_done"}
  <2>1. Unmarked(q)
    BY <1>2, <1>10 DEF MarkedStates, UrlStates
  <2> QED
    BY <1>10, <2>1, HeaderAlmostDoneLeaves, HeaderValueLwsReads, HeadersAlmostDoneLeaves
       DEF Dispatch, UrlStates
<1>11. CASE q.state = "s_body_identity"
  BY <1>1, <1>11, BodyIdentityLeaves DEF Dispatch, UrlStates
<1>12. CASE q.state \in ChunkStates
  <2>1. Behind(q)
    BY <1>12 DEF Behind, ChunkStates, SizeStates
  <2>2. q.state \notin {"s_chunk_data", "s_chunk_data_almost_done"} => q.mark = "none"
    BY <1>2, <1>12 DEF Unmarked, MarkedStates, UrlStates, ChunkStates, SizeStates
  <2>3. CASE q.state \in SizeStates
    BY <1>12, <2>1, <2>2, <2>3, ChunksLeave DEF Dispatch, UrlStates, SizeStates
  <2>4. CASE q.state \in {"s_chunk_size_start", "s_chunk_data"}
    BY <1>12, <2>1, <2>2, <2>4, ChunksLeave DEF Dispatch, UrlStates
  <2>5. CASE q.state \in {"s_chunk_data_almost_done", "s_chunk_data_done"}
    BY <1>12, <2>1, <2>2, <2>5, ChunksLeave DEF Dispatch, UrlStates
  <2> QED
    BY <1>12, <2>3, <2>4, <2>5 DEF ChunkStates
<1> QED
  BY <1>1, <1>4, <1>5, <1>6, <1>7, <1>8, <1>9, <1>10, <1>11, <1>12 DEF States, HeaderStates, BlankStates

LEMMA ByteReads ==
  ASSUME NEW q, Rests(q), ~q.gone, NEW w, Spells(q, w), Reads(q), NEW ch
  PROVE  Reads(Byte(q, ch))
<1> DEFINE counted == IF q.state \in BodyStates THEN q ELSE [q EXCEPT !.nread = @ + 1]
           r == IF counted.nread > MaxHeader /\ q.state \notin BodyStates
                THEN Fail(counted, "HEADER_OVERFLOW") ELSE Dispatch(counted, ch)
<1>1. /\ DOMAIN counted = Fields /\ counted.cl \in 0 .. MaxLength /\ counted.nread \in Nat
      /\ \A f \in Fields \ {"nread"} : counted[f] = q[f]
      /\ q.state \in BodyStates => counted = q
  BY DEF Rests, Sound, Counts, Fields
<1>2. q.errno = "OK"
  BY DEF Rests, Sound, Counts
<1>3. Byte(q, ch) = Took(r, ch)
  BY DEF Byte, Took
<1> HIDE DEF counted
<1>4. /\ counted.state = q.state /\ counted.hs = q.hs /\ counted.cl = q.cl /\ counted.errno = q.errno
      /\ counted.gone = q.gone /\ counted.mark = q.mark /\ counted.hbs = q.hbs
      /\ counted.held = q.held /\ counted.value = q.value /\ counted.flags = q.flags
      /\ counted.method = q.method /\ counted.index = q.index
  BY <1>1 DEF Fields
<1>5. CASE counted.nread > MaxHeader /\ q.state \notin BodyStates
  <2>1. r = Fail(counted, "HEADER_OVERFLOW") /\ DOMAIN r = Fields
    BY <1>1, <1>5 DEF Fail
  <2> HIDE DEF r
  <2> QED
    BY <1>1, <1>3, <2>1, FailLeaves, TookLeaves
<1>6. CASE ~(counted.nread > MaxHeader /\ q.state \notin BodyStates)
  <2>1. Sound(counted) /\ Spells(counted, w)
    BY <1>1, <1>2, <1>4, <1>6, LimitsAssumption DEF Rests, Sound, Counts, Spells
  <2>2. DOMAIN Dispatch(counted, ch) = Fields
    BY <1>2, <1>4, <2>1, DispatchStep DEF Rests, Sound, Counts
  <2>3. ValueSoFar(counted) = ValueSoFar(q)
    BY <1>4 DEF ValueSoFar
  <2>4. Reads(counted)
    BY <1>4, <2>3 DEF Reads, Marks, OnLength
  <2>5. r = Dispatch(counted, ch)
    BY <1>6
  <2> HIDE DEF r
  <2> QED
    BY <1>2, <1>3, <1>4, <2>1, <2>2, <2>4, <2>5, DispatchReads
<1> QED
  BY <1>5, <1>6

\* The text handed over and the text held are one at the end of a buffer.
LEMMA BufferReads ==
  ASSUME NEW q, DOMAIN q = Fields, Reads(q)
  PROVE  ~q.gone => Reads(Begin(End(q)))
<1> SUFFICES ASSUME ~q.gone PROVE Reads(Begin(Data(q)))
  BY DEF End
<1> DEFINE r == Data(q)
           m == CASE r.state = "s_header_field" -> "header_field"
                  [] r.state = "s_header_value" -> "header_value"
                  [] r.state \in UrlStates -> "url"
                  [] OTHER -> "none"
           s == [r EXCEPT !.gone = (r.errno # "OK"), !.held = <<>>, !.mark = m]
<1>1. Same(q, r) /\ r.mark = "none" /\ (q.mark = "header_field" => r.hbs = 1)
  BY CallbacksSame, CallbackMarks
<1>2. Begin(r) = s
  BY DEF Begin
<1>3. q.mark = "none" => r.hbs = q.hbs
  BY DEF Data, Fields
<1>4. OnLength(q) => /\ q.hbs = 0 => r.value = q.value \o q.held
                     /\ q.hbs # 0 => r.value = q.held
                     /\ r.hbs = 0
  <2>1. q.mark = "header_value" => Data(q) = [OnHeaderValue(q, q.held) EXCEPT !.mark = "none", !.held = <<>>]
    BY DEF Data
  <2>2. /\ OnHeaderValue(q, q.held).hbs = 0 /\ DOMAIN OnHeaderValue(q, q.held) = Fields
        /\ q.hbs = 0 => OnHeaderValue(q, q.held).value = q.value \o q.held
        /\ q.hbs # 0 => OnHeaderValue(q, q.held).value = q.held
    BY DEF OnHeaderValue, Fields
  <2> QED
    BY <2>1, <2>2 DEF Reads, Fields
<1> HIDE DEF r, m
<1>5. /\ s.state = q.state /\ s.hs = q.hs /\ s.errno = q.errno /\ s.cl = q.cl /\ s.mark = m
      /\ s.held = <<>> /\ s.gone = (q.errno # "OK") /\ s.hbs = r.hbs /\ s.value = r.value
  BY <1>1 DEF Same, Fields
<1>6. /\ q.state = "s_header_field" => m = "header_field"
      /\ q.state = "s_header_value" => m = "header_value"
      /\ q.state \notin MarkedStates => m = "none"
  BY <1>1 DEF m, Same, MarkedStates, UrlStates
<1> HIDE DEF s
<1>7. Marks(s)
  <2>1. q.errno = "OK" /\ q.state \in BlankStates => s.hbs = 1
    BY <1>3, <1>5 DEF Reads, Marks, BlankStates, MarkedStates, UrlStates
  <2> QED
    BY <1>5, <1>6, <2>1 DEF Marks
<1>8. ASSUME OnLength(s) PROVE IsSeq(s.value) /\ s.hbs = 0 /\ s.cl = Number(ValueSoFar(s))
  <2>1. OnLength(q)
    BY <1>5, <1>8 DEF OnLength
  <2>2. IsSeq(q.held) /\ (q.hbs = 0 => IsSeq(q.value)) /\ q.cl = Number(ValueSoFar(q))
    BY <2>1 DEF Reads
  <2>3. s.value = ValueSoFar(q) /\ IsSeq(s.value)
    <3>1. PICK T : q.held \in Seq(T)
      BY <2>2 DEF IsSeq
    <3>2. CASE q.hbs = 0
      <4>1. PICK S : q.value \in Seq(S)
        BY <2>2, <3>2 DEF IsSeq
      <4>2. q.value \in Seq(S \union T) /\ q.held \in Seq(S \union T)
        BY <3>1, <4>1
      <4>3. q.value \o q.held \in Seq(S \union T)
        BY <4>2
      <4> QED
        BY <1>4, <1>5, <2>1, <3>2, <4>3 DEF ValueSoFar, IsSeq
    <3>3. CASE q.hbs # 0
      <4>1. <<>> \o q.held = q.held
        BY <3>1
      <4> QED
        BY <1>4, <1>5, <2>1, <2>2, <3>3, <4>1 DEF ValueSoFar
    <3> QED
      BY <3>2, <3>3
  <2>4. ValueSoFar(s) = s.value
    <3>1. \A v : IsSeq(v) => v \o <<>> = v
      BY DEF IsSeq
    <3> QED
      BY <1>4, <1>5, <2>1, <2>3, <3>1 DEF ValueSoFar
  <2> QED
    BY <1>4, <1>5, <2>1, <2>2, <2>3, <2>4
<1>9. OnLength(s) => s.mark = "header_value" /\ IsSeq(s.held)
  BY <1>5, <1>6, NumberOfNothing DEF OnLength
<1>10. Reads(s)
  BY <1>7, <1>8, <1>9 DEF Reads
<1> QED
  BY <1>2, <1>10 DEF r

LEMMA EofReads ==
  ASSUME NEW q, DOMAIN q = Fields, Reads(q)
  PROVE  Reads(Eof(End(q)))
<1>1. PICK r : r = End(q)
  OBVIOUS
<1>2. Same(q, r) /\ r.mark = "none" /\ (q.state \in BlankStates => r.hbs = q.hbs \/ q.mark # "none")
  <2>1. CASE q.gone
    BY <1>1, <2>1 DEF End, Same, Fields
  <2>2. CASE ~q.gone
    <3>1. q.mark = "none" => Data(q).hbs = q.hbs
      BY DEF Data, Fields
    <3> QED
      BY <1>1, <2>2, <3>1, CallbacksSame, CallbackMarks DEF End
  <2> QED
    BY <2>1, <2>2
<1>3. Reads(Fail(r, "INVALID_EOF_STATE"))
  BY <1>2, FailLeaves DEF Same, Leaves, Reads
<1>4. r.errno # "OK" \/ r.state \in {"s_dead", "s_start_req"} => Reads(r)
  BY <1>2 DEF Same, Reads, Marks, OnLength, MarkedStates, UrlStates, BlankStates
<1> QED
  BY <1>1, <1>3, <1>4 DEF Eof

-----------------------------------------------------------------------------
\* What is kept by every step: the automaton's own invariant is used to keep it.
LengthInv == ParserInv /\ Reads(p)

LEMMA LengthInvInit == Init => LengthInv
<1> SUFFICES ASSUME Init PROVE Reads(p)
  BY ParserInvInit DEF LengthInv
<1>1. p = Begin(ParserInit)
  BY DEF Init
<1>2. p.state = "s_start_req" /\ p.mark = "none" /\ ~p.gone
  BY <1>1 DEF Begin, ParserInit, UrlStates
<1> QED
  BY <1>2 DEF Reads, Marks, OnLength, BlankStates

LEMMA LengthInvStep == LengthInv /\ [Next]_vars => LengthInv'
<1> SUFFICES ASSUME LengthInv, [Next]_vars PROVE Reads(p)'
  BY ParserInvStep DEF LengthInv
<1> USE DEF LengthInv
<1>1. DOMAIN p = Fields
  BY DEF ParserInv, Rests, Sound, Counts
<1>2. ASSUME Feed PROVE Reads(p)'
  <2>1. Reads(Byte(p, Head(rest)))
    BY <1>2, ByteReads DEF Feed, ParserInv
  <2> QED
    BY <1>2, <2>1 DEF Feed
<1>3. ASSUME Split PROVE Reads(p)'
  BY <1>1, <1>3, BufferReads DEF Split
<1>4. ASSUME Insert \/ Drop PROVE Reads(p)'
  BY <1>4 DEF Insert, Drop
<1>5. ASSUME HangUp PROVE Reads(p)'
  BY <1>1, <1>5, EofReads DEF HangUp
<1>6. ASSUME UNCHANGED vars PROVE Reads(p)'
  BY <1>6 DEF vars
<1> QED
  BY <1>2, <1>3, <1>4, <1>5, <1>6 DEF Next

(***************************************************************************)
(* While a content length is read, the parser's number is the number its   *)
(* digits spell so far, in whatever buffers they came and for every limit: *)
(* CROW_CALLBACK_DATA loses no digit and the product never wraps around.   *)
(***************************************************************************)
THEOREM LengthsAreRead == Spec => []LengthIsRead
<1>1. LengthInv => LengthIsRead
  BY DEF LengthInv, Reads, OnLength, LengthIsRead
<1> QED
  BY <1>1, LengthInvInit, LengthInvStep, PTL DEF Spec

=============================================================================
