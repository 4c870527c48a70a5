----------------------------- MODULE HttpParser -----------------------------
(***************************************************************************)
(* The request half of http_parser (crow_all.h), the character automaton   *)
(* the simulation server reads its connections with, and the callbacks of  *)
(* crow::HTTPParser that collect a request from it.                        *)
(*                                                                         *)
(* The stream is a sequence of symbols: a separator, a letter or a digit,  *)
(* or a piece of a word at which the automaton does not branch ("eep-alive"*)
(* after the "k" that selects keep-alive).  Begin, Byte and End are the    *)
(* beginning, the loop body and the end of one call of                     *)
(* http_parser_execute; between two calls the stream may stop anywhere,    *)
(* in the middle of a word too.                                            *)
(***************************************************************************)
EXTENDS Integers, Sequences, FiniteSets, SequencesExt, TLC

CONSTANTS MaxHeader,   \* CROW_HTTP_MAX_HEADER_SIZE, in symbols
          MaxLength    \* CROW_ULLONG_MAX, also the value for "no length"

ASSUME LimitsAssumption == MaxHeader \in Nat \ {0} /\ MaxLength \in Nat /\ MaxLength > 32

(***************************************************************************)
(* Symbols.                                                                *)
(***************************************************************************)
Letters == {"A","B","C","D","E","F","G","H","I","K","L","M","N","O","P","R",
            "S","T","U","V","Y","a","c","h","k","t","u"}
Digits  == {"0","1","2","9"}
Pieces  == {"con","nection","tent-length","proxy-","ransfer-encoding","pgrade","ost","x",
            "eep-alive","lose","hunked","ontinue"}
Value   == [d \in Digits |-> CASE d = "0" -> 0 [] d = "1" -> 1 [] d = "2" -> 2 [] d = "9" -> 9]
Unhex   == [d \in Digits \union {"a", "c"} |->
              IF d = "a" THEN 10 ELSE IF d = "c" THEN 12 ELSE Value[d]]

\* Names and values are compared in lower case.
Lower(ch) == LET lower == [A |-> "a", C |-> "c", H |-> "h", K |-> "k", T |-> "t", U |-> "u"]
             IN IF ch \in DOMAIN lower THEN lower[ch] ELSE ch

IsToken(ch)   == ch \in Letters \union Digits \union Pieces \union {"-", ".", "*"}
IsUserinfo(ch) == IsToken(ch) \/ ch \in {":", ";", "%"}
IsUrlChar(ch) == ch \notin {"SP", "HT", "CR", "LF", "?", "#"}

Spelling ==
  [DELETE |-> <<"D","E","L","E","T","E">>, GET |-> <<"G","E","T">>, HEAD |-> <<"H","E","A","D">>,
   POST |-> <<"P","O","S","T">>, PUT |-> <<"P","U","T">>,
   CONNECT |-> <<"C","O","N","N","E","C","T">>, OPTIONS |-> <<"O","P","T","I","O","N","S">>,
   TRACE |-> <<"T","R","A","C","E">>, COPY |-> <<"C","O","P","Y">>, LOCK |-> <<"L","O","C","K">>,
   MKCOL |-> <<"M","K","C","O","L">>, MOVE |-> <<"M","O","V","E">>,
   PROPFIND |-> <<"P","R","O","P","F","I","N","D">>,
   PROPPATCH |-> <<"P","R","O","P","P","A","T","C","H">>,
   SEARCH |-> <<"S","E","A","R","C","H">>, UNLOCK |-> <<"U","N","L","O","C","K">>,
   REPORT |-> <<"R","E","P","O","R","T">>,
   MKACTIVITY |-> <<"M","K","A","C","T","I","V","I","T","Y">>,
   CHECKOUT |-> <<"C","H","E","C","K","O","U","T">>, MERGE |-> <<"M","E","R","G","E">>,
   MSEARCH |-> <<"M","-","S","E","A","R","C","H">>, NOTIFY |-> <<"N","O","T","I","F","Y">>,
   SUBSCRIBE |-> <<"S","U","B","S","C","R","I","B","E">>,
   UNSUBSCRIBE |-> <<"U","N","S","U","B","S","C","R","I","B","E">>,
   PATCH |-> <<"P","A","T","C","H">>, PURGE |-> <<"P","U","R","G","E">>,
   MKCALENDAR |-> <<"M","K","C","A","L","E","N","D","A","R">>]

Methods == DOMAIN Spelling

\* The method a first letter stands for until a later letter says otherwise.
FirstGuess ==
  [C |-> "CONNECT", D |-> "DELETE", G |-> "GET", H |-> "HEAD", L |-> "LOCK", M |-> "MKCOL",
   N |-> "NOTIFY", O |-> "OPTIONS", P |-> "POST", R |-> "REPORT", S |-> "SUBSCRIBE",
   T |-> "TRACE", U |-> "UNLOCK"]

\* <<guess, index, letter, better guess>>
BetterGuess ==
  {<<"CONNECT",1,"H","CHECKOUT">>, <<"CONNECT",2,"P","COPY">>, <<"MKCOL",1,"O","MOVE">>,
   <<"MKCOL",1,"E","MERGE">>, <<"MKCOL",1,"-","MSEARCH">>, <<"MKCOL",2,"A","MKACTIVITY">>,
   <<"MKCOL",3,"A","MKCALENDAR">>, <<"SUBSCRIBE",1,"E","SEARCH">>, <<"POST",1,"R","PROPFIND">>,
   <<"POST",1,"U","PUT">>, <<"POST",1,"A","PATCH">>, <<"PUT",2,"R","PURGE">>,
   <<"UNLOCK",2,"S","UNSUBSCRIBE">>, <<"PROPFIND",4,"P","PROPPATCH">>}

UrlStates == {"s_req_path", "s_req_schema", "s_req_schema_slash", "s_req_schema_slash_slash",
              "s_req_server_start", "s_req_server", "s_req_server_with_at",
              "s_req_query_string_start", "s_req_query_string", "s_req_fragment_start",
              "s_req_fragment"}
BodyStates == {"s_chunk_data", "s_chunk_data_almost_done", "s_chunk_data_done",
               "s_body_identity", "s_message_done"}

(***************************************************************************)
(* The parser: http_parser's fields, HTTPParser's fields, the calls made   *)
(* to the connection so far and, while http_parser_execute runs, its mark, *)
(* the text since the mark, and whether it has returned early.             *)
(***************************************************************************)
ParserInit ==
  [state |-> "s_start_req", hs |-> "h_general", flags |-> {}, cl |-> 0, nread |-> 0,
   index |-> 0, method |-> "DELETE", major |-> 0, minor |-> 0, errno |-> "OK",
   upgrade |-> FALSE,
   raw_url |-> <<>>, hbs |-> 0, field |-> <<>>, value |-> <<>>, headers |-> <<>>, body |-> <<>>,
   calls |-> <<>>, mark |-> "none", held |-> <<>>, gone |-> FALSE]

Goto(p, s) == [p EXCEPT !.state = s]
Fail(p, e) == [p EXCEPT !.errno = e, !.gone = TRUE]
Mark(p, m) == IF p.mark = "none" THEN [p EXCEPT !.mark = m, !.held = <<>>] ELSE p

(***************************************************************************)
(* crow::HTTPParser's callbacks.                                           *)
(***************************************************************************)
OnMessageBegin(p) ==
  [p EXCEPT !.raw_url = <<>>, !.hbs = 0, !.field = <<>>, !.value = <<>>, !.headers = <<>>,
            !.body = <<>>]

OnHeaderField(p, s) ==
  IF p.hbs = 1
  THEN [p EXCEPT !.field = @ \o s]
  ELSE [p EXCEPT !.headers = IF p.value # <<>> THEN Append(@, <<p.field, p.value>>) ELSE @,
                 !.value = <<>>, !.field = s, !.hbs = 1]

OnHeaderValue(p, s) ==
  IF p.hbs = 0 THEN [p EXCEPT !.value = @ \o s] ELSE [p EXCEPT !.hbs = 0, !.value = s]

OnHeadersComplete(p) ==
  LET q == IF p.field # <<>>
           THEN [p EXCEPT !.headers = Append(@, <<p.field, p.value>>), !.field = <<>>, !.value = <<>>]
           ELSE p
  IN [q EXCEPT !.calls = Append(@, [call |-> "header", version |-> <<q.major, q.minor>>,
                                    headers |-> q.headers])]

UpTo(s, ch) == IF \E i \in DOMAIN s : s[i] = ch THEN SubSeq(s, 1, SelectInSeq(s, LAMBDA x : x = ch) - 1)
                                                ELSE s

OnMessageComplete(p) ==
  [p EXCEPT !.calls = Append(@, [call |-> "message", method |-> p.method, raw_url |-> p.raw_url,
      url |-> UpTo(p.raw_url, "?"), version |-> <<p.major, p.minor>>, headers |-> p.headers,
      body |-> p.body, upgrade |-> p.upgrade])]

\* CROW_CALLBACK_DATA: nothing is called where no mark is set.
Data(p) ==
  LET q == CASE p.mark = "url" -> [p EXCEPT !.raw_url = @ \o p.held]
             [] p.mark = "header_field" -> OnHeaderField(p, p.held)
             [] p.mark = "header_value" -> OnHeaderValue(p, p.held)
             [] p.mark = "body" -> [p EXCEPT !.body = @ \o p.held]
             [] OTHER -> p
  IN [q EXCEPT !.mark = "none", !.held = <<>>]

(***************************************************************************)
(* The end of a message.                                                   *)
(***************************************************************************)
ShouldKeepAlive(p) ==
  IF p.major > 0 /\ p.minor > 0 THEN "close" \notin p.flags ELSE "keep_alive" \in p.flags

NewMessage(p) == Goto(p, IF ShouldKeepAlive(p) THEN "s_start_req" ELSE "s_dead")

MessageComplete(p) == OnMessageComplete(NewMessage(p))

\* Fault: a length of zero is taken for the beginning of a body.
HeadersDoneZero(p, ch) ==
  IF ch # "LF" THEN Fail(p, "STRICT")
  ELSE LET q == [p EXCEPT !.nread = 0]
       IN IF p.upgrade THEN [MessageComplete(q) EXCEPT !.gone = TRUE]
          ELSE IF "chunked" \in p.flags THEN Goto(q, "s_chunk_size_start")
          ELSE IF p.cl = MaxLength THEN MessageComplete(q)
          ELSE Goto(q, "s_body_identity")

HeadersDone(p, ch) ==
  IF ch # "LF" THEN Fail(p, "STRICT")
  ELSE LET q == [p EXCEPT !.nread = 0]
       IN IF p.upgrade THEN [MessageComplete(q) EXCEPT !.gone = TRUE]
          ELSE IF "chunked" \in p.flags THEN Goto(q, "s_chunk_size_start")
          ELSE IF p.cl \in {0, MaxLength} THEN MessageComplete(q)
          ELSE Goto(q, "s_body_identity")

HeadersAlmostDone(p, ch) ==
  IF ch # "LF" THEN Fail(p, "STRICT")
  ELSE IF "trailing" \in p.flags THEN MessageComplete(p)
  ELSE HeadersDone(OnHeadersComplete([p EXCEPT !.upgrade = "upgrade" \in p.flags \/ p.method = "CONNECT",
                                               !.state = "s_headers_done"]), ch)

(***************************************************************************)
(* Header lines.                                                           *)
(***************************************************************************)
\* The header a name's first piece may be the beginning of.
NameGuess == [con |-> "h_CON", c |-> "h_C", t |-> "h_matching_transfer_encoding",
              u |-> "h_matching_upgrade"] @@ ("proxy-" :> "h_matching_proxy_connection")

\* The pieces that complete a name or a value that matters: <<guess, piece, found>>.
Completes ==
  {<<"h_CON", "nection", "h_connection">>, <<"h_CON", "tent-length", "h_content_length">>,
   <<"h_matching_proxy_connection", "con", "h_matching_proxy_con">>,
   <<"h_matching_proxy_con", "nection", "h_connection">>,
   <<"h_matching_transfer_encoding", "ransfer-encoding", "h_transfer_encoding">>,
   <<"h_matching_upgrade", "pgrade", "h_upgrade">>,
   <<"h_matching_transfer_encoding_chunked", "hunked", "h_transfer_encoding_chunked">>,
   <<"h_matching_connection_keep_alive", "eep-alive", "h_connection_keep_alive">>,
   <<"h_matching_connection_close", "lose", "h_connection_close">>}

NextGuess(hs, ch) ==
  IF \E c \in Completes : c[1] = hs /\ c[2] = ch
  THEN (CHOOSE c \in Completes : c[1] = hs /\ c[2] = ch)[3] ELSE "h_general"

HeaderFieldStart(p, ch) ==
  IF ch = "CR" THEN Goto(p, "s_headers_almost_done")
  ELSE IF ch = "LF" THEN HeadersAlmostDone(Goto(p, "s_headers_almost_done"), ch)
  ELSE IF ~IsToken(ch) THEN Fail(p, "INVALID_HEADER_TOKEN")
  ELSE [Mark(p, "header_field") EXCEPT !.index = 0, !.state = "s_header_field",
          !.hs = IF Lower(ch) \in DOMAIN NameGuess THEN NameGuess[Lower(ch)] ELSE "h_general"]

HeaderField(p, ch) ==
  IF IsToken(ch) THEN [p EXCEPT !.hs = NextGuess(@, ch)]
  ELSE CASE ch = ":"  -> Data(Goto(p, "s_header_value_discard_ws"))
         [] ch = "CR" -> Data(Goto(p, "s_header_almost_done"))
         [] ch = "LF" -> Data(Goto(p, "s_header_field_start"))
         [] OTHER     -> Fail(p, "INVALID_HEADER_TOKEN")

HeaderValueStart(p, ch) ==
  LET q == [Mark(p, "header_value") EXCEPT !.state = "s_header_value", !.index = 0]
  IN CASE p.hs = "h_upgrade" -> [q EXCEPT !.flags = @ \union {"upgrade"}, !.hs = "h_general"]
       [] p.hs = "h_transfer_encoding" ->
            [q EXCEPT !.hs = IF Lower(ch) = "c" THEN "h_matching_transfer_encoding_chunked" ELSE "h_general"]
       [] p.hs = "h_content_length" ->
            IF ch \in Digits THEN [q EXCEPT !.cl = Value[ch]] ELSE Fail(q, "INVALID_CONTENT_LENGTH")
       [] p.hs = "h_connection" ->
            [q EXCEPT !.hs = CASE Lower(ch) = "k" -> "h_matching_connection_keep_alive"
                               [] Lower(ch) = "c" -> "h_matching_connection_close"
                               [] OTHER    -> "h_general"]
       [] OTHER -> [q EXCEPT !.hs = "h_general"]

HeaderValueDiscardWs(p, ch) ==
  CASE ch \in {"SP", "HT"} -> p
    [] ch = "CR" -> Goto(p, "s_header_value_discard_ws_almost_done")
    [] ch = "LF" -> Goto(p, "s_header_value_discard_lws")
    [] OTHER     -> HeaderValueStart(p, ch)

HeaderAlmostDone(p, ch) ==
  IF ch # "LF" THEN Fail(p, "STRICT") ELSE Goto(p, "s_header_value_lws")

\* Fault: the test against the limit comes after the product has wrapped.
AnotherDigitLate(p, base, d) ==
  LET t == (p.cl * base + d) % (MaxLength + 1)
  IN IF t < p.cl THEN Fail(p, "INVALID_CONTENT_LENGTH") ELSE [p EXCEPT !.cl = t]

\* Fault: the test against the limit is missing.
AnotherDigitUnchecked(p, base, d) == [p EXCEPT !.cl = @ * base + d]

AnotherDigit(p, base, d) ==
  IF (MaxLength - (IF base = 10 THEN 10 ELSE 16)) \div base < p.cl
  THEN Fail(p, "INVALID_CONTENT_LENGTH")
  ELSE [p EXCEPT !.cl = (@ * base + d) % (MaxLength + 1)]

HeaderValue(p, ch) ==
  CASE ch = "CR" -> Data(Goto(p, "s_header_almost_done"))
    [] ch = "LF" -> HeaderAlmostDone(Data(Goto(p, "s_header_almost_done")), ch)
    [] ch \notin {"CR", "LF"} /\ p.hs = "h_content_length" ->
         IF ch = "SP" THEN p
         ELSE IF ch \in Digits THEN AnotherDigit(p, 10, Value[ch])
         ELSE Fail(p, "INVALID_CONTENT_LENGTH")
    [] ch = "SP" /\ p.hs \in {"h_transfer_encoding_chunked", "h_connection_keep_alive",
                              "h_connection_close"} -> p
    [] OTHER -> [p EXCEPT !.hs = NextGuess(@, ch)]

HeaderValueLws(p, ch) ==
  IF ch \in {"SP", "HT"} THEN HeaderValueStart(Goto(p, "s_header_value_start"), ch)
  ELSE HeaderFieldStart(
         [p EXCEPT !.state = "s_header_field_start",
                   !.flags = @ \union (CASE p.hs = "h_connection_keep_alive" -> {"keep_alive"}
                                        [] p.hs = "h_connection_close" -> {"close"}
                                        [] p.hs = "h_transfer_encoding_chunked" -> {"chunked"}
                                        [] OTHER -> {})], ch)

HeaderValueDiscardLws(p, ch) ==
  IF ch \in {"SP", "HT"} THEN Goto(p, "s_header_value_discard_ws")
  ELSE HeaderFieldStart(Data(Mark(Goto(p, "s_header_field_start"), "header_value")), ch)

(***************************************************************************)
(* The request line.                                                       *)
(***************************************************************************)
StartReq(p, ch) ==
  IF ch \in {"CR", "LF"} THEN p
  ELSE LET q == [p EXCEPT !.flags = {}, !.cl = MaxLength]
       IN IF ch \in DOMAIN FirstGuess
          THEN OnMessageBegin([q EXCEPT !.method = FirstGuess[ch], !.index = 1,
                                        !.state = "s_req_method"])
          ELSE Fail(q, "INVALID_METHOD")

\* Fault: a better guess does not count its letter.
ReqMethodSameIndex(p, ch) ==
  LET name   == Spelling[p.method]
      better == {b \in BetterGuess : b[1] = p.method /\ b[2] = p.index /\ b[3] = ch}
  IN IF ch = "SP" /\ p.index = Len(name)
     THEN [p EXCEPT !.state = "s_req_spaces_before_url", !.index = @ + 1]
     ELSE IF p.index < Len(name) /\ ch = name[p.index + 1] THEN [p EXCEPT !.index = @ + 1]
     ELSE IF better # {} THEN [p EXCEPT !.method = (CHOOSE b \in better : TRUE)[4]]
     ELSE Fail(p, "INVALID_METHOD")

ReqMethod(p, ch) ==
  LET name   == Spelling[p.method]
      better == {b \in BetterGuess : b[1] = p.method /\ b[2] = p.index /\ b[3] = ch}
  IN IF ch = "SP" /\ p.index = Len(name)
     THEN [p EXCEPT !.state = "s_req_spaces_before_url", !.index = @ + 1]
     ELSE IF p.index < Len(name) /\ ch = name[p.index + 1] THEN [p EXCEPT !.index = @ + 1]
     ELSE IF better # {}
     THEN [p EXCEPT !.method = (CHOOSE b \in better : TRUE)[4], !.index = @ + 1]
     ELSE Fail(p, "INVALID_METHOD")

\* parse_url_char; "s_dead" is its answer to a character that does not belong.
ParseUrlChar(s, ch) ==
  CASE s = "s_req_spaces_before_url" /\ ch \in {"/", "*"}      -> "s_req_path"
    [] s \in {"s_req_spaces_before_url", "s_req_schema"} /\ ch \in Letters -> "s_req_schema"
    [] s = "s_req_schema" /\ ch = ":"                          -> "s_req_schema_slash"
    [] s = "s_req_schema_slash" /\ ch = "/"                    -> "s_req_schema_slash_slash"
    [] s = "s_req_schema_slash_slash" /\ ch = "/"              -> "s_req_server_start"
    [] s \in {"s_req_server_start", "s_req_server", "s_req_server_with_at"} ->
         CASE ch = "/" -> "s_req_path"
           [] ch = "?" -> "s_req_query_string_start"
           [] ch = "@" /\ s # "s_req_server_with_at" -> "s_req_server_with_at"
           [] IsUserinfo(ch) \/ ch \in {"[", "]"} -> "s_req_server"
           [] OTHER -> "s_dead"
    [] s = "s_req_path" /\ IsUrlChar(ch)                       -> "s_req_path"
    [] s = "s_req_path" /\ ch = "?"                            -> "s_req_query_string_start"
    [] s \in {"s_req_query_string_start", "s_req_query_string"} /\ (IsUrlChar(ch) \/ ch = "?")
                                                               -> "s_req_query_string"
    [] s \in {"s_req_path", "s_req_query_string_start", "s_req_query_string"} /\ ch = "#"
                                                               -> "s_req_fragment_start"
    [] s = "s_req_fragment_start" /\ ch = "#"                  -> "s_req_fragment_start"
    [] s \in {"s_req_fragment_start", "s_req_fragment"} /\ ch \notin {"SP","HT","CR","LF"}
                                                               -> "s_req_fragment"
    [] OTHER                                                   -> "s_dead"

UrlChar(p, s, ch) ==
  LET next == ParseUrlChar(s, ch)
  IN IF next = "s_dead" THEN Fail(Goto(p, next), "INVALID_URL") ELSE Goto(p, next)

ReqUrl(p, ch) ==
  CASE p.state = "s_req_spaces_before_url" ->
         IF ch = "SP" THEN p
         ELSE UrlChar(Mark(p, "url"),
                      IF p.method = "CONNECT" THEN "s_req_server_start" ELSE p.state, ch)
    [] p.state \in {"s_req_schema", "s_req_schema_slash", "s_req_schema_slash_slash",
                    "s_req_server_start"} -> UrlChar(p, p.state, ch)
    [] OTHER ->
         CASE ch = "SP" -> Data(Goto(p, "s_req_http_start"))
           [] ch = "CR" -> Data([p EXCEPT !.major = 0, !.minor = 9, !.state = "s_req_line_almost_done"])
           [] ch = "LF" -> Data([p EXCEPT !.major = 0, !.minor = 9, !.state = "s_header_field_start"])
           [] OTHER     -> UrlChar(p, p.state, ch)

\* "TTP" stands for the three letters the states HT, HTT and HTTP wait for.
ReqHttp(p, ch) ==
  CASE p.state = "s_req_http_start" ->
         CASE ch = "H"  -> Goto(p, "s_req_http_H")
           [] ch = "SP" -> p
           [] OTHER     -> Fail(p, "INVALID_CONSTANT")
    [] p.state = "s_req_http_H" ->
         IF ch = "TTP" THEN Goto(p, "s_req_http_HTTP") ELSE Fail(p, "STRICT")
    [] p.state = "s_req_http_HTTP" ->
         IF ch = "/" THEN Goto(p, "s_req_first_http_major") ELSE Fail(p, "STRICT")
    [] p.state = "s_req_first_http_major" ->
         IF ch \in Digits \ {"0"}
         THEN [p EXCEPT !.major = Value[ch], !.state = "s_req_http_major"]
         ELSE Fail(p, "INVALID_VERSION")
    [] p.state = "s_req_http_major" ->
         IF ch = "." THEN Goto(p, "s_req_first_http_minor")
         ELSE IF ch \notin Digits \/ p.major * 10 + Value[ch] > 999 THEN Fail(p, "INVALID_VERSION")
         ELSE [p EXCEPT !.major = @ * 10 + Value[ch]]
    [] p.state = "s_req_first_http_minor" ->
         IF ch \in Digits THEN [p EXCEPT !.minor = Value[ch], !.state = "s_req_http_minor"]
         ELSE Fail(p, "INVALID_VERSION")
    [] p.state = "s_req_http_minor" ->
         CASE ch = "CR" -> Goto(p, "s_req_line_almost_done")
           [] ch = "LF" -> Goto(p, "s_header_field_start")
           [] OTHER ->
                IF ch \notin Digits \/ p.minor * 10 + Value[ch] > 999 THEN Fail(p, "INVALID_VERSION")
                ELSE [p EXCEPT !.minor = @ * 10 + Value[ch]]
    [] p.state = "s_req_line_almost_done" ->
         IF ch = "LF" THEN Goto(p, "s_header_field_start") ELSE Fail(p, "LF_EXPECTED")

(***************************************************************************)
(* Bodies.  The code takes as many bytes at once as the buffer holds; here *)
(* each one is a step of its own.                                          *)
(***************************************************************************)
BodyIdentity(p, ch) ==
  LET q == [Mark(p, "body") EXCEPT !.cl = @ - 1]
  IN IF q.cl > 0 THEN q ELSE MessageComplete(Data([q EXCEPT !.held = Append(@, ch)]))

ChunkSizeStart(p, ch) ==
  IF ch \notin DOMAIN Unhex THEN Fail(p, "INVALID_CHUNK_SIZE")
  ELSE [p EXCEPT !.cl = Unhex[ch], !.state = "s_chunk_size"]

ChunkSize(p, ch) ==
  CASE ch = "CR" -> Goto(p, "s_chunk_size_almost_done")
    [] ch \in DOMAIN Unhex -> AnotherDigit(p, 16, Unhex[ch])
    [] ch \in {";", "SP"} -> Goto(p, "s_chunk_parameters")
    [] OTHER -> Fail(p, "INVALID_CHUNK_SIZE")

ChunkSizeAlmostDone(p, ch) ==
  IF ch # "LF" THEN Fail(p, "STRICT")
  ELSE IF p.cl = 0
  THEN [p EXCEPT !.nread = 0, !.flags = @ \union {"trailing"}, !.state = "s_header_field_start"]
  ELSE [p EXCEPT !.nread = 0, !.state = "s_chunk_data"]

ChunkData(p, ch) ==
  LET q == [Mark(p, "body") EXCEPT !.cl = @ - 1]
  IN IF q.cl = 0 THEN Goto(q, "s_chunk_data_almost_done") ELSE q

ChunkDataAlmostDone(p, ch) ==
  IF ch # "CR" THEN Fail(p, "STRICT") ELSE Data(Goto(p, "s_chunk_data_done"))

ChunkDataDone(p, ch) ==
  IF ch # "LF" THEN Fail(p, "STRICT")
  ELSE [p EXCEPT !.nread = 0, !.state = "s_chunk_size_start"]

(***************************************************************************)
(* http_parser_execute: the beginning of a call, its loop body, its end.   *)
(***************************************************************************)
Dispatch(p, ch) ==
  CASE p.state = "s_dead" -> IF ch \in {"CR", "LF"} THEN p ELSE Fail(p, "CLOSED_CONNECTION")
    [] p.state = "s_start_req" -> StartReq(p, ch)
    [] p.state = "s_req_method" -> ReqMethod(p, ch)
    [] p.state \in UrlStates \union {"s_req_spaces_before_url"} -> ReqUrl(p, ch)
    [] p.state \in {"s_req_http_start", "s_req_http_H", "s_req_http_HTTP",
                    "s_req_first_http_major", "s_req_http_major", "s_req_first_http_minor",
                    "s_req_http_minor", "s_req_line_almost_done"} -> ReqHttp(p, ch)
    [] p.state = "s_header_field_start" -> HeaderFieldStart(p, ch)
    [] p.state = "s_header_field" -> HeaderField(p, ch)
    [] p.state = "s_header_value_discard_ws" -> HeaderValueDiscardWs(p, ch)
    [] p.state = "s_header_value" -> HeaderValue(p, ch)
    [] p.state = "s_header_almost_done" -> HeaderAlmostDone(p, ch)
    [] p.state = "s_header_value_lws" -> HeaderValueLws(p, ch)
    [] p.state = "s_header_value_discard_ws_almost_done" ->
         IF ch # "LF" THEN Fail(p, "STRICT") ELSE Goto(p, "s_header_value_discard_lws")
    [] p.state = "s_header_value_discard_lws" -> HeaderValueDiscardLws(p, ch)
    [] p.state = "s_headers_almost_done" -> HeadersAlmostDone(p, ch)
    [] p.state = "s_body_identity" -> BodyIdentity(p, ch)
    [] p.state = "s_chunk_size_start" -> ChunkSizeStart(p, ch)
    [] p.state = "s_chunk_size" -> ChunkSize(p, ch)
    [] p.state = "s_chunk_parameters" ->
         IF ch = "CR" THEN Goto(p, "s_chunk_size_almost_done") ELSE p
    [] p.state = "s_chunk_size_almost_done" -> ChunkSizeAlmostDone(p, ch)
    [] p.state = "s_chunk_data" -> ChunkData(p, ch)
    [] p.state = "s_chunk_data_almost_done" -> ChunkDataAlmostDone(p, ch)
    [] p.state = "s_chunk_data_done" -> ChunkDataDone(p, ch)

\* Fault: the mark of a value that began in an earlier buffer is not set again.
BeginUnmarked(p) ==
  [p EXCEPT !.gone = (p.errno # "OK"), !.held = <<>>,
            !.mark = CASE p.state = "s_header_field" -> "header_field"
                       [] p.state \in UrlStates -> "url"
                       [] OTHER -> "none"]

Begin(p) ==
  [p EXCEPT !.gone = (p.errno # "OK"), !.held = <<>>,
            !.mark = CASE p.state = "s_header_field" -> "header_field"
                       [] p.state = "s_header_value" -> "header_value"
                       [] p.state \in UrlStates -> "url"
                       [] OTHER -> "none"]

Byte(p, ch) ==
  IF p.gone THEN p
  ELSE LET counted == IF p.state \in BodyStates THEN p ELSE [p EXCEPT !.nread = @ + 1]
           q == IF counted.nread > MaxHeader /\ p.state \notin BodyStates
                THEN Fail(counted, "HEADER_OVERFLOW") ELSE Dispatch(counted, ch)
       IN IF q.mark = "none" THEN q ELSE [q EXCEPT !.held = Append(@, ch)]

\* A call of length zero (HTTPParser::done) is an error in the middle of a message.
Eof(p) == IF p.errno # "OK" \/ p.state \in {"s_dead", "s_start_req"} THEN p
          ELSE Fail(p, "INVALID_EOF_STATE")

\* The marks left over are handed over; a call that returned early hands over nothing.
End(p) == IF p.gone THEN [p EXCEPT !.mark = "none", !.held = <<>>] ELSE Data(p)
=============================================================================
