-------------------------- MODULE MCRequestStream --------------------------
EXTENDS RequestStream

Plain == [method |-> "GET", url |-> <<"/">>, minor |-> 1, headers |-> <<>>, chunked |-> FALSE,
          body |-> <<>>, trailers |-> <<>>]
Host  == <<<<"h", "ost">>, <<"x">>>>
Empty == <<<<"x">>, <<>>>>
Length(v) == <<<<"con", "tent-length">>, v>>
Coding == <<<<"t", "ransfer-encoding">>, <<"c", "hunked">>>>
With(hs) == [Plain EXCEPT !.headers = hs]
Posted(b) == [With(<<Host, Length(<<Digit(Len(b))>>)>>) EXCEPT !.method = "POST", !.body = <<b>>]
Chunked(b, t) == [With(<<Coding, Host>>) EXCEPT !.chunked = TRUE, !.method = "PUT",
                                                !.body = b, !.trailers = t]
Bodies == {<<>>, <<"x">>, <<"CR", "LF">>}

ScriptsValue ==
  {<<[Plain EXCEPT !.method = m]>> : m \in Methods \ {"CONNECT"}}
  \union {<<[Plain EXCEPT !.method = "CONNECT", !.url = <<"h", "ost", ":", "1">>]>>}
  \union {<<[Plain EXCEPT !.url = u]>> : u \in
            {<<"/", "a", "?", "a", "?", "k">>, <<"h", "t", ":", "/", "/", "a", "@", "h", "/", "#", "k">>,
             <<"*">>, <<"/", "?", "#", "#", "?">>}}
  \union {<<Posted(b), Plain>> : b \in Bodies}
  \union {<<Chunked(b, t), Plain>> : b \in {<<>>, <<<<"x", "LF">>>>, <<<<"x">>, <<"0">>>>},
                                   t \in {<<>>, <<Host>>, <<Host, Host>>}}
  \union {<<With(<<a, b>>), Plain>> : a \in {Host, Empty, Connection(<<"x">>)},
                                    b \in {Empty, Connection(<<"c", "lose">>), Connection(<<"k", "eep-alive">>),
                                           ProxyConnection(<<"c", "lose">>), <<<<"u", "pgrade">>, <<"x">>>>}}
  \union {<<[With(<<a>>) EXCEPT !.minor = 0], Plain>> :
                                    a \in {Host, Connection(<<"k", "eep-alive">>), ProxyConnection(<<"k", "eep-alive">>)}}
  \union {<<[With(<<Length(<<"2", "9">>)>>) EXCEPT !.body = <<[i \in 1..29 |-> "x"]>>]>>}

StraysValue == {"SP", "CR", "LF", ":", "0", "c", "con", "E", "9"}
=============================================================================
