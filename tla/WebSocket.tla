------------------------------ MODULE WebSocket ------------------------------
(***************************************************************************)
(* crow::websocket::Connection with the handlers ustcrv_ws.cpp gives it.   *)
(* A handler is an operator on a record s: k is the Connection, users the  *)
(* set the handlers keep, lock whether one of them takes the mutex, and    *)
(* todo what is left of a message handler that holds it.                   *)
(*                                                                         *)
(* A frame is what its header says, an opcode and whether it is the last   *)
(* of its message, and a body.  "arrives" says how much of it the peer     *)
(* sends, and whether its payload comes in one piece.  All frames are      *)
(* shorter than 126 bytes, as are those of the page.                       *)
(***************************************************************************)
EXTENDS Integers, Sequences

NoHeader == [op |-> "none", fin |-> TRUE, arrives |-> "whole", body |-> <<>>]

NewConnection ==
  [life |-> "none", state |-> "MiniHeader", is_reading |-> FALSE, pending |-> FALSE, open |-> FALSE,
   sending |-> <<>>, write |-> <<>>, close |-> FALSE, sent_close |-> FALSE,
   recv_close |-> FALSE, called |-> FALSE, header |-> NoHeader, fragment |-> <<>>,
   message |-> <<>>, touched |-> FALSE]

(***************************************************************************)
(* Writing: what is to be sent waits until what is being sent has gone.    *)
(***************************************************************************)
\* Fault: what is being sent does not hold up what is to be sent.
DoWriteAlways(s) == [s EXCEPT !.k.sending = s.k.write, !.k.write = s.k.sending]

DoWrite(s) ==
  IF s.k.sending = <<>> THEN [s EXCEPT !.k.sending = s.k.write, !.k.write = <<>>] ELSE s

\* What is sent: the hello of the handshake, a report, or a control frame.
NoLabel == -1
Item(what)    == [what |-> what, label |-> NoLabel]
Report(label) == [what |-> "report", label |-> label]

SendFrame(s, item) == DoWrite([s EXCEPT !.k.write = Append(@, item)])

(***************************************************************************)
(* The handlers of ustcrv_ws.cpp that keep the set of users.               *)
(***************************************************************************)
OnOpen(s, c)  == [s EXCEPT !.users = @ \union {c}, !.lock = TRUE]
OnClose(s, c) == [s EXCEPT !.users = @ \ {c}, !.lock = TRUE]

\* What is left of a deleted connection is what may still come back to it.
Deleted(s) ==
  [s EXCEPT !.k = [NewConnection EXCEPT !.life = "deleted", !.touched = s.k.touched,
                                        !.pending = s.k.pending, !.sending = s.k.sending]]

\* Fault: a connection that breaks is not reported to the close handler.
CheckDestroySilent(s, c) == IF s.k.sending = <<>> /\ ~s.k.is_reading THEN Deleted(s) ELSE s

\* Fault: a connection that still reads is deleted.
CheckDestroyReading(s, c) ==
  LET t == IF s.k.called THEN s ELSE OnClose(s, c)
  IN IF t.k.sending = <<>> THEN Deleted(t) ELSE t

CheckDestroy(s, c) ==
  LET t == IF s.k.called THEN s ELSE OnClose(s, c)
  IN IF t.k.sending = <<>> /\ ~t.k.is_reading THEN Deleted(t) ELSE t

Close(s, c) ==
  LET t == [s EXCEPT !.k.sent_close = TRUE]
      u == IF t.k.recv_close /\ ~t.k.called THEN OnClose([t EXCEPT !.k.called = TRUE], c) ELSE t
  IN SendFrame(u, Item("close"))

(***************************************************************************)
(* Reading.                                                                *)
(***************************************************************************)
DoRead(s) == [s EXCEPT !.k.is_reading = TRUE, !.k.pending = TRUE]

\* The constructor of a connection that asked for a websocket.
Start(s, c) ==
  LET hello == DoWrite([s EXCEPT !.k.life = "live", !.k.open = TRUE,
                                 !.k.write = Append(@, Item("hello"))])
  IN DoRead(OnOpen(hello, c))

\* A read that fails between two frames ends the connection; one that fails
\* within a frame leaves that to the next write.
ReadFailed(s, c) ==
  LET t == [s EXCEPT !.k.is_reading = FALSE, !.k.pending = FALSE, !.k.close = TRUE, !.k.open = FALSE]
  IN IF s.k.state = "MiniHeader" THEN CheckDestroy(t, c) ELSE t

MiniHeader(s, frame, c) ==
  IF frame.arrives = "unmasked" THEN ReadFailed(s, c)
  ELSE DoRead([s EXCEPT !.k.header = frame, !.k.state = "Mask"])

Mask(s) == DoRead([s EXCEPT !.k.state = "Payload"])

\* The end of handle_fragment and of the read it was called from, which go on even
\* if the connection has been deleted.
FragmentDone(s) ==
  IF s.k.life = "deleted" THEN [s EXCEPT !.k.touched = TRUE]
  ELSE DoRead([s EXCEPT !.k.fragment = <<>>, !.k.state = "MiniHeader"])

CloseFrame(s, c) ==
  LET t == [s EXCEPT !.k.recv_close = TRUE]
      u == [t EXCEPT !.k.open = FALSE, !.k.close = TRUE]
  IN IF ~t.k.sent_close THEN Close(t, c)
     ELSE CheckDestroy([(IF u.k.called THEN u ELSE OnClose(u, c)) EXCEPT !.k.called = TRUE], c)

\* A data frame: its message grows, and goes to the message handler with the last
\* frame.  A continuation then falls through to the case of a text, and is added and
\* handled once more.  "todo" lists the calls of the message handler.
DataFrame(s, op, fin) ==
  LET grown == s.k.message \o s.k.fragment
      after == IF fin THEN <<>> ELSE grown
  IN CASE op = "continuation" /\ fin ->
            [s EXCEPT !.k.message = <<>>, !.todo = <<grown, s.k.fragment>>]
       [] op = "continuation" /\ ~fin -> [s EXCEPT !.k.message = grown \o s.k.fragment]
       [] OTHER -> [s EXCEPT !.k.message = after, !.todo = IF fin THEN <<grown>> ELSE <<>>]

HandleFragment(s, c) ==
  LET op == s.k.header.op
  IN CASE op \in {"continuation", "text", "binary"} -> DataFrame(s, op, s.k.header.fin)
       [] op = "close" -> CloseFrame(s, c)
       [] op = "ping"  -> SendFrame(s, Item("pong"))
       [] OTHER        -> s

\* Only a payload that comes in one piece is read to its end: after the first of
\* several nothing is read any more.
Payload(s, c) ==
  LET t == [s EXCEPT !.k.is_reading = FALSE, !.k.pending = FALSE,
                     !.k.fragment = @ \o s.k.header.body]
      u == HandleFragment(t, c)
  IN IF s.k.header.arrives = "in_pieces" THEN t
     ELSE IF u.todo # <<>> THEN u ELSE FragmentDone(u)

(***************************************************************************)
(* The completion of async_write.                                          *)
(***************************************************************************)
\* Fault: a write that fails leaves the connection to the read.
WriteDoneKept(s, error, c) ==
  LET t == [s EXCEPT !.k.sending = <<>>]
      u == IF t.k.write # <<>> THEN DoWrite(t) ELSE t
  IN IF ~error /\ ~t.k.close THEN [u EXCEPT !.k.close = u.k.sent_close]
     ELSE [t EXCEPT !.k.close = TRUE]

WriteDone(s, error, c) ==
  LET t == [s EXCEPT !.k.sending = <<>>]
      u == IF t.k.write # <<>> THEN DoWrite(t) ELSE t
  IN IF ~error /\ ~t.k.close THEN [u EXCEPT !.k.close = u.k.sent_close]
     ELSE CheckDestroy([t EXCEPT !.k.close = TRUE], c)
=============================================================================
