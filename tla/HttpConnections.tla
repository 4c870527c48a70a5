--------------------------- MODULE HttpConnections ---------------------------
(***************************************************************************)
(* The HTTP side of the simulation server: crow::Server accepts, one       *)
(* crow::Connection per peer reads requests, routes them and writes the    *)
(* answers, and a timer queue shared by all closes connections that stay   *)
(* silent.  Every handler runs on the one thread of the io_service, so     *)
(* each is one step; between two of them any peer may send, stop or go.    *)
(*                                                                         *)
(* What the parser makes of the bytes is the business of RequestStream.    *)
(* Here a request comes in two parts, its "head" and its "end", and a      *)
(* buffer holds any number of parts, of one request or of several.         *)
(***************************************************************************)
EXTENDS Integers, Sequences

CONSTANTS Tick,        \* the length of a deadline, in seconds
          Conns,       \* peers, each with a connection of its own
          Scripts      \* what the peers may send: functions from peers to
                       \* [comes, requests, waits]

-----------------------------------------------------------------------------
(***************************************************************************)
(* crow::detail::dumb_timer_queue: deadlines of one fixed length, so that  *)
(* the first to be added is the first to pass.  A key counts the deadlines *)
(* ever added; cancelling one leaves its place in the queue, disarmed.     *)
(* The queue is the record [dq, step]; an entry has the connection its     *)
(* function was made for, its age and whether it is armed.                 *)
(***************************************************************************)
ASSUME TickAssumption == Tick \in Nat \ {0}

EmptyQueue == [dq |-> <<>>, step |-> 0]
NoKey      == -1

\* Fault: the places already given up are not subtracted.
CancelAbsolute(q, key) ==
  LET index == key
  IN IF key # NoKey /\ index >= 0 /\ index < Len(q.dq)
     THEN [q EXCEPT !.dq[index + 1].armed = FALSE] ELSE q

\* The difference is taken as unsigned: a key whose place is gone is beyond the queue.
Cancel(q, key) ==
  LET index == key - q.step
  IN IF key # NoKey /\ index >= 0 /\ index < Len(q.dq)
     THEN [q EXCEPT !.dq[index + 1].armed = FALSE] ELSE q

Enqueue(q, owner) == [q EXCEPT !.dq = Append(@, [owner |-> owner, age |-> 0, armed |-> TRUE])]
KeyOfLast(q)      == q.step + Len(q.dq) - 1

\* A second goes by.
Aged(e)  == [e EXCEPT !.age = IF @ < Tick THEN @ + 1 ELSE @]
Older(q) == [q EXCEPT !.dq = [i \in DOMAIN q.dq |-> Aged(q.dq[i])]]

\* How many places of the queue have passed: its longest old enough prefix.
Passed(q) == CHOOSE n \in 0..Len(q.dq) : /\ \A i \in 1..n : q.dq[i].age >= Tick
                                         /\ n < Len(q.dq) => q.dq[n + 1].age < Tick

Fired(q)   == {q.dq[i].owner : i \in {j \in 1..Passed(q) : q.dq[j].armed}}
Process(q) == [dq |-> SubSeq(q.dq, Passed(q) + 1, Len(q.dq)), step |-> q.step + Passed(q)]

-----------------------------------------------------------------------------

(***************************************************************************)
(* A request: what the router has for it, and what its version and its     *)
(* connection header mean to the connection (close) and to the parser      *)
(* (last: the parser refuses what comes after).                            *)
(***************************************************************************)
Routes  == {"page", "missing", "nohost", "ws", "nows"}
Request == [route : Routes, expect : BOOLEAN, close : BOOLEAN, last : BOOLEAN]
Upgrade(r) == r.route \in {"ws", "nows"}

ASSUME ScriptsAssumption ==
  Scripts \subseteq [Conns -> [comes : BOOLEAN, requests : Seq(Request), waits : BOOLEAN]]

VARIABLES net,     \* per peer: its script, the parts in the socket, whether it has gone, what it got
          conn,    \* per peer: the Connection object
          timers   \* the io_service's dumb_timer_queue

vars == <<net, conn, timers>>

FreshResponse == [code |-> 200, body |-> "", completed |-> FALSE]

Blank == [life |-> "none", open |-> FALSE, moved |-> FALSE, pending |-> FALSE,
          is_reading |-> FALSE, is_writing |-> FALSE, close |-> FALSE,
          needAfter |-> FALSE, needStart |-> FALSE, key |-> NoKey,
          res |-> FreshResponse, copy |-> "", writes |-> <<>>, dead |-> FALSE,
          handled |-> 0, overlapped |-> FALSE, late |-> FALSE, stranded |-> FALSE,
          thrown |-> FALSE]

\* A peer may never come; it waits for each answer before it goes on or sends on
\* regardless.
Peer(s) == [comes |-> s.comes, script |-> s.requests, waits |-> s.waits,
            sent |-> 0, socket |-> <<>>, gone |-> FALSE, broken |-> FALSE,
            answers |-> <<>>, continued |-> FALSE]

Init == /\ \E s \in Scripts : net = [c \in Conns |-> Peer(s[c])]
        /\ conn = [c \in Conns |-> Blank]
        /\ timers = EmptyQueue

(***************************************************************************)
(* The pieces of a handler, on a pair [k, q] of connection and timers.     *)
(***************************************************************************)
CancelDeadline(s) == [s EXCEPT !.q = Cancel(@, s.k.key), !.k.key = NoKey]

StartDeadline(s, c) ==
  LET t == CancelDeadline(s)
      u == [t EXCEPT !.q = Enqueue(@, c)]
  IN [u EXCEPT !.k.key = KeyOfLast(u.q)]

DoRead(s) == [s EXCEPT !.k.is_reading = TRUE, !.k.pending = TRUE]

\* The answer goes to the socket; its completion comes later.
DoWrite(s, answer) == [s EXCEPT !.k.is_writing = TRUE, !.k.writes = Append(@, answer),
                                !.k.overlapped = @ \/ s.k.writes # <<>>]

\* Fault: a write in flight does not keep the connection.
CheckDestroyReading(s) ==
  IF ~s.k.is_reading
  THEN LET t == CancelDeadline(s)
       IN [t EXCEPT !.k = [Blank EXCEPT !.life = "deleted", !.writes = t.k.writes,
                                        !.overlapped = t.k.overlapped]]
  ELSE s

\* The destructor disarms the deadline.
CheckDestroy(s) ==
  IF ~s.k.is_reading /\ ~s.k.is_writing
  THEN LET t == CancelDeadline(s)
       IN [t EXCEPT !.k = [Blank EXCEPT !.life = "deleted", !.writes = t.k.writes,
                                        !.overlapped = t.k.overlapped]]
  ELSE s

Start(s, c) == DoRead(StartDeadline([s EXCEPT !.k.life = "live"], c))

StatusText(code) == IF code >= 400 THEN "status" ELSE ""

CompleteRequest(s, c) ==
  LET t == [s EXCEPT !.k.needAfter = FALSE]
      body == IF t.k.res.body = "" THEN StatusText(t.k.res.code) ELSE t.k.res.body
      u == DoWrite([t EXCEPT !.k.copy = body, !.k.res.body = t.k.copy],
                   [code |-> t.k.res.code, body |-> body])
  IN IF ~s.k.open THEN t
     ELSE IF t.k.needStart THEN DoRead(StartDeadline([u EXCEPT !.k.needStart = FALSE], c)) ELSE u

\* Expect: 100-continue is answered as soon as the headers are complete.
HandleHeader(s, r) ==
  IF r.expect THEN DoWrite(s, [code |-> 100, body |-> ""]) ELSE s

\* What Router::handle makes of the response, which end() completes.
Routed(r) == CASE r.route = "page" -> [code |-> 200, body |-> "page", completed |-> TRUE]
               [] OTHER            -> [code |-> 404, body |-> "", completed |-> TRUE]

BadRequest == [code |-> 400, body |-> "", completed |-> FALSE]

\* A request is there: its deadline is off and its connection header noted.
Begin(s, r) == [CancelDeadline(s) EXCEPT !.k.close = @ \/ r.close, !.k.handled = @ + 1]

\* The request is logged with the address of its peer, and to ask for that throws when the
\* peer has reset the connection.  The exception leaves handle, the parser and the read for
\* the loop that runs the io_service: the connection goes on as one that reads, and nothing
\* is read any more.
Interrupted(s, r) ==
  [Begin(s, r) EXCEPT !.k.pending = FALSE, !.k.thrown = TRUE,
                      !.k.res = IF r.route = "nohost" THEN BadRequest ELSE @]

\* What handle does when that does not happen; an upgrade is not logged.
Handle(s, r, c) ==
  LET t == Begin(s, r)
  IN CASE r.route = "nohost" ->
            CompleteRequest([t EXCEPT !.k.needAfter = FALSE, !.k.res = BadRequest], c)
       [] r.route = "ws" ->    \* the socket goes to the websocket connection
            [t EXCEPT !.k.close = TRUE, !.k.open = FALSE, !.k.moved = TRUE]
       [] r.route = "nows" ->  \* nothing waits for the end of this response
            [t EXCEPT !.k.close = TRUE, !.k.res = [code |-> 404, body |-> "", completed |-> TRUE]]
       [] OTHER ->
            IF t.k.res.completed THEN CompleteRequest([t EXCEPT !.k.needAfter = FALSE], c)
            ELSE CompleteRequest([t EXCEPT !.k.needAfter = TRUE, !.k.res = Routed(r)], c)

(***************************************************************************)
(* HTTPParser::feed on a buffer of parts: it stops at what follows the     *)
(* last message and at what follows an upgrade.                            *)
(***************************************************************************)
FeedPart(s, part, script, c) ==
  IF s.failed \/ s.k.dead \/ s.left THEN [s EXCEPT !.failed = TRUE]
  ELSE LET r == script[part.n]
       IN IF part.what = "head" THEN HandleHeader(s, r)
          ELSE [Handle(s, r, c) EXCEPT !.k.dead = r.last, !.left = Upgrade(r)]

Fed(s, parts, script, c) ==
  LET after[i \in 0..Len(parts)] == IF i = 0 THEN s ELSE FeedPart(after[i - 1], parts[i], script, c)
  IN after

FeedBuffer(s, parts, script, c) == Fed(s, parts, script, c)[Len(parts)]

\* The completion of async_read_some: a buffer, or an error.
ReadDone(s, parts, error, script, c) ==
  LET read == IF error THEN [s EXCEPT !.failed = TRUE] ELSE FeedBuffer(s, parts, script, c)
      t    == [read EXCEPT !.k.pending = FALSE,
                           !.k.stranded = @ \/ (~error /\ read.failed /\ read.k.is_writing)]
  IN CASE t.failed \/ ~t.k.open ->
            CheckDestroy([CancelDeadline(t) EXCEPT !.k.open = FALSE, !.k.is_reading = FALSE])
       [] ~t.failed /\ t.k.open /\ t.k.close ->
            CheckDestroy([CancelDeadline(t) EXCEPT !.k.is_reading = FALSE])
       [] ~t.failed /\ t.k.open /\ ~t.k.close /\ ~t.k.needAfter ->
            DoRead(StartDeadline(t, c))
       [] OTHER -> [t EXCEPT !.k.needStart = TRUE]

\* Fault: the completion of the last write leaves the connection to the read.
WriteDoneKept(s, error) ==
  LET t == [s EXCEPT !.k.is_writing = FALSE, !.k.res = FreshResponse, !.k.copy = "",
                     !.k.writes = Tail(@)]
  IN IF error THEN CheckDestroy(t) ELSE IF t.k.close THEN [t EXCEPT !.k.open = FALSE] ELSE t

\* Fault: the response is not cleared for the next request.
WriteDoneStale(s, error) ==
  LET t == [s EXCEPT !.k.is_writing = FALSE, !.k.copy = "", !.k.writes = Tail(@)]
  IN IF error THEN CheckDestroy(t)
     ELSE IF t.k.close THEN CheckDestroy([t EXCEPT !.k.open = FALSE]) ELSE t

\* The completion of async_write.
WriteDone(s, error) ==
  LET t == [s EXCEPT !.k.is_writing = FALSE, !.k.res = FreshResponse, !.k.copy = "",
                     !.k.writes = Tail(@)]
  IN IF error THEN CheckDestroy(t)
     ELSE IF t.k.close THEN CheckDestroy([t EXCEPT !.k.open = FALSE]) ELSE t

(***************************************************************************)
(* Steps.                                                                  *)
(***************************************************************************)
On(c) == [k |-> conn[c], q |-> timers, failed |-> FALSE, left |-> FALSE]
Do(c, s) == conn' = [conn EXCEPT ![c] = s.k] /\ timers' = s.q

\* The acceptor's thread takes the peer's connection and posts its start.
Accept(c) == /\ conn[c].life = "none" /\ net[c].comes
             /\ conn' = [conn EXCEPT ![c].life = "posted", ![c].open = TRUE]
             /\ UNCHANGED <<net, timers>>

Started(c) == conn[c].life = "posted" /\ Do(c, Start(On(c), c)) /\ UNCHANGED net

\* All a peer that waits has been waiting for has come: the answers to its requests, or
\* the word to continue with the one it has begun.
Answered(n) ==
  IF n.sent % 2 = 0 THEN Len(n.answers) = n.sent \div 2
  ELSE n.script[n.sent \div 2 + 1].expect => n.continued

\* A peer sends the next part of its script.
Send(c) == LET n == net[c]
           IN /\ conn[c].life \notin {"none", "deleted"} /\ ~n.gone /\ n.sent < 2 * Len(n.script)
              /\ n.waits => Answered(n)
              /\ net' = [net EXCEPT ![c].sent = @ + 1,
                           ![c].continued = @ /\ n.sent % 2 = 1,
                           ![c].socket = Append(@, [n |-> n.sent \div 2 + 1,
                                                    what |-> IF n.sent % 2 = 0 THEN "head" ELSE "end"])]
              /\ UNCHANGED <<conn, timers>>

Leave(c) == /\ conn[c].life \notin {"none", "deleted"} /\ ~net[c].gone
            /\ net' = [net EXCEPT ![c].gone = TRUE]
            /\ UNCHANGED <<conn, timers>>

Reading(c) ==
  /\ conn[c].life = "live" /\ conn[c].pending /\ conn[c].open /\ net[c].socket # <<>>
  /\ \E n \in 1..Len(net[c].socket) :
       /\ Do(c, ReadDone(On(c), SubSeq(net[c].socket, 1, n), FALSE, net[c].script, c))
       /\ net' = [net EXCEPT ![c].socket = SubSeq(@, n + 1, Len(@))]

\* The m-th part of a buffer ends a request that cannot be logged; what the buffer holds
\* behind it is lost.
ReadThrows(c) ==
  /\ conn[c].life = "live" /\ conn[c].pending /\ conn[c].open
  /\ net[c].gone /\ net[c].socket # <<>>
  /\ \E n \in 1..Len(net[c].socket) : \E m \in 1..n :
       LET part == net[c].socket[m]
           r    == net[c].script[part.n]
           s    == FeedBuffer(On(c), SubSeq(net[c].socket, 1, m - 1), net[c].script, c)
       IN /\ ~s.failed /\ ~s.k.dead /\ ~s.left
          /\ part.what = "end" /\ ~Upgrade(r)
          /\ Do(c, Interrupted(s, r))
          /\ net' = [net EXCEPT ![c].socket = SubSeq(@, n + 1, Len(@))]

\* The peer has gone and left nothing to read, or the socket was closed here.
ReadFails(c) ==
  /\ conn[c].life = "live" /\ conn[c].pending
  /\ ~conn[c].open \/ (net[c].gone /\ net[c].socket = <<>>)
  /\ Do(c, ReadDone(On(c), <<>>, TRUE, net[c].script, c))
  /\ UNCHANGED net

\* The peer gets the word to continue, or an answer.
Received(n, a) == IF a.code = 100 THEN [n EXCEPT !.continued = TRUE]
                  ELSE [n EXCEPT !.answers = Append(@, a)]

\* The first write in flight completes; it may fail when an end of it has gone, and
\* once one has failed they all do.  The io_service hands over a write that succeeded
\* before a read that was begun after it: what a failed read leaves is aborted.
Written(c) ==
  /\ conn[c].writes # <<>>
  /\ IF conn[c].life = "deleted"
     THEN /\ conn' = [conn EXCEPT ![c].late = TRUE, ![c].writes = Tail(@)]
          /\ UNCHANGED <<net, timers>>
     ELSE \E error \in BOOLEAN :
            /\ error => net[c].gone \/ ~conn[c].open
            /\ net[c].broken \/ (~conn[c].is_reading /\ ~conn[c].open /\ ~conn[c].stranded) => error
            /\ Do(c, WriteDone(On(c), error))
            /\ net' = IF error THEN [net EXCEPT ![c].broken = TRUE]
                      ELSE [net EXCEPT ![c] = Received(@, Head(conn[c].writes))]

\* Once a second the passed deadlines close their connections.
OnTimer ==
  LET older == Older(timers)
  IN /\ timers.dq # <<>>
     /\ timers' = Process(older)
     /\ conn' = [c \in Conns |-> IF c \in Fired(older) THEN [conn[c] EXCEPT !.open = FALSE]
                                                       ELSE conn[c]]
     /\ UNCHANGED net

\* What the server's threads do, and what the peers do.
Server == OnTimer \/ \E c \in Conns : \/ Accept(c) \/ Started(c)
                                       \/ Reading(c) \/ ReadThrows(c) \/ ReadFails(c)
                                       \/ Written(c)
Peers  == \E c \in Conns : Send(c) \/ Leave(c)

Next == Server \/ Peers

Spec == Init /\ [][Next]_vars

\* The threads of the server run: as long as something can complete, something does.
FairSpec == Spec /\ WF_vars(Server)

(***************************************************************************)
(* Properties.                                                             *)
(***************************************************************************)
\* What a request should be answered; an upgrade is not answered here.
Own(r) == CASE r.route = "page"    -> [code |-> 200, body |-> "page"]
            [] r.route = "missing" -> [code |-> 404, body |-> "status"]
            [] r.route = "nohost"  -> [code |-> 400, body |-> "status"]

\* A peer that waits for its answers gets them in order, each to its own request and
\* none to an upgrade or after it, whatever else goes on; of the others this holds as long as no answer was begun
\* before the one before it was written.
OwnAnswers ==
  \A c \in Conns :
    /\ net[c].waits => ~conn[c].overlapped
    /\ ~conn[c].overlapped =>
         \A i \in DOMAIN net[c].answers :
           /\ i \in DOMAIN net[c].script /\ ~Upgrade(net[c].script[i])
           /\ net[c].answers[i] = Own(net[c].script[i])

\* A connection that writes one answer at a time is not called back once it is deleted.
NoLateCompletion == \A c \in Conns : conn[c].late => conn[c].overlapped

\* A connection that waits for its peer has one deadline armed, its latest, and
\* one that does not wait has none: no old deadline closes a busy connection.
DeadlineMatches ==
  /\ \A i \in DOMAIN timers.dq : timers.dq[i].armed =>
       /\ conn[timers.dq[i].owner].life = "live"
       /\ conn[timers.dq[i].owner].key = timers.step + i - 1
  /\ \A c \in Conns : conn[c].life = "live" /\ conn[c].pending /\ conn[c].open =>
       \E i \in DOMAIN timers.dq : timers.dq[i].owner = c /\ timers.dq[i].armed

\* Whatever its peer does or leaves undone, every connection comes to be deleted, but for
\* two that nobody deletes.  One is that which the parser refused in the buffer that had
\* begun an answer: its last write finds nothing wrong.  The other is that whose peer reset
\* it while a request of it was read: its deadline is off, and nothing is under way that
\* would find out.  Nothing else is left behind by a peer that goes at any point.
EveryConnectionEnds ==
  \A c \in Conns : conn[c].life # "none"
                   ~> \/ conn[c].life = "deleted"
                      \/ conn[c].stranded /\ ~conn[c].close
                      \/ conn[c].thrown
=============================================================================
