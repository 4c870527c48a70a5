------------------------------ MODULE SimServer ------------------------------
(***************************************************************************)
(* ustcrv_ws.cpp: a thread that clocks the simulated board and reports its *)
(* outputs to every user, the thread of the io_service that runs the       *)
(* websocket connections, and the page's users.  The threads share the set *)
(* of users and its mutex, the inputs of the board, which only one of them *)
(* writes under the mutex and the other reads without, and the             *)
(* io_service's queue of posted sends.                                     *)
(***************************************************************************)
EXTENDS WebSocket, FiniteSets

CONSTANTS Conns,     \* the peers, each with a connection of its own
          Scripts,   \* what the peers may send: functions from peers to [comes, leaves, frames]
          Labels,    \* reports are told apart by their number modulo Labels
          MaxBehind  \* how many sends may wait before the next report is made

ASSUME ServerAssumption == Labels \in Nat \ {0, 1} /\ MaxBehind \in Nat \ {0}
ASSUME NamesAssumption == Conns \cap {"free", "sim"} = {}

\* A body is the parts of the messages it has pieces of.
Piece == [part : {"whole", "first", "second"}, says : [parses : BOOLEAN, reset : Int, sw : Int]]
Frame == [op : {"continuation", "text", "binary", "close", "ping", "pong"}, fin : BOOLEAN,
          arrives : {"whole", "in_pieces", "header_only", "to_mask", "unmasked"}, body : Seq(Piece)]

ASSUME ScriptsAssumption ==
  Scripts \subseteq [Conns -> [comes : BOOLEAN, leaves : BOOLEAN, frames : Seq(Frame)]]

VARIABLES net,     \* per peer: its script, the frames under way, whether it has gone, what it got
          ws,      \* per peer: the Connection object
          users,   \* the set of connections that get reports
          mtx,     \* who holds the mutex: "free", "sim" or the peer whose message is handled
          handler, \* the calls of the message handler still to be made, and whether the first
                   \* of them has assigned the reset and not yet the switches
          top,     \* the inputs of the board
          last,    \* the inputs the messages handled so far have asked for
          sim,     \* the simulation thread
          posted,  \* the sends posted to the io_service
          late     \* per peer, once its connection is deleted: whether sends were posted for
                   \* it then, and what those that ran since have done

vars == <<net, ws, users, mtx, handler, top, last, sim, posted, late>>

Nothing == [reset |-> 0, sw |-> 0]
AtRest  == [calls |-> <<>>, half |-> FALSE]
Throws  == -1   \* the value of a look-up that throws
Succ(n) == (n + 1) % Labels

Init == /\ \E s \in Scripts :
             net = [c \in Conns |-> [comes |-> s[c].comes, leaves |-> s[c].leaves,
                                     script |-> s[c].frames, stream |-> <<>>, gone |-> FALSE,
                                     broken |-> FALSE, hello |-> FALSE, closes |-> 0,
                                     report |-> NoLabel, wrong |-> FALSE]]
        /\ ws = [c \in Conns |-> NewConnection]
        /\ users = {} /\ mtx = "free" /\ handler = AtRest /\ posted = <<>>
        /\ top = Nothing /\ last = Nothing
        /\ late = [c \in Conns |-> [owed |-> FALSE, ran |-> "no"]]
        /\ sim = [pc |-> "tick", label |-> 0, todo |-> {}, sampled |-> Nothing]

(***************************************************************************)
(* The simulation thread.                                                  *)
(***************************************************************************)
\* A period of the clock: the board looks at its inputs when it rises.  Then a report
\* is due.
Tick ==
  /\ sim.pc = "tick"
  /\ sim' = [sim EXCEPT !.sampled = top, !.pc = "lock", !.label = Succ(@)]
  /\ UNCHANGED <<net, ws, users, mtx, handler, top, last, posted, late>>

Waiting == Len(posted) + Cardinality({c \in Conns : ws[c].sending # <<>> /\ ws[c].write # <<>>})

Lock ==
  /\ sim.pc = "lock" /\ mtx = "free" /\ Waiting < MaxBehind
  /\ mtx' = "sim" /\ sim' = [sim EXCEPT !.pc = "send", !.todo = users]
  /\ UNCHANGED <<net, ws, users, handler, top, last, posted, late>>

\* send_text called from a thread that does not run the io_service posts the send.
SendText(c) ==
  /\ sim.pc = "send" /\ c \in sim.todo
  /\ posted' = Append(posted, [conn |-> c, label |-> sim.label])
  /\ sim' = [sim EXCEPT !.todo = @ \ {c}]
  /\ UNCHANGED <<net, ws, users, mtx, handler, top, last, late>>

Unlock ==
  /\ sim.pc = "send" /\ sim.todo = {}
  /\ mtx' = "free" /\ sim' = [sim EXCEPT !.pc = "tick"]
  /\ UNCHANGED <<net, ws, users, handler, top, last, posted, late>>

Sim == Tick \/ Lock \/ (\E c \in Conns : SendText(c)) \/ Unlock

(***************************************************************************)
(* The thread of the io_service.  A handler that needs the mutex waits for *)
(* it; one that calls the message handler keeps it until the handler is    *)
(* through.                                                                *)
(***************************************************************************)
Idle == handler = AtRest

On(c) == [k |-> ws[c], users |-> users, lock |-> FALSE, todo |-> <<>>]

PostedFor(c) == \E i \in DOMAIN posted : posted[i].conn = c

Do(c, s) ==
  /\ s.lock \/ s.todo # <<>> => mtx = "free"
  /\ ws' = [ws EXCEPT ![c] = s.k] /\ users' = s.users
  /\ handler' = [calls |-> s.todo, half |-> FALSE]
  /\ mtx' = IF s.todo # <<>> THEN c ELSE mtx
  /\ late' = IF s.k.life = "deleted" THEN [late EXCEPT ![c].owed = @ \/ PostedFor(c)] ELSE late

\* A completion comes to a connection that is no more.
Touched(c) == /\ ws' = [ws EXCEPT ![c] = [NewConnection EXCEPT !.life = "deleted", !.touched = TRUE]]
              /\ UNCHANGED <<users, mtx, handler, late>>

\* Connection::handle makes the websocket connection out of the request.
Upgrade(c) == /\ Idle /\ ws[c].life = "none" /\ net[c].comes
              /\ Do(c, Start(On(c), c))
              /\ UNCHANGED <<net, top, last, sim, posted>>

ReadPending(c) == Idle /\ ws[c].pending

ReadHeader(c) ==
  /\ ReadPending(c) /\ ws[c].state = "MiniHeader" /\ ws[c].open /\ net[c].stream # <<>>
  /\ Do(c, MiniHeader(On(c), Head(net[c].stream), c))
  /\ net' = [net EXCEPT ![c].stream = Tail(@)]
  /\ UNCHANGED <<top, last, sim, posted>>

ReadMask(c) ==
  /\ ReadPending(c) /\ ws[c].state = "Mask" /\ ws[c].open /\ ws[c].header.arrives # "header_only"
  /\ Do(c, Mask(On(c)))
  /\ UNCHANGED <<net, top, last, sim, posted>>

ReadPayload(c) ==
  /\ ReadPending(c) /\ ws[c].state = "Payload" /\ ws[c].open /\ ws[c].header.arrives # "to_mask"
  /\ Do(c, Payload(On(c), c))
  /\ UNCHANGED <<net, top, last, sim, posted>>

\* There is no more to read and the peer has gone, or the socket was closed here.
ReadFails(c) ==
  /\ ReadPending(c)
  /\ \/ ~ws[c].open
     \/ net[c].gone /\ CASE ws[c].state = "MiniHeader" -> net[c].stream = <<>>
                         [] ws[c].state = "Mask"       -> ws[c].header.arrives = "header_only"
                         [] ws[c].state = "Payload"    -> ws[c].header.arrives = "to_mask"
  /\ IF ws[c].life = "deleted" THEN Touched(c) ELSE Do(c, ReadFailed(On(c), c))
  /\ UNCHANGED <<net, top, last, sim, posted>>

\* What json::load and the two look-ups make of the parts of a message.
Load(message) ==
  CASE Len(message) = 1 /\ message[1].part = "whole" -> message[1].says
    [] Len(message) = 2 /\ message[1].part = "first" /\ message[2].part = "second" -> message[2].says
    [] OTHER -> [parses |-> FALSE, reset |-> Throws, sw |-> Throws]

Said == Load(Head(handler.calls))

\* A call of the handler returns, and with the last one the fragment is done.
Return == /\ handler' = [calls |-> Tail(handler.calls), half |-> FALSE]
          /\ IF Len(handler.calls) > 1 THEN UNCHANGED <<ws, mtx>>
             ELSE ws' = [ws EXCEPT ![mtx] = FragmentDone(On(mtx)).k] /\ mtx' = "free"

\* The exception leaves all that called it, down to the loop that runs the io_service.
Throw == handler' = AtRest /\ mtx' = "free" /\ UNCHANGED ws

\* Fault: a reset is only ever given.
OnMessageResetUp ==
  /\ handler.calls # <<>> /\ ~handler.half
  /\ CASE ~Said.parses -> Return /\ UNCHANGED top
       [] Said.parses /\ Said.reset = Throws -> Throw /\ UNCHANGED top
       [] OTHER -> /\ handler' = [handler EXCEPT !.half = TRUE]
                   /\ top' = [top EXCEPT !.reset = IF Said.reset = 1 THEN 1 ELSE @]
                   /\ UNCHANGED <<ws, mtx>>
  /\ UNCHANGED <<net, users, last, sim, posted, late>>

\* First the reset input is assigned, then the switches; in between the board may run.
OnMessageReset ==
  /\ handler.calls # <<>> /\ ~handler.half
  /\ CASE ~Said.parses -> Return /\ UNCHANGED top
       [] Said.parses /\ Said.reset = Throws -> Throw /\ UNCHANGED top
       [] OTHER -> /\ handler' = [handler EXCEPT !.half = TRUE]
                   /\ top' = [top EXCEPT !.reset = Said.reset]
                   /\ UNCHANGED <<ws, mtx>>
  /\ UNCHANGED <<net, users, last, sim, posted, late>>

OnMessageSwitches ==
  /\ handler.half
  /\ IF Said.sw = Throws
     THEN Throw /\ UNCHANGED top /\ last' = [last EXCEPT !.reset = Said.reset]
     ELSE /\ Return /\ top' = [top EXCEPT !.sw = Said.sw]
          /\ last' = [reset |-> Said.reset, sw |-> Said.sw]
  /\ UNCHANGED <<net, users, sim, posted, late>>

\* A posted send runs.  Nothing keeps its connection until then, and nothing is asked: one
\* that has been deleted is used all the same.  What is left of it may say that nothing is
\* being sent; then a write begins, on a socket that is closed.
Posted ==
  /\ Idle /\ posted # <<>>
  /\ LET p == Head(posted)
     IN \/ /\ ws[p.conn].life # "deleted"
           /\ ws' = [ws EXCEPT ![p.conn] = SendFrame(On(p.conn), Report(p.label)).k]
           /\ UNCHANGED late
        \/ /\ ws[p.conn].life = "deleted"
           /\ \E ran \in {"ran", "writes"} : late' = [late EXCEPT ![p.conn].ran = ran]
           /\ UNCHANGED ws
  /\ posted' = Tail(posted)
  /\ UNCHANGED <<net, users, mtx, handler, top, last, sim>>

\* The completion of a write begun so, with an error, for an object that is no more.
LateWritten(c) ==
  /\ Idle /\ late[c].ran = "writes"
  /\ late' = [late EXCEPT ![c].ran = "came back"]
  /\ UNCHANGED <<net, ws, users, mtx, handler, top, last, sim, posted>>

\* The report a peer has got last when it has got the first i of the items.
Seen(n, items, i) ==
  LET reports == {j \in 1..i : items[j].what = "report"}
  IN IF reports = {} THEN n.report
     ELSE items[CHOOSE j \in reports : \A m \in reports : m <= j].label

\* What a peer gets: its reports are to follow one another after the hello.
Delivered(n, items) ==
  LET hello     == n.hello \/ (items # <<>> /\ items[1].what = "hello")
      before(i) == Seen(n, items, i - 1)
      gap(i)    == items[i].what = "report" /\ before(i) # NoLabel /\ items[i].label # Succ(before(i))
  IN [n EXCEPT !.hello = hello, !.report = Seen(n, items, Len(items)),
               !.wrong = @ \/ ~hello \/ \E i \in DOMAIN items : gap(i)]

\* The write in flight completes; it may fail when an end of it has gone.
Written(c) ==
  /\ Idle /\ ws[c].sending # <<>>
  /\ \E error \in BOOLEAN :
       /\ error => net[c].gone \/ ~ws[c].open
       /\ net[c].broken => error
       /\ IF ws[c].life = "deleted" THEN Touched(c) ELSE Do(c, WriteDone(On(c), error, c))
       /\ net' = [net EXCEPT ![c] = IF error THEN [@ EXCEPT !.broken = TRUE]
                                    ELSE Delivered([@ EXCEPT !.broken = net[c].gone], ws[c].sending)]
  /\ UNCHANGED <<top, last, sim, posted>>

Io == \/ OnMessageReset \/ OnMessageSwitches \/ Posted
      \/ \E c \in Conns : \/ Upgrade(c) \/ ReadHeader(c) \/ ReadMask(c) \/ ReadPayload(c)
                          \/ ReadFails(c) \/ Written(c) \/ LateWritten(c)

(***************************************************************************)
(* The peers.                                                              *)
(***************************************************************************)
Send(c) == /\ net[c].script # <<>> /\ net[c].hello /\ ~net[c].gone
           /\ net' = [net EXCEPT ![c].stream = Append(@, Head(net[c].script)), ![c].script = Tail(@),
                          ![c].closes = IF Head(net[c].script).op = "close" THEN @ + 1 ELSE @]
           /\ UNCHANGED <<ws, users, mtx, handler, top, last, sim, posted, late>>

Leave(c) == /\ net[c].hello /\ net[c].leaves /\ ~net[c].gone
            /\ net' = [net EXCEPT ![c].gone = TRUE]
            /\ UNCHANGED <<ws, users, mtx, handler, top, last, sim, posted, late>>

Next == Sim \/ Io \/ \E c \in Conns : Send(c) \/ Leave(c)

Spec == Init /\ [][Next]_vars

Reads(c) == ReadHeader(c) \/ ReadMask(c) \/ ReadPayload(c) \/ ReadFails(c)

\* Both threads run.  What the io_service has to do waits behind other handlers, and
\* for a mutex that the other thread holds now and then, but gets its turn.
FairSpec == /\ Spec /\ WF_vars(Sim)
            /\ WF_vars(OnMessageReset \/ OnMessageSwitches) /\ SF_vars(Posted)
            /\ \A c \in Conns : SF_vars(Reads(c)) /\ SF_vars(Written(c))

(***************************************************************************)
(* Properties.                                                             *)
(***************************************************************************)
\* The simulation thread never sends to a connection that has been deleted: whatever
\* way a connection goes, it has left the set before.
UsersAreAlive == \A c \in users \union sim.todo : ws[c].life = "live"

\* What goes on with a connection that has been deleted is a second Close frame of its peer,
\* or a send that was posted before the deletion.  Nothing else does: no read or write of its
\* own comes back to it, no handler goes on with one it has deleted, and nothing is posted for
\* it any more.  Both ways are open in the code.
NotTouchedAgain ==
  \A c \in Conns : ws[c].touched \/ late[c].ran # "no" => net[c].closes > 1 \/ late[c].owed

\* A peer gets the hello first and then, without a gap, twice or out of order, the
\* reports made while it was a user.
ReportsInOrder == \A c \in Conns : ~net[c].wrong

\* The board comes to run with the inputs the messages have asked for.
CommandTakesEffect == (sim.sampled # last) ~> (sim.sampled = last)

\* A connection has left the set of users and is deleted, or stuck within a frame.
Dropped(c) == c \notin users /\ (ws[c].life = "deleted" \/ ws[c].state # "MiniHeader")

\* A peer that has gone does not stay in the set of users, and its connection is
\* deleted, unless it went in the middle of a frame: then no write may come to do it.
GoneIsDropped == \A c \in Conns : net[c].gone ~> Dropped(c)
=============================================================================
