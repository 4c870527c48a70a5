-------------------------- MODULE SimServerProofs --------------------------
(***************************************************************************)
(* Proofs about the simulation server, for any number of peers, any        *)
(* scripts and any number of reports: the simulation thread sends to no    *)
(* connection that has been deleted, nothing goes on with one, and a peer  *)
(* gets its reports in order and without a gap.                            *)
(*                                                                         *)
(* A connection may be deleted without the mutex being taken, when the     *)
(* close handler has been called before.  What makes that safe spans both  *)
(* threads: a connection whose close handler has been called is not a      *)
(* user, the users to be sent to are users, and while there are any the    *)
(* mutex keeps the set as it is (ServerInv).                               *)
(*                                                                         *)
(* A connection that is deleted in the middle of a handler has answered a  *)
(* close before, so its peer has closed twice: ClosesOnce follows the one  *)
(* close of a peer from its script to the answer.  That the reports follow *)
(* one another is said of the whole way they take (Chain): from the last   *)
(* one a peer has got, through those being sent, those that wait behind    *)
(* them and those posted to the io_service, to the one the simulation      *)
(* thread posts next.                                                      *)
(***************************************************************************)
EXTENDS SimServer, WellFoundedInduction, TLAPS

-----------------------------------------------------------------------------
(***************************************************************************)
(* The invariant.                                                          *)
(***************************************************************************)
\* A connection beside a set of users: one that has not begun or is deleted has
\* nothing under way, and a user is alive and has not been told to close.
Safe(k, us, c) ==
  /\ DOMAIN k = DOMAIN NewConnection
  /\ k.life \in {"none", "live", "deleted"}
  /\ k.pending => k.is_reading
  /\ k.life # "live" => ~k.pending /\ k.sending = <<>>
  /\ k.life = "none" => ~k.called
  /\ c \in us => k.life = "live" /\ ~k.called

\* A message handler is called once or, for a last continuation, twice.
Calls(todo) == todo = <<>> \/ todo = <<todo[1]>> \/ todo = <<todo[1], todo[2]>>

\* The simulation thread holds the mutex as long as it sends, and sends to users.
SimInv ==
  /\ DOMAIN sim = {"pc", "label", "todo", "sampled"}
  /\ sim.label \in Nat
  /\ sim.todo \subseteq users
  /\ mtx = "sim" <=> sim.pc = "send"
  /\ sim.pc # "send" => sim.todo = {}

\* A message handler that is not through holds the mutex, for a connection that lives.
HandlerInv ==
  /\ DOMAIN handler = {"calls", "half"}
  /\ Calls(handler.calls)
  /\ handler.half \in BOOLEAN
  /\ handler.half => handler.calls # <<>>
  /\ handler.calls # <<>> => mtx \in Conns /\ ws[mtx].life = "live"

\* A send is posted for a connection that has begun.
PostedInv ==
  /\ posted \in Seq([conn : Conns, label : Nat])
  /\ \A i \in 1 .. Len(posted) : ws[posted[i].conn].life # "none"

ServerInv ==
  /\ users \subseteq Conns
  /\ DOMAIN ws = Conns
  /\ \A c \in Conns : Safe(ws[c], users, c)
  /\ SimInv
  /\ HandlerInv
  /\ PostedInv

-----------------------------------------------------------------------------
(***************************************************************************)
(* The handlers.  A handler works on a record s; the set of users it       *)
(* leaves differs from the one it found in its own connection at most, and *)
(* only if it has taken the mutex.                                         *)
(***************************************************************************)
Shape(s) == DOMAIN s = {"k", "users", "lock", "todo"}

Sound(s, c) ==
  /\ Shape(s)
  /\ s.users \ {c} = users \ {c}
  /\ s.users # users => s.lock = TRUE
  /\ Calls(s.todo)
  /\ s.todo # <<>> => s.k.life = "live"
  /\ s.k.life # "none"
  /\ Safe(s.k, s.users, c)

\* A handler that is not through with its connection, and has not called the user's.
Going(s, c) == Sound(s, c) /\ s.k.life = "live" /\ s.todo = <<>>

Fields == {"life", "state", "is_reading", "pending", "open", "sending", "write", "close",
           "sent_close", "recv_close", "called", "header", "fragment", "message", "touched"}

LEMMA FieldsOfConnection == DOMAIN NewConnection = Fields
BY DEF NewConnection, Fields

LEMMA GoingFields ==
  ASSUME NEW s, NEW c, Going(s, c)
  PROVE  DOMAIN s.k = Fields /\ Shape(s)
BY FieldsOfConnection DEF Going, Sound, Safe

\* A handler may set what the invariant does not look at.
Alike(t, s) ==
  /\ Shape(t) /\ t.users = s.users /\ t.lock = s.lock /\ t.todo = s.todo
  /\ DOMAIN t.k = Fields
  /\ t.k.life = s.k.life /\ t.k.is_reading = s.k.is_reading /\ t.k.pending = s.k.pending
  /\ t.k.sending = s.k.sending /\ t.k.called = s.k.called

LEMMA OtherFields ==
  ASSUME NEW s, NEW t, NEW c, Going(s, c), Alike(t, s)
  PROVE  Going(t, c)
BY FieldsOfConnection DEF Going, Sound, Safe, Alike

\* Writing leaves alone whether the connection lives and reads.
LEMMA DoWriteGoing ==
  ASSUME NEW s, NEW c, Going(s, c)
  PROVE  Going(DoWrite(s), c)
<1> DEFINE t == [s EXCEPT !.k.sending = s.k.write, !.k.write = <<>>]
<1>1. DOMAIN s.k = Fields /\ Shape(s)
  BY GoingFields
<1>2. /\ Shape(t) /\ t.users = s.users /\ t.lock = s.lock /\ t.todo = s.todo
      /\ DOMAIN t.k = Fields /\ t.k.life = s.k.life /\ t.k.is_reading = s.k.is_reading
      /\ t.k.pending = s.k.pending /\ t.k.called = s.k.called
  BY <1>1 DEF Shape, Fields
<1>3. Going(t, c)
  BY <1>2, FieldsOfConnection DEF Going, Sound, Safe
<1> QED
  BY <1>3 DEF DoWrite

LEMMA SendFrameGoing ==
  ASSUME NEW s, NEW c, NEW item, Going(s, c)
  PROVE  Going(SendFrame(s, item), c)
<1> DEFINE t == [s EXCEPT !.k.write = Append(@, item)]
<1>1. DOMAIN s.k = Fields /\ Shape(s)
  BY GoingFields
<1>2. Alike(t, s)
  BY <1>1 DEF Alike, Shape, Fields
<1> QED
  BY <1>2, OtherFields, DoWriteGoing DEF SendFrame

\* Reading begins.
LEMMA DoReadSound ==
  ASSUME NEW s, NEW c, Going(s, c)
  PROVE  Sound(DoRead(s), c)
<1> DEFINE t == [s EXCEPT !.k.is_reading = TRUE, !.k.pending = TRUE]
<1>1. DOMAIN s.k = Fields /\ Shape(s)
  BY GoingFields
<1>2. /\ Shape(t) /\ t.users = s.users /\ t.lock = s.lock /\ t.todo = s.todo
      /\ DOMAIN t.k = Fields /\ t.k.life = s.k.life /\ t.k.is_reading = TRUE
      /\ t.k.sending = s.k.sending /\ t.k.called = s.k.called
  BY <1>1 DEF Shape, Fields
<1> QED
  BY <1>2, FieldsOfConnection DEF Going, Sound, Safe, DoRead

\* The close handler takes the connection out of the set, under the mutex.
LEMMA OnCloseGoing ==
  ASSUME NEW s, NEW c, Going(s, c)
  PROVE  Going(OnClose(s, c), c) /\ OnClose(s, c).k = s.k /\ c \notin OnClose(s, c).users
<1>1. Shape(s)
  BY GoingFields
<1>2. /\ Shape(OnClose(s, c)) /\ OnClose(s, c).k = s.k /\ OnClose(s, c).todo = s.todo
      /\ OnClose(s, c).users = s.users \ {c} /\ OnClose(s, c).lock = TRUE
  BY <1>1 DEF OnClose, Shape
<1> QED
  BY <1>2 DEF Going, Sound, Safe

\* Once the close handler is called, the connection is not a user.
LEMMA CalledGoing ==
  ASSUME NEW s, NEW c, Going(s, c), c \notin s.users
  PROVE  Going([s EXCEPT !.k.called = TRUE], c) /\ [s EXCEPT !.k.called = TRUE].users = s.users
<1> DEFINE t == [s EXCEPT !.k.called = TRUE]
<1>1. DOMAIN s.k = Fields /\ Shape(s)
  BY GoingFields
<1>2. /\ Shape(t) /\ t.users = s.users /\ t.lock = s.lock /\ t.todo = s.todo
      /\ DOMAIN t.k = Fields /\ t.k.life = s.k.life /\ t.k.is_reading = s.k.is_reading
      /\ t.k.pending = s.k.pending /\ t.k.sending = s.k.sending
  BY <1>1 DEF Shape, Fields
<1> QED
  BY <1>2, FieldsOfConnection DEF Going, Sound, Safe

\* A connection is deleted when nothing is under way and it is not a user.
LEMMA CheckDestroySound ==
  ASSUME NEW s, NEW c, Going(s, c)
  PROVE  Sound(CheckDestroy(s, c), c)
<1> DEFINE t == IF s.k.called THEN s ELSE OnClose(s, c)
           d == [NewConnection EXCEPT !.life = "deleted", !.touched = t.k.touched,
                                      !.pending = t.k.pending, !.sending = t.k.sending]
<1>1. Going(t, c) /\ c \notin t.users
  BY OnCloseGoing DEF Going, Sound, Safe
<1> HIDE DEF t
<1>2. ASSUME t.k.sending = <<>>, ~t.k.is_reading
      PROVE  Sound(Deleted(t), c)
  <2>1. DOMAIN d = Fields /\ d.life = "deleted" /\ ~d.pending /\ d.sending = <<>>
    BY <1>1, <1>2 DEF NewConnection, Fields, Going, Sound, Safe
  <2>2. Shape(Deleted(t)) /\ Deleted(t).k = d /\ Deleted(t).users = t.users
        /\ Deleted(t).lock = t.lock /\ Deleted(t).todo = t.todo
    BY <1>1 DEF Deleted, Going, Sound, Shape
  <2> HIDE DEF d
  <2> QED
    BY <1>1, <2>1, <2>2, FieldsOfConnection DEF Going, Sound, Safe
<1> QED
  BY <1>1, <1>2 DEF CheckDestroy, Going, t

LEMMA CloseGoing ==
  ASSUME NEW s, NEW c, Going(s, c)
  PROVE  Going(Close(s, c), c)
<1> DEFINE t == [s EXCEPT !.k.sent_close = TRUE]
           t1 == [t EXCEPT !.k.called = TRUE]
           u == IF t.k.recv_close /\ ~t.k.called THEN OnClose(t1, c) ELSE t
<1>1. DOMAIN s.k = Fields /\ Shape(s)
  BY GoingFields
<1>2. Going(t, c)
  <2>1. Alike(t, s)
    BY <1>1 DEF Alike, Shape, Fields
  <2> QED
    BY <2>1, OtherFields
<1> HIDE DEF t
<1>3. Going(OnClose(t, c), c) /\ c \notin OnClose(t, c).users
  BY <1>2, OnCloseGoing
<1>4. Going([OnClose(t, c) EXCEPT !.k.called = TRUE], c)
  BY <1>3, CalledGoing
<1>5. OnClose(t1, c) = [OnClose(t, c) EXCEPT !.k.called = TRUE]
  BY <1>2, GoingFields DEF OnClose, Shape
<1>6. Going(u, c)
  BY <1>2, <1>4, <1>5
<1> QED
  BY <1>6, SendFrameGoing DEF Close, t

LEMMA ReadFailedSound ==
  ASSUME NEW s, NEW c, Going(s, c)
  PROVE  Sound(ReadFailed(s, c), c)
<1> DEFINE t == [s EXCEPT !.k.is_reading = FALSE, !.k.pending = FALSE, !.k.close = TRUE,
                          !.k.open = FALSE]
<1>1. DOMAIN s.k = Fields /\ Shape(s)
  BY GoingFields
<1>2. /\ Shape(t) /\ t.users = s.users /\ t.lock = s.lock /\ t.todo = s.todo
      /\ DOMAIN t.k = Fields /\ t.k.life = s.k.life /\ t.k.is_reading = FALSE
      /\ t.k.pending = FALSE /\ t.k.sending = s.k.sending /\ t.k.called = s.k.called
  BY <1>1 DEF Shape, Fields
<1> HIDE DEF t
<1>3. Going(t, c)
  BY <1>2, FieldsOfConnection DEF Going, Sound, Safe
<1> QED
  BY <1>3, CheckDestroySound DEF ReadFailed, Going, t

LEMMA MiniHeaderSound ==
  ASSUME NEW s, NEW c, NEW frame, Going(s, c)
  PROVE  Sound(MiniHeader(s, frame, c), c)
<1> DEFINE t == [s EXCEPT !.k.header = frame, !.k.state = "Mask"]
<1>1. Alike(t, s)
  BY GoingFields DEF Alike, Shape, Fields
<1>2. Sound(DoRead(t), c)
  BY <1>1, OtherFields, DoReadSound
<1> QED
  BY <1>2, ReadFailedSound DEF MiniHeader

LEMMA MaskSound ==
  ASSUME NEW s, NEW c, Going(s, c)
  PROVE  Sound(Mask(s), c)
<1> DEFINE t == [s EXCEPT !.k.state = "Payload"]
<1>1. Alike(t, s)
  BY GoingFields DEF Alike, Shape, Fields
<1> QED
  BY <1>1, OtherFields, DoReadSound DEF Mask

\* What follows the handling of a fragment, of a connection that may be deleted.
LEMMA FragmentDoneSound ==
  ASSUME NEW s, NEW c, Sound(s, c), s.todo = <<>>
  PROVE  /\ Sound(FragmentDone(s), c) /\ FragmentDone(s).users = s.users
         /\ s.k.life = "live" => FragmentDone(s).k.life = "live"
<1>1. CASE s.k.life = "deleted"
  <2> DEFINE t == [s EXCEPT !.k.touched = TRUE]
  <2>1. DOMAIN s.k = Fields /\ Shape(s)
    BY FieldsOfConnection DEF Sound, Safe
  <2>2. /\ Shape(t) /\ t.users = s.users /\ t.lock = s.lock /\ t.todo = s.todo
        /\ DOMAIN t.k = Fields /\ t.k.life = s.k.life /\ t.k.is_reading = s.k.is_reading
        /\ t.k.pending = s.k.pending /\ t.k.sending = s.k.sending /\ t.k.called = s.k.called
    BY <2>1 DEF Shape, Fields
  <2> QED
    BY <1>1, <2>2, FieldsOfConnection DEF Sound, Safe, FragmentDone
<1>2. CASE s.k.life # "deleted"
  <2> DEFINE t == [s EXCEPT !.k.fragment = <<>>, !.k.state = "MiniHeader"]
  <2>1. Going(s, c)
    BY <1>2 DEF Going, Sound, Safe
  <2>2. Alike(t, s)
    BY <2>1, GoingFields DEF Alike, Shape, Fields
  <2>3. Sound(DoRead(t), c)
    BY <2>1, <2>2, OtherFields, DoReadSound
  <2>4. DoRead(t).users = t.users /\ DoRead(t).k.life = t.k.life
    BY <2>2, GoingFields DEF DoRead, Alike, Shape, Fields
  <2> QED
    BY <1>2, <2>2, <2>3, <2>4 DEF FragmentDone, Alike
<1> QED
  BY <1>1, <1>2

LEMMA CloseFrameSound ==
  ASSUME NEW s, NEW c, Going(s, c)
  PROVE  Sound(CloseFrame(s, c), c) /\ CloseFrame(s, c).k.life # "none"
<1> DEFINE t == [s EXCEPT !.k.recv_close = TRUE]
           u == [t EXCEPT !.k.open = FALSE, !.k.close = TRUE]
           v == IF u.k.called THEN u ELSE OnClose(u, c)
<1>1. Going(t, c)
  <2>1. Alike(t, s)
    BY GoingFields DEF Alike, Shape, Fields
  <2> QED
    BY <2>1, OtherFields
<1> HIDE DEF t
<1>2. Going(u, c)
  <2>1. Alike(u, t)
    BY <1>1, GoingFields DEF Alike, Shape, Fields
  <2> QED
    BY <1>1, <2>1, OtherFields
<1> HIDE DEF u
<1>3. Going(v, c) /\ c \notin v.users
  BY <1>2, OnCloseGoing DEF Going, Sound, Safe
<1> HIDE DEF v
<1>4. Going([v EXCEPT !.k.called = TRUE], c)
  BY <1>3, CalledGoing
<1>5. Sound(CheckDestroy([v EXCEPT !.k.called = TRUE], c), c)
  BY <1>4, CheckDestroySound
<1>6. Going(Close(t, c), c)
  BY <1>1, CloseGoing
<1>7. CloseFrame(s, c) = IF ~t.k.sent_close THEN Close(t, c)
                         ELSE CheckDestroy([v EXCEPT !.k.called = TRUE], c)
  BY DEF CloseFrame, t, u, v
<1> QED
  BY <1>5, <1>6, <1>7 DEF Going, Sound

\* A data frame calls the message handler at most twice.
LEMMA DataFrameSound ==
  ASSUME NEW s, NEW c, NEW op, NEW fin, Going(s, c)
  PROVE  Sound(DataFrame(s, op, fin), c) /\ DataFrame(s, op, fin).k.life = "live"
<1> DEFINE with(m, calls) == [s EXCEPT !.k.message = m, !.todo = calls]
<1>1. ASSUME NEW m, NEW calls, Calls(calls)
      PROVE  Sound(with(m, calls), c) /\ with(m, calls).k.life = "live"
  <2> DEFINE t == with(m, calls)
  <2>1. /\ Shape(t) /\ t.users = s.users /\ t.lock = s.lock /\ t.todo = calls
        /\ DOMAIN t.k = Fields /\ t.k.life = s.k.life /\ t.k.is_reading = s.k.is_reading
        /\ t.k.pending = s.k.pending /\ t.k.sending = s.k.sending /\ t.k.called = s.k.called
    BY GoingFields DEF Shape, Fields
  <2> HIDE DEF t
  <2> QED
    BY <1>1, <2>1, FieldsOfConnection DEF Going, Sound, Safe, t
<1>2. \A m, calls : Calls(calls) => Sound(with(m, calls), c) /\ with(m, calls).k.life = "live"
  BY <1>1
<1>3. \A x, y : Calls(<<>>) /\ Calls(<<x>>) /\ Calls(<<x, y>>)
  BY DEF Calls
<1>4. \A m : [s EXCEPT !.k.message = m] = with(m, <<>>)
  BY GoingFields DEF Going, Shape
<1>5. \E m, calls : Calls(calls) /\ DataFrame(s, op, fin) = with(m, calls)
  <2> DEFINE grown == s.k.message \o s.k.fragment
  <2>1. CASE op = "continuation" /\ fin
    <3>1. DataFrame(s, op, fin) = with(<<>>, <<grown, s.k.fragment>>)
      BY <2>1 DEF DataFrame
    <3> QED
      BY <1>3, <3>1
  <2>2. CASE op = "continuation" /\ ~fin
    <3>1. DataFrame(s, op, fin) = with(grown \o s.k.fragment, <<>>)
      BY <1>4, <2>2 DEF DataFrame
    <3> QED
      BY <1>3, <3>1
  <2>3. CASE op # "continuation"
    <3>1. DataFrame(s, op, fin) = with(IF fin THEN <<>> ELSE grown, IF fin THEN <<grown>> ELSE <<>>)
      BY <2>3 DEF DataFrame
    <3> QED
      BY <1>3, <3>1
  <2> QED
    BY <2>1, <2>2, <2>3
<1> HIDE DEF with
<1> QED
  BY <1>2, <1>5

LEMMA HandleFragmentSound ==
  ASSUME NEW s, NEW c, Going(s, c)
  PROVE  Sound(HandleFragment(s, c), c)
<1>1. Sound(DataFrame(s, s.k.header.op, s.k.header.fin), c)
  BY DataFrameSound
<1>2. Sound(CloseFrame(s, c), c)
  BY CloseFrameSound
<1>3. Sound(SendFrame(s, Item("pong")), c)
  BY SendFrameGoing DEF Going
<1>4. Sound(s, c)
  BY DEF Going
<1>5. HandleFragment(s, c) \in {DataFrame(s, s.k.header.op, s.k.header.fin), CloseFrame(s, c),
                                SendFrame(s, Item("pong")), s}
  BY DEF HandleFragment
<1> QED
  BY <1>1, <1>2, <1>3, <1>4, <1>5

LEMMA PayloadSound ==
  ASSUME NEW s, NEW c, Going(s, c)
  PROVE  Sound(Payload(s, c), c)
<1> DEFINE t == [s EXCEPT !.k.is_reading = FALSE, !.k.pending = FALSE,
                          !.k.fragment = @ \o s.k.header.body]
           u == HandleFragment(t, c)
<1>1. DOMAIN s.k = Fields /\ Shape(s)
  BY GoingFields
<1>2. /\ Shape(t) /\ t.users = s.users /\ t.lock = s.lock /\ t.todo = s.todo
      /\ DOMAIN t.k = Fields /\ t.k.life = s.k.life /\ t.k.is_reading = FALSE
      /\ t.k.pending = FALSE /\ t.k.sending = s.k.sending /\ t.k.called = s.k.called
  BY <1>1 DEF Shape, Fields
<1> HIDE DEF t
<1>3. Going(t, c)
  BY <1>2, FieldsOfConnection DEF Going, Sound, Safe
<1>4. Sound(u, c)
  BY <1>3, HandleFragmentSound
<1> HIDE DEF u
<1>5. Payload(s, c) = IF s.k.header.arrives = "in_pieces" THEN t
                      ELSE IF u.todo # <<>> THEN u ELSE FragmentDone(u)
  BY DEF Payload, t, u
<1> QED
  BY <1>3, <1>4, <1>5, FragmentDoneSound DEF Going

LEMMA WriteDoneSound ==
  ASSUME NEW s, NEW c, NEW error, Going(s, c)
  PROVE  Sound(WriteDone(s, error, c), c)
<1> DEFINE t == [s EXCEPT !.k.sending = <<>>]
           u == IF t.k.write # <<>> THEN DoWrite(t) ELSE t
           v == [u EXCEPT !.k.close = u.k.sent_close]
           w == [t EXCEPT !.k.close = TRUE]
<1>1. Going(t, c)
  <2>1. /\ Shape(t) /\ t.users = s.users /\ t.lock = s.lock /\ t.todo = s.todo
        /\ DOMAIN t.k = Fields /\ t.k.life = s.k.life /\ t.k.is_reading = s.k.is_reading
        /\ t.k.pending = s.k.pending /\ t.k.called = s.k.called
    BY GoingFields DEF Shape, Fields
  <2> HIDE DEF t
  <2> QED
    BY <2>1, FieldsOfConnection DEF Going, Sound, Safe
<1> HIDE DEF t
<1>2. Going(u, c)
  BY <1>1, DoWriteGoing
<1> HIDE DEF u
<1>3. Going(v, c)
  <2>1. Alike(v, u)
    BY <1>2, GoingFields DEF Alike, Shape, Fields
  <2> QED
    BY <1>2, <2>1, OtherFields
<1>4. Going(w, c)
  <2>1. Alike(w, t)
    BY <1>1, GoingFields DEF Alike, Shape, Fields
  <2> QED
    BY <1>1, <2>1, OtherFields
<1>5. Sound(CheckDestroy(w, c), c)
  BY <1>4, CheckDestroySound
<1>6. WriteDone(s, error, c) = IF ~error /\ ~t.k.close THEN v ELSE CheckDestroy(w, c)
  BY DEF WriteDone, t, u
<1> QED
  BY <1>3, <1>5, <1>6 DEF Going

\* A handler begins with the connection and the users as they are.
LEMMA OnFields ==
  ASSUME NEW c
  PROVE  /\ Shape(On(c)) /\ On(c).k = ws[c] /\ On(c).users = users
         /\ On(c).lock = FALSE /\ On(c).todo = <<>>
BY DEF On, Shape

LEMMA OnGoing ==
  ASSUME NEW c \in Conns, ServerInv, ws[c].life = "live"
  PROVE  Going(On(c), c)
BY OnFields DEF ServerInv, Going, Sound, Safe, Calls

\* The constructor: the connection begins to live, and becomes a user.
LEMMA StartSound ==
  ASSUME NEW c \in Conns, ServerInv, ws[c].life = "none"
  PROVE  Sound(Start(On(c), c), c)
<1> DEFINE s == On(c)
           t == [s EXCEPT !.k.life = "live", !.k.open = TRUE, !.k.write = Append(@, Item("hello"))]
           u == DoWrite(t)
<1>1. Going(t, c)
  <2>1. DOMAIN s.k = Fields /\ Shape(s)
    BY OnFields, FieldsOfConnection DEF ServerInv, Safe
  <2>2. /\ Shape(t) /\ t.users = s.users /\ t.lock = s.lock /\ t.todo = s.todo
        /\ DOMAIN t.k = Fields /\ t.k.life = "live" /\ t.k.is_reading = s.k.is_reading
        /\ t.k.pending = s.k.pending /\ t.k.sending = s.k.sending /\ t.k.called = s.k.called
    BY <2>1 DEF Shape, Fields
  <2> HIDE DEF t
  <2> QED
    BY <2>2, OnFields, FieldsOfConnection DEF Going, Sound, Safe, ServerInv, Calls
<1> HIDE DEF t
<1>2. Going(u, c) /\ ~u.k.called
  <2>1. t.k.called = ws[c].called
    BY OnFields, FieldsOfConnection DEF t, Shape, Fields, ServerInv, Safe
  <2>2. DoWrite(t).k.called = t.k.called
    BY <1>1, GoingFields DEF DoWrite, Shape, Fields
  <2> QED
    BY <1>1, <2>1, <2>2, DoWriteGoing DEF ServerInv, Safe
<1> HIDE DEF u
<1>3. Going(OnOpen(u, c), c)
  <2>1. /\ Shape(OnOpen(u, c)) /\ OnOpen(u, c).k = u.k /\ OnOpen(u, c).todo = u.todo
        /\ OnOpen(u, c).users = u.users \union {c} /\ OnOpen(u, c).lock = TRUE
    BY <1>2 DEF OnOpen, Shape, Going, Sound
  <2> QED
    BY <1>2, <2>1 DEF Going, Sound, Safe
<1> QED
  BY <1>3, DoReadSound DEF Start, u, t

-----------------------------------------------------------------------------
(***************************************************************************)
(* The steps.                                                              *)
(***************************************************************************)
LEMMA InitInv == Init => ServerInv
<1> SUFFICES ASSUME Init
             PROVE  ServerInv
  OBVIOUS
<1>1. \A c \in Conns : Safe(ws[c], users, c)
  BY FieldsOfConnection DEF Init, NewConnection, Safe
<1>2. SimInv
  BY DEF Init, SimInv
<1>3. HandlerInv
  BY DEF Init, HandlerInv, AtRest, Calls
<1> QED
  BY <1>1, <1>2, <1>3 DEF Init, ServerInv, PostedInv

\* A sound handler may be taken: if it changes the users it has the mutex, so that
\* nothing is being sent to them.
LEMMA DoInv ==
  ASSUME NEW c \in Conns, NEW s, ServerInv, Idle, Sound(s, c), Do(c, s), UNCHANGED <<sim, posted>>
  PROVE  ServerInv'
<1>1. /\ ws' = [ws EXCEPT ![c] = s.k] /\ users' = s.users
      /\ handler' = [calls |-> s.todo, half |-> FALSE]
      /\ mtx' = IF s.todo # <<>> THEN c ELSE mtx
      /\ s.lock = TRUE \/ s.todo # <<>> => mtx = "free"
  BY DEF Do
<1>2. handler.calls = <<>>
  BY DEF Idle, AtRest
<1>3. users' \subseteq Conns /\ DOMAIN ws' = Conns
  BY <1>1 DEF ServerInv, Sound
<1>4. ASSUME NEW d \in Conns
      PROVE  Safe(ws'[d], users', d)
  <2>1. CASE d = c
    BY <1>1, <2>1 DEF ServerInv, Sound
  <2>2. CASE d # c
    <3>1. ws'[d] = ws[d] /\ (d \in users' <=> d \in users)
      BY <1>1, <2>2 DEF ServerInv, Sound
    <3> QED
      BY <3>1 DEF ServerInv, Safe
  <2> QED
    BY <2>1, <2>2
<1>5. SimInv'
  <2>1. sim.todo \subseteq users'
    BY <1>1, NamesAssumption DEF ServerInv, SimInv, Sound
  <2>2. mtx' = "sim" <=> sim.pc = "send"
    BY <1>1, NamesAssumption DEF ServerInv, SimInv
  <2> QED
    BY <2>1, <2>2 DEF ServerInv, SimInv
<1>6. HandlerInv'
  BY <1>1 DEF ServerInv, HandlerInv, Sound
<1>7. PostedInv'
  <2> SUFFICES ASSUME NEW i \in 1 .. Len(posted)
               PROVE  ws'[posted[i].conn].life # "none"
    BY DEF ServerInv, PostedInv
  <2> QED
    BY <1>1 DEF ServerInv, PostedInv, Sound
<1> QED
  BY <1>3, <1>4, <1>5, <1>6, <1>7 DEF ServerInv

\* A completion always finds its connection alive.
LEMMA UnderWayIsLive ==
  ASSUME NEW c \in Conns, ServerInv, ws[c].pending \/ ws[c].sending # <<>>
  PROVE  ws[c].life = "live"
BY DEF ServerInv, Safe

LEMMA SimStep ==
  ASSUME ServerInv, Sim
  PROVE  ServerInv'
<1>1. CASE Tick
  BY <1>1, ServerAssumption DEF Tick, Succ, ServerInv, SimInv, HandlerInv, PostedInv
<1>2. CASE Lock
  BY <1>2, NamesAssumption DEF Lock, ServerInv, SimInv, HandlerInv, PostedInv
<1>3. ASSUME NEW c \in Conns, SendText(c)
      PROVE  ServerInv'
  <2>1. SimInv' /\ HandlerInv'
    BY <1>3 DEF SendText, ServerInv, SimInv, HandlerInv
  <2>2. PostedInv'
    <3> DEFINE p == [conn |-> c, label |-> sim.label]
    <3>1. p \in [conn : Conns, label : Nat] /\ ws[p.conn].life # "none"
      BY <1>3 DEF SendText, ServerInv, SimInv, Safe
    <3> HIDE DEF p
    <3>2. posted' = Append(posted, p) /\ ws' = ws
      BY <1>3 DEF SendText, p
    <3> QED
      BY <3>1, <3>2 DEF ServerInv, PostedInv
  <2> QED
    BY <1>3, <2>1, <2>2 DEF SendText, ServerInv
<1>4. CASE Unlock
  BY <1>4, NamesAssumption DEF Unlock, ServerInv, SimInv, HandlerInv, PostedInv
<1> QED
  BY <1>1, <1>2, <1>3, <1>4 DEF Sim

\* The message handler returns, and the fragment it was called for is done.
LEMMA ReturnInv ==
  ASSUME ServerInv, handler.calls # <<>>, Return, UNCHANGED <<users, sim, posted>>
  PROVE  ServerInv'
<1>1. mtx \in Conns /\ ws[mtx].life = "live"
  BY DEF ServerInv, HandlerInv
<1>2. handler' = [calls |-> Tail(handler.calls), half |-> FALSE]
  BY DEF Return
<1>3. CASE Len(handler.calls) > 1
  <2>1. Calls(Tail(handler.calls))
    <3>1. handler.calls = <<handler.calls[1], handler.calls[2]>>
      BY <1>3 DEF ServerInv, HandlerInv, Calls
    <3>2. \A x, y : Tail(<<x, y>>) = <<y>>
      OBVIOUS
    <3>3. Tail(handler.calls) = <<handler.calls[2]>>
      BY <3>1, <3>2
    <3>4. \A y : Calls(<<y>>)
      BY DEF Calls
    <3> QED
      BY <3>3, <3>4
  <2> QED
    BY <1>1, <1>2, <1>3, <2>1 DEF Return, ServerInv, SimInv, HandlerInv, PostedInv
<1>4. CASE ~ Len(handler.calls) > 1
  <2> DEFINE t == FragmentDone(On(mtx))
  <2>1. Tail(handler.calls) = <<>>
    BY <1>4 DEF ServerInv, HandlerInv, Calls
  <2>2. Sound(t, mtx) /\ t.users = users
    BY <1>1, OnGoing, OnFields, FragmentDoneSound DEF Going
  <2> HIDE DEF t
  <2>3. ws' = [ws EXCEPT ![mtx] = t.k] /\ mtx' = "free"
    BY <1>4 DEF Return, t
  <2>4. \A d \in Conns : Safe(ws'[d], users', d)
    BY <1>1, <2>2, <2>3 DEF ServerInv, Sound
  <2>5. SimInv' /\ HandlerInv'
    BY <1>1, <1>2, <2>1, <2>3, NamesAssumption DEF ServerInv, SimInv, HandlerInv, Calls
  <2>6. PostedInv'
    <3> SUFFICES ASSUME NEW i \in 1 .. Len(posted)
                 PROVE  ws'[posted[i].conn].life # "none"
      BY DEF ServerInv, PostedInv
    <3> QED
      BY <2>2, <2>3 DEF ServerInv, PostedInv, Sound
  <2> QED
    BY <2>3, <2>4, <2>5, <2>6 DEF ServerInv
<1> QED
  BY <1>3, <1>4

LEMMA ThrowInv ==
  ASSUME ServerInv, handler.calls # <<>>, Throw, UNCHANGED <<users, sim, posted>>
  PROVE  ServerInv'
<1>1. mtx \in Conns
  BY DEF ServerInv, HandlerInv
<1> QED
  BY <1>1, NamesAssumption
  DEF Throw, AtRest, Calls, ServerInv, SimInv, HandlerInv, PostedInv, Safe

LEMMA MessageStep ==
  ASSUME ServerInv, OnMessageReset \/ OnMessageSwitches
  PROVE  ServerInv'
<1>1. CASE OnMessageReset
  <2>1. handler.calls # <<>> /\ UNCHANGED <<users, sim, posted>>
    BY <1>1 DEF OnMessageReset
  <2>2. Return \/ Throw \/ (handler' = [handler EXCEPT !.half = TRUE] /\ UNCHANGED <<ws, mtx>>)
    BY <1>1 DEF OnMessageReset
  <2>3. ASSUME handler' = [handler EXCEPT !.half = TRUE], UNCHANGED <<ws, mtx>>
        PROVE  ServerInv'
    BY <2>1, <2>3 DEF ServerInv, SimInv, HandlerInv, PostedInv, Safe
  <2> QED
    BY <2>1, <2>2, <2>3, ReturnInv, ThrowInv
<1>2. CASE OnMessageSwitches
  <2>1. handler.calls # <<>> /\ UNCHANGED <<users, sim, posted>>
    BY <1>2 DEF OnMessageSwitches, ServerInv, HandlerInv
  <2>2. Return \/ Throw
    BY <1>2 DEF OnMessageSwitches
  <2> QED
    BY <2>1, <2>2, ReturnInv, ThrowInv
<1> QED
  BY <1>1, <1>2

LEMMA FirstAndRest ==
  ASSUME NEW S, NEW q \in Seq(S), q # <<>>
  PROVE  /\ Head(q) = q[1] /\ q[1] \in S /\ 1 \in 1 .. Len(q)
         /\ Tail(q) \in Seq(S)
         /\ \A i \in 1 .. Len(Tail(q)) : /\ i + 1 \in 1 .. Len(q)
                                       /\ Tail(q)[i] = q[i + 1]
OBVIOUS

LEMMA SeqOfRecords ==
  ASSUME NEW q \in Seq([conn : Conns, label : Nat]), NEW i \in 1 .. Len(q)
  PROVE  q[i].conn \in Conns
<1>1. \A S : q \in Seq(S) => q[i] \in S
  OBVIOUS
<1>2. q[i] \in [conn : Conns, label : Nat]
  BY <1>1
<1> QED
  BY <1>2

LEMMA PostedStep ==
  ASSUME ServerInv, Posted
  PROVE  ServerInv'
<1> DEFINE p == Head(posted)
           t == SendFrame(On(p.conn), Report(p.label))
<1>1. /\ p.conn \in Conns /\ ws[p.conn].life # "none"
      /\ posted' = Tail(posted) /\ Tail(posted) \in Seq([conn : Conns, label : Nat])
      /\ \A i \in 1 .. Len(Tail(posted)) : ws[Tail(posted)[i].conn].life # "none"
  <2>1. posted \in Seq([conn : Conns, label : Nat]) /\ posted # <<>> /\ posted' = Tail(posted)
    BY DEF Posted, ServerInv, PostedInv
  <2>2. /\ p = posted[1] /\ p \in [conn : Conns, label : Nat] /\ 1 \in 1 .. Len(posted)
        /\ Tail(posted) \in Seq([conn : Conns, label : Nat])
    BY <2>1, FirstAndRest
  <2>3. \A i \in 1 .. Len(Tail(posted)) : ws[Tail(posted)[i].conn].life # "none"
    <3> SUFFICES ASSUME NEW i \in 1 .. Len(Tail(posted))
                 PROVE  ws[Tail(posted)[i].conn].life # "none"
      OBVIOUS
    <3>1. i + 1 \in 1 .. Len(posted) /\ Tail(posted)[i] = posted[i + 1]
      BY <2>1, FirstAndRest
    <3> QED
      BY <3>1 DEF ServerInv, PostedInv
  <2> QED
    BY <2>1, <2>2, <2>3 DEF ServerInv, PostedInv
<1>2. UNCHANGED <<users, mtx, handler, sim>>
  BY DEF Posted
<1>3. CASE ws[p.conn].life = "deleted"
  <2>1. DOMAIN ws' = Conns /\ \A d \in Conns : ws'[d] = ws[d]
    BY <1>1, <1>3 DEF Posted, ServerInv
  <2>2. \A d \in Conns : Safe(ws'[d], users', d)
    BY <1>2, <2>1 DEF ServerInv
  <2>3. SimInv' /\ HandlerInv'
    BY <1>2, <2>1 DEF ServerInv, SimInv, HandlerInv
  <2>4. PostedInv'
    <3>1. \A i \in 1 .. Len(Tail(posted)) : Tail(posted)[i].conn \in Conns
      BY <1>1, SeqOfRecords
    <3> QED
      BY <1>1, <2>1, <3>1 DEF PostedInv
  <2> QED
    BY <1>2, <2>1, <2>2, <2>3, <2>4 DEF ServerInv
<1>4. CASE ws[p.conn].life # "deleted"
  <2>1. ws[p.conn].life = "live"
    BY <1>1, <1>4 DEF ServerInv, Safe
  <2>2. Going(t, p.conn) /\ t.users = users
    <3>1. Going(On(p.conn), p.conn)
      BY <1>1, <2>1, OnGoing
    <3>2. SendFrame(On(p.conn), Report(p.label)).users = On(p.conn).users
      BY <3>1, GoingFields DEF SendFrame, DoWrite, Shape
    <3> QED
      BY <3>1, <3>2, OnFields, SendFrameGoing
  <2>3. ws' = [ws EXCEPT ![p.conn] = t.k]
    BY <1>4 DEF Posted
  <2> HIDE DEF t, p
  <2>4. \A d \in Conns : Safe(ws'[d], users', d)
    BY <1>1, <1>2, <2>2, <2>3 DEF ServerInv, Going, Sound
  <2>5. \A d \in Conns : ws'[d].life = ws[d].life
    BY <1>1, <2>1, <2>2, <2>3 DEF ServerInv, Going
  <2>6. PostedInv'
    <3>1. \A i \in 1 .. Len(Tail(posted)) : Tail(posted)[i].conn \in Conns
      BY <1>1, SeqOfRecords
    <3> QED
      BY <1>1, <2>5, <3>1 DEF PostedInv
  <2>7. SimInv' /\ HandlerInv'
    BY <1>2, <2>5 DEF ServerInv, SimInv, HandlerInv
  <2> QED
    BY <1>2, <2>3, <2>4, <2>6, <2>7 DEF ServerInv
<1> QED
  BY <1>3, <1>4

\* Every handler of the io_service that works on a connection finds it undeleted, and is
\* a sound one.
LEMMA ConnectionDoes ==
  ASSUME ServerInv, NEW c \in Conns,
         \/ Upgrade(c) \/ ReadHeader(c) \/ ReadMask(c) \/ ReadPayload(c) \/ ReadFails(c) \/ Written(c)
  PROVE  /\ Idle /\ ws[c].life # "deleted" /\ UNCHANGED <<sim, posted>>
         /\ \E s : Sound(s, c) /\ Do(c, s)
<1>1. CASE Upgrade(c)
  BY <1>1, StartSound DEF Upgrade
<1>2. CASE ReadHeader(c)
  <2>1. ws[c].life = "live" /\ Sound(MiniHeader(On(c), Head(net[c].stream), c), c)
    BY <1>2, UnderWayIsLive, OnGoing, MiniHeaderSound DEF ReadHeader, ReadPending
  <2> QED
    BY <1>2, <2>1 DEF ReadHeader, ReadPending
<1>3. CASE ReadMask(c)
  <2>1. ws[c].life = "live" /\ Sound(Mask(On(c)), c)
    BY <1>3, UnderWayIsLive, OnGoing, MaskSound DEF ReadMask, ReadPending
  <2> QED
    BY <1>3, <2>1 DEF ReadMask, ReadPending
<1>4. CASE ReadPayload(c)
  <2>1. ws[c].life = "live" /\ Sound(Payload(On(c), c), c)
    BY <1>4, UnderWayIsLive, OnGoing, PayloadSound DEF ReadPayload, ReadPending
  <2> QED
    BY <1>4, <2>1 DEF ReadPayload, ReadPending
<1>5. CASE ReadFails(c)
  <2>1. ws[c].life = "live"
    BY <1>5, UnderWayIsLive DEF ReadFails, ReadPending
  <2>2. Sound(ReadFailed(On(c), c), c)
    BY <2>1, OnGoing, ReadFailedSound
  <2> QED
    BY <1>5, <2>1, <2>2 DEF ReadFails, ReadPending
<1>6. CASE Written(c)
  <2>1. ws[c].life = "live"
    BY <1>6, UnderWayIsLive DEF Written
  <2>2. \A error : Sound(WriteDone(On(c), error, c), c)
    BY <2>1, OnGoing, WriteDoneSound
  <2>3. PICK error \in BOOLEAN : Do(c, WriteDone(On(c), error, c))
    BY <1>6, <2>1 DEF Written
  <2> QED
    BY <1>6, <2>1, <2>2, <2>3 DEF Written
<1> QED
  BY <1>1, <1>2, <1>3, <1>4, <1>5, <1>6

LEMMA ConnectionStep ==
  ASSUME ServerInv, NEW c \in Conns,
         \/ Upgrade(c) \/ ReadHeader(c) \/ ReadMask(c) \/ ReadPayload(c) \/ ReadFails(c) \/ Written(c)
  PROVE  ServerInv'
BY ConnectionDoes, DoInv

LEMMA NextInv == ServerInv /\ [Next]_vars => ServerInv'
<1> SUFFICES ASSUME ServerInv, [Next]_vars
             PROVE  ServerInv'
  OBVIOUS
<1>2. ASSUME UNCHANGED <<ws, users, mtx, handler, sim, posted>>
      PROVE  ServerInv'
  BY <1>2 DEF ServerInv, SimInv, HandlerInv, PostedInv
<1>1. CASE Io
  <2>1. ASSUME NEW c \in Conns, LateWritten(c)
        PROVE  ServerInv'
    BY <1>2, <2>1 DEF LateWritten
  <2> QED
    BY <1>1, <2>1, MessageStep, PostedStep, ConnectionStep DEF Io
<1>3. ASSUME NEW c \in Conns, Send(c) \/ Leave(c)
      PROVE  ServerInv'
  BY <1>2, <1>3 DEF Send, Leave
<1> QED
  BY <1>1, <1>2, <1>3, SimStep DEF Next, vars

\* Whatever the peers send, and whenever they go, the simulation thread sends to live
\* connections only.
THEOREM UsersStayAlive == Spec => []UsersAreAlive
<1>1. ServerInv => UsersAreAlive
  BY DEF ServerInv, SimInv, Safe, UsersAreAlive
<1> QED
  BY <1>1, InitInv, NextInv, PTL DEF Spec

-----------------------------------------------------------------------------
(***************************************************************************)
(* What goes on with a connection that has been deleted.  A send posted    *)
(* for one has been posted before it was deleted, since the users are      *)
(* alive; and only those that run late begin a write for it.               *)
(***************************************************************************)
LateInv ==
  /\ DOMAIN late = Conns
  /\ \A c \in Conns : /\ DOMAIN late[c] = {"owed", "ran"} /\ late[c].owed \in BOOLEAN
                      /\ late[c].ran # "no" => late[c].owed /\ ws[c].life = "deleted"
  /\ \A i \in 1 .. Len(posted) :
       ws[posted[i].conn].life = "deleted" => late[posted[i].conn].owed

LEMMA LateInit == Init => LateInv
<1> SUFFICES ASSUME Init
             PROVE  LateInv
  OBVIOUS
<1>1. late = [c \in Conns |-> [owed |-> FALSE, ran |-> "no"]] /\ posted = <<>>
  BY DEF Init
<1>2. \A i \in 1 .. Len(posted) : FALSE
  BY <1>1
<1> QED
  BY <1>1, <1>2 DEF LateInv

\* A handler that deletes its connection is when the sends posted for it become late.
LEMMA LateDo ==
  ASSUME ServerInv, LateInv, NEW c \in Conns, ws[c].life # "deleted", NEW s, Sound(s, c),
         Do(c, s), UNCHANGED posted
  PROVE  LateInv'
<1> DEFINE del == s.k.life = "deleted"
           owed == late[c].owed \/ PostedFor(c)
<1>1. DOMAIN ws' = Conns /\ ws'[c].life = s.k.life /\ \A d \in Conns \ {c} : ws'[d] = ws[d]
  BY DEF Do, ServerInv
<1>2. late' = IF del THEN [late EXCEPT ![c].owed = owed] ELSE late
  BY DEF Do
<1>3. late[c].ran = "no"
  BY DEF LateInv
<1>4. owed \in BOOLEAN
  BY DEF LateInv, PostedFor
<1> HIDE DEF owed
<1>5. /\ DOMAIN late' = Conns
      /\ \A d \in Conns : /\ DOMAIN late'[d] = {"owed", "ran"} /\ late'[d].owed \in BOOLEAN
                          /\ late'[d].ran = late[d].ran
                          /\ d # c => late'[d] = late[d]
      /\ del => late'[c].owed = owed
  BY <1>2, <1>4 DEF LateInv
<1>6. \A d \in Conns : late'[d].ran # "no" => late'[d].owed /\ ws'[d].life = "deleted"
  BY <1>1, <1>3, <1>5 DEF LateInv
<1>7. ASSUME NEW i \in 1 .. Len(posted), ws'[posted[i].conn].life = "deleted"
      PROVE  late'[posted[i].conn].owed
  <2>1. posted[i].conn \in Conns
    BY SeqOfRecords DEF ServerInv, PostedInv
  <2>2. CASE posted[i].conn = c
    <3>1. PostedFor(c)
      BY <2>2 DEF PostedFor, ServerInv, PostedInv
    <3> QED
      BY <1>1, <1>5, <1>7, <2>2, <3>1 DEF owed
  <2>3. CASE posted[i].conn # c
    BY <1>1, <1>5, <1>7, <2>1, <2>3 DEF LateInv
  <2> QED
    BY <2>2, <2>3
<1> QED
  BY <1>5, <1>6, <1>7 DEF LateInv

LEMMA LateSim ==
  ASSUME ServerInv, LateInv, Sim
  PROVE  LateInv'
<1>1. UNCHANGED <<ws, late>>
  BY DEF Sim, Tick, Lock, SendText, Unlock
<1>2. CASE Tick \/ Lock \/ Unlock
  BY <1>1, <1>2 DEF Tick, Lock, Unlock, LateInv
<1>3. ASSUME NEW c \in Conns, SendText(c)
      PROVE  LateInv'
  <2> DEFINE p == [conn |-> c, label |-> sim.label]
  <2>1. p \in [conn : Conns, label : Nat] /\ ws[p.conn].life = "live"
    BY <1>3 DEF SendText, ServerInv, SimInv, Safe
  <2> HIDE DEF p
  <2>2. posted' = Append(posted, p) /\ posted \in Seq([conn : Conns, label : Nat])
    BY <1>3 DEF SendText, p, ServerInv, PostedInv
  <2> QED
    BY <1>1, <2>1, <2>2 DEF LateInv
<1> QED
  BY <1>2, <1>3 DEF Sim

\* The fragment that is done leaves its connection alive.
LEMMA LateMessage ==
  ASSUME ServerInv, LateInv, OnMessageReset \/ OnMessageSwitches
  PROVE  LateInv'
<1>1. handler.calls # <<>> /\ UNCHANGED <<posted, late>>
  BY DEF OnMessageReset, OnMessageSwitches, ServerInv, HandlerInv
<1>2. mtx \in Conns /\ ws[mtx].life = "live" /\ DOMAIN ws = Conns
  BY <1>1 DEF ServerInv, HandlerInv
<1>3. CASE UNCHANGED ws
  BY <1>1, <1>3 DEF LateInv
<1>4. CASE ws' = [ws EXCEPT ![mtx] = FragmentDone(On(mtx)).k]
  <2> DEFINE j == FragmentDone(On(mtx)).k
  <2>1. j.life = "live"
    <3>1. Going(On(mtx), mtx)
      BY <1>2, OnGoing
    <3> QED
      BY <3>1, <1>2, OnFields, FragmentDoneSound DEF Going
  <2> HIDE DEF j
  <2>2. \A d \in Conns : ws'[d].life = ws[d].life
    BY <1>2, <1>4, <2>1 DEF j
  <2>3. \A i \in 1 .. Len(posted) : posted[i].conn \in Conns
    BY SeqOfRecords DEF ServerInv, PostedInv
  <2> QED
    BY <1>1, <2>2, <2>3 DEF LateInv
<1> QED
  BY <1>3, <1>4 DEF OnMessageReset, OnMessageSwitches, Return, Throw

LEMMA LatePosted ==
  ASSUME ServerInv, LateInv, Posted
  PROVE  LateInv'
<1> DEFINE p == Head(posted)
           q == Tail(posted)
<1>1. /\ p.conn \in Conns /\ posted' = q
      /\ ws[p.conn].life = "deleted" => late[p.conn].owed
      /\ \A i \in 1 .. Len(q) :
           /\ q[i].conn \in Conns
           /\ ws[q[i].conn].life = "deleted" => late[q[i].conn].owed
  <2>1. posted \in Seq([conn : Conns, label : Nat]) /\ posted # <<>> /\ posted' = q
    BY DEF Posted, ServerInv, PostedInv
  <2>2. /\ p = posted[1] /\ 1 \in 1 .. Len(posted) /\ q \in Seq([conn : Conns, label : Nat])
        /\ \A i \in 1 .. Len(q) : i + 1 \in 1 .. Len(posted) /\ q[i] = posted[i + 1]
    BY <2>1, FirstAndRest
  <2>3. \A i \in 1 .. Len(posted) : posted[i].conn \in Conns
    BY <2>1, SeqOfRecords
  <2>4. \A i \in 1 .. Len(posted) : ws[posted[i].conn].life = "deleted" => late[posted[i].conn].owed
    BY DEF LateInv
  <2> HIDE DEF p, q
  <2>5. p.conn \in Conns /\ (ws[p.conn].life = "deleted" => late[p.conn].owed)
    BY <2>2, <2>3, <2>4
  <2>6. \A i \in 1 .. Len(q) :
          /\ q[i].conn \in Conns
          /\ ws[q[i].conn].life = "deleted" => late[q[i].conn].owed
    BY <2>2, <2>3, <2>4
  <2> QED
    BY <2>1, <2>5, <2>6
<1>2. CASE ws[p.conn].life # "deleted" /\ UNCHANGED late
  <2> DEFINE j == SendFrame(On(p.conn), Report(p.label)).k
  <2>1. ws[p.conn].life = "live" /\ ws' = [ws EXCEPT ![p.conn] = j]
    <3>1. posted \in Seq([conn : Conns, label : Nat]) /\ posted # <<>>
      BY DEF Posted, ServerInv, PostedInv
    <3>2. p = posted[1] /\ 1 \in 1 .. Len(posted)
      BY <3>1, FirstAndRest
    <3>3. ws[p.conn].life # "none"
      BY <3>2 DEF ServerInv, PostedInv
    <3> QED
      BY <1>1, <1>2, <3>3 DEF Posted, ServerInv, Safe
  <2>2. j.life = "live"
    BY <1>1, <2>1, OnGoing, SendFrameGoing DEF Going
  <2> HIDE DEF j, p, q
  <2>3. \A d \in Conns : ws'[d].life = ws[d].life
    BY <1>1, <2>1, <2>2 DEF ServerInv
  <2>4. \A d \in Conns : /\ DOMAIN late[d] = {"owed", "ran"} /\ late[d].owed \in BOOLEAN
                        /\ late[d].ran # "no" => late[d].owed /\ ws[d].life = "deleted"
    BY DEF LateInv
  <2>5. \A i \in 1 .. Len(q) : ws'[q[i].conn].life = "deleted" => late[q[i].conn].owed
    <3> SUFFICES ASSUME NEW i \in 1 .. Len(q), ws'[q[i].conn].life = "deleted"
                 PROVE  late[q[i].conn].owed
      OBVIOUS
    <3>1. q[i].conn \in Conns /\ (ws[q[i].conn].life = "deleted" => late[q[i].conn].owed)
      BY <1>1
    <3> QED
      BY <3>1, <2>3
  <2>6. posted' = q /\ late' = late /\ DOMAIN late = Conns
    BY <1>1, <1>2 DEF LateInv
  <2> QED
    BY <2>3, <2>4, <2>5, <2>6 DEF LateInv
<1>3. CASE ws[p.conn].life = "deleted" /\ UNCHANGED ws
  <2>1. PICK ran : late' = [late EXCEPT ![p.conn].ran = ran]
    BY <1>3 DEF Posted
  <2> HIDE DEF p, q
  <2>2. /\ DOMAIN late' = Conns
        /\ \A d \in Conns : /\ DOMAIN late'[d] = {"owed", "ran"} /\ late'[d].owed = late[d].owed
                            /\ late'[d].owed \in BOOLEAN /\ (d # p.conn => late'[d] = late[d])
    BY <2>1 DEF LateInv
  <2>3. \A d \in Conns : late'[d].ran # "no" => late'[d].owed /\ ws'[d].life = "deleted"
    <3> SUFFICES ASSUME NEW d \in Conns, late'[d].ran # "no"
                 PROVE  late'[d].owed /\ ws'[d].life = "deleted"
      OBVIOUS
    <3>1. CASE d = p.conn
      BY <1>1, <1>3, <2>2, <3>1
    <3>2. CASE d # p.conn
      BY <1>3, <2>2, <3>2 DEF LateInv
    <3> QED
      BY <3>1, <3>2
  <2>4. \A i \in 1 .. Len(q) : ws'[q[i].conn].life = "deleted" => late'[q[i].conn].owed
    <3> SUFFICES ASSUME NEW i \in 1 .. Len(q), ws'[q[i].conn].life = "deleted"
                 PROVE  late'[q[i].conn].owed
      OBVIOUS
    <3>1. q[i].conn \in Conns /\ (ws[q[i].conn].life = "deleted" => late[q[i].conn].owed)
      BY <1>1
    <3> QED
      BY <3>1, <1>3, <2>2
  <2>5. posted' = q
    BY <1>1
  <2> QED
    BY <2>2, <2>3, <2>4, <2>5 DEF LateInv
<1>4. \/ ws[p.conn].life # "deleted" /\ UNCHANGED late
      \/ ws[p.conn].life = "deleted" /\ UNCHANGED ws
  BY DEF Posted
<1> HIDE DEF p
<1> QED
  BY <1>2, <1>3, <1>4

LEMMA LateNext == ServerInv /\ LateInv /\ [Next]_vars => LateInv'
<1> SUFFICES ASSUME ServerInv, LateInv, [Next]_vars
             PROVE  LateInv'
  OBVIOUS
<1>1. ASSUME NEW c \in Conns,
             \/ Upgrade(c) \/ ReadHeader(c) \/ ReadMask(c) \/ ReadPayload(c) \/ ReadFails(c) \/ Written(c)
      PROVE  LateInv'
  BY <1>1, ConnectionDoes, LateDo
<1>2. ASSUME NEW c \in Conns, LateWritten(c)
      PROVE  LateInv'
  <2>1. /\ DOMAIN late' = Conns /\ late[c].ran = "writes"
        /\ \A d \in Conns : /\ DOMAIN late'[d] = {"owed", "ran"} /\ late'[d].owed = late[d].owed
                            /\ d # c => late'[d] = late[d]
    BY <1>2 DEF LateWritten, LateInv
  <2>2. UNCHANGED <<ws, posted>>
    BY <1>2 DEF LateWritten
  <2>3. \A d \in Conns : late'[d].ran # "no" => late[d].ran # "no"
    BY <2>1
  <2>4. \A i \in 1 .. Len(posted) : posted[i].conn \in Conns
    BY SeqOfRecords DEF ServerInv, PostedInv
  <2> QED
    BY <2>1, <2>2, <2>3, <2>4 DEF LateInv
<1>3. CASE Io
  BY <1>1, <1>2, <1>3, LateMessage, LatePosted DEF Io
<1>4. ASSUME UNCHANGED <<ws, posted, late>>
      PROVE  LateInv'
  BY <1>4 DEF LateInv
<1>5. ASSUME NEW c \in Conns, Send(c) \/ Leave(c)
      PROVE  LateInv'
  BY <1>4, <1>5 DEF Send, Leave
<1> QED
  BY <1>3, <1>4, <1>5, LateSim DEF Next, vars

\* A read or write of a connection's own that is under way finds it alive when it
\* completes.  The only one that does not is a write begun, after the connection was
\* deleted, by a send that had been posted for it before.
THEOREM CompletionsFindTheirConnection ==
  Spec => [](\A c \in Conns :
               /\ ws[c].pending \/ ws[c].sending # <<>> => ws[c].life = "live"
               /\ late[c].ran = "writes" => ws[c].life = "deleted" /\ late[c].owed)
<1>1. ServerInv /\ LateInv => \A c \in Conns :
        /\ ws[c].pending \/ ws[c].sending # <<>> => ws[c].life = "live"
        /\ late[c].ran = "writes" => ws[c].life = "deleted" /\ late[c].owed
  BY UnderWayIsLive DEF LateInv
<1> QED
  BY <1>1, InitInv, NextInv, LateInit, LateNext, PTL DEF Spec

-----------------------------------------------------------------------------
(***************************************************************************)
(* What a peer sends and gets.                                             *)
(***************************************************************************)
Control == [what : {"hello", "pong", "close"}, label : {NoLabel}]
Items   == Control \union [what : {"report"}, label : Nat]
Sends   == [conn : Conns, label : Nat]

NetState ==
  [comes : BOOLEAN, leaves : BOOLEAN, script : Seq(Frame), stream : Seq(Frame),
   gone : BOOLEAN, broken : BOOLEAN, hello : BOOLEAN, closes : Nat, report : Int,
   wrong : BOOLEAN]

\* A connection is about to handle a close.
CloseHeader(k) == k.state # "MiniHeader" /\ k.header.op = "close"

\* The one close of a peer that closes once is yet to come, is being read or has been
\* answered; what it may not find is that it has been answered before.
ClosesOnce(n, k) ==
  n.closes <= 1 =>
    /\ ~k.touched
    /\ \A i, j \in 1 .. Len(n.stream) :
         n.stream[i].op = "close" /\ n.stream[j].op = "close" => i = j
    /\ \A i \in 1 .. Len(n.stream) :
         n.stream[i].op = "close" => n.closes = 1 /\ ~CloseHeader(k) /\ ~k.sent_close
    /\ CloseHeader(k) => n.closes = 1 /\ ~k.sent_close
    /\ k.sent_close => n.closes = 1

\* The first m marks of g, leaving out those that are NoLabel, follow one another from a
\* to b: f[i] is the last one of the first i.
Runs(g, m, a, b) ==
  \E f \in [0 .. m -> Int] :
    /\ f[0] = a /\ f[m] = b
    /\ \A i \in 1 .. m : IF g[i] = NoLabel THEN f[i] = f[i - 1]
                         ELSE f[i] = g[i] /\ (f[i - 1] = NoLabel \/ g[i] = Succ(f[i - 1]))

Marks(items)     == [i \in 1 .. Len(items) |-> items[i].label]
PostedTo(c, ps)  == [i \in 1 .. Len(ps) |-> IF ps[i].conn = c THEN ps[i].label ELSE NoLabel]

\* The report that is posted next to a connection that is a user.
Due(sm, c) ==
  IF sm.pc = "tick" \/ (sm.pc = "send" /\ c \notin sm.todo) THEN Succ(sm.label) ELSE sm.label

\* From report r, those being sent and those waiting to be sent follow one another to b.
Outgoing(k, r, b) ==
  \E a \in Int : /\ Runs(Marks(k.sending), Len(k.sending), r, a)
                 /\ Runs(Marks(k.write), Len(k.write), a, b)

\* So they do from the report the peer has got last, on through those posted and to the
\* next to be posted.
Chain(n, k, us, ps, sm, c) ==
  \E b, d \in Int :
    /\ Outgoing(k, n.report, b)
    /\ Runs(PostedTo(c, ps), Len(ps), b, d)
    /\ c \in us => d = NoLabel \/ Succ(d) = Due(sm, c)

InTurn(n, k, us, ps, sm, c) ==
  /\ k.sending \in Seq(Items) /\ k.write \in Seq(Items)
  /\ ~n.wrong
  /\ k.life = "none" => n.report = NoLabel /\ ~n.hello /\ k.write = <<>>
  /\ k.life = "live" /\ ~n.broken =>
       /\ ~n.hello => k.sending # <<>> /\ k.sending[1].what = "hello"
       /\ Chain(n, k, us, ps, sm, c)

ReportInv ==
  /\ net \in [Conns -> NetState]
  /\ \A c \in Conns : /\ ClosesOnce(net[c], ws[c])
                      /\ InTurn(net[c], ws[c], users, posted, sim, c)

-----------------------------------------------------------------------------
(***************************************************************************)
(* Runs of reports.                                                        *)
(***************************************************************************)
LEMMA RunsEmpty ==
  ASSUME NEW g, NEW a \in Int
  PROVE  /\ Runs(g, 0, a, a)
         /\ \A b \in Int : Runs(g, 0, a, b) => b = a
<1>1. Runs(g, 0, a, a)
  <2> DEFINE f == [i \in 0 .. 0 |-> a]
  <2>1. f \in [0 .. 0 -> Int] /\ f[0] = a
    OBVIOUS
  <2> HIDE DEF f
  <2> QED
    BY <2>1 DEF Runs
<1> QED
  BY <1>1 DEF Runs

LEMMA RunsSame ==
  ASSUME NEW m \in Nat, NEW g, NEW h, NEW a, NEW b, Runs(g, m, a, b),
         \A i \in 1 .. m : h[i] = g[i]
  PROVE  Runs(h, m, a, b)
BY DEF Runs

\* A mark is added at the end.
LEMMA RunsMore ==
  ASSUME NEW m \in Nat, NEW g, NEW h, NEW a \in Int, NEW b \in Int, Runs(g, m, a, b),
         \A i \in 1 .. m : h[i] = g[i],
         NEW d \in Int,
         \/ h[m + 1] = NoLabel /\ d = b
         \/ h[m + 1] # NoLabel /\ d = h[m + 1] /\ (b = NoLabel \/ d = Succ(b))
  PROVE  Runs(h, m + 1, a, d)
<1>1. PICK f \in [0 .. m -> Int] :
        /\ f[0] = a /\ f[m] = b
        /\ \A i \in 1 .. m : IF g[i] = NoLabel THEN f[i] = f[i - 1]
                             ELSE f[i] = g[i] /\ (f[i - 1] = NoLabel \/ g[i] = Succ(f[i - 1]))
  BY DEF Runs
<1> DEFINE e == [i \in 0 .. m + 1 |-> IF i = m + 1 THEN d ELSE f[i]]
<1>2. e \in [0 .. m + 1 -> Int] /\ e[m + 1] = d /\ \A i \in 0 .. m : e[i] = f[i]
  BY <1>1
<1> HIDE DEF e
<1>3. ASSUME NEW i \in 1 .. m + 1
      PROVE  IF h[i] = NoLabel THEN e[i] = e[i - 1]
             ELSE e[i] = h[i] /\ (e[i - 1] = NoLabel \/ h[i] = Succ(e[i - 1]))
  <2>1. CASE i = m + 1
    <3>1. e[i] = d /\ e[i - 1] = b
      BY <1>1, <1>2, <2>1
    <3> QED
      BY <2>1, <3>1
  <2>2. CASE i # m + 1
    <3>1. i \in 1 .. m /\ e[i] = f[i] /\ e[i - 1] = f[i - 1] /\ h[i] = g[i]
      BY <1>2, <2>2
    <3> QED
      BY <1>1, <3>1
  <2> QED
    BY <2>1, <2>2
<1>4. e[0] = a
  BY <1>1, <1>2
<1> QED
  BY <1>2, <1>3, <1>4 DEF Runs

\* The first mark is taken away.
LEMMA RunsLess ==
  ASSUME NEW m \in Nat \ {0}, NEW g, NEW h, NEW a \in Int, NEW b \in Int, Runs(g, m, a, b),
         \A i \in 1 .. m - 1 : h[i] = g[i + 1]
  PROVE  \/ g[1] = NoLabel /\ Runs(h, m - 1, a, b)
         \/ /\ g[1] \in Int /\ g[1] # NoLabel /\ (a = NoLabel \/ g[1] = Succ(a))
            /\ Runs(h, m - 1, g[1], b)
<1>1. PICK f \in [0 .. m -> Int] :
        /\ f[0] = a /\ f[m] = b
        /\ \A i \in 1 .. m : IF g[i] = NoLabel THEN f[i] = f[i - 1]
                             ELSE f[i] = g[i] /\ (f[i - 1] = NoLabel \/ g[i] = Succ(f[i - 1]))
  BY DEF Runs
<1> DEFINE e == [i \in 0 .. m - 1 |-> f[i + 1]]
<1>2. e \in [0 .. m - 1 -> Int] /\ \A i \in 0 .. m - 1 : e[i] = f[i + 1]
  <2>1. \A i \in 0 .. m - 1 : f[i + 1] \in Int
    BY <1>1
  <2> QED
    BY <2>1
<1> HIDE DEF e
<1>3. ASSUME NEW i \in 1 .. m - 1
      PROVE  IF h[i] = NoLabel THEN e[i] = e[i - 1]
             ELSE e[i] = h[i] /\ (e[i - 1] = NoLabel \/ h[i] = Succ(e[i - 1]))
  <2>1. e[i] = f[i + 1] /\ e[i - 1] = f[i] /\ h[i] = g[i + 1] /\ i + 1 \in 1 .. m /\ (i + 1) - 1 = i
    BY <1>2
  <2> QED
    BY <1>1, <2>1
<1>4. e[0] = f[1] /\ e[m - 1] = b
  BY <1>1, <1>2
<1>5. Runs(h, m - 1, f[1], b)
  BY <1>2, <1>3, <1>4 DEF Runs
<1>6. f[1] \in Int /\ IF g[1] = NoLabel THEN f[1] = a
                      ELSE f[1] = g[1] /\ (a = NoLabel \/ g[1] = Succ(a))
  BY <1>1
<1> QED
  BY <1>5, <1>6

LEMMA LeastNat ==
  ASSUME NEW T, T \subseteq Nat, T # {}
  PROVE  \E x \in T : \A y \in T : x <= y
<1>1. PICK x \in T : \A y \in T : ~(<<y, x>> \in OpToRel(<, Nat))
  BY WFMin, NatLessThanWellFounded
<1>2. \A y \in T : ~(y < x)
  BY <1>1 DEF OpToRel
<1> QED
  BY <1>2

LEMMA ItemMarks ==
  ASSUME NEW items \in Seq(Items), NEW i \in 1 .. Len(items)
  PROVE  /\ items[i] \in Items /\ Marks(items)[i] = items[i].label
         /\ items[i].what = "report" <=> items[i].label # NoLabel
<1>1. \A S : items \in Seq(S) => items[i] \in S
  OBVIOUS
<1>2. items[i] \in Items
  BY <1>1
<1> QED
  BY <1>2 DEF Items, Control, Marks, NoLabel

\* What a run leads to is what the peer takes for its last report.
LEMMA SeenNext ==
  ASSUME NEW n, NEW items, NEW i \in Nat \ {0}
  PROVE  Seen(n, items, i) = IF items[i].what = "report" THEN items[i].label
                             ELSE Seen(n, items, i - 1)
<1> DEFINE R(x) == {j \in 1 .. x : items[j].what = "report"}
           L(S) == IF S = {} THEN n.report
                   ELSE items[CHOOSE j \in S : \A m \in S : m <= j].label
<1>1. CASE items[i].what = "report"
  <2>1. i \in R(i) /\ \A j \in R(i) : j <= i
    BY <1>1
  <2>2. \A j \in R(i) : (\A m \in R(i) : m <= j) => j = i
    BY <2>1
  <2> DEFINE x == CHOOSE j \in R(i) : \A m \in R(i) : m <= j
  <2>3. x = i
    BY <2>1, <2>2
  <2>4. Seen(n, items, i) = items[x].label
    BY <2>1 DEF Seen
  <2> QED
    BY <1>1, <2>3, <2>4
<1>2. CASE items[i].what # "report"
  <2>1. R(i) = R(i - 1)
    <3>1. \A j \in Int : j \in 1 .. i /\ j # i <=> j \in 1 .. i - 1
      OBVIOUS
    <3> QED
      BY <1>2, <3>1
  <2>2. Seen(n, items, i) = L(R(i)) /\ Seen(n, items, i - 1) = L(R(i - 1))
    BY DEF Seen
  <2> HIDE DEF L, R
  <2> QED
    BY <1>2, <2>1, <2>2
<1> QED
  BY <1>1, <1>2

LEMMA RunsSeen ==
  ASSUME NEW n, NEW items \in Seq(Items), NEW a \in Int,
         Runs(Marks(items), Len(items), n.report, a)
  PROVE  /\ Seen(n, items, Len(items)) = a
         /\ \A i \in 1 .. Len(items) :
              items[i].what = "report" =>
                \/ Seen(n, items, i - 1) = NoLabel
                \/ items[i].label = Succ(Seen(n, items, i - 1))
<1> DEFINE m == Len(items)
<1>1. PICK f \in [0 .. m -> Int] :
        /\ f[0] = n.report /\ f[m] = a
        /\ \A i \in 1 .. m :
             IF Marks(items)[i] = NoLabel THEN f[i] = f[i - 1]
             ELSE /\ f[i] = Marks(items)[i]
                  /\ f[i - 1] = NoLabel \/ Marks(items)[i] = Succ(f[i - 1])
  BY DEF Runs
<1>2. m \in Nat
  OBVIOUS
<1>3. ASSUME NEW i \in 1 .. m
      PROVE  IF items[i].what = "report"
             THEN f[i] = items[i].label /\ (f[i - 1] = NoLabel \/ items[i].label = Succ(f[i - 1]))
             ELSE f[i] = f[i - 1]
  <2>1. Marks(items)[i] = items[i].label /\ (items[i].what = "report" <=> items[i].label # NoLabel)
    BY ItemMarks
  <2> QED
    BY <1>1, <2>1
<1> HIDE DEF m
<1>4. \A i \in 0 .. m : f[i] = Seen(n, items, i)
  <2> DEFINE T == {i \in 0 .. m : f[i] # Seen(n, items, i)}
  <2> SUFFICES ASSUME T # {} PROVE FALSE
    OBVIOUS
  <2>1. T \subseteq Nat
    BY <1>2
  <2>2. PICK i \in T : \A j \in T : i <= j
    BY <2>1, LeastNat
  <2>3. i \in 0 .. m /\ f[i] # Seen(n, items, i)
    BY <2>2
  <2>4. Seen(n, items, 0) = n.report
    BY DEF Seen
  <2>5. i \in 1 .. m /\ i \in Nat \ {0}
    BY <1>1, <1>2, <2>3, <2>4
  <2>6. i - 1 \in 0 .. m /\ ~(i <= i - 1)
    BY <1>2, <2>5
  <2>7. f[i - 1] = Seen(n, items, i - 1)
    BY <2>2, <2>6
  <2>8. Seen(n, items, i) = IF items[i].what = "report" THEN items[i].label
                            ELSE Seen(n, items, i - 1)
    BY <2>5, SeenNext
  <2> QED
    BY <1>3, <2>3, <2>5, <2>7, <2>8
<1>5. ASSUME NEW i \in 1 .. m, items[i].what = "report"
      PROVE  \/ Seen(n, items, i - 1) = NoLabel
             \/ items[i].label = Succ(Seen(n, items, i - 1))
  <2>1. i - 1 \in 0 .. m
    BY <1>2
  <2> QED
    BY <1>3, <1>4, <1>5, <2>1
<1>6. m \in 0 .. m
  BY <1>2
<1> QED
  BY <1>1, <1>4, <1>5, <1>6 DEF m

\* A peer that has got all in its turn, up to report a.
GotTo(m, n, a) ==
  /\ m \in NetState /\ m.hello = TRUE /\ m.report = a /\ m.wrong = FALSE
  /\ m.stream = n.stream /\ m.closes = n.closes

\* What is delivered in its turn leaves nothing wrong.
LEMMA DeliveredRight ==
  ASSUME NEW n \in NetState, NEW items \in Seq(Items), NEW a \in Int, ~n.wrong,
         Runs(Marks(items), Len(items), n.report, a),
         ~n.hello => items # <<>> /\ items[1].what = "hello",
         NEW m, m = Delivered(n, items)
  PROVE  GotTo(m, n, a)
<1> DEFINE hello == n.hello \/ (items # <<>> /\ items[1].what = "hello")
           gap(i) == /\ items[i].what = "report" /\ Seen(n, items, i - 1) # NoLabel
                     /\ items[i].label # Succ(Seen(n, items, i - 1))
           w == n.wrong \/ ~hello \/ \E i \in DOMAIN items : gap(i)
           r == Seen(n, items, Len(items))
<1>1. DOMAIN items = 1 .. Len(items)
  OBVIOUS
<1>2. hello = TRUE
  <2>1. n.hello \in BOOLEAN
    BY DEF NetState
  <2>2. hello \in BOOLEAN
    BY <2>1
  <2> QED
    BY <2>1, <2>2
<1>3. r = a /\ ~ \E i \in DOMAIN items : gap(i)
  BY <1>1, RunsSeen
<1>4. w = FALSE
  BY <1>2, <1>3
<1>5. m = [n EXCEPT !.hello = hello, !.report = r, !.wrong = w]
  BY DEF Delivered
<1> HIDE DEF hello, w, r
<1>6. m = [n EXCEPT !.hello = TRUE, !.report = a, !.wrong = FALSE]
  BY <1>2, <1>3, <1>4, <1>5
<1> QED
  BY <1>6 DEF NetState, GotTo

-----------------------------------------------------------------------------
(***************************************************************************)
(* What the handlers do to what is sent and to what is known of a close.   *)
(***************************************************************************)
Kept(j, k) == j.sending = k.sending /\ j.write = k.write
Unread(j, k) == /\ j.state = k.state /\ j.header = k.header
                /\ j.sent_close = k.sent_close /\ j.touched = k.touched

\* An item is put behind what waits, which goes out if nothing is being sent.
Queued(j, k, item) ==
  IF k.sending = <<>> THEN j.sending = Append(k.write, item) /\ j.write = <<>>
  ELSE j.sending = k.sending /\ j.write = Append(k.write, item)

Ended(j, k) ==
  /\ j.life = "deleted" /\ j.sending = <<>> /\ j.write = <<>>
  /\ j.touched = k.touched /\ ~j.sent_close /\ j.state = "MiniHeader"

LEMMA SendFrameQueues ==
  ASSUME NEW s, NEW c, NEW item, Going(s, c), NEW j, j = SendFrame(s, item).k
  PROVE  Queued(j, s.k, item) /\ Unread(j, s.k) /\ j.life = "live"
<1> DEFINE t == [s EXCEPT !.k.write = Append(@, item)]
<1>1. DOMAIN s.k = Fields /\ Shape(s) /\ s.k.life = "live"
  BY GoingFields DEF Going
<1>2. /\ Shape(t) /\ DOMAIN t.k = Fields /\ t.k.life = s.k.life
      /\ t.k.sending = s.k.sending /\ t.k.write = Append(s.k.write, item) /\ Unread(t.k, s.k)
  BY <1>1 DEF Shape, Fields, Unread
<1> HIDE DEF t
<1>3. j = DoWrite(t).k
  BY DEF SendFrame, t
<1>4. CASE t.k.sending = <<>>
  <2> DEFINE u == [t EXCEPT !.k.sending = t.k.write, !.k.write = <<>>]
  <2>1. /\ u.k.life = t.k.life /\ u.k.sending = t.k.write /\ u.k.write = <<>>
        /\ Unread(u.k, t.k)
    BY <1>2 DEF Shape, Fields, Unread
  <2>2. j = u.k
    BY <1>3, <1>4 DEF DoWrite
  <2> HIDE DEF u
  <2> QED
    BY <1>1, <1>2, <1>4, <2>1, <2>2 DEF Queued, Unread
<1>5. CASE t.k.sending # <<>>
  <2>1. j = t.k
    BY <1>3, <1>5 DEF DoWrite
  <2> QED
    BY <1>1, <1>2, <1>5, <2>1 DEF Queued
<1> QED
  BY <1>4, <1>5

LEMMA DoReadKeeps ==
  ASSUME NEW s, NEW c, Going(s, c), NEW j, j = DoRead(s).k
  PROVE  Kept(j, s.k) /\ Unread(j, s.k) /\ j.life = "live"
BY GoingFields DEF DoRead, Going, Shape, Fields, Kept, Unread

LEMMA CheckDestroyKeeps ==
  ASSUME NEW s, NEW c, Going(s, c), NEW j, j = CheckDestroy(s, c).k
  PROVE  \/ Kept(j, s.k) /\ Unread(j, s.k) /\ j.life = "live"
         \/ Ended(j, s.k)
<1> DEFINE t == IF s.k.called THEN s ELSE OnClose(s, c)
           d == [NewConnection EXCEPT !.life = "deleted", !.touched = t.k.touched,
                                      !.pending = t.k.pending, !.sending = t.k.sending]
<1>1. Going(t, c) /\ t.k = s.k
  BY OnCloseGoing
<1> HIDE DEF t
<1>2. CASE t.k.sending = <<>> /\ ~t.k.is_reading
  <2>1. /\ d.life = "deleted" /\ d.sending = t.k.sending /\ d.write = <<>>
        /\ d.touched = t.k.touched /\ d.sent_close = FALSE /\ d.state = "MiniHeader"
    BY DEF NewConnection
  <2>2. Deleted(t).k = d
    BY <1>1, GoingFields DEF Deleted, Shape
  <2>3. j = d
    BY <1>2, <2>2 DEF CheckDestroy, t
  <2> HIDE DEF d
  <2> QED
    BY <1>1, <1>2, <2>1, <2>3 DEF Ended
<1>3. CASE ~(t.k.sending = <<>> /\ ~t.k.is_reading)
  <2>1. j = t.k
    BY <1>3 DEF CheckDestroy, t
  <2> QED
    BY <1>1, <2>1 DEF Kept, Unread, Going
<1> QED
  BY <1>2, <1>3

LEMMA ReadFailedKeeps ==
  ASSUME NEW s, NEW c, Going(s, c), NEW j, j = ReadFailed(s, c).k
  PROVE  \/ Kept(j, s.k) /\ Unread(j, s.k) /\ j.life = "live"
         \/ Ended(j, s.k)
<1> DEFINE t == [s EXCEPT !.k.is_reading = FALSE, !.k.pending = FALSE, !.k.close = TRUE,
                          !.k.open = FALSE]
<1>1. DOMAIN s.k = Fields /\ Shape(s)
  BY GoingFields
<1>2. /\ Shape(t) /\ t.users = s.users /\ t.lock = s.lock /\ t.todo = s.todo
      /\ DOMAIN t.k = Fields /\ t.k.life = s.k.life /\ t.k.is_reading = FALSE
      /\ t.k.pending = FALSE /\ t.k.called = s.k.called
      /\ Kept(t.k, s.k) /\ Unread(t.k, s.k)
  BY <1>1 DEF Shape, Fields, Kept, Unread
<1>3. j = IF s.k.state = "MiniHeader" THEN CheckDestroy(t, c).k ELSE t.k
  BY DEF ReadFailed
<1> HIDE DEF t
<1>4. Going(t, c)
  BY <1>2, FieldsOfConnection DEF Going, Sound, Safe, Kept
<1>5. ASSUME j = CheckDestroy(t, c).k
      PROVE  \/ Kept(j, s.k) /\ Unread(j, s.k) /\ j.life = "live"
             \/ Ended(j, s.k)
  <2>1. (Kept(j, t.k) /\ Unread(j, t.k) /\ j.life = "live") \/ Ended(j, t.k)
    BY <1>4, <1>5, CheckDestroyKeeps
  <2> QED
    BY <1>2, <2>1 DEF Kept, Unread, Ended
<1>6. ASSUME j = t.k
      PROVE  Kept(j, s.k) /\ Unread(j, s.k) /\ j.life = "live"
  BY <1>2, <1>4, <1>6 DEF Going
<1> QED
  BY <1>3, <1>5, <1>6

LEMMA MiniHeaderKeeps ==
  ASSUME NEW s, NEW c, NEW frame, Going(s, c), NEW j, j = MiniHeader(s, frame, c).k
  PROVE  \/ Kept(j, s.k) /\ Unread(j, s.k) /\ j.life = "live"
         \/ Ended(j, s.k)
         \/ /\ Kept(j, s.k) /\ j.life = "live" /\ j.state = "Mask" /\ j.header = frame
            /\ j.sent_close = s.k.sent_close /\ j.touched = s.k.touched
<1> DEFINE t == [s EXCEPT !.k.header = frame, !.k.state = "Mask"]
<1>1. CASE frame.arrives = "unmasked"
  BY <1>1, ReadFailedKeeps DEF MiniHeader
<1>2. CASE frame.arrives # "unmasked"
  <2>1. /\ Alike(t, s) /\ t.k.write = s.k.write /\ t.k.state = "Mask" /\ t.k.header = frame
        /\ t.k.sent_close = s.k.sent_close /\ t.k.touched = s.k.touched
    BY GoingFields DEF Alike, Shape, Fields
  <2>2. j = DoRead(t).k
    BY <1>2 DEF MiniHeader
  <2> HIDE DEF t
  <2>3. Kept(j, t.k) /\ Unread(j, t.k) /\ j.life = "live"
    BY <2>1, <2>2, OtherFields, DoReadKeeps
  <2> QED
    BY <2>1, <2>3 DEF Kept, Unread, Alike
<1> QED
  BY <1>1, <1>2

LEMMA MaskKeeps ==
  ASSUME NEW s, NEW c, Going(s, c), NEW j, j = Mask(s).k
  PROVE  /\ Kept(j, s.k) /\ j.life = "live" /\ j.state = "Payload" /\ j.header = s.k.header
         /\ j.sent_close = s.k.sent_close /\ j.touched = s.k.touched
<1> DEFINE t == [s EXCEPT !.k.state = "Payload"]
<1>1. /\ Alike(t, s) /\ t.k.write = s.k.write /\ t.k.state = "Payload" /\ t.k.header = s.k.header
      /\ t.k.sent_close = s.k.sent_close /\ t.k.touched = s.k.touched
  BY GoingFields DEF Alike, Shape, Fields
<1>2. j = DoRead(t).k
  BY DEF Mask
<1> HIDE DEF t
<1>3. Kept(j, t.k) /\ Unread(j, t.k) /\ j.life = "live"
  BY <1>1, <1>2, OtherFields, DoReadKeeps
<1> QED
  BY <1>1, <1>3 DEF Kept, Unread, Alike

LEMMA FragmentDoneKeeps ==
  ASSUME NEW s, NEW c, Going(s, c), NEW j, j = FragmentDone(s).k
  PROVE  /\ Kept(j, s.k) /\ j.life = "live" /\ j.state = "MiniHeader" /\ j.header = s.k.header
         /\ j.sent_close = s.k.sent_close /\ j.touched = s.k.touched
<1> DEFINE t == [s EXCEPT !.k.fragment = <<>>, !.k.state = "MiniHeader"]
<1>1. /\ Alike(t, s) /\ t.k.write = s.k.write /\ t.k.state = "MiniHeader"
      /\ t.k.header = s.k.header
      /\ t.k.sent_close = s.k.sent_close /\ t.k.touched = s.k.touched
  BY GoingFields DEF Alike, Shape, Fields
<1>2. j = DoRead(t).k
  BY DEF FragmentDone, Going
<1> HIDE DEF t
<1>3. Kept(j, t.k) /\ Unread(j, t.k) /\ j.life = "live"
  BY <1>1, <1>2, OtherFields, DoReadKeeps
<1> QED
  BY <1>1, <1>3 DEF Kept, Unread, Alike

\* A close is sent.
Closed(j, k) ==
  /\ Queued(j, k, Item("close")) /\ j.life = "live" /\ j.sent_close = TRUE
  /\ j.state = k.state /\ j.header = k.header /\ j.touched = k.touched

LEMMA CloseKeeps ==
  ASSUME NEW s, NEW c, Going(s, c), NEW j, j = Close(s, c).k
  PROVE  Closed(j, s.k)
<1> DEFINE t == [s EXCEPT !.k.sent_close = TRUE]
           t1 == [t EXCEPT !.k.called = TRUE]
           u == IF t.k.recv_close /\ ~t.k.called THEN OnClose(t1, c) ELSE t
           New(k) == /\ Kept(k, s.k) /\ k.sent_close = TRUE /\ k.state = s.k.state
                     /\ k.header = s.k.header /\ k.touched = s.k.touched
<1>1. Alike(t, s) /\ New(t.k)
  BY GoingFields DEF Alike, Shape, Fields, Kept
<1> HIDE DEF t
<1>2. Going(t, c)
  BY <1>1, OtherFields
<1>3. New(t1.k) /\ OnClose(t1, c).k = t1.k
  BY <1>1, <1>2, GoingFields DEF Shape, Fields, Kept, OnClose
<1>4. Going(OnClose(t1, c), c)
  <2>1. Going(OnClose(t, c), c) /\ c \notin OnClose(t, c).users
    BY <1>2, OnCloseGoing
  <2>2. Going([OnClose(t, c) EXCEPT !.k.called = TRUE], c)
    BY <2>1, CalledGoing
  <2>3. OnClose(t1, c) = [OnClose(t, c) EXCEPT !.k.called = TRUE]
    BY <1>2, GoingFields DEF OnClose, Shape
  <2> QED
    BY <2>2, <2>3
<1> HIDE DEF t1
<1>5. Going(u, c) /\ New(u.k)
  BY <1>1, <1>2, <1>3, <1>4
<1>6. j = SendFrame(u, Item("close")).k
  BY DEF Close, t, t1
<1> HIDE DEF u
<1>7. Queued(j, u.k, Item("close")) /\ Unread(j, u.k) /\ j.life = "live"
  BY <1>5, <1>6, SendFrameQueues
<1> QED
  BY <1>5, <1>7 DEF Queued, Unread, Kept, Closed

LEMMA CheckDestroyTodo ==
  ASSUME NEW s, NEW c, Going(s, c)
  PROVE  CheckDestroy(s, c).todo = <<>>
<1> DEFINE t == IF s.k.called THEN s ELSE OnClose(s, c)
<1>1. Going(t, c)
  BY OnCloseGoing
<1> HIDE DEF t
<1>2. Deleted(t).todo = t.todo
  BY <1>1, GoingFields DEF Deleted, Shape
<1> QED
  BY <1>1, <1>2 DEF CheckDestroy, Going, t

LEMMA CloseFrameKeeps ==
  ASSUME NEW s, NEW c, Going(s, c), NEW j, j = CloseFrame(s, c).k
  PROVE  /\ CloseFrame(s, c).todo = <<>>
         /\ \/ /\ Queued(j, s.k, Item("close")) /\ j.life = "live"
               /\ j.state = s.k.state /\ j.header = s.k.header /\ j.touched = s.k.touched
            \/ Kept(j, s.k) /\ Unread(j, s.k) /\ j.life = "live"
            \/ Ended(j, s.k) /\ s.k.sent_close
<1> DEFINE t == [s EXCEPT !.k.recv_close = TRUE]
           u == [t EXCEPT !.k.open = FALSE, !.k.close = TRUE]
           v == IF u.k.called THEN u ELSE OnClose(u, c)
           w == [v EXCEPT !.k.called = TRUE]
<1>1. Alike(t, s) /\ Kept(t.k, s.k) /\ Unread(t.k, s.k)
  BY GoingFields DEF Alike, Shape, Fields, Kept, Unread
<1> HIDE DEF t
<1>2. Going(t, c)
  BY <1>1, OtherFields
<1>3. Alike(u, t) /\ Kept(u.k, t.k) /\ Unread(u.k, t.k)
  BY <1>2, GoingFields DEF Alike, Shape, Fields, Kept, Unread
<1> HIDE DEF u
<1>4. Going(u, c)
  BY <1>2, <1>3, OtherFields
<1>5. Going(v, c) /\ c \notin v.users /\ v.k = u.k
  BY <1>4, OnCloseGoing DEF Going, Sound, Safe
<1> HIDE DEF v
<1>6. Going(w, c) /\ Kept(w.k, v.k) /\ Unread(w.k, v.k)
  <2>1. Going(w, c)
    BY <1>5, CalledGoing
  <2> QED
    BY <1>5, <2>1, GoingFields DEF Shape, Fields, Kept, Unread
<1> HIDE DEF w
<1>7. CloseFrame(s, c) = IF ~t.k.sent_close THEN Close(t, c) ELSE CheckDestroy(w, c)
  BY DEF CloseFrame, t, u, v, w
<1>8. ASSUME ~t.k.sent_close
      PROVE  /\ CloseFrame(s, c).todo = <<>>
             /\ Queued(j, s.k, Item("close")) /\ j.life = "live"
             /\ j.state = s.k.state /\ j.header = s.k.header /\ j.touched = s.k.touched
  <2>1. j = Close(t, c).k
    BY <1>7, <1>8
  <2>2. /\ Queued(j, t.k, Item("close")) /\ j.life = "live"
        /\ j.state = t.k.state /\ j.header = t.k.header /\ j.touched = t.k.touched
    <3>1. Closed(j, t.k)
      BY <1>2, <2>1, CloseKeeps
    <3> QED
      BY <3>1 DEF Closed
  <2>3. Going(Close(t, c), c)
    BY <1>2, CloseGoing
  <2> QED
    BY <1>1, <1>7, <1>8, <2>2, <2>3 DEF Queued, Kept, Unread, Going
<1>9. ASSUME t.k.sent_close
      PROVE  /\ CloseFrame(s, c).todo = <<>>
             /\ \/ Kept(j, s.k) /\ Unread(j, s.k) /\ j.life = "live"
                \/ Ended(j, s.k) /\ s.k.sent_close
  <2>1. j = CheckDestroy(w, c).k
    BY <1>7, <1>9
  <2>2. (Kept(j, w.k) /\ Unread(j, w.k) /\ j.life = "live") \/ Ended(j, w.k)
    BY <1>6, <2>1, CheckDestroyKeeps
  <2>3. CheckDestroy(w, c).todo = <<>>
    BY <1>6, CheckDestroyTodo
  <2> QED
    BY <1>1, <1>3, <1>5, <1>6, <1>7, <1>9, <2>2, <2>3 DEF Kept, Unread, Ended
<1> QED
  BY <1>8, <1>9

LEMMA DataFrameKeeps ==
  ASSUME NEW s, NEW c, NEW op, NEW fin, Going(s, c), NEW j, j = DataFrame(s, op, fin).k
  PROVE  Kept(j, s.k) /\ Unread(j, s.k)
<1> DEFINE with(m, calls) == [s EXCEPT !.k.message = m, !.todo = calls]
           sole(m) == [s EXCEPT !.k.message = m]
<1>1. ASSUME NEW m, NEW calls
      PROVE  /\ Kept(with(m, calls).k, s.k) /\ Unread(with(m, calls).k, s.k)
             /\ Kept(sole(m).k, s.k) /\ Unread(sole(m).k, s.k)
  BY GoingFields DEF Shape, Fields, Kept, Unread
<1>2. (\E m, calls : DataFrame(s, op, fin) = with(m, calls)) \/ (\E m : DataFrame(s, op, fin) = sole(m))
  <2> DEFINE grown == s.k.message \o s.k.fragment
  <2>1. CASE op = "continuation" /\ fin
    <3>1. DataFrame(s, op, fin) = with(<<>>, <<grown, s.k.fragment>>)
      BY <2>1 DEF DataFrame
    <3> QED
      BY <3>1
  <2>2. CASE op = "continuation" /\ ~fin
    <3>1. DataFrame(s, op, fin) = sole(grown \o s.k.fragment)
      BY <2>2 DEF DataFrame
    <3> QED
      BY <3>1
  <2>3. CASE op # "continuation"
    <3>1. DataFrame(s, op, fin) = with(IF fin THEN <<>> ELSE grown, IF fin THEN <<grown>> ELSE <<>>)
      BY <2>3 DEF DataFrame
    <3> QED
      BY <3>1
  <2> QED
    BY <2>1, <2>2, <2>3
<1> HIDE DEF with, sole
<1> QED
  BY <1>1, <1>2

\* At most a control frame of ours goes out.
Passes(j, k) == Kept(j, k) \/ \E item \in Control : Queued(j, k, item)

Answers(j, k) ==
  /\ j.life = "live" /\ Passes(j, k)
  /\ j.state = k.state /\ j.header = k.header /\ j.touched = k.touched

Handled(u, k) ==
  \/ /\ k.header.op = "close" /\ u.todo = <<>>
     /\ (Ended(u.k, k) /\ k.sent_close) \/ Answers(u.k, k)
  \/ /\ k.header.op # "close" /\ u.k.life = "live"
     /\ Passes(u.k, k) /\ Unread(u.k, k)

LEMMA ControlItems == Item("hello") \in Control /\ Item("close") \in Control /\ Item("pong") \in Control
BY DEF Item, Control

LEMMA HandleFragmentKeeps ==
  ASSUME NEW s, NEW c, Going(s, c), NEW u, u = HandleFragment(s, c)
  PROVE  Handled(u, s.k)
<1> DEFINE op == s.k.header.op
<1>1. CASE op = "close"
  <2>1. u = CloseFrame(s, c)
    BY <1>1 DEF HandleFragment
  <2>2. /\ u.todo = <<>>
        /\ \/ /\ Queued(u.k, s.k, Item("close")) /\ u.k.life = "live"
              /\ u.k.state = s.k.state /\ u.k.header = s.k.header /\ u.k.touched = s.k.touched
           \/ Kept(u.k, s.k) /\ Unread(u.k, s.k) /\ u.k.life = "live"
           \/ Ended(u.k, s.k) /\ s.k.sent_close
    BY <2>1, CloseFrameKeeps
  <2>3. \/ Ended(u.k, s.k) /\ s.k.sent_close
        \/ Answers(u.k, s.k)
    BY <2>2, ControlItems DEF Answers, Passes, Unread
  <2> QED
    BY <1>1, <2>2, <2>3 DEF Handled
<1>2. CASE op \in {"continuation", "text", "binary"}
  <2>1. u = DataFrame(s, op, s.k.header.fin) /\ op # "close"
    BY <1>2 DEF HandleFragment
  <2>2. Kept(u.k, s.k) /\ Unread(u.k, s.k)
    BY <2>1, DataFrameKeeps
  <2>3. u.k.life = "live"
    BY <2>1, DataFrameSound
  <2> QED
    BY <2>1, <2>2, <2>3 DEF Handled, Passes
<1>3. CASE op = "ping"
  <2>1. u = SendFrame(s, Item("pong")) /\ op # "close"
    BY <1>3 DEF HandleFragment
  <2>2. Queued(u.k, s.k, Item("pong")) /\ Unread(u.k, s.k) /\ u.k.life = "live"
    BY <2>1, SendFrameQueues
  <2> QED
    BY <2>1, <2>2, ControlItems DEF Handled, Passes
<1>4. CASE op \notin {"continuation", "text", "binary", "close", "ping"}
  <2>1. u = s /\ op # "close"
    BY <1>4 DEF HandleFragment
  <2> QED
    BY <2>1 DEF Handled, Passes, Kept, Unread, Going
<1> QED
  BY <1>1, <1>2, <1>3, <1>4

\* A payload has come: the frame is done, or its message is being handled, or the rest of
\* it is not read; only a second close deletes the connection.
Came(j, k) ==
  \/ /\ j.life = "deleted" /\ j.sending = <<>> /\ j.write = <<>>
     /\ ~j.sent_close /\ j.state = "MiniHeader" /\ k.header.op = "close" /\ k.sent_close
  \/ /\ j.life = "live" /\ Passes(j, k) /\ j.header = k.header /\ j.touched = k.touched
     /\ \/ j.state = k.state /\ j.sent_close = k.sent_close
        \/ j.state = "MiniHeader" /\ (j.sent_close = k.sent_close \/ k.header.op = "close")

LEMMA PayloadKeeps ==
  ASSUME NEW s, NEW c, Going(s, c), NEW j, j = Payload(s, c).k
  PROVE  Came(j, s.k)
<1> DEFINE t == [s EXCEPT !.k.is_reading = FALSE, !.k.pending = FALSE,
                          !.k.fragment = @ \o s.k.header.body]
           u == HandleFragment(t, c)
<1>1. DOMAIN s.k = Fields /\ Shape(s) /\ s.k.life = "live"
  BY GoingFields DEF Going
<1>2. /\ Shape(t) /\ t.users = s.users /\ t.lock = s.lock /\ t.todo = s.todo
      /\ DOMAIN t.k = Fields /\ t.k.life = s.k.life /\ t.k.is_reading = FALSE
      /\ t.k.pending = FALSE /\ t.k.called = s.k.called
      /\ Kept(t.k, s.k) /\ Unread(t.k, s.k)
  BY <1>1 DEF Shape, Fields, Kept, Unread
<1>3. Payload(s, c) = IF s.k.header.arrives = "in_pieces" THEN t
                      ELSE IF u.todo # <<>> THEN u ELSE FragmentDone(u)
  BY DEF Payload
<1> HIDE DEF t
<1>4. Going(t, c)
  BY <1>2, FieldsOfConnection DEF Going, Sound, Safe, Kept
<1>5. Sound(u, c) /\ Handled(u, t.k)
  BY <1>4, HandleFragmentSound, HandleFragmentKeeps
<1> HIDE DEF u
<1>6. \A i : Came(i, t.k) => Came(i, s.k)
  BY <1>2 DEF Came, Passes, Kept, Queued, Unread
<1>7. ASSUME j = t.k
      PROVE  Came(j, t.k)
  BY <1>4, <1>7 DEF Came, Passes, Kept, Going
<1>8. ASSUME u.todo # <<>>, j = u.k
      PROVE  Came(j, t.k)
  BY <1>5, <1>8 DEF Handled, Came, Unread
<1>9. ASSUME u.todo = <<>>, j = FragmentDone(u).k
      PROVE  Came(j, t.k)
  <2>1. CASE Ended(u.k, t.k) /\ t.k.sent_close /\ t.k.header.op = "close"
    <3> DEFINE e == [u EXCEPT !.k.touched = TRUE]
    <3>1. DOMAIN u.k = Fields /\ Shape(u)
      BY <1>5, FieldsOfConnection DEF Sound, Safe
    <3>2. /\ e.k.life = u.k.life /\ e.k.sending = u.k.sending /\ e.k.write = u.k.write
          /\ e.k.sent_close = u.k.sent_close /\ e.k.state = u.k.state
      BY <3>1 DEF Shape, Fields
    <3>3. j = e.k
      BY <1>9, <2>1 DEF FragmentDone, Ended
    <3> HIDE DEF e
    <3> QED
      BY <2>1, <3>2, <3>3 DEF Came, Ended
  <2>2. CASE u.k.life = "live"
    <3>1. Going(u, c)
      BY <1>5, <1>9, <2>2 DEF Going
    <3>2. /\ Kept(j, u.k) /\ j.life = "live" /\ j.state = "MiniHeader" /\ j.header = u.k.header
          /\ j.sent_close = u.k.sent_close /\ j.touched = u.k.touched
      BY <1>9, <3>1, FragmentDoneKeeps
    <3>3. \/ /\ t.k.header.op = "close" /\ Answers(u.k, t.k)
          \/ Passes(u.k, t.k) /\ Unread(u.k, t.k)
      BY <1>5, <2>2 DEF Handled, Ended
    <3>4. Passes(j, t.k)
      BY <3>2, <3>3 DEF Passes, Kept, Queued, Answers
    <3> QED
      BY <3>2, <3>3, <3>4 DEF Came, Answers, Unread
  <2> QED
    BY <1>5, <2>1, <2>2 DEF Handled, Answers
<1> QED
  BY <1>3, <1>6, <1>7, <1>8, <1>9

LEMMA WriteDoneKeeps ==
  ASSUME NEW s, NEW c, NEW error, Going(s, c), NEW j, j = WriteDone(s, error, c).k
  PROVE  \/ Ended(j, s.k)
         \/ /\ Unread(j, s.k) /\ j.life = "live"
            /\ \/ j.sending = <<>> /\ j.write = s.k.write
               \/ j.sending = s.k.write /\ j.write = <<>>
<1> DEFINE t == [s EXCEPT !.k.sending = <<>>]
           d == [t EXCEPT !.k.sending = t.k.write, !.k.write = <<>>]
           u == IF t.k.write # <<>> THEN DoWrite(t) ELSE t
           v == [u EXCEPT !.k.close = u.k.sent_close]
           w == [t EXCEPT !.k.close = TRUE]
<1>1. /\ Shape(t) /\ t.users = s.users /\ t.lock = s.lock /\ t.todo = s.todo
      /\ DOMAIN t.k = Fields /\ t.k.life = s.k.life /\ t.k.is_reading = s.k.is_reading
      /\ t.k.pending = s.k.pending /\ t.k.called = s.k.called
      /\ t.k.sending = <<>> /\ t.k.write = s.k.write /\ Unread(t.k, s.k)
  BY GoingFields DEF Shape, Fields, Unread
<1> HIDE DEF t
<1>2. Going(t, c)
  BY <1>1, FieldsOfConnection DEF Going, Sound, Safe
<1>3. /\ Shape(d) /\ DOMAIN d.k = Fields /\ d.k.life = t.k.life
      /\ d.k.sending = t.k.write /\ d.k.write = <<>> /\ Unread(d.k, t.k)
  BY <1>1 DEF Shape, Fields, Unread
<1>4. u = IF t.k.write # <<>> THEN d ELSE t
  BY <1>1 DEF DoWrite
<1>5. WriteDone(s, error, c) = IF ~error /\ ~t.k.close THEN v ELSE CheckDestroy(w, c)
  BY DEF WriteDone, t
<1> HIDE DEF d, u
<1>6. /\ Shape(u) /\ DOMAIN u.k = Fields /\ u.k.life = t.k.life
      /\ u.k.sending = t.k.write /\ u.k.write = <<>> /\ Unread(u.k, t.k)
  BY <1>1, <1>3, <1>4 DEF Unread
<1>7. /\ v.k.life = u.k.life /\ Kept(v.k, u.k) /\ Unread(v.k, u.k)
  BY <1>6 DEF Shape, Fields, Kept, Unread
<1>8. Alike(w, t) /\ Kept(w.k, t.k) /\ Unread(w.k, t.k)
  BY <1>1 DEF Alike, Shape, Fields, Kept, Unread
<1> HIDE DEF v, w
<1>9. ASSUME j = v.k
      PROVE  Unread(j, s.k) /\ j.life = "live" /\ j.sending = s.k.write /\ j.write = <<>>
  BY <1>1, <1>6, <1>7, <1>9 DEF Unread, Kept, Going
<1>10. ASSUME j = CheckDestroy(w, c).k
       PROVE  \/ Ended(j, s.k)
              \/ Unread(j, s.k) /\ j.life = "live" /\ j.sending = <<>> /\ j.write = s.k.write
  <2>1. Going(w, c)
    BY <1>2, <1>8, OtherFields
  <2>2. (Kept(j, w.k) /\ Unread(j, w.k) /\ j.life = "live") \/ Ended(j, w.k)
    BY <1>10, <2>1, CheckDestroyKeeps
  <2> QED
    BY <1>1, <1>8, <2>2 DEF Unread, Kept, Ended
<1> QED
  BY <1>5, <1>9, <1>10

LEMMA StartKeeps ==
  ASSUME NEW c \in Conns, ServerInv, ws[c].life = "none", ws[c].write = <<>>,
         NEW j, j = Start(On(c), c).k
  PROVE  /\ j.sending = <<Item("hello")>> /\ j.write = <<>> /\ j.life = "live"
         /\ Unread(j, ws[c])
<1> DEFINE k == ws[c]
           s == On(c)
           t == [s EXCEPT !.k.life = "live", !.k.open = TRUE, !.k.write = Append(@, Item("hello"))]
           d == [t EXCEPT !.k.sending = t.k.write, !.k.write = <<>>]
           e == OnOpen(d, c)
<1>1. /\ DOMAIN k = Fields /\ k.sending = <<>>
      /\ Shape(s) /\ s.k = k
  BY OnFields, FieldsOfConnection DEF ServerInv, Safe
<1> HIDE DEF s, k
<1>2. \A x : Append(<<>>, x) = <<x>>
  OBVIOUS
<1>3. /\ Shape(t) /\ DOMAIN t.k = Fields /\ t.k.life = "live" /\ t.k.sending = <<>>
      /\ t.k.write = Append(k.write, Item("hello")) /\ Unread(t.k, k)
  BY <1>1 DEF Shape, Fields, Unread
<1> HIDE DEF t
<1>4. t.k.write = <<Item("hello")>>
  BY <1>2, <1>3 DEF k
<1>5. /\ Shape(d) /\ DOMAIN d.k = Fields /\ d.k.life = "live"
      /\ d.k.sending = t.k.write /\ d.k.write = <<>> /\ Unread(d.k, t.k)
  BY <1>3 DEF Shape, Fields, Unread
<1>6. DoWrite(t) = d
  BY <1>3 DEF DoWrite
<1> HIDE DEF d
<1>7. Shape(e) /\ e.k = d.k
  BY <1>5 DEF OnOpen, Shape
<1> HIDE DEF e
<1>8. j = DoRead(e).k
  BY <1>6 DEF Start, s, t, e
<1>9. /\ DoRead(e).k.life = e.k.life /\ Kept(DoRead(e).k, e.k) /\ Unread(DoRead(e).k, e.k)
  BY <1>5, <1>7 DEF DoRead, Shape, Fields, Kept, Unread
<1> QED
  BY <1>3, <1>4, <1>5, <1>7, <1>8, <1>9 DEF Kept, Unread, k

-----------------------------------------------------------------------------
(***************************************************************************)
(* Closes.                                                                 *)
(***************************************************************************)
LEMMA ClosesKept ==
  ASSUME NEW n, NEW k, ClosesOnce(n, k), NEW m, NEW j,
         m.stream = n.stream, m.closes = n.closes, Unread(j, k) \/ Ended(j, k)
  PROVE  ClosesOnce(m, j)
<1>1. CASE Unread(j, k)
  BY <1>1 DEF ClosesOnce, CloseHeader, Unread
<1>2. CASE Ended(j, k)
  BY <1>2 DEF ClosesOnce, CloseHeader, Ended
<1> QED
  BY <1>1, <1>2

\* The header of a frame is read.
LEMMA ClosesHeader ==
  ASSUME NEW n \in NetState, NEW k, ClosesOnce(n, k), NEW m, NEW j, n.stream # <<>>,
         m.stream = Tail(n.stream), m.closes = n.closes,
         \/ Unread(j, k) \/ Ended(j, k)
         \/ j.header = Head(n.stream) /\ j.sent_close = k.sent_close /\ j.touched = k.touched
  PROVE  ClosesOnce(m, j)
<1>1. n.stream \in Seq(Frame)
  BY DEF NetState
<1>2. /\ Head(n.stream) = n.stream[1] /\ 1 \in 1 .. Len(n.stream)
      /\ \A i \in 1 .. Len(m.stream) : i + 1 \in 1 .. Len(n.stream) /\ m.stream[i] = n.stream[i + 1]
  BY <1>1, FirstAndRest
<1>3. ASSUME m.closes <= 1
      PROVE  /\ \A i, j1 \in 1 .. Len(m.stream) :
                  m.stream[i].op = "close" /\ m.stream[j1].op = "close" => i = j1
             /\ \A i \in 1 .. Len(m.stream) :
                  m.stream[i].op = "close" => n.closes = 1 /\ ~CloseHeader(k) /\ ~k.sent_close
  <2>1. /\ \A i, j1 \in 1 .. Len(n.stream) :
             n.stream[i].op = "close" /\ n.stream[j1].op = "close" => i = j1
        /\ \A i \in 1 .. Len(n.stream) :
             n.stream[i].op = "close" => n.closes = 1 /\ ~CloseHeader(k) /\ ~k.sent_close
    BY <1>3 DEF ClosesOnce
  <2>2. ASSUME NEW i \in 1 .. Len(m.stream), NEW j1 \in 1 .. Len(m.stream),
               m.stream[i].op = "close", m.stream[j1].op = "close"
        PROVE  i = j1
    <3>1. i + 1 = j1 + 1
      BY <1>2, <2>1, <2>2
    <3>2. i \in Int /\ j1 \in Int
      BY <2>2
    <3> QED
      BY <3>1, <3>2
  <2> QED
    BY <1>2, <2>1, <2>2
<1>4. CASE Unread(j, k) \/ Ended(j, k)
  BY <1>3, <1>4 DEF ClosesOnce, CloseHeader, Unread, Ended
<1>5. CASE j.header = Head(n.stream) /\ j.sent_close = k.sent_close /\ j.touched = k.touched
  <2>1. ASSUME m.closes <= 1
        PROVE  /\ \A i \in 1 .. Len(m.stream) : m.stream[i].op = "close" => n.stream[1].op # "close"
               /\ n.stream[1].op = "close" => n.closes = 1 /\ ~k.sent_close
               /\ k.sent_close => n.closes = 1
               /\ ~k.touched
    <3>1. /\ \A i, j1 \in 1 .. Len(n.stream) :
               n.stream[i].op = "close" /\ n.stream[j1].op = "close" => i = j1
          /\ n.stream[1].op = "close" => n.closes = 1 /\ ~k.sent_close
          /\ k.sent_close => n.closes = 1
          /\ ~k.touched
      BY <1>2, <2>1 DEF ClosesOnce
    <3>2. ASSUME NEW i \in 1 .. Len(m.stream), m.stream[i].op = "close"
          PROVE  n.stream[1].op # "close"
      <4>1. i + 1 # 1
        BY <3>2
      <4> QED
        BY <1>2, <3>1, <3>2, <4>1
    <3> QED
      BY <3>1, <3>2
  <2> QED
    BY <1>2, <1>3, <1>5, <2>1 DEF ClosesOnce, CloseHeader
<1> QED
  BY <1>4, <1>5

LEMMA ClosesCame ==
  ASSUME NEW n, NEW k, ClosesOnce(n, k), NEW m, NEW j,
         m.stream = n.stream, m.closes = n.closes, k.state # "MiniHeader", Came(j, k)
  PROVE  ClosesOnce(m, j)
<1>1. SUFFICES ASSUME m.closes <= 1 PROVE ClosesOnce(m, j)
  BY DEF ClosesOnce
<1>2. ~k.touched /\ (k.header.op = "close" => n.closes = 1 /\ ~k.sent_close) /\ (k.sent_close => n.closes = 1)
  BY <1>1 DEF ClosesOnce, CloseHeader
<1>3. /\ \A i, j1 \in 1 .. Len(m.stream) :
           m.stream[i].op = "close" /\ m.stream[j1].op = "close" => i = j1
      /\ \A i \in 1 .. Len(m.stream) :
           m.stream[i].op = "close" => m.closes = 1 /\ k.header.op # "close" /\ ~k.sent_close
  BY <1>1 DEF ClosesOnce, CloseHeader
<1>4. /\ j.touched = k.touched /\ j.header = k.header
      /\ \/ j.state = k.state /\ j.sent_close = k.sent_close
         \/ j.state = "MiniHeader" /\ (j.sent_close = k.sent_close \/ k.header.op = "close")
  BY <1>2 DEF Came
<1> QED
  BY <1>2, <1>3, <1>4 DEF ClosesOnce, CloseHeader

\* The frame is done, or the mask has been read: it is a close no more than before.
LEMMA ClosesOn ==
  ASSUME NEW n, NEW k, ClosesOnce(n, k), NEW m, NEW j,
         m.stream = n.stream, m.closes = n.closes,
         j.header = k.header, j.sent_close = k.sent_close, j.touched = k.touched,
         j.state = "MiniHeader" \/ k.state # "MiniHeader"
  PROVE  ClosesOnce(m, j)
BY DEF ClosesOnce, CloseHeader

\* A frame is sent.
LEMMA ClosesSent ==
  ASSUME NEW n \in NetState, NEW k, ClosesOnce(n, k), NEW m, NEW f \in Frame,
         m.stream = Append(n.stream, f),
         m.closes = IF f.op = "close" THEN n.closes + 1 ELSE n.closes
  PROVE  ClosesOnce(m, k)
<1> DEFINE l == Len(n.stream)
<1>1. n.stream \in Seq(Frame) /\ n.closes \in Nat
  BY DEF NetState
<1>2. /\ l \in Nat /\ Len(m.stream) = l + 1 /\ m.stream[l + 1] = f
      /\ \A i \in 1 .. l : m.stream[i] = n.stream[i]
  BY <1>1
<1> HIDE DEF l
<1>3. SUFFICES ASSUME m.closes <= 1 PROVE ClosesOnce(m, k)
  BY DEF ClosesOnce
<1>4. n.closes <= 1
  BY <1>1, <1>3
<1>5. /\ ~k.touched
      /\ \A i, j \in 1 .. l : n.stream[i].op = "close" /\ n.stream[j].op = "close" => i = j
      /\ \A i \in 1 .. l : n.stream[i].op = "close" => n.closes = 1 /\ ~CloseHeader(k) /\ ~k.sent_close
      /\ CloseHeader(k) => n.closes = 1 /\ ~k.sent_close
      /\ k.sent_close => n.closes = 1
  BY <1>4 DEF ClosesOnce, l
<1>6. f.op = "close" => n.closes = 0 /\ m.closes = 1
  BY <1>1, <1>3
<1>7. \A i \in 1 .. l + 1 : i \in 1 .. l \/ i = l + 1
  BY <1>2
<1>8. ASSUME NEW i \in 1 .. l + 1, m.stream[i].op = "close"
      PROVE  /\ m.closes = 1 /\ ~CloseHeader(k) /\ ~k.sent_close
             /\ f.op = "close" => i = l + 1
             /\ f.op # "close" => i \in 1 .. l /\ n.stream[i].op = "close"
  <2>1. CASE f.op = "close"
    <3>1. i = l + 1
      BY <1>2, <1>5, <1>6, <1>7, <1>8, <2>1
    <3> QED
      BY <1>5, <1>6, <2>1, <3>1
  <2>2. CASE f.op # "close"
    <3>1. i \in 1 .. l /\ n.stream[i].op = "close"
      BY <1>2, <1>7, <1>8, <2>2
    <3> QED
      BY <1>5, <2>2, <3>1
  <2> QED
    BY <2>1, <2>2
<1>9. ASSUME NEW i \in 1 .. l + 1, NEW j \in 1 .. l + 1,
             m.stream[i].op = "close", m.stream[j].op = "close"
      PROVE  i = j
  BY <1>5, <1>8, <1>9
<1>10. CloseHeader(k) \/ k.sent_close => m.closes = 1
  BY <1>5, <1>6
<1> QED
  BY <1>2, <1>5, <1>8, <1>9, <1>10 DEF ClosesOnce

-----------------------------------------------------------------------------
(***************************************************************************)
(* Reports in turn.                                                        *)
(***************************************************************************)
LEMMA Appended ==
  ASSUME NEW S, NEW s \in Seq(S), NEW x \in S
  PROVE  /\ Append(s, x) \in Seq(S) /\ Len(s) \in Nat /\ Len(Append(s, x)) = Len(s) + 1
         /\ Append(s, x)[Len(s) + 1] = x
         /\ \A i \in 1 .. Len(s) : Append(s, x)[i] = s[i]
OBVIOUS

\* An item more to be sent.
LEMMA MarksMore ==
  ASSUME NEW s \in Seq(Items), NEW item \in Items, NEW a \in Int, NEW b \in Int, NEW d \in Int,
         Runs(Marks(s), Len(s), a, b),
         \/ item.label = NoLabel /\ d = b
         \/ item.label # NoLabel /\ d = item.label /\ (b = NoLabel \/ d = Succ(b)),
         NEW t, t = Append(s, item)
  PROVE  Runs(Marks(t), Len(t), a, d)
<1> DEFINE l == Len(s)
<1>1. /\ l \in Nat /\ Len(t) = l + 1 /\ t[l + 1] = item
      /\ \A i \in 1 .. l : t[i] = s[i]
  BY Appended
<1> HIDE DEF l
<1>2. /\ Marks(t)[l + 1] = item.label
      /\ \A i \in 1 .. l : Marks(t)[i] = Marks(s)[i]
  BY <1>1 DEF Marks, l
<1>3. Runs(Marks(s), l, a, b)
  BY DEF l
<1>4. \/ Marks(t)[l + 1] = NoLabel /\ d = b
      \/ Marks(t)[l + 1] # NoLabel /\ d = Marks(t)[l + 1] /\ (b = NoLabel \/ d = Succ(b))
  BY <1>2
<1>5. Runs(Marks(t), l + 1, a, d)
  BY <1>1, <1>2, <1>3, <1>4, RunsMore
<1> QED
  BY <1>1, <1>5

LEMMA NothingOut ==
  ASSUME NEW a \in Int
  PROVE  /\ Runs(Marks(<<>>), Len(<<>>), a, a)
         /\ \A b \in Int : Runs(Marks(<<>>), Len(<<>>), a, b) => b = a
<1>1. Len(<<>>) = 0
  OBVIOUS
<1> QED
  BY <1>1, RunsEmpty

LEMMA QueuedOut ==
  ASSUME NEW k, NEW j, NEW item \in Items, NEW r \in Int, NEW b \in Int, NEW d \in Int,
         k.sending \in Seq(Items), k.write \in Seq(Items), Outgoing(k, r, b), Queued(j, k, item),
         \/ item.label = NoLabel /\ d = b
         \/ item.label # NoLabel /\ d = item.label /\ (b = NoLabel \/ d = Succ(b))
  PROVE  Outgoing(j, r, d)
<1>1. PICK a \in Int : /\ Runs(Marks(k.sending), Len(k.sending), r, a)
                       /\ Runs(Marks(k.write), Len(k.write), a, b)
  BY DEF Outgoing
<1> DEFINE w == k.write
           v == Append(w, item)
<1>2. Runs(Marks(v), Len(v), a, d)
  BY <1>1, MarksMore
<1> HIDE DEF v
<1>3. CASE k.sending = <<>>
  <2>1. a = r
    BY <1>1, <1>3, NothingOut
  <2>2. j.sending = v /\ j.write = <<>>
    BY <1>3 DEF Queued, v
  <2>3. Runs(Marks(<<>>), Len(<<>>), d, d)
    BY NothingOut
  <2> QED
    BY <1>2, <2>1, <2>2, <2>3 DEF Outgoing
<1>4. CASE k.sending # <<>>
  <2>1. j.sending = k.sending /\ j.write = v
    BY <1>4 DEF Queued, v
  <2> QED
    BY <1>1, <1>2, <2>1 DEF Outgoing
<1> QED
  BY <1>3, <1>4

LEMMA QueuedItems ==
  ASSUME NEW k, NEW j, NEW item \in Items, Queued(j, k, item),
         k.sending \in Seq(Items), k.write \in Seq(Items)
  PROVE  j.sending \in Seq(Items) /\ j.write \in Seq(Items)
<1>1. Append(k.write, item) \in Seq(Items) /\ <<>> \in Seq(Items)
  BY Appended
<1> QED
  BY <1>1 DEF Queued

\* The hello stays in front.
LEMMA QueuedHello ==
  ASSUME NEW k, NEW j, NEW item, Queued(j, k, item),
         k.sending # <<>> /\ k.sending[1].what = "hello"
  PROVE  j.sending # <<>> /\ j.sending[1].what = "hello"
BY DEF Queued

\* The connection goes on, sends a control frame or is deleted.
LEMMA TurnPasses ==
  ASSUME NEW n, NEW k, NEW us, NEW ps, NEW sm, NEW c, InTurn(n, k, us, ps, sm, c),
         n.report \in Int, k.life = "live", NEW m, NEW j, NEW vs,
         m.report = n.report, m.hello = n.hello, m.wrong = n.wrong, m.broken = n.broken,
         c \in vs => c \in us,
         \/ j.life = "live" /\ Passes(j, k)
         \/ j.life = "deleted" /\ j.sending = <<>> /\ j.write = <<>>
  PROVE  InTurn(m, j, vs, ps, sm, c)
<1>1. k.sending \in Seq(Items) /\ k.write \in Seq(Items)
  BY DEF InTurn
<1>2. CASE j.life = "deleted" /\ j.sending = <<>> /\ j.write = <<>>
  <2>1. <<>> \in Seq(Items)
    OBVIOUS
  <2> QED
    BY <1>2, <2>1 DEF InTurn
<1>3. CASE j.life = "live" /\ Kept(j, k)
  BY <1>3 DEF InTurn, Chain, Outgoing, Kept
<1>4. ASSUME j.life = "live", NEW item \in Control, Queued(j, k, item)
      PROVE  InTurn(m, j, vs, ps, sm, c)
  <2>1. item \in Items /\ item.label = NoLabel
    BY DEF Items, Control
  <2>2. j.sending \in Seq(Items) /\ j.write \in Seq(Items)
    BY <1>1, <1>4, <2>1, QueuedItems
  <2>3. ASSUME Chain(n, k, us, ps, sm, c)
        PROVE  Chain(m, j, vs, ps, sm, c)
    <3>1. PICK b \in Int, d \in Int :
            /\ Outgoing(k, n.report, b)
            /\ Runs(PostedTo(c, ps), Len(ps), b, d)
            /\ c \in us => d = NoLabel \/ Succ(d) = Due(sm, c)
      BY <2>3 DEF Chain
    <3>2. Outgoing(j, n.report, b)
      BY <1>1, <1>4, <2>1, <3>1, QueuedOut
    <3> QED
      BY <3>1, <3>2 DEF Chain
  <2>4. ASSUME ~m.broken
        PROVE  /\ ~m.hello => j.sending # <<>> /\ j.sending[1].what = "hello"
               /\ Chain(m, j, vs, ps, sm, c)
    <3>1. /\ ~n.hello => k.sending # <<>> /\ k.sending[1].what = "hello"
          /\ Chain(n, k, us, ps, sm, c)
      BY <2>4 DEF InTurn
    <3> QED
      BY <1>4, <2>3, <3>1, QueuedHello
  <2>5. ~m.wrong
    BY DEF InTurn
  <2> QED
    BY <1>4, <2>2, <2>4, <2>5 DEF InTurn
<1> QED
  BY <1>2, <1>3, <1>4 DEF Passes

\* A posted report reaches the connection it is for.
LEMMA TurnPosted ==
  ASSUME NEW n, NEW k, NEW us, NEW ps \in Seq(Sends), NEW sm, NEW c, InTurn(n, k, us, ps, sm, c),
         n.report \in Int, k.life = "live", ps # <<>>, ps[1].conn = c,
         NEW j, j.life = "live", Queued(j, k, Report(ps[1].label))
  PROVE  InTurn(n, j, us, Tail(ps), sm, c)
<1> DEFINE g == PostedTo(c, ps)
           l == Len(ps)
           h == PostedTo(c, Tail(ps))
           x == ps[1].label
           item == Report(x)
<1>1. /\ k.sending \in Seq(Items) /\ k.write \in Seq(Items)
      /\ ~n.wrong
  BY DEF InTurn
<1>2. ps[1] \in Sends /\ l \in Nat \ {0} /\ Len(Tail(ps)) = l - 1
  OBVIOUS
<1>3. x \in Nat /\ x # NoLabel
  BY <1>2 DEF Sends, NoLabel
<1>4. item \in Items /\ item.label = x
  BY <1>3 DEF Items, Report
<1>5. g[1] = x
  BY <1>2 DEF PostedTo
<1>6. \A i \in 1 .. l - 1 : h[i] = g[i + 1]
  <2>1. \A i \in 1 .. l - 1 : i \in 1 .. Len(Tail(ps)) /\ i + 1 \in 1 .. l /\ Tail(ps)[i] = ps[i + 1]
    BY <1>2
  <2> QED
    BY <2>1 DEF PostedTo
<1> HIDE DEF g, l, h, x, item
<1>7. j.sending \in Seq(Items) /\ j.write \in Seq(Items)
  BY <1>1, <1>4, QueuedItems DEF item, x
<1>8. ASSUME Chain(n, k, us, ps, sm, c)
      PROVE  Chain(n, j, us, Tail(ps), sm, c)
  <2>1. PICK b \in Int, d \in Int :
          /\ Outgoing(k, n.report, b)
          /\ Runs(g, l, b, d)
          /\ c \in us => d = NoLabel \/ Succ(d) = Due(sm, c)
    BY <1>8 DEF Chain, g, l
  <2>2. (b = NoLabel \/ x = Succ(b)) /\ Runs(h, l - 1, x, d)
    BY <1>2, <1>3, <1>5, <1>6, <2>1, RunsLess
  <2>3. Outgoing(j, n.report, x)
    BY <1>1, <1>3, <1>4, <2>1, <2>2, QueuedOut DEF item, x
  <2> QED
    BY <1>2, <1>3, <2>1, <2>2, <2>3 DEF Chain, h
<1>9. ASSUME ~n.broken
      PROVE  /\ ~n.hello => j.sending # <<>> /\ j.sending[1].what = "hello"
             /\ Chain(n, j, us, Tail(ps), sm, c)
  <2>1. /\ ~n.hello => k.sending # <<>> /\ k.sending[1].what = "hello"
        /\ Chain(n, k, us, ps, sm, c)
    BY <1>9 DEF InTurn
  <2> QED
    BY <1>8, <2>1, QueuedHello
<1> QED
  BY <1>1, <1>7, <1>9 DEF InTurn

\* It was posted to another connection, or to one that has been deleted.
LEMMA TurnPassed ==
  ASSUME NEW n, NEW k, NEW us, NEW ps \in Seq(Sends), NEW sm, NEW c, InTurn(n, k, us, ps, sm, c),
         ps # <<>>, ps[1].conn # c \/ k.life = "deleted"
  PROVE  InTurn(n, k, us, Tail(ps), sm, c)
<1> DEFINE g == PostedTo(c, ps)
           l == Len(ps)
           h == PostedTo(c, Tail(ps))
<1>1. l \in Nat \ {0} /\ Len(Tail(ps)) = l - 1
  OBVIOUS
<1>2. \A i \in 1 .. l - 1 : h[i] = g[i + 1]
  <2>1. \A i \in 1 .. l - 1 : i \in 1 .. Len(Tail(ps)) /\ i + 1 \in 1 .. l /\ Tail(ps)[i] = ps[i + 1]
    BY <1>1
  <2> QED
    BY <2>1 DEF PostedTo
<1>3. ps[1].conn # c => g[1] = NoLabel
  BY <1>1 DEF PostedTo
<1> HIDE DEF g, l, h
<1>4. ASSUME k.life = "live", Chain(n, k, us, ps, sm, c)
      PROVE  Chain(n, k, us, Tail(ps), sm, c)
  <2>1. PICK b \in Int, d \in Int :
          /\ Outgoing(k, n.report, b)
          /\ Runs(g, l, b, d)
          /\ c \in us => d = NoLabel \/ Succ(d) = Due(sm, c)
    BY <1>4 DEF Chain, g, l
  <2>2. Runs(h, l - 1, b, d)
    BY <1>1, <1>2, <1>3, <1>4, <2>1, RunsLess
  <2> QED
    BY <1>1, <2>1, <2>2 DEF Chain, h
<1> QED
  BY <1>4 DEF InTurn

\* The simulation thread posts a report to c.
LEMMA TurnSent ==
  ASSUME NEW n, NEW k, NEW us, NEW ps \in Seq(Sends), NEW sm, NEW d, InTurn(n, k, us, ps, sm, d),
         NEW c, NEW p \in Sends, p.conn = c, p.label = sm.label, NEW sn,
         sm.pc = "send", c \in sm.todo, c \in us, sn.pc = "send", sn.label = sm.label,
         sn.todo = sm.todo \ {c}
  PROVE  InTurn(n, k, us, Append(ps, p), sn, d)
<1> DEFINE g == PostedTo(d, ps)
           l == Len(ps)
           q == Append(ps, p)
           h == PostedTo(d, q)
<1>1. /\ l \in Nat /\ Len(q) = l + 1 /\ q[l + 1] = p
      /\ \A i \in 1 .. l : q[i] = ps[i]
  BY Appended
<1> HIDE DEF q, l
<1>2. /\ \A i \in 1 .. l : h[i] = g[i]
      /\ h[l + 1] = IF d = c THEN sm.label ELSE NoLabel
  BY <1>1 DEF PostedTo, l
<1>3. sm.label \in Nat /\ sm.label # NoLabel
  BY DEF Sends, NoLabel
<1> HIDE DEF g, h
<1>4. ASSUME Chain(n, k, us, ps, sm, d)
      PROVE  Chain(n, k, us, q, sn, d)
  <2>1. PICK b \in Int, e \in Int :
          /\ Outgoing(k, n.report, b)
          /\ Runs(g, l, b, e)
          /\ d \in us => e = NoLabel \/ Succ(e) = Due(sm, d)
    BY <1>4 DEF Chain, g, l
  <2>2. CASE d = c
    <3>1. Due(sm, d) = sm.label /\ Due(sn, d) = Succ(sm.label)
      BY <2>2 DEF Due
    <3>2. e = NoLabel \/ sm.label = Succ(e)
      BY <2>1, <2>2, <3>1
    <3>3. h[l + 1] = sm.label
      BY <1>2, <2>2
    <3>4. Runs(h, l + 1, b, sm.label)
      BY <1>1, <1>2, <1>3, <2>1, <3>2, <3>3, RunsMore
    <3> QED
      BY <1>1, <1>3, <2>1, <3>1, <3>4 DEF Chain, h
  <2>3. CASE d # c
    <3>1. Due(sm, d) = Due(sn, d)
      BY <2>3 DEF Due
    <3>2. Runs(h, l + 1, b, e)
      BY <1>1, <1>2, <2>1, <2>3, RunsMore
    <3> QED
      BY <1>1, <2>1, <3>1, <3>2 DEF Chain, h
  <2> QED
    BY <2>2, <2>3
<1> QED
  BY <1>4 DEF InTurn, q

\* The simulation thread goes on.
LEMMA TurnTicks ==
  ASSUME NEW n, NEW k, NEW us, NEW ps, NEW sm, NEW c, InTurn(n, k, us, ps, sm, c),
         NEW sn, c \in us => Due(sn, c) = Due(sm, c)
  PROVE  InTurn(n, k, us, ps, sn, c)
BY DEF InTurn, Chain

\* What was being sent has reached the peer.
LEMMA TurnDelivered ==
  ASSUME NEW n \in NetState, NEW k, NEW us, NEW ps, NEW sm, NEW c, InTurn(n, k, us, ps, sm, c),
         k.life = "live", ~n.broken,
         NEW o \in BOOLEAN, NEW m, m = [n EXCEPT !.broken = o],
         NEW z, z = Delivered(m, k.sending), NEW j, NEW vs, c \in vs => c \in us,
         \/ j.life = "deleted" /\ j.sending = <<>> /\ j.write = <<>>
         \/ j.life = "live" /\ j.sending = <<>> /\ j.write = k.write
         \/ j.life = "live" /\ j.sending = k.write /\ j.write = <<>>
  PROVE  /\ z \in NetState /\ z.stream = n.stream /\ z.closes = n.closes
         /\ InTurn(z, j, vs, ps, sm, c)
<1>1. /\ k.sending \in Seq(Items) /\ k.write \in Seq(Items) /\ <<>> \in Seq(Items)
      /\ ~n.wrong /\ (~n.hello => k.sending # <<>> /\ k.sending[1].what = "hello")
      /\ Chain(n, k, us, ps, sm, c)
  BY DEF InTurn
<1>2. n.report \in Int
  BY DEF NetState
<1>3. PICK b \in Int, d \in Int :
        /\ Outgoing(k, n.report, b)
        /\ Runs(PostedTo(c, ps), Len(ps), b, d)
        /\ c \in us => d = NoLabel \/ Succ(d) = Due(sm, c)
  BY <1>1 DEF Chain
<1>4. PICK a \in Int : /\ Runs(Marks(k.sending), Len(k.sending), n.report, a)
                       /\ Runs(Marks(k.write), Len(k.write), a, b)
  BY <1>3 DEF Outgoing
<1>5. /\ m \in NetState /\ m.report = n.report /\ m.wrong = n.wrong /\ m.hello = n.hello
      /\ m.stream = n.stream /\ m.closes = n.closes
  BY DEF NetState
<1>6. z \in NetState /\ z.hello = TRUE /\ z.report = a /\ z.wrong = FALSE
      /\ z.stream = n.stream /\ z.closes = n.closes
  <2>1. ~m.wrong /\ (~m.hello => k.sending # <<>> /\ k.sending[1].what = "hello")
    BY <1>1, <1>5
  <2>2. Runs(Marks(k.sending), Len(k.sending), m.report, a)
    BY <1>4, <1>5
  <2> DEFINE items == k.sending
  <2> HIDE DEF items
  <2>3. items \in Seq(Items) /\ Runs(Marks(items), Len(items), m.report, a)
        /\ (~m.hello => items # <<>> /\ items[1].what = "hello") /\ z = Delivered(m, items)
    BY <1>1, <2>1, <2>2 DEF items
  <2>4. GotTo(z, m, a)
    BY <1>5, <2>1, <2>3, DeliveredRight
  <2> QED
    BY <1>5, <2>4 DEF GotTo
<1>7. ASSUME j.life = "live"
      PROVE  Outgoing(j, a, b) /\ j.sending \in Seq(Items) /\ j.write \in Seq(Items)
  <2>1. Runs(Marks(<<>>), Len(<<>>), a, a) /\ Runs(Marks(<<>>), Len(<<>>), b, b)
    BY NothingOut
  <2>2. (j.sending = <<>> /\ j.write = k.write) \/ (j.sending = k.write /\ j.write = <<>>)
    BY <1>7
  <2> QED
    BY <1>1, <1>4, <2>1, <2>2 DEF Outgoing
<1>8. j.life = "live" => Chain(z, j, vs, ps, sm, c)
  BY <1>3, <1>6, <1>7 DEF Chain
<1>9. j.sending \in Seq(Items) /\ j.write \in Seq(Items) /\ j.life # "none"
  BY <1>1, <1>7
<1> QED
  BY <1>6, <1>8, <1>9 DEF InTurn

\* The write has failed: nothing more reaches the peer.
LEMMA TurnBroken ==
  ASSUME NEW n, NEW k, NEW us, NEW ps, NEW sm, NEW c, InTurn(n, k, us, ps, sm, c),
         NEW z, z.broken = TRUE, z.wrong = n.wrong, NEW j, NEW vs,
         \/ j.life = "deleted" /\ j.sending = <<>> /\ j.write = <<>>
         \/ j.life = "live" /\ j.sending = <<>> /\ j.write = k.write
         \/ j.life = "live" /\ j.sending = k.write /\ j.write = <<>>
  PROVE  InTurn(z, j, vs, ps, sm, c)
<1>1. <<>> \in Seq(Items)
  OBVIOUS
<1> QED
  BY <1>1 DEF InTurn

\* The connection begins, with the hello on its way and nothing posted to it.
LEMMA TurnStarts ==
  ASSUME NEW n, NEW k, NEW us, NEW ps \in Seq(Sends), NEW sm, NEW c, InTurn(n, k, us, ps, sm, c),
         k.life = "none", \A i \in 1 .. Len(ps) : ps[i].conn # c,
         NEW j, j.life = "live", j.sending = <<Item("hello")>>, j.write = <<>>, NEW vs
  PROVE  InTurn(n, j, vs, ps, sm, c)
<1> DEFINE item == Item("hello")
           s == <<item>>
           g == PostedTo(c, ps)
<1>1. item \in Items /\ item.label = NoLabel /\ item.what = "hello"
  BY DEF Item, Items, Control
<1> HIDE DEF item
<1>2. s = Append(<<>>, item) /\ <<>> \in Seq(Items)
  OBVIOUS
<1>3. NoLabel \in Int
  BY DEF NoLabel
<1>4. Runs(Marks(<<>>), Len(<<>>), NoLabel, NoLabel)
  BY <1>3, NothingOut
<1>5. Runs(Marks(s), Len(s), NoLabel, NoLabel)
  BY <1>1, <1>2, <1>3, <1>4, MarksMore
<1>6. s \in Seq(Items) /\ s # <<>> /\ s[1] = item
  BY <1>1
<1> HIDE DEF s
<1>7. Outgoing(j, NoLabel, NoLabel)
  BY <1>3, <1>4, <1>5 DEF Outgoing, s, item
<1>8. Runs(g, Len(ps), NoLabel, NoLabel)
  <2> DEFINE f == [i \in 0 .. Len(ps) |-> NoLabel]
  <2>1. \A i \in 1 .. Len(ps) : g[i] = NoLabel
    BY DEF PostedTo
  <2>2. Len(ps) \in Nat
    OBVIOUS
  <2>3. f \in [0 .. Len(ps) -> Int] /\ \A i \in 0 .. Len(ps) : f[i] = NoLabel
    BY <1>3
  <2> HIDE DEF f, g
  <2>4. 0 \in 0 .. Len(ps) /\ Len(ps) \in 0 .. Len(ps) /\ \A i \in 1 .. Len(ps) : i - 1 \in 0 .. Len(ps) /\ i \in 0 .. Len(ps)
    BY <2>2
  <2> QED
    BY <2>1, <2>3, <2>4 DEF Runs
<1>9. n.report = NoLabel /\ ~n.wrong
  BY DEF InTurn
<1>10. Chain(n, j, vs, ps, sm, c)
  BY <1>3, <1>7, <1>8, <1>9 DEF Chain
<1> QED
  BY <1>1, <1>2, <1>6, <1>9, <1>10 DEF InTurn, s, item

-----------------------------------------------------------------------------
(***************************************************************************)
(* No handler but the constructor adds to the users.                       *)
(***************************************************************************)
Fewer(t, s) == Shape(t) /\ t.users \subseteq s.users

LEMMA FewerSimple ==
  ASSUME NEW s, Shape(s)
  PROVE  /\ Fewer(DoWrite(s), s) /\ Fewer(DoRead(s), s) /\ Fewer(Deleted(s), s) /\ Fewer(Mask(s), s)
         /\ \A c : Fewer(OnClose(s, c), s)
         /\ \A item : Fewer(SendFrame(s, item), s)
         /\ \A op, fin : Fewer(DataFrame(s, op, fin), s)
<1>1. Fewer(DoWrite(s), s) /\ Fewer(DoRead(s), s) /\ Fewer(Deleted(s), s)
  BY DEF Fewer, Shape, DoWrite, DoRead, Deleted
<1>2. Fewer(Mask(s), s)
  BY DEF Fewer, Shape, Mask, DoRead
<1>3. \A c : Fewer(OnClose(s, c), s)
  BY DEF Fewer, Shape, OnClose
<1>4. \A item : Fewer(SendFrame(s, item), s)
  BY DEF Fewer, Shape, SendFrame, DoWrite
<1>5. \A op, fin : Fewer(DataFrame(s, op, fin), s)
  BY DEF Fewer, Shape, DataFrame
<1> QED
  BY <1>1, <1>2, <1>3, <1>4, <1>5

LEMMA FewerOn ==
  ASSUME NEW s, NEW t, NEW u, Fewer(u, t), Fewer(t, s)
  PROVE  Fewer(u, s)
BY DEF Fewer

LEMMA FewerCheckDestroy ==
  ASSUME NEW s, NEW c, Shape(s)
  PROVE  Fewer(CheckDestroy(s, c), s)
<1> DEFINE t == IF s.k.called THEN s ELSE OnClose(s, c)
<1>1. Fewer(t, s) /\ Shape(t)
  BY FewerSimple DEF Fewer
<1>2. CheckDestroy(s, c) = Deleted(t) \/ CheckDestroy(s, c) = t
  BY DEF CheckDestroy
<1> HIDE DEF t
<1>3. Fewer(Deleted(t), t)
  BY <1>1, FewerSimple
<1> QED
  BY <1>1, <1>2, <1>3, FewerOn

LEMMA FewerReadFailed ==
  ASSUME NEW s, NEW c, Shape(s)
  PROVE  Fewer(ReadFailed(s, c), s)
<1> DEFINE t == [s EXCEPT !.k.is_reading = FALSE, !.k.pending = FALSE, !.k.close = TRUE,
                          !.k.open = FALSE]
<1>1. Fewer(t, s) /\ Shape(t)
  BY DEF Fewer, Shape
<1>2. ReadFailed(s, c) = CheckDestroy(t, c) \/ ReadFailed(s, c) = t
  BY DEF ReadFailed
<1> HIDE DEF t
<1> QED
  BY <1>1, <1>2, FewerCheckDestroy, FewerOn

LEMMA FewerMiniHeader ==
  ASSUME NEW s, NEW c, NEW frame, Shape(s)
  PROVE  Fewer(MiniHeader(s, frame, c), s)
<1> DEFINE t == [s EXCEPT !.k.header = frame, !.k.state = "Mask"]
<1>1. Fewer(t, s) /\ Shape(t)
  BY DEF Fewer, Shape
<1>2. MiniHeader(s, frame, c) = ReadFailed(s, c) \/ MiniHeader(s, frame, c) = DoRead(t)
  BY DEF MiniHeader
<1> HIDE DEF t
<1> QED
  BY <1>1, <1>2, FewerReadFailed, FewerSimple, FewerOn

LEMMA FewerFragmentDone ==
  ASSUME NEW s, Shape(s)
  PROVE  Fewer(FragmentDone(s), s)
<1> DEFINE t == [s EXCEPT !.k.fragment = <<>>, !.k.state = "MiniHeader"]
           u == [s EXCEPT !.k.touched = TRUE]
<1>1. Fewer(t, s) /\ Shape(t) /\ Fewer(u, s)
  BY DEF Fewer, Shape
<1>2. FragmentDone(s) = u \/ FragmentDone(s) = DoRead(t)
  BY DEF FragmentDone
<1> HIDE DEF t, u
<1> QED
  BY <1>1, <1>2, FewerSimple, FewerOn

LEMMA FewerClose ==
  ASSUME NEW s, NEW c, Shape(s)
  PROVE  Fewer(Close(s, c), s)
<1> DEFINE t == [s EXCEPT !.k.sent_close = TRUE]
           r == [t EXCEPT !.k.called = TRUE]
           u == IF t.k.recv_close /\ ~t.k.called THEN OnClose(r, c) ELSE t
<1>1. Fewer(t, s) /\ Shape(t) /\ Fewer(r, s) /\ Shape(r)
  BY DEF Fewer, Shape
<1>2. Close(s, c) = SendFrame(u, Item("close"))
  BY DEF Close
<1>3. u = OnClose(r, c) \/ u = t
  OBVIOUS
<1> HIDE DEF t, r, u
<1>4. Fewer(u, s) /\ Shape(u)
  <2>1. Fewer(OnClose(r, c), r)
    BY <1>1, FewerSimple
  <2> QED
    BY <1>1, <1>3, <2>1, FewerOn DEF Fewer
<1> QED
  BY <1>2, <1>4, FewerSimple, FewerOn

LEMMA FewerCloseFrame ==
  ASSUME NEW s, NEW c, Shape(s)
  PROVE  Fewer(CloseFrame(s, c), s)
<1> DEFINE t == [s EXCEPT !.k.recv_close = TRUE]
           u == [t EXCEPT !.k.open = FALSE, !.k.close = TRUE]
           v == IF u.k.called THEN u ELSE OnClose(u, c)
           w == [v EXCEPT !.k.called = TRUE]
<1>1. Fewer(t, s) /\ Shape(t) /\ Fewer(u, s) /\ Shape(u)
  BY DEF Fewer, Shape
<1>2. CloseFrame(s, c) = Close(t, c) \/ CloseFrame(s, c) = CheckDestroy(w, c)
  BY DEF CloseFrame
<1> HIDE DEF t, u
<1>3. Fewer(v, s) /\ Shape(v)
  BY <1>1, FewerSimple, FewerOn DEF Fewer
<1> HIDE DEF v
<1>4. Fewer(w, s) /\ Shape(w)
  BY <1>3 DEF Fewer, Shape
<1> HIDE DEF w
<1> QED
  BY <1>1, <1>2, <1>4, FewerClose, FewerCheckDestroy, FewerOn

LEMMA FewerPayload ==
  ASSUME NEW s, NEW c, Shape(s)
  PROVE  Fewer(Payload(s, c), s)
<1> DEFINE t == [s EXCEPT !.k.is_reading = FALSE, !.k.pending = FALSE,
                          !.k.fragment = @ \o s.k.header.body]
           u == HandleFragment(t, c)
<1>1. Fewer(t, s) /\ Shape(t)
  BY DEF Fewer, Shape
<1>2. Payload(s, c) = t \/ Payload(s, c) = u \/ Payload(s, c) = FragmentDone(u)
  BY DEF Payload
<1> HIDE DEF t
<1>3. Fewer(u, t)
  <2>1. Fewer(t, t)
    BY <1>1 DEF Fewer
  <2>2. \/ u = DataFrame(t, t.k.header.op, t.k.header.fin) \/ u = CloseFrame(t, c)
        \/ u = SendFrame(t, Item("pong")) \/ u = t
    BY DEF HandleFragment
  <2> HIDE DEF u
  <2> QED
    BY <1>1, <2>1, <2>2, FewerCloseFrame, FewerSimple
<1> HIDE DEF u
<1>4. Fewer(u, s) /\ Shape(u)
  BY <1>1, <1>3, FewerOn DEF Fewer
<1> QED
  BY <1>1, <1>2, <1>4, FewerFragmentDone, FewerOn

LEMMA FewerWriteDone ==
  ASSUME NEW s, NEW error, NEW c, Shape(s)
  PROVE  Fewer(WriteDone(s, error, c), s)
<1> DEFINE t == [s EXCEPT !.k.sending = <<>>]
           u == IF t.k.write # <<>> THEN DoWrite(t) ELSE t
           v == [u EXCEPT !.k.close = u.k.sent_close]
           w == [t EXCEPT !.k.close = TRUE]
<1>1. Fewer(t, s) /\ Shape(t) /\ Fewer(w, s) /\ Shape(w)
  BY DEF Fewer, Shape
<1>2. WriteDone(s, error, c) = v \/ WriteDone(s, error, c) = CheckDestroy(w, c)
  BY DEF WriteDone
<1> HIDE DEF t, w
<1>3. Fewer(u, s) /\ Shape(u)
  BY <1>1, FewerSimple, FewerOn DEF Fewer
<1> HIDE DEF u
<1>4. Fewer(v, s)
  BY <1>3 DEF Fewer, Shape
<1> HIDE DEF v
<1> QED
  BY <1>1, <1>2, <1>4, FewerCheckDestroy, FewerOn

-----------------------------------------------------------------------------
(***************************************************************************)
(* The steps again.                                                        *)
(***************************************************************************)
\* A step that is one peer's and its connection's.
LEMMA OneMoves ==
  ASSUME ReportInv, DOMAIN ws = Conns, NEW c \in Conns, NEW n \in NetState, NEW k,
         net' = [net EXCEPT ![c] = n],
         ws' = [ws EXCEPT ![c] = k] \/ (ws' = ws /\ k = ws[c]),
         users' \ {c} = users \ {c}, UNCHANGED <<sim, posted>>,
         ClosesOnce(n, k), InTurn(n, k, users', posted, sim, c)
  PROVE  ReportInv'
<1>1. net' \in [Conns -> NetState] /\ net'[c] = n /\ ws'[c] = k
  BY DEF ReportInv
<1>2. ASSUME NEW d \in Conns
      PROVE  ClosesOnce(net'[d], ws'[d]) /\ InTurn(net'[d], ws'[d], users', posted', sim', d)
  <2>1. CASE d = c
    BY <1>1, <2>1
  <2>2. CASE d # c
    <3>1. net'[d] = net[d] /\ ws'[d] = ws[d] /\ (d \in users' <=> d \in users)
      BY <2>2 DEF ReportInv
    <3>2. ClosesOnce(net[d], ws[d]) /\ InTurn(net[d], ws[d], users, posted, sim, d)
      BY DEF ReportInv
    <3> QED
      BY <3>1, <3>2 DEF InTurn, Chain
  <2> QED
    BY <2>1, <2>2
<1> QED
  BY <1>1, <1>2 DEF ReportInv

LEMMA PeerFacts ==
  ASSUME ReportInv, NEW c \in Conns
  PROVE  /\ net[c] \in NetState /\ net[c].report \in Int
         /\ ClosesOnce(net[c], ws[c]) /\ InTurn(net[c], ws[c], users, posted, sim, c)
         /\ net = [net EXCEPT ![c] = net[c]]
BY DEF ReportInv, NetState

\* The peer reads nothing and gets nothing.
LEMMA ConnectionMoves ==
  ASSUME ServerInv, ReportInv, NEW c \in Conns, NEW s, Sound(s, c), Do(c, s),
         UNCHANGED <<net, sim, posted>>, ClosesOnce(net[c], s.k),
         InTurn(net[c], s.k, s.users, posted, sim, c)
  PROVE  ReportInv'
<1> DEFINE n == net[c]
           k == s.k
<1>1. n \in NetState /\ ClosesOnce(n, k)
  BY PeerFacts
<1>2. users' = s.users /\ ws' = [ws EXCEPT ![c] = k] /\ net' = [net EXCEPT ![c] = n]
  BY PeerFacts DEF Do
<1>3. users' \ {c} = users \ {c} /\ DOMAIN ws = Conns
  BY <1>2 DEF Sound, ServerInv
<1>4. InTurn(n, k, users', posted, sim, c)
  BY <1>2
<1> HIDE DEF n, k
<1> QED
  BY <1>1, <1>2, <1>3, <1>4, OneMoves

\* The connection goes on or is deleted, and what it sends are control frames.
LEMMA GoesOn ==
  ASSUME ServerInv, ReportInv, NEW c \in Conns, ws[c].life = "live", NEW s, Fewer(s, On(c)),
         NEW m, m.report = net[c].report, m.hello = net[c].hello, m.wrong = net[c].wrong,
         m.broken = net[c].broken,
         \/ s.k.life = "live" /\ Passes(s.k, ws[c])
         \/ s.k.life = "deleted" /\ s.k.sending = <<>> /\ s.k.write = <<>>
  PROVE  InTurn(m, s.k, s.users, posted, sim, c)
<1> DEFINE n == net[c]
           k == ws[c]
           j == s.k
           vs == s.users
<1>1. InTurn(n, k, users, posted, sim, c) /\ n.report \in Int
  BY PeerFacts
<1>2. c \in vs => c \in users
  BY OnFields DEF Fewer
<1>3. /\ m.report = n.report /\ m.hello = n.hello /\ m.wrong = n.wrong /\ m.broken = n.broken
      /\ k.life = "live"
      /\ \/ j.life = "live" /\ Passes(j, k)
         \/ j.life = "deleted" /\ j.sending = <<>> /\ j.write = <<>>
  OBVIOUS
<1> HIDE DEF n, k, j, vs
<1>4. InTurn(m, j, vs, posted, sim, c)
  BY <1>1, <1>2, <1>3, TurnPasses
<1> QED
  BY <1>4 DEF j, vs

LEMMA UpgradeReports ==
  ASSUME ServerInv, ReportInv, NEW c \in Conns, Upgrade(c)
  PROVE  ReportInv'
<1> DEFINE s == Start(On(c), c)
           k == ws[c]
           j == s.k
<1>1. k.life = "none" /\ Do(c, s) /\ UNCHANGED <<net, sim, posted>>
  BY DEF Upgrade
<1>2. Sound(s, c)
  BY <1>1, StartSound
<1>3. InTurn(net[c], k, users, posted, sim, c) /\ ClosesOnce(net[c], k)
  BY PeerFacts
<1>4. j.sending = <<Item("hello")>> /\ j.write = <<>> /\ j.life = "live" /\ Unread(j, k)
  <2>1. ws[c].write = <<>>
    BY <1>1, <1>3 DEF InTurn
  <2> QED
    BY <1>1, <2>1, StartKeeps
<1>5. posted \in Seq(Sends) /\ \A i \in 1 .. Len(posted) : posted[i].conn # c
  BY <1>1 DEF ServerInv, PostedInv, Sends
<1> HIDE DEF k, j
<1>6. ClosesOnce(net[c], j)
  BY <1>3, <1>4, ClosesKept
<1>7. InTurn(net[c], j, s.users, posted, sim, c)
  BY <1>1, <1>3, <1>4, <1>5, TurnStarts
<1> HIDE DEF s
<1> QED
  BY <1>1, <1>2, <1>6, <1>7, ConnectionMoves DEF j

LEMMA HeaderReports ==
  ASSUME ServerInv, ReportInv, NEW c \in Conns, ReadHeader(c)
  PROVE  ReportInv'
<1> DEFINE f == Head(net[c].stream)
           s == MiniHeader(On(c), f, c)
           k == ws[c]
           j == s.k
           n == net[c]
           m == [n EXCEPT !.stream = Tail(@)]
<1>1. /\ k.life = "live" /\ n.stream # <<>> /\ Do(c, s) /\ net' = [net EXCEPT ![c] = m]
      /\ UNCHANGED <<sim, posted>>
  BY UnderWayIsLive DEF ReadHeader, ReadPending
<1>2. Going(On(c), c) /\ On(c).k = k /\ Shape(On(c))
  BY <1>1, OnGoing, OnFields
<1>3. Sound(s, c)
  BY <1>2, MiniHeaderSound
<1>4. /\ n \in NetState /\ ClosesOnce(n, k)
  BY PeerFacts
<1>5. /\ m \in NetState /\ m.stream = Tail(n.stream) /\ m.closes = n.closes
      /\ m.report = n.report /\ m.hello = n.hello /\ m.wrong = n.wrong /\ m.broken = n.broken
  <2> HIDE DEF n
  <2>1. n.stream \in Seq(Frame)
    BY <1>4 DEF NetState
  <2>2. Tail(n.stream) \in Seq(Frame)
    BY <1>1, <2>1, FirstAndRest
  <2> DEFINE r == Tail(n.stream)
  <2> HIDE DEF r
  <2>3. m = [n EXCEPT !.stream = r] /\ r \in Seq(Frame)
    BY <2>2 DEF r
  <2> HIDE DEF m
  <2>4. /\ m \in NetState /\ m.stream = r /\ m.closes = n.closes
        /\ m.report = n.report /\ m.hello = n.hello /\ m.wrong = n.wrong /\ m.broken = n.broken
    BY <1>4, <2>3 DEF NetState
  <2> QED
    BY <2>4 DEF r
<1>6. \/ Kept(j, k) /\ Unread(j, k) /\ j.life = "live"
      \/ Ended(j, k)
      \/ /\ Kept(j, k) /\ j.life = "live" /\ j.state = "Mask" /\ j.header = f
         /\ j.sent_close = k.sent_close /\ j.touched = k.touched
  BY <1>2, MiniHeaderKeeps
<1>7. Fewer(s, On(c))
  BY <1>2, FewerMiniHeader
<1> HIDE DEF s, m
<1>8. InTurn(m, s.k, s.users, posted, sim, c)
  <2>1. \/ s.k.life = "live" /\ Passes(s.k, ws[c])
        \/ s.k.life = "deleted" /\ s.k.sending = <<>> /\ s.k.write = <<>>
    BY <1>6 DEF Passes, Ended
  <2> QED
    BY <1>1, <1>5, <1>7, <2>1, GoesOn
<1> HIDE DEF j, k, n, f
<1>9. ClosesOnce(m, j)
  <2>1. \/ Unread(j, k) \/ Ended(j, k)
        \/ j.header = Head(n.stream) /\ j.sent_close = k.sent_close /\ j.touched = k.touched
    BY <1>6 DEF f, n
  <2> QED
    BY <1>1, <1>4, <1>5, <2>1, ClosesHeader
<1>10. users' = s.users /\ ws' = [ws EXCEPT ![c] = j] /\ users' \ {c} = users \ {c} /\ DOMAIN ws = Conns
  BY <1>1, <1>3 DEF Do, Sound, j, ServerInv
<1>11. InTurn(m, j, users', posted, sim, c)
  BY <1>8, <1>10 DEF j
<1> QED
  BY <1>1, <1>5, <1>9, <1>10, <1>11, OneMoves

LEMMA MaskReports ==
  ASSUME ServerInv, ReportInv, NEW c \in Conns, ReadMask(c)
  PROVE  ReportInv'
<1> DEFINE s == Mask(On(c))
           k == ws[c]
           j == s.k
<1>1. k.life = "live" /\ k.state = "Mask" /\ Do(c, s) /\ UNCHANGED <<net, sim, posted>>
  BY UnderWayIsLive DEF ReadMask, ReadPending
<1>2. Going(On(c), c) /\ On(c).k = k /\ Shape(On(c))
  BY <1>1, OnGoing, OnFields
<1>3. Sound(s, c) /\ Fewer(s, On(c))
  BY <1>2, MaskSound, FewerSimple
<1>4. /\ Kept(j, k) /\ j.life = "live" /\ j.header = k.header
      /\ j.sent_close = k.sent_close /\ j.touched = k.touched
  BY <1>2, MaskKeeps
<1> HIDE DEF s
<1>5. InTurn(net[c], s.k, s.users, posted, sim, c)
  BY <1>1, <1>3, <1>4, GoesOn DEF Passes
<1> HIDE DEF j, k
<1>6. ClosesOnce(net[c], j)
  <2>1. ClosesOnce(net[c], k)
    BY PeerFacts DEF k
  <2>2. k.state # "MiniHeader"
    BY <1>1
  <2> QED
    BY <1>4, <2>1, <2>2, ClosesOn
<1> QED
  BY <1>1, <1>3, <1>5, <1>6, ConnectionMoves DEF j

LEMMA PayloadReports ==
  ASSUME ServerInv, ReportInv, NEW c \in Conns, ReadPayload(c)
  PROVE  ReportInv'
<1> DEFINE s == Payload(On(c), c)
           k == ws[c]
           j == s.k
<1>1. k.life = "live" /\ k.state = "Payload" /\ Do(c, s) /\ UNCHANGED <<net, sim, posted>>
  BY UnderWayIsLive DEF ReadPayload, ReadPending
<1>2. Going(On(c), c) /\ On(c).k = k /\ Shape(On(c))
  BY <1>1, OnGoing, OnFields
<1>3. Sound(s, c) /\ Fewer(s, On(c))
  BY <1>2, PayloadSound, FewerPayload
<1>4. Came(j, k)
  BY <1>2, PayloadKeeps
<1> HIDE DEF s
<1>5. InTurn(net[c], s.k, s.users, posted, sim, c)
  <2>1. \/ s.k.life = "live" /\ Passes(s.k, ws[c])
        \/ s.k.life = "deleted" /\ s.k.sending = <<>> /\ s.k.write = <<>>
    BY <1>4 DEF Came
  <2> QED
    BY <1>1, <1>3, <2>1, GoesOn
<1> HIDE DEF j, k
<1>6. ClosesOnce(net[c], j)
  <2>1. ClosesOnce(net[c], k)
    BY PeerFacts DEF k
  <2>2. k.state # "MiniHeader"
    BY <1>1
  <2> QED
    BY <1>4, <2>1, <2>2, ClosesCame
<1> QED
  BY <1>1, <1>3, <1>5, <1>6, ConnectionMoves DEF j

LEMMA FailureReports ==
  ASSUME ServerInv, ReportInv, NEW c \in Conns, ReadFails(c)
  PROVE  ReportInv'
<1> DEFINE s == ReadFailed(On(c), c)
           k == ws[c]
           j == s.k
<1>1. k.life = "live" /\ Do(c, s) /\ UNCHANGED <<net, sim, posted>>
  <2>1. k.life = "live"
    BY UnderWayIsLive DEF ReadFails, ReadPending
  <2> QED
    BY <2>1 DEF ReadFails
<1>2. Going(On(c), c) /\ On(c).k = k /\ Shape(On(c))
  BY <1>1, OnGoing, OnFields
<1>3. Sound(s, c) /\ Fewer(s, On(c))
  BY <1>2, ReadFailedSound, FewerReadFailed
<1>4. (Kept(j, k) /\ Unread(j, k) /\ j.life = "live") \/ Ended(j, k)
  BY <1>2, ReadFailedKeeps
<1> HIDE DEF s
<1>5. InTurn(net[c], s.k, s.users, posted, sim, c)
  <2>1. \/ s.k.life = "live" /\ Passes(s.k, ws[c])
        \/ s.k.life = "deleted" /\ s.k.sending = <<>> /\ s.k.write = <<>>
    BY <1>4 DEF Passes, Ended
  <2> QED
    BY <1>1, <1>3, <2>1, GoesOn
<1> HIDE DEF j, k
<1>6. ClosesOnce(net[c], j)
  <2>1. ClosesOnce(net[c], k)
    BY PeerFacts DEF k
  <2> QED
    BY <1>4, <2>1, ClosesKept
<1> QED
  BY <1>1, <1>3, <1>5, <1>6, ConnectionMoves DEF j

LEMMA WrittenReports ==
  ASSUME ServerInv, ReportInv, NEW c \in Conns, Written(c)
  PROVE  ReportInv'
<1> DEFINE k == ws[c]
           n == net[c]
<1>1. k.life = "live"
  BY UnderWayIsLive DEF Written
<1>2. Going(On(c), c) /\ On(c).k = k /\ Shape(On(c)) /\ On(c).users = users
  BY <1>1, OnGoing, OnFields
<1>3. n \in NetState /\ ClosesOnce(n, k) /\ InTurn(n, k, users, posted, sim, c)
  BY PeerFacts
<1> DEFINE after(error) == IF error THEN [n EXCEPT !.broken = TRUE]
                           ELSE Delivered([n EXCEPT !.broken = n.gone], k.sending)
<1>4. PICK error \in BOOLEAN :
        /\ n.broken => error
        /\ Do(c, WriteDone(On(c), error, c))
        /\ net' = [net EXCEPT ![c] = after(error)]
  BY <1>1 DEF Written
<1> DEFINE s == WriteDone(On(c), error, c)
           j == s.k
           z == after(error)
<1>5. Do(c, s) /\ net' = [net EXCEPT ![c] = z] /\ UNCHANGED <<sim, posted>>
  BY <1>4 DEF Written
<1>6. Sound(s, c) /\ Fewer(s, On(c))
  BY <1>2, WriteDoneSound, FewerWriteDone
<1>7. \/ Ended(j, k)
      \/ /\ Unread(j, k) /\ j.life = "live"
         /\ \/ j.sending = <<>> /\ j.write = k.write
            \/ j.sending = k.write /\ j.write = <<>>
  BY <1>2, WriteDoneKeeps
<1> HIDE DEF s
<1>8. users' = s.users /\ ws' = [ws EXCEPT ![c] = j] /\ users' \ {c} = users \ {c} /\ DOMAIN ws = Conns
  BY <1>5, <1>6 DEF Do, Sound, ServerInv
<1>9. c \in users' => c \in users
  BY <1>2, <1>6, <1>8 DEF Fewer
<1> HIDE DEF j, k, n
<1>10. \/ j.life = "deleted" /\ j.sending = <<>> /\ j.write = <<>>
       \/ j.life = "live" /\ j.sending = <<>> /\ j.write = k.write
       \/ j.life = "live" /\ j.sending = k.write /\ j.write = <<>>
  BY <1>7 DEF Ended
<1>11. /\ z \in NetState /\ z.stream = n.stream /\ z.closes = n.closes
       /\ InTurn(z, j, users', posted, sim, c)
  <2>1. CASE error
    <3>1. z = [n EXCEPT !.broken = TRUE]
      BY <2>1
    <3> HIDE DEF z
    <3>2. /\ z \in NetState /\ z.stream = n.stream /\ z.closes = n.closes
          /\ z.broken = TRUE /\ z.wrong = n.wrong
      BY <1>3, <3>1 DEF NetState
    <3> QED
      BY <1>3, <1>10, <3>2, TurnBroken
  <2>2. CASE ~error
    <3> DEFINE o == n.gone
               m == [n EXCEPT !.broken = o]
    <3>1. z = Delivered(m, k.sending) /\ o \in BOOLEAN /\ ~n.broken
      BY <1>3, <1>4, <2>2 DEF NetState
    <3> HIDE DEF z, o
    <3>2. m = [n EXCEPT !.broken = o]
      OBVIOUS
    <3> HIDE DEF m
    <3> QED
      BY <1>1, <1>3, <1>9, <1>10, <3>1, <3>2, TurnDelivered
  <2> QED
    BY <2>1, <2>2
<1> HIDE DEF z
<1>12. ClosesOnce(z, j)
  BY <1>3, <1>7, <1>11, ClosesKept
<1> QED
  BY <1>5, <1>8, <1>11, <1>12, OneMoves

\* What the message handler does to the inputs of the board is nothing to the reports.
LEMMA NothingMoves ==
  ASSUME ReportInv, UNCHANGED <<net, ws, users, sim, posted>>
  PROVE  ReportInv'
BY DEF ReportInv

LEMMA ReturnReports ==
  ASSUME ServerInv, ReportInv, handler.calls # <<>>, Return, UNCHANGED <<net, users, sim, posted>>
  PROVE  ReportInv'
<1>1. CASE Len(handler.calls) > 1
  BY <1>1, NothingMoves DEF Return
<1>2. CASE ~ Len(handler.calls) > 1
  <2> DEFINE c == mtx
             s == FragmentDone(On(c))
             k == ws[c]
             j == s.k
             n == net[c]
  <2>1. c \in Conns /\ k.life = "live" /\ ws' = [ws EXCEPT ![c] = j]
    BY <1>2 DEF ServerInv, HandlerInv, Return
  <2>2. Going(On(c), c) /\ On(c).k = k /\ Shape(On(c)) /\ On(c).users = users
    BY <2>1, OnGoing, OnFields
  <2> HIDE DEF c
  <2>3. Fewer(s, On(c))
    BY <2>2, FewerFragmentDone
  <2>4. /\ Kept(j, k) /\ j.life = "live" /\ j.state = "MiniHeader" /\ j.header = k.header
        /\ j.sent_close = k.sent_close /\ j.touched = k.touched
    BY <2>2, FragmentDoneKeeps
  <2>5. s.users = users
    BY <2>2, FragmentDoneSound DEF Going
  <2> HIDE DEF s
  <2>6. InTurn(n, s.k, s.users, posted, sim, c)
    BY <2>1, <2>3, <2>4, GoesOn DEF Passes
  <2>7. /\ n \in NetState /\ ClosesOnce(n, k) /\ net' = [net EXCEPT ![c] = n]
    BY <2>1, PeerFacts
  <2> HIDE DEF j, k, n
  <2>8. ClosesOnce(n, j)
    BY <2>4, <2>7, ClosesOn
  <2>9. InTurn(n, j, users', posted, sim, c) /\ users' \ {c} = users \ {c} /\ DOMAIN ws = Conns
    BY <2>5, <2>6 DEF j, ServerInv
  <2> QED
    BY <2>1, <2>7, <2>8, <2>9, OneMoves
<1> QED
  BY <1>1, <1>2

LEMMA MessageReports ==
  ASSUME ServerInv, ReportInv, OnMessageReset \/ OnMessageSwitches
  PROVE  ReportInv'
<1>1. handler.calls # <<>> /\ UNCHANGED <<net, users, sim, posted>>
  BY DEF OnMessageReset, OnMessageSwitches, ServerInv, HandlerInv
<1>2. Return \/ UNCHANGED ws
  BY DEF OnMessageReset, OnMessageSwitches, Throw
<1> QED
  BY <1>1, <1>2, ReturnReports, NothingMoves

\* A posted send runs: its report reaches its connection, and passes the others by.
LEMMA PostedReports ==
  ASSUME ServerInv, ReportInv, Posted
  PROVE  ReportInv'
<1> DEFINE p == posted[1]
           c == p.conn
           s == SendFrame(On(c), Report(p.label))
           ps == posted
<1>1. ps \in Seq(Sends) /\ ps # <<>> /\ posted' = Tail(ps) /\ UNCHANGED <<net, users, sim>>
  BY DEF Posted, ServerInv, PostedInv, Sends
<1>2. p = Head(posted) /\ p \in Sends
  BY <1>1, FirstAndRest
<1>3. c \in Conns /\ ws[c].life # "none"
  <2>1. 1 \in 1 .. Len(ps)
    BY <1>1, FirstAndRest
  <2> QED
    BY <1>2, <2>1 DEF Sends, ServerInv, PostedInv
<1>5. DOMAIN ws = Conns
  BY DEF ServerInv
<1>4. /\ ws[c].life = "deleted" => ws' = ws
      /\ ws[c].life # "deleted" => ws' = [ws EXCEPT ![c] = s.k]
  BY <1>2 DEF Posted
<1>6. ws[c].life # "deleted" => /\ ws[c].life = "live"
                                /\ Queued(s.k, ws[c], Report(p.label)) /\ Unread(s.k, ws[c])
                                /\ s.k.life = "live"
  <2> SUFFICES ASSUME ws[c].life # "deleted"
               PROVE  /\ ws[c].life = "live"
                      /\ Queued(s.k, ws[c], Report(p.label)) /\ Unread(s.k, ws[c])
                      /\ s.k.life = "live"
    OBVIOUS
  <2>1. ws[c].life = "live"
    BY <1>3 DEF ServerInv, Safe
  <2>2. Going(On(c), c) /\ On(c).k = ws[c]
    BY <1>3, <2>1, OnGoing, OnFields
  <2> DEFINE r == On(c)
             item == Report(p.label)
             j == s.k
  <2>3. j = SendFrame(r, item).k /\ Going(r, c) /\ r.k = ws[c]
    BY <2>2
  <2> HIDE DEF r, item, s, c
  <2>4. Queued(j, r.k, item) /\ Unread(j, r.k) /\ j.life = "live"
    BY <2>3, SendFrameQueues
  <2> QED
    BY <2>1, <2>3, <2>4 DEF item
<1> HIDE DEF s
<1>7. ASSUME NEW d \in Conns
      PROVE  ClosesOnce(net[d], ws'[d]) /\ InTurn(net[d], ws'[d], users, Tail(ps), sim, d)
  <2> DEFINE n == net[d]
             k == ws[d]
             j == ws'[d]
  <2>1. InTurn(n, k, users, ps, sim, d) /\ ClosesOnce(n, k) /\ n.report \in Int
    BY PeerFacts
  <2>2. CASE d = c /\ k.life # "deleted"
    <3>1. j = s.k
      BY <1>3, <1>4, <1>5, <2>2
    <3>2. /\ k.life = "live" /\ Queued(j, k, Report(ps[1].label)) /\ Unread(j, k)
          /\ j.life = "live" /\ ps[1].conn = d
      BY <1>6, <2>2, <3>1
    <3> HIDE DEF j, k, n, ps
    <3>3. ClosesOnce(n, j)
      BY <2>1, <3>2, ClosesKept
    <3>4. InTurn(n, j, users, Tail(ps), sim, d)
      BY <1>1, <2>1, <3>2, TurnPosted
    <3> QED
      BY <3>3, <3>4 DEF j, n
  <2>3. CASE ~(d = c /\ k.life # "deleted")
    <3>1. j = k
      BY <1>3, <1>4, <1>5, <2>3
    <3>2. ps[1].conn # d \/ k.life = "deleted"
      BY <2>3
    <3> HIDE DEF j, k, n, ps
    <3>3. InTurn(n, k, users, Tail(ps), sim, d)
      BY <1>1, <2>1, <3>2, TurnPassed
    <3> QED
      BY <2>1, <3>1, <3>3 DEF j, n
  <2> QED
    BY <2>2, <2>3
<1> QED
  BY <1>1, <1>7 DEF ReportInv

LEMMA SimReports ==
  ASSUME ServerInv, ReportInv, Sim
  PROVE  ReportInv'
<1> SUFFICES ASSUME NEW d \in Conns
             PROVE  InTurn(net[d], ws[d], users, posted', sim', d)
  <2>1. UNCHANGED <<net, ws, users>>
    BY DEF Sim, Tick, Lock, SendText, Unlock
  <2> QED
    BY <2>1 DEF ReportInv
<1> DEFINE n == net[d]
           k == ws[d]
<1>1. InTurn(n, k, users, posted, sim, d)
  BY PeerFacts
<1>2. DOMAIN sim = {"pc", "label", "todo", "sampled"} /\ sim.label \in Nat /\ sim.todo \subseteq users
  BY DEF ServerInv, SimInv
<1> HIDE DEF n, k
<1>3. CASE Tick \/ Lock \/ Unlock
  <2>1. d \in users => Due(sim', d) = Due(sim, d)
    <3>1. CASE Tick
      <4>1. sim.pc = "tick" /\ sim'.pc = "lock" /\ sim'.label = Succ(sim.label)
        BY <1>2, <3>1 DEF Tick
      <4> QED
        BY <4>1 DEF Due
    <3>2. CASE Lock
      <4>1. sim.pc = "lock" /\ sim'.pc = "send" /\ sim'.label = sim.label /\ sim'.todo = users
        BY <1>2, <3>2 DEF Lock
      <4> QED
        BY <4>1 DEF Due
    <3>3. CASE Unlock
      <4>1. sim.pc = "send" /\ sim.todo = {} /\ sim'.pc = "tick" /\ sim'.label = sim.label
        BY <1>2, <3>3 DEF Unlock
      <4> QED
        BY <4>1 DEF Due
    <3> QED
      BY <1>3, <3>1, <3>2, <3>3
  <2>2. posted' = posted
    BY <1>3 DEF Tick, Lock, Unlock
  <2>3. InTurn(n, k, users, posted, sim', d)
    BY <1>1, <2>1, TurnTicks
  <2> QED
    BY <2>2, <2>3 DEF n, k
<1>4. ASSUME NEW c \in Conns, SendText(c)
      PROVE  InTurn(n, k, users, posted', sim', d)
  <2> DEFINE p == [conn |-> c, label |-> sim.label]
             ps == posted
  <2>1. p \in Sends /\ p.conn = c /\ p.label = sim.label
    BY <1>2 DEF Sends
  <2>2. posted' = Append(ps, p)
    BY <1>4 DEF SendText
  <2>3. /\ sim.pc = "send" /\ c \in sim.todo /\ c \in users
        /\ sim'.pc = "send" /\ sim'.label = sim.label /\ sim'.todo = sim.todo \ {c}
    BY <1>2, <1>4 DEF SendText
  <2>4. ps \in Seq(Sends)
    BY DEF ServerInv, PostedInv, Sends
  <2> HIDE DEF p, ps
  <2>5. InTurn(n, k, users, ps, sim, d)
    BY <1>1 DEF ps
  <2>6. InTurn(n, k, users, Append(ps, p), sim', d)
    BY <2>1, <2>3, <2>4, <2>5, TurnSent
  <2> QED
    BY <2>2, <2>6
<1> QED
  BY <1>3, <1>4 DEF Sim, n, k

\* A peer sends or leaves.
LEMMA PeerReports ==
  ASSUME ServerInv, ReportInv, NEW c \in Conns, Send(c) \/ Leave(c)
  PROVE  ReportInv'
<1> DEFINE k == ws[c]
           n == net[c]
           z == net'[c]
<1>1. n \in NetState /\ ClosesOnce(n, k) /\ InTurn(n, k, users, posted, sim, c)
  BY PeerFacts
<1>2. UNCHANGED <<ws, users, sim, posted>>
  BY DEF Send, Leave
<1>3. /\ z \in NetState /\ net' = [net EXCEPT ![c] = z] /\ ClosesOnce(z, k)
      /\ z.report = n.report /\ z.hello = n.hello /\ z.wrong = n.wrong /\ z.broken = n.broken
  <2>1. CASE Send(c)
    <3> DEFINE f == Head(n.script)
               t == Append(n.stream, f)
               r == Tail(n.script)
               l == IF f.op = "close" THEN n.closes + 1 ELSE n.closes
               m == [n EXCEPT !.stream = t, !.script = r, !.closes = l]
    <3>1. n.script \in Seq(Frame) /\ n.script # <<>> /\ n.stream \in Seq(Frame) /\ n.closes \in Nat
      BY <1>1, <2>1 DEF Send, NetState
    <3>2. net' = [net EXCEPT ![c] = m]
      BY <2>1 DEF Send
    <3>3. z = m
      BY <3>2 DEF ReportInv
    <3> HIDE DEF z, n, k
    <3>4. f \in Frame /\ r \in Seq(Frame)
      BY <3>1, FirstAndRest
    <3>5. t \in Seq(Frame) /\ t = Append(n.stream, f)
      BY <3>1, <3>4, Appended
    <3>6. l \in Nat /\ l = IF f.op = "close" THEN n.closes + 1 ELSE n.closes
      BY <3>1
    <3> HIDE DEF f, t, r, l
    <3>7. m \in NetState
      BY <1>1, <3>4, <3>5, <3>6 DEF NetState
    <3>8. /\ m.stream = t /\ m.closes = l
          /\ m.report = n.report /\ m.hello = n.hello /\ m.wrong = n.wrong /\ m.broken = n.broken
      BY <1>1 DEF NetState
    <3> HIDE DEF m
    <3>9. ClosesOnce(m, k)
      BY <1>1, <3>4, <3>5, <3>6, <3>8, ClosesSent
    <3> QED
      BY <3>2, <3>3, <3>7, <3>8, <3>9
  <2>2. CASE Leave(c)
    <3> DEFINE m == [n EXCEPT !.gone = TRUE]
    <3>1. net' = [net EXCEPT ![c] = m]
      BY <2>2 DEF Leave
    <3>2. z = m
      BY <3>1 DEF ReportInv
    <3> HIDE DEF z, n, k
    <3>3. /\ m \in NetState /\ m.stream = n.stream /\ m.closes = n.closes
          /\ m.report = n.report /\ m.hello = n.hello /\ m.wrong = n.wrong /\ m.broken = n.broken
      BY <1>1 DEF NetState
    <3> HIDE DEF m
    <3>4. ClosesOnce(m, k)
      BY <1>1, <3>3 DEF ClosesOnce
    <3> QED
      BY <3>1, <3>2, <3>3, <3>4
  <2> QED
    BY <2>1, <2>2
<1> HIDE DEF z
<1>4. InTurn(z, k, users, posted, sim, c)
  BY <1>1, <1>3 DEF InTurn, Chain
<1>5. ws' = ws /\ k = ws[c] /\ DOMAIN ws = Conns
  BY <1>2 DEF ServerInv
<1> HIDE DEF k, n
<1>6. InTurn(z, k, users', posted, sim, c) /\ users' \ {c} = users \ {c}
  BY <1>2, <1>4
<1> QED
  BY <1>2, <1>3, <1>5, <1>6, OneMoves

LEMMA ReportInit == Init => ReportInv
<1> SUFFICES ASSUME Init
             PROVE  ReportInv
  OBVIOUS
<1>1. PICK s \in Scripts :
        net = [c \in Conns |-> [comes |-> s[c].comes, leaves |-> s[c].leaves,
                                script |-> s[c].frames, stream |-> <<>>, gone |-> FALSE,
                                broken |-> FALSE, hello |-> FALSE, closes |-> 0,
                                report |-> NoLabel, wrong |-> FALSE]]
  BY DEF Init
<1>2. s \in [Conns -> [comes : BOOLEAN, leaves : BOOLEAN, frames : Seq(Frame)]]
  BY ScriptsAssumption
<1>3. NoLabel \in Int /\ <<>> \in Seq(Frame) /\ <<>> \in Seq(Items)
  BY DEF NoLabel
<1>4. ASSUME NEW c \in Conns
      PROVE  /\ net[c] \in NetState /\ net[c].stream = <<>> /\ net[c].closes = 0
             /\ ~net[c].hello /\ ~net[c].wrong /\ net[c].report = NoLabel
  BY <1>1, <1>2, <1>3 DEF NetState
<1>5. ASSUME NEW c \in Conns
      PROVE  /\ ws[c].life = "none" /\ ws[c].sending = <<>> /\ ws[c].write = <<>>
             /\ ~ws[c].touched /\ ~ws[c].sent_close /\ ws[c].state = "MiniHeader"
  BY DEF Init, NewConnection
<1>6. DOMAIN net = Conns /\ \A c \in Conns : net[c] \in NetState
  BY <1>1, <1>4
<1>7. net \in [Conns -> NetState]
  BY <1>1, <1>6
<1>8. ASSUME NEW c \in Conns
      PROVE  ClosesOnce(net[c], ws[c]) /\ InTurn(net[c], ws[c], users, posted, sim, c)
  <2>1. \A i \in 1 .. Len(net[c].stream) : FALSE
    BY <1>4
  <2>2. ClosesOnce(net[c], ws[c])
    BY <1>5, <2>1 DEF ClosesOnce, CloseHeader
  <2>3. InTurn(net[c], ws[c], users, posted, sim, c)
    BY <1>3, <1>4, <1>5 DEF InTurn
  <2> QED
    BY <2>2, <2>3
<1> QED
  BY <1>7, <1>8 DEF ReportInv

LEMMA ReportNext == ServerInv /\ ReportInv /\ [Next]_vars => ReportInv'
<1> SUFFICES ASSUME ServerInv, ReportInv, [Next]_vars
             PROVE  ReportInv'
  OBVIOUS
<1>1. CASE Io
  <2>1. ASSUME NEW c \in Conns, LateWritten(c)
        PROVE  ReportInv'
    BY <2>1, NothingMoves DEF LateWritten
  <2> QED
    BY <1>1, <2>1, MessageReports, PostedReports, UpgradeReports, HeaderReports, MaskReports,
       PayloadReports, FailureReports, WrittenReports DEF Io
<1>2. CASE UNCHANGED vars
  BY <1>2, NothingMoves DEF vars
<1> QED
  BY <1>1, <1>2, SimReports, PeerReports DEF Next

\* Whatever is sent and whenever it goes, what goes on with a connection that has been
\* deleted is a send posted before that, or a second Close of its peer: no handler else goes
\* on with one it has deleted, and no completion of its own comes to it.
THEOREM TouchedByCloses == Spec => []NotTouchedAgain
<1>1. ReportInv /\ LateInv => NotTouchedAgain
  <2> SUFFICES ASSUME ReportInv, LateInv, NEW c \in Conns, ~(net[c].closes > 1), ~late[c].owed
               PROVE  ~ws[c].touched /\ late[c].ran = "no"
    BY DEF NotTouchedAgain
  <2>1. net[c].closes \in Nat
    BY DEF ReportInv, NetState
  <2> QED
    BY <2>1 DEF ReportInv, ClosesOnce, LateInv
<1> QED
  BY <1>1, InitInv, NextInv, LateInit, LateNext, ReportInit, ReportNext, PTL DEF Spec

\* However sends and completions interleave, and however many reports are made, a peer
\* gets the hello first and then the reports made while it was a user, in order and
\* without a gap.
THEOREM ReportsComeInOrder == Spec => []ReportsInOrder
<1>1. ReportInv => ReportsInOrder
  BY DEF ReportInv, InTurn, ReportsInOrder
<1> QED
  BY <1>1, InitInv, NextInv, ReportInit, ReportNext, PTL DEF Spec

=============================================================================
