------------------------ MODULE HttpConnectionsProofs ------------------------
(***************************************************************************)
(* Proofs about the HTTP side of the server, for any number of peers, any  *)
(* requests and deadlines of any length: the deadlines match the           *)
(* connections, no write comes back to a deleted connection, and a peer    *)
(* gets its own answers.                                                   *)
(*                                                                         *)
(* All three come from one invariant, which says of each connection that   *)
(* the timer queue knows it by its key, that it has one write in flight at *)
(* most unless answers have overlapped, and that the answers its peer has  *)
(* got, the one in flight and the parts not yet read add up to the parts   *)
(* the peer has sent.                                                      *)
(***************************************************************************)
EXTENDS HttpConnections, WellFoundedInduction, SequenceTheorems, TLAPS

-----------------------------------------------------------------------------
(***************************************************************************)
(* The types.                                                              *)
(***************************************************************************)
Bodies   == {"", "page", "status"}
Response == [code : Nat, body : Bodies, completed : BOOLEAN]
Answer   == [code : Nat, body : Bodies]

Connection ==
  [life : {"none", "posted", "live", "deleted"}, open : BOOLEAN, moved : BOOLEAN,
   pending : BOOLEAN, is_reading : BOOLEAN, is_writing : BOOLEAN, close : BOOLEAN,
   needAfter : BOOLEAN, needStart : BOOLEAN, key : Int, res : Response,
   copy : Bodies, writes : Seq(Answer), dead : BOOLEAN, handled : Nat,
   overlapped : BOOLEAN, late : BOOLEAN, stranded : BOOLEAN, thrown : BOOLEAN]

Entry == [owner : Conns, age : Nat, armed : BOOLEAN]
Queue == [dq : Seq(Entry), step : Nat]

Part == [n : Nat, what : {"head", "end"}]

PeerState ==
  [comes : BOOLEAN, script : Seq(Request), waits : BOOLEAN, sent : Nat,
   socket : Seq(Part), gone : BOOLEAN, broken : BOOLEAN, answers : Seq(Answer),
   continued : BOOLEAN]

-----------------------------------------------------------------------------
(***************************************************************************)
(* The invariant.                                                          *)
(***************************************************************************)
\* A key in the queue is that of a deadline of the connection, and an armed deadline
\* of the connection is the one it has the key of.
Mine(k, q, c) ==
  /\ k.key = NoKey \/ (k.key \in Nat /\ k.key < q.step + Len(q.dq))
  /\ \A i \in 1 .. Len(q.dq) : k.key = q.step + i - 1 => q.dq[i].owner = c
  /\ \A i \in 1 .. Len(q.dq) :
       q.dq[i].owner = c /\ q.dq[i].armed => k.key = q.step + i - 1

Armed(q, c) == \E i \in 1 .. Len(q.dq) : q.dq[i].owner = c /\ q.dq[i].armed

\* Unless answers have overlapped, a connection that lives has at most one in flight,
\* and says so.
OneAtATime(k) ==
  ~k.overlapped => IF k.is_writing THEN Len(k.writes) = 1 ELSE k.writes = <<>>

\* The j-th part a peer sends, and how many the server has read.
PartOf(j) == [n |-> (j - 1) \div 2 + 1, what |-> IF (j - 1) % 2 = 0 THEN "head" ELSE "end"]
Taken(n)  == n.sent - Len(n.socket)

SocketInv(n) ==
  /\ Len(n.socket) <= n.sent /\ n.sent <= 2 * Len(n.script)
  /\ \A i \in 1 .. Len(n.socket) : n.socket[i] = PartOf(Taken(n) + i)

\* The answer a is the one to request i.
Answers(n, i, a) == i \in 1 .. Len(n.script) /\ ~Upgrade(n.script[i]) /\ a = Own(n.script[i])

AnswerInFlight(k)   == k.writes # <<>> /\ k.writes[1].code # 100
ContinueInFlight(k) == k.writes # <<>> /\ k.writes[1].code = 100

\* What the peer has got and is to get are the answers to its requests, in order.
InOrder(k, n) ==
  ~k.overlapped =>
    /\ \A i \in 1 .. Len(n.answers) : Answers(n, i, n.answers[i])
    /\ ~n.broken /\ AnswerInFlight(k) => Answers(n, Len(n.answers) + 1, k.writes[1])

\* A connection that has taken b parts has begun an answer to each request that has
\* ended, with a response that was clear.
UpToDate(k, n, b) ==
  ~k.overlapped =>
    /\ k.writes = <<>> => k.res = FreshResponse /\ k.copy = ""
    /\ ~n.broken => Len(n.answers) + (IF AnswerInFlight(k) THEN 1 ELSE 0) = b \div 2
    /\ ContinueInFlight(k) => b % 2 = 1 /\ n.script[b \div 2 + 1].expect

\* A peer that waits sends one request at a time, and nothing while it is answered.
WaitsForAnswer(k, n) ==
  n.waits =>
    /\ n.socket # <<>> => k.writes = <<>>
    /\ Len(n.socket) <= 2
    /\ Len(n.socket) = 2 => n.sent % 2 = 0 /\ ~n.script[n.sent \div 2].expect
    /\ n.sent % 2 = 1 => /\ Len(n.answers) = n.sent \div 2
                         /\ n.continued => k.writes = <<>> /\ n.socket = <<>>

\* A connection that reads, or is about to.
Reads(k) == k.life \in {"none", "posted"} \/ (k.life = "live" /\ k.pending /\ k.open)

ConnInv(n, k, q, c) ==
  /\ SocketInv(n)
  /\ Mine(k, q, c)
  /\ k.life # "live" => k.key = NoKey
  /\ k.life = "none" => k = Blank /\ n.sent = 0
  /\ k.life = "posted" => k = [Blank EXCEPT !.life = "posted", !.open = TRUE]
  /\ k.life = "live" /\ k.pending /\ k.open => Armed(q, c)
  /\ k.life = "live" => OneAtATime(k)
  /\ k.life = "deleted" /\ ~k.overlapped => k.writes = <<>>
  /\ k.late => k.overlapped
  /\ InOrder(k, n)
  /\ n.waits => ~k.overlapped
  /\ Reads(k) => /\ UpToDate(k, n, Taken(n))
                 /\ WaitsForAnswer(k, n)
                 /\ n.broken => n.gone

HttpInv ==
  /\ net \in [Conns -> PeerState]
  /\ conn \in [Conns -> Connection]
  /\ timers \in Queue
  /\ \A c \in Conns : ConnInv(net[c], conn[c], timers, c)

-----------------------------------------------------------------------------
(***************************************************************************)
(* Induction over the natural numbers, on a set.                           *)
(***************************************************************************)
LEMMA LeastNat ==
  ASSUME NEW T, T \subseteq Nat, T # {}
  PROVE  \E x \in T : \A y \in T : x <= y
<1>1. PICK x \in T : \A y \in T : ~(<<y, x>> \in OpToRel(<, Nat))
  BY WFMin, NatLessThanWellFounded
<1>2. \A y \in T : ~(y < x)
  BY <1>1 DEF OpToRel
<1> QED
  BY <1>2

LEMMA SetInduction ==
  ASSUME NEW S, 0 \in S, \A n \in Nat : n \in S => n + 1 \in S
  PROVE  Nat \subseteq S
<1> SUFFICES ASSUME ~(Nat \subseteq S) PROVE FALSE
  OBVIOUS
<1>1. PICK x \in Nat \ S : \A y \in Nat \ S : x <= y
  BY LeastNat
<1>2. x # 0 /\ x - 1 \in Nat /\ x - 1 \in S
  BY <1>1
<1> QED
  BY <1>2

-----------------------------------------------------------------------------
(***************************************************************************)
(* The timer queue.                                                        *)
(***************************************************************************)
LEMMA QueueShape ==
  ASSUME NEW q \in Queue
  PROVE  /\ q.dq \in Seq(Entry) /\ q.step \in Nat /\ Len(q.dq) \in Nat
         /\ DOMAIN q.dq = 1 .. Len(q.dq)
         /\ \A i \in 1 .. Len(q.dq) : q.dq[i] \in Entry
BY DEF Queue

\* r is q after c alone has cancelled or added deadlines.
Frame(q, r, c) ==
  /\ r.step = q.step
  /\ Len(q.dq) <= Len(r.dq)
  /\ \A i \in 1 .. Len(q.dq) :
       /\ r.dq[i].owner = q.dq[i].owner
       /\ q.dq[i].owner # c => r.dq[i].armed = q.dq[i].armed
  /\ \A i \in 1 .. Len(r.dq) : i > Len(q.dq) => r.dq[i].owner = c

LEMMA FrameFrame ==
  ASSUME NEW a \in Queue, NEW b \in Queue, NEW d \in Queue, NEW c,
         Frame(a, b, c), Frame(b, d, c)
  PROVE  Frame(a, d, c)
<1>1. Len(a.dq) \in Nat /\ Len(b.dq) \in Nat /\ Len(d.dq) \in Nat
  BY QueueShape
<1> QED
  BY <1>1 DEF Frame

\* A connection without a key, and none of its deadlines armed.
LEMMA KeylessMine ==
  ASSUME NEW q \in Queue, NEW k, NEW c, k.key = NoKey,
         \A i \in 1 .. Len(q.dq) : q.dq[i].owner = c => ~q.dq[i].armed
  PROVE  Mine(k, q, c)
BY QueueShape DEF Mine, NoKey

\* Once a connection has cancelled its deadline it has none armed.
LEMMA CancelDisarms ==
  ASSUME NEW q \in Queue, NEW k \in Connection, NEW c, Mine(k, q, c),
         NEW r, r = Cancel(q, k.key)
  PROVE  /\ r \in Queue /\ Frame(q, r, c)
         /\ \A i \in 1 .. Len(r.dq) : r.dq[i].owner = c => ~r.dq[i].armed
<1> SUFFICES /\ r \in Queue /\ r.step = q.step /\ Len(r.dq) = Len(q.dq)
             /\ \A i \in 1 .. Len(q.dq) :
                  /\ r.dq[i].owner = q.dq[i].owner
                  /\ q.dq[i].owner # c => r.dq[i].armed = q.dq[i].armed
                  /\ q.dq[i].owner = c => ~r.dq[i].armed
  BY QueueShape DEF Frame
<1> DEFINE index == k.key - q.step
           hit == k.key # NoKey /\ index >= 0 /\ index < Len(q.dq)
<1>1. /\ q.dq \in Seq(Entry) /\ q.step \in Nat /\ Len(q.dq) \in Nat
      /\ DOMAIN q.dq = 1 .. Len(q.dq) /\ \A i \in 1 .. Len(q.dq) : q.dq[i] \in Entry
      /\ k.key \in Int
  BY QueueShape DEF Connection
<1>2. CASE ~hit
  <2>1. r = q
    BY <1>2 DEF Cancel
  <2>2. ASSUME NEW i \in 1 .. Len(q.dq), q.dq[i].owner = c PROVE ~q.dq[i].armed
    BY <1>1, <1>2, <2>2 DEF Mine, NoKey
  <2> QED
    BY <2>1, <2>2
<1>3. CASE hit
  <2> DEFINE j == index + 1
             e == [q.dq[j] EXCEPT !.armed = FALSE]
             d == [q.dq EXCEPT ![j] = e]
  <2>1. j \in 1 .. Len(q.dq)
    BY <1>1, <1>3
  <2>2. e \in Entry /\ e.owner = q.dq[j].owner /\ ~e.armed
    BY <1>1, <2>1 DEF Entry
  <2>3. d \in Seq(Entry) /\ Len(d) = Len(q.dq)
    BY <1>1, <2>1, <2>2
  <2>4. r = [q EXCEPT !.dq = d]
    BY <1>3 DEF Cancel
  <2>5. r \in Queue /\ r.dq = d /\ r.step = q.step
    BY <2>3, <2>4 DEF Queue
  <2>6. \A i \in 1 .. Len(q.dq) : d[i] = IF i = j THEN e ELSE q.dq[i]
    BY <1>1, <2>1
  <2>7. q.dq[j].owner = c
    BY <1>1, <2>1 DEF Mine
  <2>8. ASSUME NEW i \in 1 .. Len(q.dq), i # j, q.dq[i].owner = c
        PROVE  ~q.dq[i].armed
    BY <1>1, <2>1, <2>8 DEF Mine
  <2> HIDE DEF j, e, d
  <2>9. ASSUME NEW i \in 1 .. Len(q.dq)
        PROVE  /\ d[i].owner = q.dq[i].owner
               /\ q.dq[i].owner # c => d[i].armed = q.dq[i].armed
               /\ q.dq[i].owner = c => ~d[i].armed
    BY <2>2, <2>6, <2>7, <2>8
  <2> QED
    BY <2>3, <2>5, <2>9
<1> QED
  BY <1>2, <1>3

LEMMA EnqueueArms ==
  ASSUME NEW q \in Queue, NEW c \in Conns, NEW r, r = Enqueue(q, c)
  PROVE  /\ r \in Queue /\ Frame(q, r, c) /\ Armed(r, c)
         /\ KeyOfLast(r) \in Nat
         /\ (\A i \in 1 .. Len(q.dq) : q.dq[i].owner = c => ~q.dq[i].armed)
              => \A k : k.key = KeyOfLast(r) => Mine(k, r, c)
<1> DEFINE e == [owner |-> c, age |-> 0, armed |-> TRUE]
           d == Append(q.dq, e)
<1>1. q.dq \in Seq(Entry) /\ q.step \in Nat /\ Len(q.dq) \in Nat
  BY QueueShape
<1>2. e \in Entry /\ e.owner = c /\ e.armed
  BY DEF Entry
<1>3. /\ d \in Seq(Entry) /\ Len(d) = Len(q.dq) + 1
      /\ \A i \in 1 .. Len(q.dq) : d[i] = q.dq[i]
      /\ d[Len(q.dq) + 1] = e
  <2> HIDE DEF e
  <2> QED
    BY <1>1, <1>2
<1>4. r = [q EXCEPT !.dq = d]
  BY DEF Enqueue
<1>5. r \in Queue /\ r.dq = d /\ r.step = q.step
  BY <1>3, <1>4 DEF Queue
<1> HIDE DEF e, d
<1>6. KeyOfLast(r) = q.step + Len(q.dq) /\ KeyOfLast(r) \in Nat
  BY <1>1, <1>3, <1>5 DEF KeyOfLast
<1>7. \A i \in 1 .. Len(r.dq) : i <= Len(q.dq) \/ i = Len(q.dq) + 1
  BY <1>1, <1>3, <1>5
<1>8. Frame(q, r, c)
  BY <1>1, <1>2, <1>3, <1>5, <1>7 DEF Frame
<1>9. Armed(r, c)
  BY <1>1, <1>2, <1>3, <1>5 DEF Armed
<1>10. ASSUME \A i \in 1 .. Len(q.dq) : q.dq[i].owner = c => ~q.dq[i].armed,
              NEW k, k.key = KeyOfLast(r)
       PROVE  Mine(k, r, c)
  <2>1. k.key \in Nat /\ k.key < r.step + Len(r.dq)
    BY <1>1, <1>3, <1>5, <1>6, <1>10
  <2>2. ASSUME NEW i \in 1 .. Len(r.dq)
        PROVE  /\ k.key = r.step + i - 1 => r.dq[i].owner = c
               /\ r.dq[i].owner = c /\ r.dq[i].armed => k.key = r.step + i - 1
    <3>1. CASE i = Len(q.dq) + 1
      BY <1>1, <1>2, <1>3, <1>5, <1>6, <1>10, <3>1
    <3>2. CASE i <= Len(q.dq)
      <4>1. r.dq[i] = q.dq[i] /\ ~(q.dq[i].owner = c /\ q.dq[i].armed)
        BY <1>1, <1>3, <1>5, <1>10, <3>2
      <4>2. k.key # r.step + i - 1
        BY <1>1, <1>5, <1>6, <1>10, <3>2
      <4> QED
        BY <4>1, <4>2
    <3> QED
      BY <1>7, <3>1, <3>2
  <2> QED
    BY <2>1, <2>2 DEF Mine
<1> QED
  BY <1>5, <1>6, <1>8, <1>9, <1>10

-----------------------------------------------------------------------------
(***************************************************************************)
(* The pieces of a handler.                                                *)
(***************************************************************************)
Work == [k : Connection, q : Queue, failed : BOOLEAN, left : BOOLEAN]

\* A handler of c at work, which has not deleted its connection.
Sound(s, c) ==
  /\ s \in Work
  /\ s.k.life = "live"
  /\ Mine(s.k, s.q, c)
  /\ Frame(timers, s.q, c)
  /\ OneAtATime(s.k)

\* j is k but for its deadline and where it is in reading.
Alike(j, k) ==
  /\ j.life = k.life /\ j.open = k.open /\ j.close = k.close /\ j.late = k.late
  /\ j.writes = k.writes /\ j.is_writing = k.is_writing /\ j.overlapped = k.overlapped
  /\ j.res = k.res /\ j.copy = k.copy

LEMMA KeyField ==
  ASSUME NEW k \in Connection, NEW n \in Int, NEW j, j = [k EXCEPT !.key = n]
  PROVE  /\ j \in Connection /\ j.key = n /\ Alike(j, k)
         /\ j.needStart = k.needStart /\ j.pending = k.pending
         /\ OneAtATime(k) => OneAtATime(j)
<1>1. j \in Connection
  BY DEF Connection
<1>2. j.key = n /\ Alike(j, k) /\ j.needStart = k.needStart /\ j.pending = k.pending
  BY DEF Connection, Alike
<1> QED
  BY <1>1, <1>2 DEF OneAtATime, Alike

LEMMA CancelSound ==
  ASSUME timers \in Queue, NEW c, NEW s, Sound(s, c), NEW t, t = CancelDeadline(s)
  PROVE  /\ Sound(t, c) /\ t.failed = s.failed /\ t.left = s.left
         /\ Alike(t.k, s.k) /\ t.k.pending = s.k.pending /\ t.k.key = NoKey
         /\ \A i \in 1 .. Len(t.q.dq) : t.q.dq[i].owner = c => ~t.q.dq[i].armed
<1> DEFINE r == Cancel(s.q, s.k.key)
           j == [s.k EXCEPT !.key = NoKey]
<1>1. /\ s \in Work /\ s.k \in Connection /\ s.q \in Queue
      /\ Mine(s.k, s.q, c) /\ OneAtATime(s.k) /\ s.k.life = "live"
      /\ Frame(timers, s.q, c) /\ NoKey \in Int
  BY DEF Sound, Work, NoKey
<1>2. t = [s EXCEPT !.q = r, !.k = j]
  BY <1>1 DEF CancelDeadline
<1> HIDE DEF r, j
<1>3. /\ r \in Queue /\ Frame(s.q, r, c)
      /\ \A i \in 1 .. Len(r.dq) : r.dq[i].owner = c => ~r.dq[i].armed
  BY <1>1, CancelDisarms DEF r
<1>4. /\ j \in Connection /\ j.key = NoKey /\ Alike(j, s.k) /\ OneAtATime(j)
      /\ j.pending = s.k.pending
  BY <1>1, KeyField DEF j
<1>5. t \in Work /\ t.k = j /\ t.q = r /\ t.failed = s.failed /\ t.left = s.left
  BY <1>1, <1>2, <1>3, <1>4 DEF Work
<1>6. Mine(j, r, c)
  BY <1>3, <1>4, KeylessMine
<1>7. Frame(timers, r, c)
  BY <1>1, <1>3, FrameFrame
<1> QED
  BY <1>1, <1>3, <1>4, <1>5, <1>6, <1>7 DEF Sound, Alike

LEMMA StartSound ==
  ASSUME timers \in Queue, NEW c \in Conns, NEW s, Sound(s, c),
         NEW t, t = StartDeadline(s, c)
  PROVE  /\ Sound(t, c) /\ Armed(t.q, c) /\ t.failed = s.failed /\ t.left = s.left
         /\ Alike(t.k, s.k) /\ t.k.pending = s.k.pending
<1> DEFINE u == CancelDeadline(s)
           r == Enqueue(u.q, c)
           n == KeyOfLast(r)
           j == [u.k EXCEPT !.key = n]
<1>1. /\ Sound(u, c) /\ u.failed = s.failed /\ u.left = s.left
      /\ Alike(u.k, s.k) /\ u.k.pending = s.k.pending
      /\ \A i \in 1 .. Len(u.q.dq) : u.q.dq[i].owner = c => ~u.q.dq[i].armed
  BY CancelSound
<1>2. /\ u \in Work /\ u.k \in Connection /\ u.q \in Queue /\ s.k \in Connection
      /\ OneAtATime(u.k) /\ u.k.life = "live" /\ Frame(timers, u.q, c)
  BY <1>1 DEF Sound, Work
<1>3. t = [[u EXCEPT !.q = r] EXCEPT !.k.key = KeyOfLast([u EXCEPT !.q = r].q)]
  BY DEF StartDeadline
<1> HIDE DEF u
<1>4. [u EXCEPT !.q = r].q = r /\ [u EXCEPT !.q = r].k = u.k
  BY <1>2 DEF Work
<1>5. t = [u EXCEPT !.q = r, !.k = j]
  BY <1>2, <1>3, <1>4 DEF Work
<1> HIDE DEF n, j
<1>6. /\ r \in Queue /\ Frame(u.q, r, c) /\ Armed(r, c) /\ n \in Nat
      /\ \A k : k.key = n => Mine(k, r, c)
  BY <1>1, <1>2, EnqueueArms DEF n
<1> HIDE DEF r
<1>7. j \in Connection /\ j.key = n /\ Alike(j, u.k) /\ OneAtATime(j)
      /\ j.pending = u.k.pending
  BY <1>2, <1>6, KeyField DEF j
<1>8. Alike(j, s.k) /\ j.pending = s.k.pending /\ j.life = "live"
  BY <1>1, <1>2, <1>7 DEF Alike
<1>9. /\ t \in Work /\ t.k = j /\ t.q = r /\ t.failed = s.failed /\ t.left = s.left
  BY <1>1, <1>2, <1>5, <1>6, <1>7 DEF Work
<1>10. Mine(j, r, c)
  BY <1>6, <1>7
<1>11. Frame(timers, r, c)
  BY <1>2, <1>6, FrameFrame
<1> QED
  BY <1>2, <1>6, <1>7, <1>8, <1>9, <1>10, <1>11 DEF Sound

\* A handler may set what the deadlines and the writes do not depend on.
LEMMA OtherSound ==
  ASSUME NEW c, NEW s, Sound(s, c), NEW t \in Work, t.q = s.q,
         Alike(t.k, s.k), t.k.key = s.k.key
  PROVE  Sound(t, c)
BY DEF Sound, Mine, OneAtATime, Alike

LEMMA DoReadSound ==
  ASSUME NEW c, NEW s, Sound(s, c), NEW t, t = DoRead(s)
  PROVE  /\ Sound(t, c) /\ t.q = s.q /\ t.failed = s.failed /\ t.left = s.left
         /\ Alike(t.k, s.k) /\ t.k.pending
<1> DEFINE j == [s.k EXCEPT !.is_reading = TRUE, !.pending = TRUE]
<1>1. s \in Work /\ s.k \in Connection
  BY DEF Sound, Work
<1>2. j \in Connection /\ Alike(j, s.k) /\ j.key = s.k.key /\ j.pending
  BY <1>1 DEF Connection, Alike
<1>3. t = [s EXCEPT !.k = j]
  BY <1>1 DEF DoRead, Connection, Work
<1> HIDE DEF j
<1>4. t \in Work /\ t.k = j /\ t.q = s.q /\ t.failed = s.failed /\ t.left = s.left
  BY <1>1, <1>2, <1>3 DEF Work
<1>5. Sound(t, c)
  BY <1>2, <1>4, OtherSound
<1> QED
  BY <1>2, <1>4, <1>5

\* t is s once the answer a has been begun.
Wrote(t, s, a) ==
  /\ t.failed = s.failed /\ t.left = s.left
  /\ t.k.open = s.k.open /\ t.k.close = s.k.close /\ t.k.late = s.k.late
  /\ t.k.writes = Append(s.k.writes, a)
  /\ t.k.overlapped = (s.k.overlapped \/ s.k.writes # <<>>)

LEMMA DoWriteSound ==
  ASSUME NEW c, NEW s, Sound(s, c), NEW a \in Answer, NEW t, t = DoWrite(s, a)
  PROVE  /\ Sound(t, c) /\ Wrote(t, s, a)
<1> DEFINE over == s.k.overlapped \/ s.k.writes # <<>>
           j == [s.k EXCEPT !.is_writing = TRUE, !.writes = Append(s.k.writes, a),
                            !.overlapped = over]
<1>1. s \in Work /\ s.k \in Connection /\ s.k.writes \in Seq(Answer) /\ s.k.overlapped \in BOOLEAN
  BY DEF Sound, Work, Connection
<1>2. over \in BOOLEAN /\ Append(s.k.writes, a) \in Seq(Answer)
  BY <1>1
<1>3. t = [s EXCEPT !.k = j]
  BY <1>1 DEF DoWrite, Connection, Work
<1> HIDE DEF over
<1>4. j \in Connection
  BY <1>1, <1>2 DEF Connection
<1>5. /\ j.life = s.k.life /\ j.key = s.k.key /\ j.writes = Append(s.k.writes, a)
      /\ j.is_writing = TRUE /\ j.overlapped = over /\ j.open = s.k.open
      /\ j.close = s.k.close /\ j.late = s.k.late
  BY <1>1, <1>2 DEF Connection
<1> HIDE DEF j
<1>6. t \in Work /\ t.k = j /\ t.q = s.q /\ t.failed = s.failed /\ t.left = s.left
  BY <1>1, <1>3, <1>4 DEF Work
<1>7. OneAtATime(j)
  <2>1. CASE over
    BY <1>5, <2>1 DEF OneAtATime
  <2>2. CASE ~over
    <3>1. Len(j.writes) = 1
      BY <1>1, <1>5, <2>2 DEF over
    <3> QED
      BY <1>5, <3>1 DEF OneAtATime
  <2> QED
    BY <2>1, <2>2
<1>8. Mine(j, s.q, c)
  BY <1>5 DEF Sound, Mine
<1> QED
  BY <1>5, <1>6, <1>7, <1>8 DEF Sound, Wrote, over

\* The answer that the response makes.
Made(k) == [code |-> k.res.code,
            body |-> IF k.res.body = "" THEN StatusText(k.res.code) ELSE k.res.body]

LEMMA CompleteRequestSound ==
  ASSUME timers \in Queue, NEW c \in Conns, NEW s, Sound(s, c), NEW v, v = CompleteRequest(s, c)
  PROVE  /\ Sound(v, c)
         /\ s.k.open => Wrote(v, s, Made(s.k))
<1> DEFINE t == [s EXCEPT !.k.needAfter = FALSE]
           body == IF t.k.res.body = "" THEN StatusText(t.k.res.code) ELSE t.k.res.body
           w == [t EXCEPT !.k.copy = body, !.k.res.body = t.k.copy]
           a == [code |-> t.k.res.code, body |-> body]
           u == DoWrite(w, a)
           x == [u EXCEPT !.k.needStart = FALSE]
<1>1. /\ s \in Work /\ s.k \in Connection /\ s.k.res \in Response /\ s.k.copy \in Bodies
      /\ s.k.life = "live"
  BY DEF Sound, Work, Connection
<1>2. /\ t \in Work /\ Sound(t, c) /\ t.q = s.q /\ t.failed = s.failed /\ t.left = s.left
      /\ Alike(t.k, s.k) /\ t.k \in Connection
  <2> DEFINE j == [s.k EXCEPT !.needAfter = FALSE]
  <2>1. j \in Connection /\ Alike(j, s.k) /\ j.key = s.k.key
    BY <1>1 DEF Connection, Alike
  <2>2. t = [s EXCEPT !.k = j]
    BY <1>1 DEF Work
  <2> HIDE DEF j, t
  <2>3. t \in Work /\ t.k = j /\ t.q = s.q /\ t.failed = s.failed /\ t.left = s.left
    BY <1>1, <2>1, <2>2 DEF Work
  <2> QED
    BY <1>1, <2>1, <2>3, OtherSound
<1> HIDE DEF t
<1>3. body \in Bodies /\ a \in Answer /\ a = Made(s.k)
  <2>1. t.k.res.code \in Nat /\ t.k.res.body \in Bodies
    BY <1>1, <1>2 DEF Response, Alike
  <2>2. body \in Bodies
    BY <2>1 DEF StatusText, Bodies
  <2>3. a = Made(s.k)
    BY <1>2 DEF Made, Alike
  <2> HIDE DEF body
  <2> QED
    BY <2>1, <2>2, <2>3 DEF Answer
<1> HIDE DEF body
<1>4. /\ Sound(w, c) /\ w.failed = s.failed /\ w.left = s.left
      /\ w.k.open = s.k.open /\ w.k.close = s.k.close /\ w.k.late = s.k.late
      /\ w.k.writes = s.k.writes /\ w.k.overlapped = s.k.overlapped
  <2> DEFINE p == [t.k.res EXCEPT !.body = t.k.copy]
             j == [t.k EXCEPT !.copy = body, !.res = p]
  <2>1. p \in Response
    BY <1>1, <1>2 DEF Response, Alike
  <2>2. w = [t EXCEPT !.k = j]
    BY <1>2 DEF Work, Connection
  <2> HIDE DEF p
  <2>3. /\ j \in Connection /\ j.life = t.k.life /\ j.key = t.k.key
        /\ j.is_writing = t.k.is_writing /\ j.open = t.k.open
        /\ j.close = t.k.close /\ j.late = t.k.late /\ j.writes = t.k.writes
        /\ j.overlapped = t.k.overlapped
    BY <1>2, <1>3, <2>1 DEF Connection
  <2> HIDE DEF j, w
  <2>4. w \in Work /\ w.k = j /\ w.q = t.q /\ w.failed = t.failed /\ w.left = t.left
    BY <1>2, <2>2, <2>3 DEF Work
  <2>5. Sound(w, c)
    BY <1>2, <2>3, <2>4 DEF Sound, Mine, OneAtATime
  <2> QED
    BY <1>2, <2>3, <2>4, <2>5 DEF Alike
<1> HIDE DEF w, a
<1>5. Sound(u, c) /\ Wrote(u, w, a)
  BY <1>3, <1>4, DoWriteSound
<1>6. Wrote(u, s, Made(s.k))
  BY <1>3, <1>4, <1>5 DEF Wrote
<1> HIDE DEF u
<1>7. v = IF ~s.k.open THEN t
          ELSE IF t.k.needStart THEN DoRead(StartDeadline(x, c)) ELSE u
  BY DEF CompleteRequest, t, body, w, a, u
<1>8. CASE s.k.open /\ t.k.needStart
  <2>1. /\ Sound(x, c) /\ Wrote(x, s, Made(s.k))
    <3> DEFINE j == [u.k EXCEPT !.needStart = FALSE]
    <3>1. u \in Work /\ u.k \in Connection /\ u.k.life = "live"
      BY <1>5 DEF Sound, Work
    <3>2. j \in Connection /\ Alike(j, u.k) /\ j.key = u.k.key
      BY <3>1 DEF Connection, Alike
    <3>3. x = [u EXCEPT !.k = j]
      BY <3>1 DEF Work
    <3> HIDE DEF j, x
    <3>4. x \in Work /\ x.k = j /\ x.q = u.q /\ x.failed = u.failed /\ x.left = u.left
      BY <3>1, <3>2, <3>3 DEF Work
    <3>5. Sound(x, c)
      BY <1>5, <3>1, <3>2, <3>4, OtherSound
    <3> QED
      BY <1>6, <3>2, <3>4, <3>5 DEF Wrote, Alike
  <2> DEFINE y == StartDeadline(x, c)
             z == DoRead(y)
  <2> HIDE DEF x
  <2>2. /\ Sound(y, c) /\ y.failed = x.failed /\ y.left = x.left /\ Alike(y.k, x.k)
    BY <2>1, StartSound
  <2> HIDE DEF y
  <2>3. /\ Sound(z, c) /\ z.failed = y.failed /\ z.left = y.left /\ Alike(z.k, y.k)
    BY <2>2, DoReadSound
  <2> HIDE DEF z
  <2>7. Wrote(z, s, Made(s.k))
    BY <2>1, <2>2, <2>3 DEF Wrote, Alike
  <2>8. v = z
    BY <1>7, <1>8 DEF z, y
  <2> QED
    BY <2>3, <2>7, <2>8
<1> QED
  BY <1>2, <1>5, <1>6, <1>7, <1>8

-----------------------------------------------------------------------------
(***************************************************************************)
(* Reading the parts of a buffer.  n is the peer as the read finds it.     *)
(***************************************************************************)
Good(s, c, n) ==
  /\ Sound(s, c)
  /\ InOrder(s.k, n)
  /\ s.k.late => s.k.overlapped
  /\ n.waits => ~s.k.overlapped

LEMMA AlikeGood ==
  ASSUME NEW c, NEW n, NEW s, NEW t, Good(s, c, n), Sound(t, c), Alike(t.k, s.k)
  PROVE  Good(t, c, n) /\ \A b : UpToDate(s.k, n, b) => UpToDate(t.k, n, b)
BY DEF Good, InOrder, UpToDate, Alike, AnswerInFlight, ContinueInFlight

LEMMA SameAnswers ==
  ASSUME NEW n, NEW b, NEW k, NEW j, UpToDate(k, n, b),
         j.writes = k.writes, j.overlapped = k.overlapped, j.res = k.res, j.copy = k.copy
  PROVE  UpToDate(j, n, b)
BY DEF UpToDate, AnswerInFlight, ContinueInFlight

LEMMA OwnAnswer ==
  ASSUME NEW r \in Request, ~Upgrade(r)
  PROVE  Own(r) \in Answer /\ Own(r).code # 100
<1>1. r.route \in {"page", "missing", "nohost"}
  BY DEF Request, Routes, Upgrade
<1>2. CASE r.route = "page"
  BY <1>2 DEF Own, Answer, Bodies
<1>3. CASE r.route = "missing"
  BY <1>3 DEF Own, Answer, Bodies
<1>4. CASE r.route = "nohost"
  BY <1>4 DEF Own, Answer, Bodies
<1> QED
  BY <1>1, <1>2, <1>3, <1>4

LEMMA Halves ==
  ASSUME NEW b \in Nat
  PROVE  /\ b \div 2 \in Nat /\ b % 2 \in {0, 1} /\ b = 2 * (b \div 2) + (b % 2)
         /\ b % 2 = 0 => (b + 1) \div 2 = b \div 2 /\ (b + 1) % 2 = 1
         /\ b % 2 = 1 => (b + 1) \div 2 = b \div 2 + 1 /\ (b + 1) % 2 = 0
OBVIOUS

LEMMA NothingInFlight ==
  ASSUME NEW k, NEW n \in PeerState, NEW b, UpToDate(k, n, b), k.writes = <<>>,
         ~k.overlapped, ~n.broken
  PROVE  Len(n.answers) = b \div 2
<1>1. ~AnswerInFlight(k)
  BY DEF AnswerInFlight
<1>2. Len(n.answers) + 0 = b \div 2
  BY <1>1 DEF UpToDate
<1> QED
  BY <1>2 DEF PeerState

\* The answer to the request that the part after b ends.
LEMMA AnswerBegun ==
  ASSUME NEW c, NEW n \in PeerState, NEW b \in Nat, b % 2 = 1, b + 1 <= 2 * Len(n.script),
         ~Upgrade(n.script[b \div 2 + 1]),
         NEW s, Good(s, c, n), s.k.open, UpToDate(s.k, n, b), n.waits => s.k.writes = <<>>,
         NEW a, s.k.writes = <<>> /\ ~s.k.overlapped => a = Own(n.script[b \div 2 + 1]),
         NEW t, Sound(t, c), Wrote(t, s, a)
  PROVE  Good(t, c, n) /\ t.k.open /\ UpToDate(t.k, n, b + 1)
<1> DEFINE i == b \div 2 + 1
<1>1. /\ n.script \in Seq(Request) /\ n.answers \in Seq(Answer) /\ n.broken \in BOOLEAN
      /\ s.k.writes \in Seq(Answer) /\ s.k.overlapped \in BOOLEAN
      /\ t.k.overlapped \in BOOLEAN
  BY DEF PeerState, Good, Sound, Work, Connection
<1>2. i \in 1 .. Len(n.script) /\ n.script[i] \in Request /\ (b + 1) \div 2 = i
  BY <1>1
<1>3. n.waits => ~t.k.overlapped
  BY DEF Good, Wrote
<1>4. t.k.late => t.k.overlapped
  BY DEF Good, Wrote
<1>5. CASE t.k.overlapped
  BY <1>3, <1>4, <1>5 DEF Good, InOrder, UpToDate, Wrote
<1>6. CASE ~t.k.overlapped
  <2>1. s.k.writes = <<>> /\ ~s.k.overlapped
    BY <1>6 DEF Wrote
  <2>2. a = Own(n.script[i]) /\ a \in Answer /\ a.code # 100
    BY <1>2, <2>1, OwnAnswer
  <2>3. t.k.writes # <<>> /\ t.k.writes[1] = a
    BY <2>1 DEF Wrote
  <2>4. ~n.broken => Len(n.answers) = b \div 2
    BY <2>1, NothingInFlight
  <2>5. Answers(n, i, a)
    BY <1>2, <2>2 DEF Answers
  <2>6. InOrder(t.k, n)
    BY <1>1, <2>1, <2>3, <2>4, <2>5 DEF Good, InOrder
  <2>7. UpToDate(t.k, n, b + 1)
    BY <1>1, <1>2, <2>2, <2>3, <2>4 DEF UpToDate, AnswerInFlight, ContinueInFlight
  <2> QED
    BY <1>3, <1>4, <2>6, <2>7 DEF Good, Wrote
<1> QED
  BY <1>1, <1>5, <1>6

\* The word to continue with the request that the part after b begins.
LEMMA ContinueBegun ==
  ASSUME NEW c \in Conns, NEW n \in PeerState, NEW b \in Nat, b % 2 = 0, b + 1 <= 2 * Len(n.script),
         n.script[b \div 2 + 1].expect,
         NEW s, Good(s, c, n), s.k.open, UpToDate(s.k, n, b), n.waits => s.k.writes = <<>>,
         NEW a, a.code = 100, NEW t, Sound(t, c), Wrote(t, s, a)
  PROVE  Good(t, c, n) /\ t.k.open /\ UpToDate(t.k, n, b + 1)
<1>1. /\ n.answers \in Seq(Answer) /\ n.broken \in BOOLEAN
      /\ s.k.writes \in Seq(Answer) /\ s.k.overlapped \in BOOLEAN
      /\ t.k.overlapped \in BOOLEAN
  BY DEF PeerState, Good, Sound, Work, Connection
<1>2. (b + 1) \div 2 = b \div 2 /\ (b + 1) % 2 = 1
  BY Halves
<1>3. n.waits => ~t.k.overlapped
  BY DEF Good, Wrote
<1>4. t.k.late => t.k.overlapped
  BY DEF Good, Wrote
<1>5. CASE t.k.overlapped
  BY <1>3, <1>4, <1>5 DEF Good, InOrder, UpToDate, Wrote
<1>6. CASE ~t.k.overlapped
  <2>1. s.k.writes = <<>> /\ ~s.k.overlapped
    BY <1>6 DEF Wrote
  <2>6. t.k.writes # <<>> /\ t.k.writes[1] = a
    BY <2>1 DEF Wrote
  <2>2. t.k.writes # <<>> /\ t.k.writes[1].code = 100
    BY <2>6
  <2>3. ~n.broken => Len(n.answers) = b \div 2
    BY <2>1, NothingInFlight
  <2>4. InOrder(t.k, n)
    BY <2>1, <2>2 DEF Good, InOrder, AnswerInFlight
  <2>5. UpToDate(t.k, n, b + 1)
    <3>1. ~AnswerInFlight(t.k)
      BY <2>2 DEF AnswerInFlight
    <3>2. ~n.broken => Len(n.answers) + 0 = (b + 1) \div 2
      <4>1. Len(n.answers) \in Nat
        BY <1>1
      <4> QED
        BY <1>2, <2>3, <4>1
    <3>3. (b + 1) % 2 = 1 /\ n.script[(b + 1) \div 2 + 1].expect
      BY <1>2
    <3> QED
      BY <2>2, <3>1, <3>2, <3>3 DEF UpToDate
  <2> QED
    BY <1>3, <1>4, <2>4, <2>5 DEF Good, Wrote
<1> QED
  BY <1>1, <1>5, <1>6

\* A handler may change its connection as long as the deadline and the writes stay.
LEMMA ConnectionSet ==
  ASSUME NEW c, NEW n, NEW s, Good(s, c, n), NEW j \in Connection,
         j.life = s.k.life, j.key = s.k.key, j.late = s.k.late, j.writes = s.k.writes,
         j.is_writing = s.k.is_writing, j.overlapped = s.k.overlapped,
         NEW t, t = [s EXCEPT !.k = j]
  PROVE  Good(t, c, n) /\ t.k = j /\ t.failed = s.failed /\ t.left = s.left
<1>1. s \in Work
  BY DEF Good, Sound
<1>2. t \in Work /\ t.k = j /\ t.q = s.q /\ t.failed = s.failed /\ t.left = s.left
  BY <1>1 DEF Work
<1>3. Sound(t, c)
  BY <1>2 DEF Good, Sound, Mine, OneAtATime
<1> QED
  BY <1>2, <1>3 DEF Good, InOrder, AnswerInFlight

LEMMA StatusTexts == StatusText(400) = "status" /\ StatusText(404) = "status"
BY DEF StatusText

LEMMA RoutedResponse ==
  ASSUME NEW r, r.route \in {"page", "missing"}
  PROVE  Routed(r) \in Response
<1>1. CASE r.route = "page"
  BY <1>1 DEF Routed, Response, Bodies
<1>2. CASE r.route = "missing"
  BY <1>2 DEF Routed, Response, Bodies
<1> QED
  BY <1>1, <1>2

LEMMA RoutedAnswer ==
  ASSUME NEW r, r.route \in {"page", "missing"}, NEW k, k.res = Routed(r)
  PROVE  Made(k) = Own(r)
<1>1. CASE r.route = "page"
  <2> DEFINE e == [code |-> 200, body |-> "page", completed |-> TRUE]
  <2>1. Routed(r) = e
    BY <1>1 DEF Routed
  <2>2. e \in Response /\ e.code = 200 /\ e.body = "page"
    BY DEF Response, Bodies
  <2> HIDE DEF e
  <2>3. k.res.code = 200 /\ k.res.body = "page"
    BY <2>1, <2>2
  <2>4. Own(r) = [code |-> 200, body |-> "page"]
    BY <1>1 DEF Own
  <2>5. Made(k) = [code |-> 200, body |-> "page"]
    BY <2>3 DEF Made
  <2> QED
    BY <2>1, <2>2, <2>4, <2>5
<1>2. CASE r.route = "missing"
  <2> DEFINE e == [code |-> 404, body |-> "", completed |-> TRUE]
  <2>1. Routed(r) = e
    BY <1>2 DEF Routed
  <2>2. e \in Response /\ e.code = 404 /\ e.body = ""
    BY DEF Response, Bodies
  <2> HIDE DEF e
  <2>3. k.res.code = 404 /\ k.res.body = ""
    BY <2>1, <2>2
  <2>4. Own(r) = [code |-> 404, body |-> "status"]
    BY <1>2 DEF Own
  <2>5. Made(k) = [code |-> 404, body |-> "status"]
    BY <2>3, StatusTexts DEF Made
  <2> QED
    BY <2>1, <2>2, <2>4, <2>5
<1> QED
  BY <1>1, <1>2

LEMMA HandleGood ==
  ASSUME timers \in Queue, NEW c \in Conns, NEW n \in PeerState,
         NEW b \in Nat, b % 2 = 1, b + 1 <= 2 * Len(n.script),
         NEW r, r = n.script[b \div 2 + 1],
         NEW s, Good(s, c, n), s.k.open, UpToDate(s.k, n, b), n.waits => s.k.writes = <<>>,
         NEW v, v = Handle(s, r, c)
  PROVE  /\ Good(v, c, n) /\ v.failed = s.failed /\ v.left = s.left
         /\ IF Upgrade(r) THEN v.k.close ELSE v.k.open /\ UpToDate(v.k, n, b + 1)
<1> DEFINE u == CancelDeadline(s)
           cl == u.k.close \/ r.close
           hd == u.k.handled + 1
           j == [u.k EXCEPT !.close = cl, !.handled = hd]
           t == Begin(s, r)
<1>1. r \in Request
  BY DEF PeerState
<1>2. /\ Good(u, c, n) /\ u.failed = s.failed /\ u.left = s.left
      /\ u.k.open /\ UpToDate(u.k, n, b) /\ u.k.writes = s.k.writes
      /\ u \in Work /\ u.k \in Connection
  <2>1. Sound(u, c) /\ u.failed = s.failed /\ u.left = s.left /\ Alike(u.k, s.k)
    BY CancelSound DEF Good
  <2>2. u.k.open /\ u.k.writes = s.k.writes
    BY <2>1 DEF Alike
  <2>3. u \in Work /\ u.k \in Connection
    BY <2>1 DEF Sound, Work
  <2> HIDE DEF u
  <2> QED
    BY <2>1, <2>2, <2>3, AlikeGood
<1>3. t = [u EXCEPT !.k = j]
  BY <1>2 DEF Begin, Connection, Work
<1> HIDE DEF u, t
<1>4. /\ j \in Connection /\ j.life = u.k.life /\ j.key = u.k.key /\ j.late = u.k.late
      /\ j.writes = u.k.writes /\ j.is_writing = u.k.is_writing
      /\ j.overlapped = u.k.overlapped /\ j.open = u.k.open /\ j.res = u.k.res
      /\ j.copy = u.k.copy
  <2>1. cl \in BOOLEAN /\ hd \in Nat
    BY <1>1, <1>2 DEF Connection, Request
  <2> HIDE DEF cl, hd
  <2> QED
    BY <1>2, <2>1 DEF Connection
<1> HIDE DEF j
<1>5. Good(t, c, n) /\ t.k = j /\ t.failed = s.failed /\ t.left = s.left
  BY <1>2, <1>3, <1>4, ConnectionSet
<1>6. UpToDate(t.k, n, b) /\ t.k.open /\ t.k.writes = s.k.writes
  BY <1>2, <1>4, <1>5, SameAnswers
<1>7. t \in Work /\ t.k \in Connection
  BY <1>5 DEF Good, Sound, Work
\* The response w has been given is completed.
<1>8. ASSUME NEW w, Good(w, c, n), w.failed = t.failed, w.left = t.left,
             w.k.open = t.k.open, w.k.close = t.k.close, w.k.late = t.k.late,
             w.k.writes = t.k.writes, w.k.overlapped = t.k.overlapped,
             t.k.writes = <<>> /\ ~t.k.overlapped => Made(w.k) = Own(r),
             v = CompleteRequest(w, c), ~Upgrade(r)
      PROVE  /\ Good(v, c, n) /\ v.failed = s.failed /\ v.left = s.left
             /\ v.k.open /\ UpToDate(v.k, n, b + 1)
  <2>1. Sound(w, c) /\ w.k.open
    BY <1>6, <1>8 DEF Good
  <2>2. Sound(v, c) /\ Wrote(v, w, Made(w.k))
    BY <1>8, <2>1, CompleteRequestSound
  <2>3. Wrote(v, t, Made(w.k)) /\ v.failed = s.failed /\ v.left = s.left
    BY <1>5, <1>8, <2>2 DEF Wrote
  <2>4. n.waits => t.k.writes = <<>>
    BY <1>6
  <2> QED
    BY <1>5, <1>6, <1>8, <2>2, <2>3, <2>4, AnswerBegun
<1>9. CASE r.route = "ws"
  <2> DEFINE i == [t.k EXCEPT !.close = TRUE, !.open = FALSE, !.moved = TRUE]
  <2>1. v = [t EXCEPT !.k.close = TRUE, !.k.open = FALSE, !.k.moved = TRUE]
    BY <1>9 DEF Handle, t
  <2>2. v = [t EXCEPT !.k = i]
    BY <1>7, <2>1 DEF Work, Connection
  <2>3. /\ i \in Connection /\ i.life = t.k.life /\ i.key = t.k.key /\ i.late = t.k.late
        /\ i.writes = t.k.writes /\ i.is_writing = t.k.is_writing
        /\ i.overlapped = t.k.overlapped /\ i.close = TRUE
    BY <1>7 DEF Connection
  <2> HIDE DEF i
  <2> QED
    BY <1>5, <1>9, <2>2, <2>3, ConnectionSet DEF Upgrade
<1>10. CASE r.route = "nows"
  <2> DEFINE p == [code |-> 404, body |-> "", completed |-> TRUE]
             i == [t.k EXCEPT !.close = TRUE, !.res = p]
  <2>1. p \in Response
    BY DEF Response, Bodies
  <2>2. v = [t EXCEPT !.k.close = TRUE, !.k.res = p]
    BY <1>10 DEF Handle, t
  <2> HIDE DEF p
  <2>3. v = [t EXCEPT !.k = i]
    BY <1>7, <2>2 DEF Work, Connection
  <2>4. /\ i \in Connection /\ i.life = t.k.life /\ i.key = t.k.key /\ i.late = t.k.late
        /\ i.writes = t.k.writes /\ i.is_writing = t.k.is_writing
        /\ i.overlapped = t.k.overlapped /\ i.close = TRUE
    BY <1>7, <2>1 DEF Connection
  <2> HIDE DEF i
  <2> QED
    BY <1>5, <1>10, <2>3, <2>4, ConnectionSet DEF Upgrade
<1>11. CASE r.route = "nohost"
  <2> DEFINE p == [code |-> 400, body |-> "", completed |-> FALSE]
             i == [t.k EXCEPT !.needAfter = FALSE, !.res = p]
             w == [t EXCEPT !.k = i]
  <2>1. p \in Response /\ p.code = 400 /\ p.body = ""
    BY DEF Response, Bodies
  <2>2. v = CompleteRequest([t EXCEPT !.k.needAfter = FALSE, !.k.res = p], c)
    BY <1>11 DEF BadRequest, Handle, t
  <2> HIDE DEF p
  <2>3. w = [t EXCEPT !.k.needAfter = FALSE, !.k.res = p]
    BY <1>7 DEF Work, Connection
  <2>4. /\ i \in Connection /\ i.life = t.k.life /\ i.key = t.k.key /\ i.late = t.k.late
        /\ i.writes = t.k.writes /\ i.is_writing = t.k.is_writing /\ i.res = p
        /\ i.overlapped = t.k.overlapped /\ i.close = t.k.close /\ i.open = t.k.open
    BY <1>7, <2>1 DEF Connection
  <2> HIDE DEF i
  <2>5. Good(w, c, n) /\ w.k = i /\ w.failed = t.failed /\ w.left = t.left
    BY <1>5, <2>4, ConnectionSet
  <2>6. Made(w.k) = Own(r)
    <3>1. w.k.res.code = 400 /\ w.k.res.body = ""
      BY <2>1, <2>4, <2>5
    <3>2. Made(w.k) = [code |-> 400, body |-> "status"]
      BY <3>1, StatusTexts DEF Made
    <3> QED
      BY <1>11, <3>2 DEF Own
  <2>7. ~Upgrade(r) /\ v = CompleteRequest(w, c)
    BY <1>11, <2>2, <2>3 DEF Upgrade
  <2> HIDE DEF w
  <2> QED
    BY <1>8, <2>4, <2>5, <2>6, <2>7
<1>12. CASE r.route \in {"page", "missing"} /\ t.k.res.completed
  <2> DEFINE i == [t.k EXCEPT !.needAfter = FALSE]
             w == [t EXCEPT !.k = i]
  <2>2. v = CompleteRequest([t EXCEPT !.k.needAfter = FALSE], c)
    BY <1>12 DEF Handle, t
  <2>3. w = [t EXCEPT !.k.needAfter = FALSE]
    BY <1>7 DEF Work, Connection
  <2>4. /\ i \in Connection /\ i.life = t.k.life /\ i.key = t.k.key /\ i.late = t.k.late
        /\ i.writes = t.k.writes /\ i.is_writing = t.k.is_writing
        /\ i.overlapped = t.k.overlapped /\ i.close = t.k.close /\ i.open = t.k.open
    BY <1>7 DEF Connection
  <2> HIDE DEF i
  <2>5. Good(w, c, n) /\ w.k = i /\ w.failed = t.failed /\ w.left = t.left
    BY <1>5, <2>4, ConnectionSet
  <2>6. t.k.writes # <<>> \/ t.k.overlapped
    <3>1. ~FreshResponse.completed
      BY DEF FreshResponse
    <3>2. t.k.res # FreshResponse
      BY <1>12, <3>1
    <3> QED
      BY <1>6, <3>2 DEF UpToDate
  <2>7. ~Upgrade(r) /\ v = CompleteRequest(w, c)
    BY <1>12, <2>2, <2>3 DEF Upgrade
  <2> HIDE DEF w
  <2> QED
    BY <1>8, <2>4, <2>5, <2>6, <2>7
<1>13. CASE r.route \in {"page", "missing"} /\ ~t.k.res.completed
  <2> DEFINE p == Routed(r)
             i == [t.k EXCEPT !.needAfter = TRUE, !.res = p]
             w == [t EXCEPT !.k = i]
  <2>0. p = Routed(r)
    OBVIOUS
  <2> HIDE DEF p
  <2>1. p \in Response
    BY <1>13, <2>0, RoutedResponse
  <2>2. v = CompleteRequest([t EXCEPT !.k.needAfter = TRUE, !.k.res = p], c)
    BY <1>13, <2>0 DEF Handle, t
  <2>3. w = [t EXCEPT !.k.needAfter = TRUE, !.k.res = p]
    BY <1>7 DEF Work, Connection
  <2>4. /\ i \in Connection /\ i.life = t.k.life /\ i.key = t.k.key /\ i.late = t.k.late
        /\ i.writes = t.k.writes /\ i.is_writing = t.k.is_writing /\ i.res = p
        /\ i.overlapped = t.k.overlapped /\ i.close = t.k.close /\ i.open = t.k.open
    BY <1>7, <2>1 DEF Connection
  <2> HIDE DEF i
  <2>5. Good(w, c, n) /\ w.k = i /\ w.failed = t.failed /\ w.left = t.left
    BY <1>5, <2>4, ConnectionSet
  <2>6. Made(w.k) = Own(r)
    BY <1>13, <2>0, <2>4, <2>5, RoutedAnswer
  <2>7. ~Upgrade(r) /\ v = CompleteRequest(w, c)
    BY <1>13, <2>2, <2>3 DEF Upgrade
  <2> HIDE DEF w
  <2> QED
    BY <1>8, <2>4, <2>5, <2>6, <2>7
<1>14. r.route \in {"page", "missing", "nohost", "ws", "nows"}
  BY <1>1 DEF Request, Routes
<1> QED
  BY <1>9, <1>10, <1>11, <1>12, <1>13, <1>14

\* s is what the parser has made of the parts up to b: it has refused one, it has given
\* the connection up to an upgrade, or it is where the parts say.
FedTo(s, c, n, b) ==
  /\ Good(s, c, n)
  /\ ~s.failed => IF s.left THEN s.k.close ELSE s.k.open /\ UpToDate(s.k, n, b)

LEMMA PartFed ==
  ASSUME timers \in Queue, NEW c \in Conns, NEW n \in PeerState,
         NEW b \in Nat, b + 1 <= 2 * Len(n.script),
         NEW s, FedTo(s, c, n, b), n.waits => s.k.writes = <<>>,
         NEW t, t = FeedPart(s, PartOf(b + 1), n.script, c)
  PROVE  /\ FedTo(t, c, n, b + 1)
         /\ b % 2 = 0 /\ ~n.script[b \div 2 + 1].expect => t.k.writes = s.k.writes
<1> DEFINE r == n.script[b \div 2 + 1]
<1>1. s \in Work /\ s.k \in Connection /\ Good(s, c, n) /\ Sound(s, c)
  BY DEF FedTo, Good, Sound, Work
<1>2. r \in Request
  <2>1. b \div 2 + 1 \in 1 .. Len(n.script)
    BY DEF PeerState
  <2> QED
    BY <2>1 DEF PeerState
<1>3. CASE s.failed \/ s.k.dead \/ s.left
  <2>1. t = [s EXCEPT !.failed = TRUE]
    BY <1>3 DEF FeedPart
  <2>2. t \in Work /\ t.k = s.k /\ t.q = s.q /\ t.failed
    BY <1>1, <2>1 DEF Work
  <2>3. Good(t, c, n)
    BY <1>1, <2>2 DEF Good, Sound
  <2> QED
    BY <2>2, <2>3 DEF FedTo
<1>4. CASE ~(s.failed \/ s.k.dead \/ s.left)
  <2> DEFINE p == PartOf(b + 1)
  <2>1. p.n = b \div 2 + 1 /\ p.what = IF b % 2 = 0 THEN "head" ELSE "end"
    BY DEF PartOf
  <2>2. t = IF b % 2 = 0 THEN HandleHeader(s, r)
            ELSE [Handle(s, r, c) EXCEPT !.k.dead = r.last, !.left = Upgrade(r)]
    <3> HIDE DEF p
    <3>1. t = IF p.what = "head" THEN HandleHeader(s, n.script[p.n])
              ELSE [Handle(s, n.script[p.n], c) EXCEPT !.k.dead = n.script[p.n].last,
                                                       !.left = Upgrade(n.script[p.n])]
      BY <1>4 DEF FeedPart, p
    <3> QED
      BY <2>1, <3>1
  <2>3. s.k.open /\ UpToDate(s.k, n, b)
    BY <1>4 DEF FedTo
  <2> HIDE DEF p, r
  <2>4. CASE b % 2 = 0 /\ r.expect
    <3> DEFINE a == [code |-> 100, body |-> ""]
    <3>1. a \in Answer /\ a.code = 100
      BY DEF Answer, Bodies
    <3>2. t = DoWrite(s, a)
      BY <2>2, <2>4 DEF HandleHeader
    <3> HIDE DEF a
    <3>3. Sound(t, c) /\ Wrote(t, s, a)
      BY <1>1, <3>1, <3>2, DoWriteSound
    <3>4. Good(t, c, n) /\ t.k.open /\ UpToDate(t.k, n, b + 1)
      <4>1. b % 2 = 0
        BY <2>4
      <4>2. n.script[b \div 2 + 1].expect
        BY <2>4 DEF r
      <4> QED
        BY <1>1, <2>3, <3>1, <3>3, <4>1, <4>2, ContinueBegun
    <3>5. t.left = s.left
      BY <3>3 DEF Wrote
    <3> QED
      BY <1>4, <2>4, <3>4, <3>5 DEF FedTo, r
  <2>5. CASE b % 2 = 0 /\ ~r.expect
    <3>1. t = s
      BY <2>2, <2>5 DEF HandleHeader
    <3>2. ~s.k.overlapped => ~ContinueInFlight(s.k)
      <4>1. ~s.k.overlapped /\ ContinueInFlight(s.k) => b % 2 = 1
        BY <2>3 DEF UpToDate
      <4>2. b % 2 # 1
        BY <2>5
      <4> QED
        BY <4>1, <4>2
    <3>3. (b + 1) \div 2 = b \div 2
      BY <2>5, Halves
    <3>4. UpToDate(s.k, n, b + 1)
      BY <2>3, <3>2, <3>3 DEF UpToDate
    <3> QED
      BY <1>1, <1>4, <2>3, <3>1, <3>4 DEF FedTo
  <2>6. CASE b % 2 = 1
    <3> DEFINE v == Handle(s, r, c)
               j == [v.k EXCEPT !.dead = r.last]
               u == [v EXCEPT !.k = j]
    <3>1. /\ Good(v, c, n) /\ v.failed = s.failed /\ v.left = s.left
          /\ IF Upgrade(r) THEN v.k.close ELSE v.k.open /\ UpToDate(v.k, n, b + 1)
      BY <1>1, <2>3, <2>6, HandleGood DEF r
    <3> HIDE DEF v
    <3>2. v \in Work /\ v.k \in Connection /\ r.last \in BOOLEAN /\ Upgrade(r) \in BOOLEAN
      BY <1>2, <3>1 DEF Good, Sound, Work, Request, Upgrade
    <3>3. /\ j \in Connection /\ j.life = v.k.life /\ j.key = v.k.key /\ j.late = v.k.late
          /\ j.writes = v.k.writes /\ j.is_writing = v.k.is_writing /\ j.res = v.k.res
          /\ j.copy = v.k.copy
          /\ j.overlapped = v.k.overlapped /\ j.open = v.k.open /\ j.close = v.k.close
      BY <3>2 DEF Connection
    <3>4. t = [v EXCEPT !.k.dead = r.last, !.left = Upgrade(r)]
      BY <2>2, <2>6 DEF v
    <3>5. t = [u EXCEPT !.left = Upgrade(r)]
      BY <3>2, <3>4 DEF Work, Connection
    <3> HIDE DEF j
    <3>6. Good(u, c, n) /\ u.k = j /\ u.failed = v.failed
      BY <3>1, <3>3, ConnectionSet
    <3> HIDE DEF u
    <3>7. u \in Work
      BY <3>6 DEF Good, Sound
    <3>8. t \in Work /\ t.k = j /\ t.q = u.q /\ t.failed = u.failed /\ t.left = Upgrade(r)
      BY <3>2, <3>5, <3>6, <3>7 DEF Work
    <3>9. Good(t, c, n)
      BY <3>6, <3>8 DEF Good, Sound
    <3>10. IF t.left THEN t.k.close ELSE t.k.open /\ UpToDate(t.k, n, b + 1)
      <4>1. CASE Upgrade(r)
        BY <3>1, <3>3, <3>8, <4>1
      <4>2. CASE ~Upgrade(r)
        BY <3>1, <3>3, <3>8, <4>2, SameAnswers
      <4> QED
        BY <4>1, <4>2
    <3> QED
      BY <2>6, <3>9, <3>10 DEF FedTo
  <2> QED
    BY <2>4, <2>5, <2>6, Halves
<1> QED
  BY <1>3, <1>4

LEMMA TwoLess ==
  ASSUME NEW n \in Nat, n % 2 = 0, NEW b \in Nat, b = n - 2
  PROVE  b % 2 = 0 /\ b \div 2 + 1 = n \div 2
OBVIOUS

LEMMA TwoParts ==
  ASSUME NEW i \in Nat, NEW k \in Nat, i + 1 < k, k <= 2
  PROVE  i = 0 /\ k = 2
OBVIOUS

\* Fed is what its definition says: there is such a function.
LEMMA FedDefined ==
  ASSUME NEW s, NEW parts, NEW script, NEW c, Len(parts) \in Nat,
         NEW after, after = Fed(s, parts, script, c)
  PROVE  /\ after[0] = s
         /\ \A i \in 1 .. Len(parts) : after[i] = FeedPart(after[i - 1], parts[i], script, c)
<1> DEFINE Upto(f, n) == f = [i \in 0 .. n |-> IF i = 0 THEN s
                                               ELSE FeedPart(f[i - 1], parts[i], script, c)]
           S == {n \in Nat : \E f : Upto(f, n)}
<1>1. 0 \in S
  <2> DEFINE f == [i \in 0 .. 0 |-> s]
  <2>1. Upto(f, 0)
    OBVIOUS
  <2> QED
    BY <2>1
<1>2. ASSUME NEW n \in Nat, n \in S PROVE n + 1 \in S
  <2>1. PICK f : Upto(f, n)
    BY <1>2
  <2> DEFINE g == [i \in 0 .. (n + 1) |->
                     IF i <= n THEN f[i] ELSE FeedPart(f[n], parts[n + 1], script, c)]
             h == [i \in 0 .. (n + 1) |->
                     IF i = 0 THEN s ELSE FeedPart(g[i - 1], parts[i], script, c)]
  <2>2. ASSUME NEW i \in 0 .. (n + 1)
        PROVE  g[i] = IF i = 0 THEN s ELSE FeedPart(g[i - 1], parts[i], script, c)
    <3>1. CASE i = n + 1
      <4>1. i - 1 \in 0 .. (n + 1) /\ i - 1 = n /\ i # 0 /\ ~(i <= n)
        BY <3>1
      <4>2. g[i - 1] = f[n]
        BY <4>1
      <4> QED
        BY <4>1, <4>2
    <3>2. CASE i <= n
      <4>1. f[i] = IF i = 0 THEN s ELSE FeedPart(f[i - 1], parts[i], script, c)
        BY <2>1, <3>2
      <4>2. i # 0 => g[i - 1] = f[i - 1]
        BY <3>2
      <4>3. g[i] = f[i]
        BY <3>2
      <4> QED
        BY <4>1, <4>2, <4>3
    <3> QED
      BY <3>1, <3>2
  <2>3. g = h
    <3>1. g = [i \in 0 .. (n + 1) |-> g[i]]
      OBVIOUS
    <3> HIDE DEF g
    <3>2. \A i \in 0 .. (n + 1) : g[i] = h[i]
      BY <2>2
    <3> QED
      BY <3>1, <3>2
  <2>4. Upto(g, n + 1)
    BY <2>3
  <2> HIDE DEF g, h, Upto
  <2> QED
    BY <2>4
<1>3. \E f : Upto(f, Len(parts))
  <2>1. Len(parts) \in S
    <3> HIDE DEF S
    <3> QED
      BY <1>1, <1>2, SetInduction
  <2> QED
    BY <2>1
<1>4. Fed(s, parts, script, c) = CHOOSE f : Upto(f, Len(parts))
  BY DEF Fed
<1>5. Upto(CHOOSE f : Upto(f, Len(parts)), Len(parts))
  <2> HIDE DEF Upto
  <2> QED
    BY <1>3
<1>6. Upto(Fed(s, parts, script, c), Len(parts))
  <2> HIDE DEF Upto
  <2> QED
    BY <1>4, <1>5
<1>7. Upto(after, Len(parts))
  <2> HIDE DEF Upto
  <2> QED
    BY <1>6
<1> QED
  BY <1>7

\* The parts p are the first of q.
Begins(p, q) == Len(p) \in 1 .. Len(q) /\ \A i \in 1 .. Len(p) : p[i] = q[i]

LEMMA BufferFed ==
  ASSUME timers \in Queue, NEW c \in Conns, NEW n \in PeerState, SocketInv(n),
         NEW s, FedTo(s, c, n, Taken(n)), WaitsForAnswer(s.k, n),
         NEW parts, Begins(parts, n.socket), NEW m, m = Len(parts),
         NEW t, t = FeedBuffer(s, parts, n.script, c)
  PROVE  /\ FedTo(t, c, n, Taken(n) + m)
         /\ n.waits /\ m < Len(n.socket) => t.k.writes = <<>>
<1> DEFINE b == Taken(n)
           after == Fed(s, parts, n.script, c)
           S == {i \in Nat : i <= m => /\ FedTo(after[i], c, n, b + i)
                                       /\ n.waits /\ i < Len(n.socket) => after[i].k.writes = <<>>}
<1>1. /\ Len(n.socket) \in Nat /\ m \in Nat /\ 1 <= m /\ m <= Len(n.socket)
      /\ n.sent \in Nat /\ b \in Nat /\ b = n.sent - Len(n.socket)
  BY DEF PeerState, SocketInv, Taken, Begins
<1>2. Len(n.script) \in Nat /\ n.sent <= 2 * Len(n.script)
  BY DEF PeerState, SocketInv
<1> HIDE DEF b
<1>3. ASSUME NEW i \in 1 .. m
      PROVE  parts[i] = PartOf(b + i) /\ b + i <= 2 * Len(n.script)
  <2>1. i \in 1 .. Len(n.socket) /\ b + i <= n.sent
    BY <1>1
  <2>2. n.socket[i] = PartOf(b + i)
    BY <2>1 DEF SocketInv, b
  <2>3. parts[i] = n.socket[i]
    BY DEF Begins
  <2> QED
    BY <1>1, <1>2, <2>1, <2>2, <2>3
<1>4. /\ after[0] = s
      /\ \A i \in 1 .. Len(parts) : after[i] = FeedPart(after[i - 1], parts[i], n.script, c)
  <2>1. Len(parts) \in Nat
    BY <1>1
  <2>2. after = Fed(s, parts, n.script, c)
    OBVIOUS
  <2> HIDE DEF after, S
  <2> QED
    BY <2>1, <2>2, FedDefined
<1> HIDE DEF after
<1>6. 0 \in S
  <2>1. n.waits => s.k.writes = <<>>
    <3>1. n.socket # <<>>
      BY <1>1 DEF PeerState
    <3> QED
      BY <3>1 DEF WaitsForAnswer
  <2>2. b + 0 = b
    BY <1>1
  <2> QED
    BY <1>4, <2>1, <2>2 DEF b
<1>7. ASSUME NEW i \in Nat, i \in S PROVE i + 1 \in S
  <2> SUFFICES ASSUME i + 1 <= m
               PROVE  /\ FedTo(after[i + 1], c, n, b + (i + 1))
                      /\ n.waits /\ i + 1 < Len(n.socket) => after[i + 1].k.writes = <<>>
    OBVIOUS
  <2>1. FedTo(after[i], c, n, b + i) /\ (n.waits => after[i].k.writes = <<>>)
    BY <1>1, <1>7
  <2>2. b + i \in Nat /\ (b + i) + 1 <= 2 * Len(n.script) /\ b + (i + 1) = (b + i) + 1
    <3>1. i + 1 \in 1 .. m /\ b + (i + 1) = (b + i) + 1
      BY <1>1
    <3>2. b + (i + 1) <= 2 * Len(n.script)
      BY <1>3, <3>1
    <3> QED
      BY <1>1, <3>1, <3>2
  <2>3. after[i + 1] = FeedPart(after[i], PartOf((b + i) + 1), n.script, c)
    <3>1. i + 1 \in 0 .. m /\ i + 1 # 0 /\ (i + 1) - 1 = i /\ i + 1 \in 1 .. m
      BY <1>1
    <3>2. after[i + 1] = FeedPart(after[i], parts[i + 1], n.script, c)
      BY <1>4, <3>1
    <3> QED
      BY <1>3, <2>2, <3>1, <3>2
  <2>4. /\ FedTo(after[i + 1], c, n, (b + i) + 1)
        /\ (b + i) % 2 = 0 /\ ~n.script[(b + i) \div 2 + 1].expect
             => after[i + 1].k.writes = after[i].k.writes
    BY <2>1, <2>2, <2>3, PartFed
  <2>5. ASSUME n.waits, i + 1 < Len(n.socket) PROVE after[i + 1].k.writes = <<>>
    <3>0. Len(n.socket) <= 2
      BY <2>5 DEF WaitsForAnswer
    <3>1. i = 0 /\ Len(n.socket) = 2
      BY <1>1, <2>5, <3>0, TwoParts
    <3>2. n.sent % 2 = 0 /\ ~n.script[n.sent \div 2].expect
      BY <2>5, <3>1 DEF WaitsForAnswer
    <3>3. (b + i) % 2 = 0 /\ (b + i) \div 2 + 1 = n.sent \div 2
      <4>1. b + i = n.sent - 2
        BY <1>1, <3>1
      <4> QED
        BY <1>1, <2>2, <3>2, <4>1, TwoLess
    <3> QED
      BY <2>1, <2>4, <2>5, <3>2, <3>3
  <2> QED
    BY <2>2, <2>4, <2>5
<1>8. m \in S
  <2> HIDE DEF S
  <2> QED
    BY <1>1, <1>6, <1>7, SetInduction
<1>9. t = after[m]
  BY DEF FeedBuffer, after
<1> QED
  BY <1>1, <1>8, <1>9 DEF b

-----------------------------------------------------------------------------
(***************************************************************************)
(* The ends of the handlers.                                               *)
(***************************************************************************)
\* What a handler of c leaves.
Done(s, c, n) ==
  /\ s \in Work
  /\ Mine(s.k, s.q, c)
  /\ Frame(timers, s.q, c)
  /\ InOrder(s.k, n)
  /\ s.k.late => s.k.overlapped
  /\ n.waits => ~s.k.overlapped
  /\ \/ /\ s.k.life = "live"
        /\ OneAtATime(s.k)
        /\ s.k.pending /\ s.k.open => Armed(s.q, c)
     \/ /\ s.k.life = "deleted" /\ s.k.key = NoKey
        /\ ~s.k.overlapped => s.k.writes = <<>>

\* A handler that has left its connection.
Blanked(k, j) == /\ k.life = "deleted" /\ k.key = NoKey /\ ~k.open /\ ~k.pending /\ ~k.late
                 /\ k.writes = j.writes /\ k.overlapped = j.overlapped

LEMMA BlankType == Blank \in Connection
<1>1. FreshResponse \in Response
  BY DEF FreshResponse, Response, Bodies
<1>2. NoKey \in Int /\ <<>> \in Seq(Answer)
  BY DEF NoKey
<1> HIDE DEF FreshResponse
<1> QED
  BY <1>1, <1>2 DEF Blank, Connection, Bodies

LEMMA BlankedSet ==
  ASSUME NEW j \in Connection,
         NEW k, k = [Blank EXCEPT !.life = "deleted", !.writes = j.writes, !.overlapped = j.overlapped]
  PROVE  k \in Connection /\ Blanked(k, j)
<1>1. j.writes \in Seq(Answer) /\ j.overlapped \in BOOLEAN
  BY DEF Connection
<1>2. k \in Connection
  <2> HIDE DEF Blank
  <2> QED
    BY <1>1, BlankType DEF Connection
<1>3. Blanked(k, j)
  BY DEF Blank, Blanked
<1> QED
  BY <1>2, <1>3

LEMMA CheckDestroySound ==
  ASSUME timers \in Queue, NEW c \in Conns, NEW n \in PeerState,
         NEW s, Good(s, c, n), s.k.pending /\ s.k.open => Armed(s.q, c),
         NEW t, t = CheckDestroy(s)
  PROVE  Done(t, c, n) /\ (t.k.life = "live" => t.k = s.k)
<1>1. /\ Sound(s, c) /\ s \in Work /\ s.k \in Connection /\ s.k.life = "live"
      /\ OneAtATime(s.k) /\ Mine(s.k, s.q, c) /\ Frame(timers, s.q, c)
  BY DEF Good, Sound, Work
<1>2. CASE s.k.is_reading \/ s.k.is_writing
  <2>1. t = s
    BY <1>2 DEF CheckDestroy
  <2> QED
    BY <1>1, <2>1 DEF Done, Good
<1>3. CASE ~s.k.is_reading /\ ~s.k.is_writing
  <2> DEFINE u == CancelDeadline(s)
             j == [Blank EXCEPT !.life = "deleted", !.writes = u.k.writes,
                                !.overlapped = u.k.overlapped]
  <2>1. t = [u EXCEPT !.k = j]
    BY <1>3 DEF CheckDestroy
  <2>2. /\ Sound(u, c) /\ Alike(u.k, s.k)
        /\ \A i \in 1 .. Len(u.q.dq) : u.q.dq[i].owner = c => ~u.q.dq[i].armed
    BY <1>1, CancelSound
  <2> HIDE DEF u
  <2>3. /\ u \in Work /\ u.k \in Connection /\ u.q \in Queue /\ Frame(timers, u.q, c)
        /\ Good(u, c, n)
    BY <2>2, AlikeGood DEF Sound, Work
  <2>4. j \in Connection /\ Blanked(j, u.k)
    BY <2>3, BlankedSet
  <2> HIDE DEF j
  <2>5. t \in Work /\ t.k = j /\ t.q = u.q
    BY <2>1, <2>3, <2>4 DEF Work
  <2>6. Mine(j, u.q, c)
    BY <2>2, <2>3, <2>4, KeylessMine DEF Blanked
  <2>7. ~j.overlapped => j.writes = <<>>
    BY <1>1, <1>3, <2>2, <2>4 DEF OneAtATime, Alike, Blanked
  <2>8. InOrder(j, n) /\ (n.waits => ~j.overlapped)
    BY <2>3, <2>4 DEF Good, InOrder, AnswerInFlight, Blanked
  <2> QED
    BY <2>3, <2>4, <2>5, <2>6, <2>7, <2>8 DEF Done, Blanked
<1> QED
  BY <1>2, <1>3

LEMMA OnGood ==
  ASSUME timers \in Queue, conn \in [Conns -> Connection], NEW c \in Conns, NEW n,
         ConnInv(n, conn[c], timers, c), conn[c].life = "live", NEW s, s = On(c)
  PROVE  /\ Good(s, c, n) /\ s.k = conn[c] /\ s.q = timers /\ ~s.failed /\ ~s.left
         /\ s.k.pending /\ s.k.open => Armed(s.q, c)
<1>1. s \in Work /\ s.k = conn[c] /\ s.q = timers /\ ~s.failed /\ ~s.left
  BY DEF On, Work
<1>2. Frame(timers, timers, c)
  BY DEF Frame
<1> QED
  BY <1>1, <1>2 DEF Good, Sound, ConnInv

\* What a handler leaves is as the invariant says.
Kept(k, n) == Reads(k) => /\ UpToDate(k, n, Taken(n))
                          /\ WaitsForAnswer(k, n)
                          /\ n.broken => n.gone

LEMMA DoneInv ==
  ASSUME NEW c, NEW n, NEW s, Done(s, c, n), SocketInv(n), Kept(s.k, n)
  PROVE  ConnInv(n, s.k, s.q, c) /\ s.k \in Connection /\ s.q \in Queue
BY DEF Done, Kept, ConnInv, Work

\* m is the peer n once the write a has come to it, or has failed.
PeerGot(m, n, a, error) ==
  /\ m.script = n.script /\ m.sent = n.sent /\ m.socket = n.socket
  /\ m.gone = n.gone /\ m.waits = n.waits /\ (m.broken <=> error)
  /\ m.answers = IF error \/ a.code = 100 THEN n.answers ELSE Append(n.answers, a)

LEMMA PeerLoses ==
  ASSUME NEW n \in PeerState, NEW a, NEW m, m = [n EXCEPT !.broken = TRUE]
  PROVE  m \in PeerState /\ PeerGot(m, n, a, TRUE)
BY DEF PeerState, PeerGot

LEMMA PeerGets ==
  ASSUME NEW n \in PeerState, NEW a \in Answer, ~n.broken, NEW m, m = Received(n, a)
  PROVE  m \in PeerState /\ PeerGot(m, n, a, FALSE)
<1>1. CASE a.code = 100
  <2>1. m = [n EXCEPT !.continued = TRUE]
    BY <1>1 DEF Received
  <2> QED
    BY <1>1, <2>1 DEF PeerState, PeerGot
<1>2. CASE a.code # 100
  <2> DEFINE e == Append(n.answers, a)
  <2>1. e \in Seq(Answer)
    BY DEF PeerState
  <2>2. m = [n EXCEPT !.answers = e]
    BY <1>2 DEF Received, PeerState
  <2>3. m \in PeerState
    <3> HIDE DEF e
    <3> QED
      BY <2>1, <2>2 DEF PeerState
  <2>4. PeerGot(m, n, a, FALSE)
    BY <1>2, <2>2 DEF PeerState, PeerGot
  <2> QED
    BY <2>3, <2>4
<1> QED
  BY <1>1, <1>2

LEMMA EmptyIfNone ==
  ASSUME NEW S, NEW s \in Seq(S), Len(s) = 0
  PROVE  s = <<>>
BY EmptySeq

LEMMA OneWrite ==
  ASSUME NEW k \in Connection, OneAtATime(k), k.writes # <<>>, ~k.overlapped
  PROVE  Tail(k.writes) = <<>>
<1>1. k.writes \in Seq(Answer) /\ Len(k.writes) = 1
  BY DEF Connection, OneAtATime
<1>2. Tail(k.writes) \in Seq(Answer) /\ Len(Tail(k.writes)) = 0
  BY <1>1
<1> QED
  BY <1>2, EmptyIfNone

LEMMA NothingToSend ==
  ASSUME NEW j, j.writes = <<>>, NEW m \in PeerState, m.socket = <<>>,
         m.sent % 2 = 1 => Len(m.answers) = m.sent \div 2
  PROVE  WaitsForAnswer(j, m)
<1>1. Len(m.socket) = 0
  BY EmptySeq
<1> QED
  BY <1>1 DEF WaitsForAnswer

LEMMA WriteComes ==
  ASSUME NEW n \in PeerState, SocketInv(n), NEW k \in Connection, OneAtATime(k), k.writes # <<>>,
         InOrder(k, n), n.waits => ~k.overlapped, NEW error, n.broken => error,
         NEW j, j.writes = Tail(k.writes), j.overlapped = k.overlapped,
         NEW m \in PeerState, PeerGot(m, n, k.writes[1], error)
  PROVE  /\ SocketInv(m) /\ InOrder(j, m)
         /\ ~k.overlapped => j.writes = <<>>
         /\ /\ UpToDate(k, n, Taken(n)) /\ WaitsForAnswer(k, n)
            /\ j.res = FreshResponse /\ j.copy = ""
            => UpToDate(j, m, Taken(m)) /\ WaitsForAnswer(j, m)
<1> DEFINE a == k.writes[1]
<1>1. ~k.overlapped => j.writes = <<>>
  BY OneWrite
<1> HIDE DEF a
<1>3. /\ m.script = n.script /\ m.sent = n.sent /\ m.socket = n.socket
      /\ m.gone = n.gone /\ m.waits = n.waits /\ (m.broken <=> error)
  BY DEF PeerGot
<1>4. SocketInv(m) /\ Taken(m) = Taken(n)
  BY <1>3 DEF SocketInv, Taken
<1>5. \/ m.answers = n.answers /\ (error \/ a.code = 100)
      \/ ~error /\ ~n.broken /\ a.code # 100 /\ m.answers = Append(n.answers, a)
  BY DEF PeerGot, a
<1>6. /\ n.answers \in Seq(Answer) /\ Len(Append(n.answers, a)) = Len(n.answers) + 1
      /\ Len(n.answers) \in Nat /\ n.sent \in Nat /\ Len(n.socket) \in Nat
  BY DEF PeerState
<1>7. InOrder(j, m)
  <2> SUFFICES ASSUME ~k.overlapped PROVE \A i \in 1 .. Len(m.answers) : Answers(m, i, m.answers[i])
    BY <1>1 DEF InOrder, AnswerInFlight
  <2>1. \A i \in 1 .. Len(n.answers) : Answers(n, i, n.answers[i])
    BY DEF InOrder
  <2>2. CASE m.answers = n.answers
    BY <1>3, <2>1, <2>2 DEF Answers
  <2>3. CASE ~n.broken /\ a.code # 100 /\ m.answers = Append(n.answers, a)
    <3>1. Answers(n, Len(n.answers) + 1, a)
      BY <2>3 DEF InOrder, AnswerInFlight, a
    <3> QED
      BY <1>3, <1>6, <2>1, <2>3, <3>1 DEF Answers
  <2> QED
    BY <1>5, <2>2, <2>3
<1>8. ASSUME UpToDate(k, n, Taken(n)), WaitsForAnswer(k, n), j.res = FreshResponse, j.copy = ""
      PROVE  UpToDate(j, m, Taken(m)) /\ WaitsForAnswer(j, m)
  <2>1. ~k.overlapped /\ ~m.broken => Len(m.answers) = Taken(n) \div 2
    <3> SUFFICES ASSUME ~k.overlapped, ~m.broken PROVE Len(m.answers) = Taken(n) \div 2
      OBVIOUS
    <3>1. ~error /\ ~n.broken
      BY <1>3
    <3>2. Len(n.answers) + (IF AnswerInFlight(k) THEN 1 ELSE 0) = Taken(n) \div 2
      BY <1>8, <3>1 DEF UpToDate
    <3>3. AnswerInFlight(k) <=> a.code # 100
      BY DEF AnswerInFlight, a
    <3>4. CASE a.code # 100
      <4>1. Len(m.answers) = Len(n.answers) + 1
        BY <1>5, <1>6, <3>1, <3>4
      <4> QED
        BY <3>2, <3>3, <3>4, <4>1
    <3>5. CASE a.code = 100
      <4>1. m.answers = n.answers
        BY <1>5, <3>5
      <4> QED
        BY <1>6, <3>2, <3>3, <3>5, <4>1
    <3> QED
      BY <3>4, <3>5
  <2>2. UpToDate(j, m, Taken(m))
    <3>1. ~k.overlapped => ~AnswerInFlight(j) /\ ~ContinueInFlight(j)
      BY <1>1 DEF AnswerInFlight, ContinueInFlight
    <3>2. ~k.overlapped /\ ~m.broken => Len(m.answers) + 0 = Taken(m) \div 2
      BY <1>3, <1>4, <2>1 DEF PeerState
    <3> QED
      BY <1>8, <3>1, <3>2 DEF UpToDate
  <2>3. ASSUME n.waits PROVE WaitsForAnswer(j, m)
    <3>1. ~k.overlapped /\ j.writes = <<>> /\ n.socket = <<>>
      BY <1>1, <1>8, <2>3 DEF WaitsForAnswer
    <3>2. Len(n.socket) = 0 /\ Taken(n) = n.sent
      BY <1>6, <3>1 DEF Taken
    <3>3. n.sent % 2 = 1 => Len(m.answers) = n.sent \div 2
      <4>1. CASE m.broken
        BY <1>3, <1>5, <1>8, <2>3, <4>1 DEF WaitsForAnswer
      <4>2. CASE ~m.broken
        BY <2>1, <3>1, <3>2, <4>2
      <4> QED
        BY <4>1, <4>2
    <3>4. m.socket = <<>>
      BY <1>3, <3>1
    <3>5. m.sent % 2 = 1 => Len(m.answers) = m.sent \div 2
      BY <1>3, <3>3
    <3> QED
      BY <3>1, <3>4, <3>5, NothingToSend
  <2> QED
    BY <1>3, <2>2, <2>3 DEF WaitsForAnswer
<1> QED
  BY <1>1, <1>3, <1>4, <1>7, <1>8

LEMMA WriteDoneSound ==
  ASSUME timers \in Queue, conn \in [Conns -> Connection], NEW c \in Conns, NEW n \in PeerState,
         ConnInv(n, conn[c], timers, c), conn[c].life = "live", conn[c].writes # <<>>,
         NEW error \in BOOLEAN, n.broken => error, error => n.gone \/ ~conn[c].open,
         NEW m \in PeerState, PeerGot(m, n, conn[c].writes[1], error),
         NEW t, t = WriteDone(On(c), error)
  PROVE  /\ ConnInv(m, t.k, t.q, c) /\ t.k \in Connection /\ t.q \in Queue
         /\ Frame(timers, t.q, c)
<1> DEFINE s == On(c)
           k == conn[c]
           j == [k EXCEPT !.is_writing = FALSE, !.res = FreshResponse, !.copy = "",
                          !.writes = Tail(k.writes)]
           u == [s EXCEPT !.k = j]
           w == [u EXCEPT !.k.open = FALSE]
<1>1. /\ Good(s, c, n) /\ s.k = k /\ s.q = timers /\ (k.pending /\ k.open => Armed(timers, c))
      /\ k \in Connection
  BY OnGood
<1>2. s \in Work
  BY <1>1 DEF Good, Sound
<1> HIDE DEF s, k
<1>3. /\ j \in Connection /\ j.life = k.life /\ j.key = k.key /\ j.late = k.late
      /\ j.open = k.open /\ j.close = k.close /\ j.pending = k.pending
      /\ j.overlapped = k.overlapped /\ ~j.is_writing /\ j.writes = Tail(k.writes)
      /\ j.res = FreshResponse /\ j.copy = ""
  <2>1. Tail(k.writes) \in Seq(Answer) /\ FreshResponse \in Response /\ "" \in Bodies
    <3>1. k.writes \in Seq(Answer) /\ k.writes # <<>>
      BY <1>1 DEF Connection, k
    <3> QED
      BY <3>1, HeadTailProperties DEF FreshResponse, Response, Bodies
  <2> HIDE DEF FreshResponse
  <2> QED
    BY <1>1, <2>1 DEF Connection
<1>4. u = [s EXCEPT !.k.is_writing = FALSE, !.k.res = FreshResponse, !.k.copy = "",
                    !.k.writes = Tail(s.k.writes)]
  BY <1>1, <1>2 DEF Work, Connection
<1>5. t = IF error THEN CheckDestroy(u)
          ELSE IF u.k.close THEN CheckDestroy([u EXCEPT !.k.open = FALSE]) ELSE u
  <2> HIDE DEF u, w
  <2> QED
    BY <1>4 DEF WriteDone, s
<1> HIDE DEF j
<1>6. u \in Work /\ u.k = j /\ u.q = timers
  BY <1>1, <1>2, <1>3 DEF Work
<1>15. u.k.close => w = [u EXCEPT !.k = [j EXCEPT !.open = FALSE]]
  BY <1>3, <1>6 DEF Work
<1>16. t = IF error THEN CheckDestroy(u) ELSE IF u.k.close THEN CheckDestroy(w) ELSE u
  BY <1>5
<1> HIDE DEF u, w
<1>7. /\ OneAtATime(k) /\ InOrder(k, n) /\ SocketInv(n) /\ (n.waits => ~k.overlapped)
      /\ k.writes # <<>> /\ PeerGot(m, n, k.writes[1], error)
  BY <1>1 DEF Good, Sound, ConnInv, k
<1>8. /\ SocketInv(m) /\ InOrder(j, m) /\ (~k.overlapped => j.writes = <<>>)
      /\ UpToDate(k, n, Taken(n)) /\ WaitsForAnswer(k, n)
           => UpToDate(j, m, Taken(m)) /\ WaitsForAnswer(j, m)
  BY <1>1, <1>3, <1>7, WriteComes
<1>9. m.waits = n.waits /\ m.gone = n.gone /\ (m.broken <=> error)
  BY DEF PeerGot
<1>10. Good(u, c, m)
  <2>1. OneAtATime(j)
    BY <1>3, <1>8 DEF OneAtATime
  <2>2. Mine(j, timers, c) /\ Frame(timers, timers, c) /\ k.life = "live"
    BY <1>1, <1>3 DEF Good, Sound, Mine
  <2>3. Sound(u, c)
    BY <1>3, <1>6, <2>1, <2>2 DEF Sound
  <2> QED
    BY <1>1, <1>3, <1>6, <1>8, <1>9, <2>3 DEF Good
<1>11. Kept(j, m)
  <2> SUFFICES ASSUME Reads(j)
               PROVE  /\ UpToDate(j, m, Taken(m)) /\ WaitsForAnswer(j, m)
                      /\ m.broken => m.gone
    BY DEF Kept
  <2>1. k.life = "live" /\ k.pending /\ k.open
    BY <1>1, <1>3 DEF Reads, k
  <2>2. Reads(k)
    BY <2>1 DEF Reads
  <2>3. UpToDate(k, n, Taken(n)) /\ WaitsForAnswer(k, n)
    BY <2>2 DEF ConnInv, k
  <2> QED
    BY <1>8, <1>9, <2>1, <2>3 DEF k
<1>12. CASE error
  <2>1. Done(t, c, m) /\ (t.k.life = "live" => t.k = u.k)
    <3>1. t = CheckDestroy(u)
      BY <1>12, <1>16
    <3>2. u.k.pending /\ u.k.open => Armed(u.q, c)
      BY <1>1, <1>3, <1>6
    <3> QED
      BY <1>10, <3>1, <3>2, CheckDestroySound
  <2>2. Kept(t.k, m)
    BY <1>6, <1>11, <2>1 DEF Kept, Reads, Done
  <2> QED
    BY <1>8, <2>1, <2>2, DoneInv DEF Done
<1>13. CASE ~error /\ u.k.close
  <2> DEFINE i == [j EXCEPT !.open = FALSE]
  <2>1. /\ i \in Connection /\ i.life = j.life /\ i.key = j.key /\ i.late = j.late
        /\ i.writes = j.writes /\ i.is_writing = j.is_writing
        /\ i.overlapped = j.overlapped /\ ~i.open
    BY <1>3 DEF Connection
  <2>2. w = [u EXCEPT !.k = i]
    BY <1>13, <1>15
  <2>3. t = CheckDestroy(w)
    BY <1>13, <1>16
  <2> HIDE DEF i
  <2>4. Good(w, c, m) /\ w.k = i
    BY <1>6, <1>10, <2>1, <2>2, ConnectionSet
  <2>5. Done(t, c, m) /\ (t.k.life = "live" => t.k = w.k)
    BY <2>1, <2>3, <2>4, CheckDestroySound
  <2>6. Kept(t.k, m)
    BY <2>1, <2>4, <2>5 DEF Kept, Reads, Done
  <2> QED
    BY <1>8, <2>5, <2>6, DoneInv DEF Done
<1>14. CASE ~error /\ ~u.k.close
  <2>1. t = u
    BY <1>14, <1>16
  <2>2. Done(t, c, m)
    BY <1>1, <1>3, <1>6, <1>10, <2>1 DEF Done, Good, Sound
  <2>3. Kept(t.k, m)
    BY <1>6, <1>11, <2>1
  <2> QED
    BY <1>8, <2>2, <2>3, DoneInv DEF Done
<1> QED
  BY <1>12, <1>13, <1>14

\* What ReadDone makes of a buffer that has been parsed, or of an error.
ReadEnd(t, c) ==
  CASE t.failed \/ ~t.k.open ->
         CheckDestroy([CancelDeadline(t) EXCEPT !.k.open = FALSE, !.k.is_reading = FALSE])
    [] ~t.failed /\ t.k.open /\ t.k.close ->
         CheckDestroy([CancelDeadline(t) EXCEPT !.k.is_reading = FALSE])
    [] ~t.failed /\ t.k.open /\ ~t.k.close /\ ~t.k.needAfter -> DoRead(StartDeadline(t, c))
    [] OTHER -> [t EXCEPT !.k.needStart = TRUE]

\* A connection that is not reading may set what else it keeps.
LEMMA NotReading ==
  ASSUME NEW c, NEW m \in PeerState, SocketInv(m), NEW s, Good(s, c, m),
         ~s.k.pending \/ ~s.k.open, timers \in Queue, c \in Conns,
         NEW t, t = CheckDestroy(s)
  PROVE  Done(t, c, m) /\ Kept(t.k, m)
<1>1. Done(t, c, m) /\ (t.k.life = "live" => t.k = s.k)
  BY CheckDestroySound
<1> QED
  BY <1>1 DEF Kept, Reads, Done

LEMMA ReadEndSound ==
  ASSUME timers \in Queue, NEW c \in Conns, NEW m \in PeerState, SocketInv(m),
         NEW x, Good(x, c, m), ~x.k.pending,
         ~x.failed /\ ~x.k.close => /\ UpToDate(x.k, m, Taken(m)) /\ WaitsForAnswer(x.k, m)
                                    /\ m.broken => m.gone,
         NEW t, t = ReadEnd(x, c)
  PROVE  /\ ConnInv(m, t.k, t.q, c) /\ t.k \in Connection /\ t.q \in Queue
         /\ Frame(timers, t.q, c)
<1> DEFINE u == CancelDeadline(x)
<1>1. Sound(x, c) /\ x \in Work /\ x.k \in Connection
  BY DEF Good, Sound, Work
<1>2. /\ Sound(u, c) /\ Alike(u.k, x.k) /\ u.k.pending = x.k.pending
  BY <1>1, CancelSound
<1>3. Good(u, c, m) /\ u \in Work /\ u.k \in Connection
  <2> HIDE DEF u
  <2> QED
    BY <1>2, AlikeGood DEF Sound, Work
<1>4. CASE x.failed \/ ~x.k.open
  <2> DEFINE j == [u.k EXCEPT !.open = FALSE, !.is_reading = FALSE]
             y == [u EXCEPT !.k = j]
  <2>1. t = CheckDestroy([u EXCEPT !.k.open = FALSE, !.k.is_reading = FALSE])
    BY <1>4 DEF ReadEnd
  <2> HIDE DEF u
  <2>2. y = [u EXCEPT !.k.open = FALSE, !.k.is_reading = FALSE]
    BY <1>3 DEF Work, Connection
  <2>3. /\ j \in Connection /\ j.life = u.k.life /\ j.key = u.k.key /\ j.late = u.k.late
        /\ j.writes = u.k.writes /\ j.is_writing = u.k.is_writing
        /\ j.overlapped = u.k.overlapped /\ ~j.open
    BY <1>3 DEF Connection
  <2> HIDE DEF j
  <2>4. Good(y, c, m) /\ y.k = j
    BY <1>3, <2>3, ConnectionSet
  <2>5. t = CheckDestroy(y)
    BY <2>1, <2>2
  <2> HIDE DEF y
  <2>6. Done(t, c, m) /\ Kept(t.k, m)
    BY <2>3, <2>4, <2>5, NotReading
  <2> QED
    BY <2>6, DoneInv DEF Done
<1>5. CASE ~x.failed /\ x.k.open /\ x.k.close
  <2> DEFINE j == [u.k EXCEPT !.is_reading = FALSE]
             y == [u EXCEPT !.k = j]
  <2>1. t = CheckDestroy([u EXCEPT !.k.is_reading = FALSE])
    BY <1>5 DEF ReadEnd
  <2> HIDE DEF u
  <2>2. y = [u EXCEPT !.k.is_reading = FALSE]
    BY <1>3 DEF Work, Connection
  <2>3. /\ j \in Connection /\ j.life = u.k.life /\ j.key = u.k.key /\ j.late = u.k.late
        /\ j.writes = u.k.writes /\ j.is_writing = u.k.is_writing
        /\ j.overlapped = u.k.overlapped /\ ~j.pending
    BY <1>2, <1>3 DEF Connection
  <2> HIDE DEF j
  <2>4. Good(y, c, m) /\ y.k = j
    BY <1>3, <2>3, ConnectionSet
  <2>5. t = CheckDestroy(y)
    BY <2>1, <2>2
  <2> HIDE DEF y
  <2>6. Done(t, c, m) /\ Kept(t.k, m)
    BY <2>3, <2>4, <2>5, NotReading
  <2> QED
    BY <2>6, DoneInv DEF Done
<1>6. CASE ~x.failed /\ x.k.open /\ ~x.k.close /\ ~x.k.needAfter
  <2> DEFINE y == StartDeadline(x, c)
  <2>1. t = DoRead(y)
    BY <1>6 DEF ReadEnd
  <2>2. Sound(y, c) /\ Armed(y.q, c) /\ Alike(y.k, x.k)
    BY <1>1, StartSound
  <2> HIDE DEF y
  <2>3. Sound(t, c) /\ t.q = y.q /\ Alike(t.k, y.k)
    BY <2>1, <2>2, DoReadSound
  <2>4. Alike(t.k, x.k)
    BY <2>2, <2>3 DEF Alike
  <2>5. Good(t, c, m) /\ UpToDate(t.k, m, Taken(m))
    BY <1>6, <2>3, <2>4, AlikeGood
  <2>6. WaitsForAnswer(t.k, m) /\ (m.broken => m.gone)
    BY <1>6, <2>4 DEF WaitsForAnswer, Alike
  <2>7. Done(t, c, m) /\ Kept(t.k, m)
    BY <2>2, <2>3, <2>5, <2>6 DEF Done, Kept, Good, Sound
  <2> QED
    BY <2>7, DoneInv DEF Done
<1>7. CASE ~x.failed /\ x.k.open /\ ~x.k.close /\ x.k.needAfter
  <2> DEFINE j == [x.k EXCEPT !.needStart = TRUE]
  <2>1. t = [x EXCEPT !.k.needStart = TRUE]
    BY <1>7 DEF ReadEnd
  <2>2. t = [x EXCEPT !.k = j]
    BY <1>1, <2>1 DEF Work, Connection
  <2>3. /\ j \in Connection /\ j.life = x.k.life /\ j.key = x.k.key /\ j.late = x.k.late
        /\ j.writes = x.k.writes /\ j.is_writing = x.k.is_writing
        /\ j.overlapped = x.k.overlapped /\ ~j.pending
    BY <1>1 DEF Connection
  <2> HIDE DEF j
  <2>4. Good(t, c, m) /\ t.k = j
    BY <2>2, <2>3, ConnectionSet
  <2>5. Done(t, c, m) /\ Kept(t.k, m)
    BY <2>3, <2>4 DEF Done, Kept, Reads, Good, Sound
  <2> QED
    BY <2>5, DoneInv DEF Done
<1> QED
  BY <1>4, <1>5, <1>6, <1>7

\* The peer once the server has read the parts.
LEMMA PartsTaken ==
  ASSUME NEW n \in PeerState, SocketInv(n), NEW parts, Begins(parts, n.socket),
         NEW m, m = [n EXCEPT !.socket = SubSeq(n.socket, Len(parts) + 1, Len(n.socket))]
  PROVE  /\ m \in PeerState /\ SocketInv(m) /\ Taken(m) = Taken(n) + Len(parts)
         /\ m.script = n.script /\ m.sent = n.sent /\ m.gone = n.gone /\ m.waits = n.waits
         /\ m.broken = n.broken /\ m.answers = n.answers /\ m.continued = n.continued
         /\ Len(m.socket) = Len(n.socket) - Len(parts)
<1> DEFINE k == Len(parts)
           l == Len(n.socket)
           q == SubSeq(n.socket, k + 1, l)
<1>1. n.socket \in Seq(Part) /\ l \in Nat /\ k \in 1 .. l /\ n.sent \in Nat
  BY DEF PeerState, Begins
<1>2. q \in Seq(Part) /\ Len(q) = l - k
  BY <1>1
<1>3. ASSUME NEW i \in 1 .. Len(q) PROVE q[i] = n.socket[k + i] /\ k + i \in 1 .. l
  BY <1>1, <1>2
<1> HIDE DEF q
<1>4. m = [n EXCEPT !.socket = q]
  BY DEF q
<1>5. /\ m \in PeerState /\ m.socket = q
      /\ m.script = n.script /\ m.sent = n.sent /\ m.gone = n.gone /\ m.waits = n.waits
      /\ m.broken = n.broken /\ m.answers = n.answers /\ m.continued = n.continued
  BY <1>2, <1>4 DEF PeerState
<1> HIDE DEF k, l
<1>6. Taken(m) = Taken(n) + k
  <2>1. Taken(m) = n.sent - (l - k)
    BY <1>2, <1>5 DEF Taken
  <2>2. Taken(n) = n.sent - l
    BY DEF Taken, l
  <2> QED
    BY <1>1, <2>1, <2>2
<1>7. SocketInv(m)
  <2>1. Len(q) <= n.sent /\ n.sent <= 2 * Len(n.script) /\ Taken(n) \in Int
    BY <1>1, <1>2 DEF SocketInv, l, Taken
  <2>2. ASSUME NEW i \in 1 .. Len(q) PROVE q[i] = PartOf(Taken(m) + i)
    <3>1. q[i] = PartOf(Taken(n) + (k + i))
      BY <1>3 DEF SocketInv, l
    <3>2. Taken(n) + (k + i) = Taken(m) + i
      BY <1>1, <1>6, <2>1
    <3> QED
      BY <3>1, <3>2
  <2> QED
    BY <1>5, <2>1, <2>2 DEF SocketInv
<1> QED
  BY <1>2, <1>5, <1>6, <1>7 DEF k, l

LEMMA ReadDoneSound ==
  ASSUME timers \in Queue, conn \in [Conns -> Connection], NEW c \in Conns, NEW n \in PeerState,
         ConnInv(n, conn[c], timers, c), conn[c].life = "live", conn[c].pending,
         NEW parts, NEW error \in BOOLEAN,
         NEW m, \/ error /\ m = n
                \/ /\ ~error /\ conn[c].open /\ Begins(parts, n.socket)
                   /\ m = [n EXCEPT !.socket = SubSeq(n.socket, Len(parts) + 1, Len(n.socket))],
         NEW t, t = ReadDone(On(c), parts, error, n.script, c)
  PROVE  /\ m \in PeerState
         /\ ConnInv(m, t.k, t.q, c) /\ t.k \in Connection /\ t.q \in Queue
         /\ Frame(timers, t.q, c)
<1> DEFINE s == On(c)
           read == IF error THEN [s EXCEPT !.failed = TRUE] ELSE FeedBuffer(s, parts, n.script, c)
           st == read.k.stranded \/ (~error /\ read.failed /\ read.k.is_writing)
           j == [read.k EXCEPT !.pending = FALSE, !.stranded = st]
           x == [read EXCEPT !.k = j]
<1>1. /\ Good(s, c, n) /\ s.k = conn[c] /\ ~s.failed /\ ~s.left /\ SocketInv(n)
      /\ s \in Work
  BY OnGood DEF ConnInv, Good, Sound
<1>2. conn[c].open => FedTo(s, c, n, Taken(n)) /\ WaitsForAnswer(s.k, n) /\ (n.broken => n.gone)
  BY <1>1 DEF FedTo, ConnInv, Reads
<1> HIDE DEF s
<1>3. /\ m \in PeerState /\ SocketInv(m) /\ Good(read, c, m)
      /\ ~read.failed /\ ~read.k.close
           => /\ UpToDate(read.k, m, Taken(m)) /\ WaitsForAnswer(read.k, m)
              /\ m.broken => m.gone
  <2>1. CASE error
    <3>1. m = n /\ read = [s EXCEPT !.failed = TRUE]
      BY <2>1
    <3> HIDE DEF read
    <3>2. read \in Work /\ read.k = s.k /\ read.q = s.q /\ read.failed
      BY <1>1, <3>1 DEF Work
    <3> QED
      BY <1>1, <3>1, <3>2 DEF Good, Sound
  <2>2. CASE ~error
    <3>1. /\ conn[c].open /\ Begins(parts, n.socket)
          /\ m = [n EXCEPT !.socket = SubSeq(n.socket, Len(parts) + 1, Len(n.socket))]
          /\ read = FeedBuffer(s, parts, n.script, c)
      BY <2>2
    <3> HIDE DEF read
    <3>2. /\ FedTo(read, c, n, Taken(n) + Len(parts))
          /\ n.waits /\ Len(parts) < Len(n.socket) => read.k.writes = <<>>
      BY <1>1, <1>2, <3>1, BufferFed
    <3>3. /\ m \in PeerState /\ SocketInv(m) /\ Taken(m) = Taken(n) + Len(parts)
          /\ m.script = n.script /\ m.sent = n.sent /\ m.gone = n.gone /\ m.waits = n.waits
          /\ m.broken = n.broken /\ m.answers = n.answers /\ m.continued = n.continued
          /\ Len(m.socket) = Len(n.socket) - Len(parts)
      BY <1>1, <3>1, PartsTaken
    <3>4. Good(read, c, m)
      BY <3>2, <3>3 DEF FedTo, Good, InOrder, Answers
    <3>5. ~read.failed /\ ~read.k.close => UpToDate(read.k, m, Taken(m))
      BY <3>2, <3>3 DEF FedTo, UpToDate
    <3>6. WaitsForAnswer(read.k, m)
      <4>1. /\ Len(n.socket) \in Nat /\ Len(parts) \in Nat /\ 1 <= Len(parts)
            /\ Len(parts) <= Len(n.socket) /\ n.socket # <<>>
        BY <3>1 DEF Begins, PeerState
      <4>2. m.socket # <<>> => Len(parts) < Len(n.socket)
        BY <3>3, <4>1, EmptyIfNone DEF PeerState
      <4> SUFFICES ASSUME n.waits PROVE WaitsForAnswer(read.k, m)
        BY <3>3 DEF WaitsForAnswer
      <4>3. /\ Len(n.socket) <= 2
            /\ n.sent % 2 = 1 => Len(n.answers) = n.sent \div 2 /\ ~n.continued
        BY <1>1, <1>2, <3>1, <4>1 DEF WaitsForAnswer
      <4>4. Len(m.socket) <= 1 /\ Len(m.socket) # 2
        BY <3>3, <4>1, <4>3
      <4>5. m.sent % 2 = 1 => Len(m.answers) = m.sent \div 2 /\ ~m.continued
        BY <3>3, <4>3
      <4>6. m.socket # <<>> => read.k.writes = <<>>
        BY <3>2, <4>2
      <4>7. Len(m.socket) <= 2
        BY <3>3, <4>1, <4>3
      <4> QED
        BY <4>4, <4>5, <4>6, <4>7 DEF WaitsForAnswer
    <3> QED
      BY <1>2, <3>1, <3>3, <3>4, <3>5, <3>6
  <2> QED
    BY <2>1, <2>2
<1>4. read \in Work /\ read.k \in Connection
  <2> HIDE DEF read
  <2> QED
    BY <1>3 DEF Good, Sound, Work
<1>5. t = ReadEnd([read EXCEPT !.k.pending = FALSE, !.k.stranded = st], c)
  BY DEF ReadDone, ReadEnd, s
<1> HIDE DEF read
<1>6. st \in BOOLEAN
  BY <1>4 DEF Connection
<1> HIDE DEF st
<1>7. x = [read EXCEPT !.k.pending = FALSE, !.k.stranded = st]
  BY <1>4 DEF Work, Connection
<1>8. /\ j \in Connection /\ j.life = read.k.life /\ j.key = read.k.key /\ j.late = read.k.late
      /\ j.writes = read.k.writes /\ j.is_writing = read.k.is_writing
      /\ j.overlapped = read.k.overlapped /\ j.open = read.k.open /\ j.close = read.k.close
      /\ j.res = read.k.res /\ j.copy = read.k.copy /\ ~j.pending
  BY <1>4, <1>6 DEF Connection
<1> HIDE DEF j
<1>9. Good(x, c, m) /\ x.k = j /\ x.failed = read.failed
  BY <1>3, <1>8, ConnectionSet
<1>10. t = ReadEnd(x, c)
  BY <1>5, <1>7
<1> HIDE DEF x
<1>11. ~x.failed /\ ~x.k.close => /\ UpToDate(x.k, m, Taken(m)) /\ WaitsForAnswer(x.k, m)
                                  /\ m.broken => m.gone
  <2> SUFFICES ASSUME ~x.failed, ~x.k.close
               PROVE  /\ UpToDate(x.k, m, Taken(m)) /\ WaitsForAnswer(x.k, m)
                      /\ m.broken => m.gone
    OBVIOUS
  <2>1. /\ UpToDate(read.k, m, Taken(m)) /\ WaitsForAnswer(read.k, m)
        /\ m.broken => m.gone
    BY <1>3, <1>8, <1>9
  <2>2. UpToDate(j, m, Taken(m))
    BY <1>8, <2>1, SameAnswers
  <2> QED
    BY <1>8, <1>9, <2>1, <2>2 DEF WaitsForAnswer
<1> QED
  BY <1>3, <1>8, <1>9, <1>10, <1>11, ReadEndSound

-----------------------------------------------------------------------------
(***************************************************************************)
(* The steps.                                                              *)
(***************************************************************************)
\* The deadlines of the other connections stay theirs.
LEMMA OthersKept ==
  ASSUME NEW q \in Queue, NEW r \in Queue, NEW c, Frame(q, r, c), NEW d, d # c,
         NEW n, NEW k \in Connection, ConnInv(n, k, q, d)
  PROVE  ConnInv(n, k, r, d)
<1>1. /\ q.dq \in Seq(Entry) /\ Len(q.dq) \in Nat /\ q.step \in Nat
      /\ r.dq \in Seq(Entry) /\ Len(r.dq) \in Nat /\ r.step = q.step
      /\ Len(q.dq) <= Len(r.dq)
  BY QueueShape DEF Frame
<1>2. ASSUME NEW i \in 1 .. Len(r.dq), r.dq[i].owner = d
      PROVE  i \in 1 .. Len(q.dq) /\ q.dq[i].owner = d /\ r.dq[i].armed = q.dq[i].armed
  <2>1. i <= Len(q.dq)
    BY <1>2 DEF Frame
  <2>2. i \in 1 .. Len(q.dq)
    BY <1>1, <2>1
  <2> QED
    BY <1>2, <2>2 DEF Frame
<1>3. Mine(k, r, d)
  <2>1. Mine(k, q, d)
    BY DEF ConnInv
  <2>2. k.key = NoKey \/ (k.key \in Nat /\ k.key < r.step + Len(r.dq))
    BY <1>1, <2>1 DEF Mine
  <2>3. ASSUME NEW i \in 1 .. Len(r.dq), k.key = r.step + i - 1 PROVE r.dq[i].owner = d
    <3>1. k.key < q.step + Len(q.dq)
      BY <1>1, <2>1, <2>3 DEF Mine, NoKey
    <3>2. i \in 1 .. Len(q.dq)
      BY <1>1, <2>3, <3>1
    <3>3. q.dq[i].owner = d
      BY <1>1, <2>1, <2>3, <3>2 DEF Mine
    <3> QED
      BY <3>2, <3>3 DEF Frame
  <2>4. ASSUME NEW i \in 1 .. Len(r.dq), r.dq[i].owner = d, r.dq[i].armed
        PROVE  k.key = r.step + i - 1
    BY <1>1, <1>2, <2>1, <2>4 DEF Mine
  <2> QED
    BY <2>2, <2>3, <2>4 DEF Mine
<1>4. Armed(q, d) => Armed(r, d)
  <2> SUFFICES ASSUME NEW i \in 1 .. Len(q.dq), q.dq[i].owner = d, q.dq[i].armed
               PROVE  Armed(r, d)
    BY DEF Armed
  <2>1. i \in 1 .. Len(r.dq) /\ r.dq[i].owner = d /\ r.dq[i].armed
    BY <1>1 DEF Frame
  <2> QED
    BY <2>1 DEF Armed
<1> QED
  BY <1>3, <1>4 DEF ConnInv

\* A step of one connection and its peer.
LEMMA OneMoves ==
  ASSUME HttpInv, NEW c \in Conns, NEW m \in PeerState, NEW k \in Connection, NEW q \in Queue,
         ConnInv(m, k, q, c), Frame(timers, q, c),
         net' = [net EXCEPT ![c] = m], conn' = [conn EXCEPT ![c] = k], timers' = q
  PROVE  HttpInv'
<1>1. net \in [Conns -> PeerState] /\ conn \in [Conns -> Connection] /\ timers \in Queue
  BY DEF HttpInv
<1>2. net' \in [Conns -> PeerState] /\ conn' \in [Conns -> Connection] /\ timers' \in Queue
  BY <1>1
<1>3. ASSUME NEW d \in Conns PROVE ConnInv(net'[d], conn'[d], timers', d)
  <2>1. CASE d = c
    BY <1>1, <2>1
  <2>2. CASE d # c
    <3>1. net'[d] = net[d] /\ conn'[d] = conn[d] /\ conn[d] \in Connection
      BY <1>1, <2>2
    <3>2. ConnInv(net[d], conn[d], timers, d)
      BY DEF HttpInv
    <3> QED
      BY <1>1, <2>2, <3>1, <3>2, OthersKept
  <2> QED
    BY <2>1, <2>2
<1> QED
  BY <1>2, <1>3 DEF HttpInv

LEMMA SameFrame == ASSUME NEW c PROVE Frame(timers, timers, c)
BY DEF Frame

LEMMA Same ==
  ASSUME NEW S, NEW f \in [Conns -> S], NEW c \in Conns
  PROVE  f = [f EXCEPT ![c] = f[c]]
OBVIOUS

LEMMA InitInv == Init => HttpInv
<1> SUFFICES ASSUME Init PROVE HttpInv
  OBVIOUS
<1>1. PICK s \in Scripts : net = [c \in Conns |-> Peer(s[c])]
  BY DEF Init
<1>2. s \in [Conns -> [comes : BOOLEAN, requests : Seq(Request), waits : BOOLEAN]]
  BY ScriptsAssumption
<1>3. conn = [c \in Conns |-> Blank] /\ timers = EmptyQueue
  BY DEF Init
<1>4. timers \in Queue /\ Len(timers.dq) = 0
  BY <1>3 DEF EmptyQueue, Queue
<1>5. ASSUME NEW c \in Conns
      PROVE  net[c] \in PeerState /\ ConnInv(net[c], Blank, timers, c)
  <2> DEFINE n == Peer(s[c])
  <2>1. /\ n \in PeerState /\ n.sent = 0 /\ n.socket = <<>> /\ n.answers = <<>> /\ ~n.broken
    BY <1>2 DEF Peer, PeerState
  <2> HIDE DEF n
  <2>2. /\ Blank.life = "none" /\ Blank.key = NoKey /\ Blank.writes = <<>>
        /\ ~Blank.overlapped /\ ~Blank.late /\ Blank.res = FreshResponse /\ Blank.copy = ""
    BY DEF Blank
  <2>3. /\ Len(n.socket) = 0 /\ Len(n.answers) = 0 /\ Taken(n) = 0
        /\ 0 \div 2 = 0 /\ 0 % 2 = 0 /\ Len(n.script) \in Nat
    <3>1. Len(n.socket) = 0 /\ Len(n.answers) = 0
      BY <2>1, EmptySeq
    <3>4. n.sent = 0
      BY <2>1
    <3>2. Taken(n) = 0
      BY <3>1, <3>4 DEF Taken
    <3>3. Len(n.script) \in Nat
      BY <2>1 DEF PeerState
    <3> QED
      BY <3>1, <3>2, <3>3
  <2>4. SocketInv(n)
    BY <2>1, <2>3 DEF SocketInv
  <2>5. Mine(Blank, timers, c)
    <3>1. 1 .. Len(timers.dq) = {}
      BY <1>4
    <3> QED
      BY <1>4, <2>2, <3>1, KeylessMine
  <2>6. ~AnswerInFlight(Blank) /\ ~ContinueInFlight(Blank)
    BY <2>2 DEF AnswerInFlight, ContinueInFlight
  <2>7. InOrder(Blank, n)
    BY <2>3, <2>6 DEF InOrder
  <2>8. UpToDate(Blank, n, 0)
    <3>1. Len(n.answers) + (IF AnswerInFlight(Blank) THEN 1 ELSE 0) = 0 \div 2
      BY <2>3, <2>6
    <3> QED
      BY <2>2, <2>6, <3>1 DEF UpToDate
  <2>9. WaitsForAnswer(Blank, n)
    BY <2>1, <2>2, <2>3, NothingToSend
  <2> QED
    BY <1>1, <2>1, <2>2, <2>3, <2>4, <2>5, <2>7, <2>8, <2>9 DEF ConnInv, n
<1>6. net \in [Conns -> PeerState] /\ conn \in [Conns -> Connection]
  BY <1>1, <1>3, <1>5, BlankType
<1> QED
  BY <1>3, <1>4, <1>5, <1>6 DEF HttpInv

LEMMA AcceptInv ==
  ASSUME HttpInv, NEW c \in Conns, Accept(c)
  PROVE  HttpInv'
<1> DEFINE k == [Blank EXCEPT !.life = "posted", !.open = TRUE]
<1>1. /\ net \in [Conns -> PeerState] /\ conn \in [Conns -> Connection] /\ timers \in Queue
      /\ ConnInv(net[c], conn[c], timers, c) /\ conn[c] = Blank
  BY DEF HttpInv, Accept, ConnInv
<1>2. /\ k \in Connection /\ k.life = "posted" /\ k.key = Blank.key /\ k.writes = Blank.writes
      /\ k.late = Blank.late /\ k.overlapped = Blank.overlapped /\ k.res = Blank.res
      /\ k.copy = Blank.copy /\ Blank.life = "none"
  <2>1. Blank.life = "none"
    BY DEF Blank
  <2> QED
    BY <2>1, BlankType DEF Connection
<1>3. conn' = [conn EXCEPT ![c] = k] /\ net' = [net EXCEPT ![c] = net[c]] /\ timers' = timers
  <2>1. conn' = [conn EXCEPT ![c].life = "posted", ![c].open = TRUE]
    BY DEF Accept
  <2>2. conn' = [conn EXCEPT ![c] = k]
    BY <1>1, <2>1, BlankType DEF Connection
  <2> QED
    BY <1>1, <2>2, Same DEF Accept
<1>4. k = [Blank EXCEPT !.life = "posted", !.open = TRUE]
  OBVIOUS
<1> HIDE DEF k
<1>5. ConnInv(net[c], k, timers, c)
  <2>1. Mine(k, timers, c) /\ InOrder(k, net[c])
    BY <1>1, <1>2 DEF ConnInv, Mine, InOrder, AnswerInFlight
  <2>2. UpToDate(k, net[c], Taken(net[c])) /\ WaitsForAnswer(k, net[c])
    BY <1>1, <1>2, SameAnswers DEF ConnInv, Reads, WaitsForAnswer
  <2> QED
    BY <1>1, <1>2, <1>4, <2>1, <2>2 DEF ConnInv, Reads
<1>6. Frame(timers, timers, c)
  BY SameFrame
<1> QED
  BY <1>1, <1>2, <1>3, <1>5, <1>6, OneMoves

LEMMA StartedInv ==
  ASSUME HttpInv, NEW c \in Conns, Started(c)
  PROVE  HttpInv'
<1> DEFINE k == [conn[c] EXCEPT !.life = "live"]
           s == [On(c) EXCEPT !.k = k]
           n == net[c]
           u == StartDeadline(s, c)
           t == DoRead(u)
<1>1. /\ net \in [Conns -> PeerState] /\ conn \in [Conns -> Connection] /\ timers \in Queue
      /\ ConnInv(n, conn[c], timers, c) /\ conn[c].life = "posted"
      /\ conn[c] \in Connection /\ n \in PeerState
  BY DEF HttpInv, Started
<1>2. /\ conn[c].key = NoKey /\ ~conn[c].is_writing /\ conn[c].writes = <<>>
  <2>1. conn[c] = [Blank EXCEPT !.life = "posted", !.open = TRUE]
    BY <1>1 DEF ConnInv
  <2> QED
    BY <2>1 DEF Blank
<1>3. /\ k \in Connection /\ k.life = "live" /\ k.key = conn[c].key
      /\ k.late = conn[c].late /\ k.writes = conn[c].writes /\ k.is_writing = conn[c].is_writing
      /\ k.overlapped = conn[c].overlapped /\ k.res = conn[c].res /\ k.copy = conn[c].copy
  BY <1>1 DEF Connection
<1>4. s = [On(c) EXCEPT !.k.life = "live"]
  BY DEF On
<1>5. conn' = [conn EXCEPT ![c] = t.k] /\ timers' = t.q /\ net' = [net EXCEPT ![c] = n]
  BY <1>1, <1>4, Same DEF Started, Do, Start
<1> HIDE DEF k
<1>6. s \in Work /\ s.k = k /\ s.q = timers
  BY <1>1, <1>3 DEF On, Work
<1> HIDE DEF s
<1>7. Sound(s, c)
  BY <1>1, <1>2, <1>3, <1>6, SameFrame DEF Sound, OneAtATime, ConnInv, Mine
<1>8. Good(s, c, n) /\ UpToDate(k, n, Taken(n)) /\ WaitsForAnswer(k, n) /\ (n.broken => n.gone)
  <2>1. UpToDate(conn[c], n, Taken(n)) /\ WaitsForAnswer(conn[c], n) /\ (n.broken => n.gone)
    BY <1>1 DEF ConnInv, Reads
  <2>2. UpToDate(k, n, Taken(n)) /\ WaitsForAnswer(k, n)
    BY <1>3, <2>1, SameAnswers DEF WaitsForAnswer
  <2> QED
    BY <1>1, <1>3, <1>6, <1>7, <2>1, <2>2 DEF Good, ConnInv, InOrder, AnswerInFlight
<1>9. Sound(u, c) /\ Armed(u.q, c) /\ Alike(u.k, s.k)
  BY <1>1, <1>7, StartSound
<1> HIDE DEF u
<1>10. Sound(t, c) /\ t.q = u.q /\ Alike(t.k, u.k)
  BY <1>9, DoReadSound
<1> HIDE DEF t
<1>11. Alike(t.k, s.k)
  BY <1>9, <1>10 DEF Alike
<1>12. Good(t, c, n) /\ UpToDate(t.k, n, Taken(n))
  BY <1>6, <1>8, <1>10, <1>11, AlikeGood
<1>13. WaitsForAnswer(t.k, n)
  BY <1>6, <1>8, <1>11 DEF WaitsForAnswer, Alike
<1>14. Done(t, c, n) /\ Kept(t.k, n)
  BY <1>8, <1>9, <1>10, <1>12, <1>13 DEF Done, Kept, Good, Sound
<1>15. SocketInv(n)
  BY <1>1 DEF ConnInv
<1>16. ConnInv(n, t.k, t.q, c) /\ t.k \in Connection /\ t.q \in Queue /\ Frame(timers, t.q, c)
  BY <1>14, <1>15, DoneInv DEF Done
<1> QED
  BY <1>1, <1>5, <1>16, OneMoves

LEMMA PartSent ==
  ASSUME NEW n \in PeerState, SocketInv(n), n.sent < 2 * Len(n.script),
         NEW q, q = Append(n.socket, PartOf(n.sent + 1)),
         NEW m \in PeerState, m.socket = q, m.sent = n.sent + 1, m.script = n.script
  PROVE  /\ SocketInv(m) /\ Taken(m) = Taken(n)
         /\ Len(m.socket) = Len(n.socket) + 1
<1>1. /\ n.socket \in Seq(Part) /\ Len(n.socket) \in Nat /\ n.sent \in Nat
      /\ Len(n.script) \in Nat
  BY DEF PeerState
<1>2. PartOf(n.sent + 1) \in Part
  <2>1. n.sent \div 2 + 1 \in Nat
    BY <1>1
  <2>2. (n.sent + 1) - 1 = n.sent
    BY <1>1
  <2> QED
    BY <2>1, <2>2 DEF PartOf, Part
<1>3. /\ q \in Seq(Part) /\ Len(q) = Len(n.socket) + 1
      /\ \A i \in 1 .. Len(n.socket) : q[i] = n.socket[i]
      /\ q[Len(n.socket) + 1] = PartOf(n.sent + 1)
  BY <1>1, <1>2
<1>7. Taken(m) = Taken(n) /\ Taken(n) \in Int /\ Taken(n) + Len(n.socket) = n.sent
  <2> DEFINE a == n.sent
             b == Len(n.socket)
  <2>1. Taken(m) = (a + 1) - (b + 1)
    BY <1>3 DEF Taken
  <2>2. Taken(n) = a - b
    BY DEF Taken
  <2>3. a \in Nat /\ b \in Nat
    BY <1>1
  <2> HIDE DEF a, b
  <2>4. (a + 1) - (b + 1) = a - b /\ a - b \in Int /\ (a - b) + b = a
    BY <2>3
  <2> QED
    BY <2>1, <2>2, <2>4 DEF a, b
<1>8. SocketInv(m)
  <2>1. Len(q) <= n.sent + 1 /\ n.sent + 1 <= 2 * Len(n.script)
    BY <1>1, <1>3 DEF SocketInv
  <2>2. ASSUME NEW i \in 1 .. Len(q) PROVE q[i] = PartOf(Taken(n) + i)
    <3>1. CASE i = Len(n.socket) + 1
      <4>1. Taken(n) + i = n.sent + 1
        BY <1>1, <1>7, <3>1
      <4> QED
        BY <1>3, <3>1, <4>1
    <3>2. CASE i # Len(n.socket) + 1
      <4>1. i \in 1 .. Len(n.socket)
        BY <1>1, <1>3, <3>2
      <4> QED
        BY <1>3, <4>1 DEF SocketInv
    <3> QED
      BY <3>1, <3>2
  <2> QED
    BY <1>7, <2>1, <2>2 DEF SocketInv
<1> QED
  BY <1>3, <1>7, <1>8

LEMMA SameHalf ==
  ASSUME NEW a \in Nat, NEW b \in Nat, b <= a
  PROVE  /\ a % 2 = 0 /\ a \div 2 <= b \div 2 => b = a
         /\ a % 2 = 1 /\ a \div 2 <= b \div 2 => a <= b + 1
         /\ b \div 2 <= a \div 2
OBVIOUS

\* When a peer that waits sends on, nothing is being written to it.
LEMMA SendsOn ==
  ASSUME NEW n \in PeerState, SocketInv(n), n.waits, Answered(n), ~n.broken,
         NEW k \in Connection, ~k.overlapped, UpToDate(k, n, Taken(n)), WaitsForAnswer(k, n)
  PROVE  /\ k.writes = <<>> /\ Len(n.answers) = n.sent \div 2
         /\ n.sent % 2 = 0 => Len(n.socket) = 0
         /\ n.sent % 2 = 1 => /\ Len(n.socket) <= 1
                              /\ Len(n.socket) = 1 => ~n.script[n.sent \div 2 + 1].expect
<1> DEFINE b == Taken(n)
           x == IF AnswerInFlight(k) THEN 1 ELSE 0
<1>1. /\ n.sent \in Nat /\ Len(n.socket) \in Nat /\ Len(n.answers) \in Nat
      /\ b \in Nat /\ b <= n.sent /\ b = n.sent - Len(n.socket)
  BY DEF PeerState, SocketInv, Taken
<1>2. Len(n.answers) + x = b \div 2 /\ x \in {0, 1}
  BY DEF UpToDate
<1>3. AnswerInFlight(k) => x = 1
  OBVIOUS
<1>4. ContinueInFlight(k) => b % 2 = 1 /\ n.script[b \div 2 + 1].expect
  BY DEF UpToDate
<1>5. k.writes # <<>> => AnswerInFlight(k) \/ ContinueInFlight(k)
  BY DEF AnswerInFlight, ContinueInFlight
<1>6. /\ n.sent % 2 = 0 => Len(n.answers) = n.sent \div 2
      /\ n.sent % 2 = 1 /\ n.script[n.sent \div 2 + 1].expect => n.continued
  BY DEF Answered
<1>7. n.sent % 2 = 1 => /\ Len(n.answers) = n.sent \div 2
                        /\ n.continued => k.writes = <<>> /\ n.socket = <<>>
  BY DEF WaitsForAnswer
<1> HIDE DEF b, x
<1>8. Len(n.answers) = n.sent \div 2
  BY <1>1, <1>6, <1>7
<1>9. n.sent \div 2 <= b \div 2 /\ b \div 2 <= n.sent \div 2 /\ x = 0
  BY <1>1, <1>2, <1>8, SameHalf
<1>10. b \div 2 = n.sent \div 2 /\ ~AnswerInFlight(k)
  BY <1>1, <1>3, <1>9
<1>11. CASE n.sent % 2 = 0
  <2>1. b = n.sent
    BY <1>1, <1>9, <1>11, SameHalf
  <2>2. Len(n.socket) = 0 /\ b % 2 # 1
    BY <1>1, <1>11, <2>1
  <2> QED
    BY <1>4, <1>5, <1>8, <1>10, <1>11, <2>2
<1>12. CASE n.sent % 2 = 1 /\ n.script[n.sent \div 2 + 1].expect
  <2>1. k.writes = <<>> /\ n.socket = <<>>
    BY <1>6, <1>7, <1>12
  <2>2. Len(n.socket) = 0
    BY <2>1, EmptySeq
  <2> QED
    BY <1>8, <1>12, <2>1, <2>2
<1>13. CASE n.sent % 2 = 1 /\ ~n.script[n.sent \div 2 + 1].expect
  <2>1. ~ContinueInFlight(k)
    BY <1>4, <1>10, <1>13
  <2>2. n.sent <= b + 1
    BY <1>1, <1>9, <1>13, SameHalf
  <2>3. Len(n.socket) <= 1
    BY <1>1, <2>2
  <2> QED
    BY <1>5, <1>8, <1>10, <1>13, <2>1, <2>3
<1> QED
  BY <1>1, <1>11, <1>12, <1>13

LEMMA OneLess ==
  ASSUME NEW a \in Nat, NEW b, b = a + 1, b = 2
  PROVE  a = 1
OBVIOUS

LEMMA SendInv ==
  ASSUME HttpInv, NEW c \in Conns, Send(c)
  PROVE  HttpInv'
<1> DEFINE n == net[c]
           k == conn[c]
           e == n.continued /\ n.sent % 2 = 1
           q == Append(n.socket, PartOf(n.sent + 1))
           i == n.sent + 1
           m == [n EXCEPT !.sent = i, !.continued = e, !.socket = q]
<1>1. /\ net \in [Conns -> PeerState] /\ conn \in [Conns -> Connection] /\ timers \in Queue
      /\ ConnInv(n, k, timers, c) /\ k \in Connection /\ n \in PeerState
  BY DEF HttpInv
<1>2. /\ k.life \notin {"none", "deleted"} /\ ~n.gone /\ n.sent < 2 * Len(n.script)
      /\ n.waits => Answered(n)
  BY DEF Send
<1>3. PartOf(n.sent + 1) = [n |-> n.sent \div 2 + 1,
                            what |-> IF n.sent % 2 = 0 THEN "head" ELSE "end"]
  <2>1. (n.sent + 1) - 1 = n.sent
    BY <1>1 DEF PeerState
  <2> QED
    BY <2>1 DEF PartOf
<1>4. net' = [net EXCEPT ![c].sent = @ + 1,
                         ![c].continued = @ /\ n.sent % 2 = 1,
                         ![c].socket = Append(@, PartOf(n.sent + 1))]
  BY <1>3 DEF Send
<1>5. net' = [net EXCEPT ![c] = m]
  BY <1>1, <1>4 DEF PeerState
<1>6. conn' = [conn EXCEPT ![c] = k] /\ timers' = timers
  BY <1>1, Same DEF Send
<1>7. SocketInv(n)
  BY <1>1 DEF ConnInv
<1> HIDE DEF n, k
<1>11. e \in BOOLEAN
  OBVIOUS
<1>12. e <=> n.continued /\ n.sent % 2 = 1
  OBVIOUS
<1> HIDE DEF e
<1>13. q \in Seq(Part) /\ i \in Nat
  <2>1. n.sent \div 2 + 1 \in Nat /\ n.sent + 1 \in Nat /\ n.socket \in Seq(Part)
    BY <1>1 DEF PeerState
  <2>2. PartOf(n.sent + 1) \in Part
    BY <1>3, <2>1 DEF Part
  <2> QED
    BY <2>1, <2>2
<1>14. q = Append(n.socket, PartOf(n.sent + 1)) /\ i = n.sent + 1
  OBVIOUS
<1> HIDE DEF q, i
<1>15. /\ m \in PeerState /\ m.socket = q /\ m.continued = e
       /\ m.script = n.script /\ m.sent = i /\ m.gone = n.gone /\ m.waits = n.waits
       /\ m.broken = n.broken /\ m.answers = n.answers
  BY <1>1, <1>11, <1>13 DEF PeerState
<1> HIDE DEF m
<1>8. /\ m \in PeerState /\ SocketInv(m) /\ Taken(m) = Taken(n)
      /\ m.script = n.script /\ m.sent = n.sent + 1 /\ m.gone = n.gone /\ m.waits = n.waits
      /\ m.broken = n.broken /\ m.answers = n.answers /\ m.continued = e
      /\ Len(m.socket) = Len(n.socket) + 1
  <2>1. m.sent = n.sent + 1 /\ m.script = n.script
    BY <1>14, <1>15
  <2>2. SocketInv(m) /\ Taken(m) = Taken(n) /\ Len(m.socket) = Len(n.socket) + 1
    BY <1>1, <1>2, <1>7, <1>14, <1>15, <2>1, PartSent
  <2> QED
    BY <1>15, <2>1, <2>2
<1>9. ASSUME Reads(k)
      PROVE  /\ UpToDate(k, m, Taken(m)) /\ WaitsForAnswer(k, m)
             /\ m.broken => m.gone
  <2>1. UpToDate(k, n, Taken(n)) /\ WaitsForAnswer(k, n) /\ ~n.broken
    BY <1>1, <1>2, <1>9 DEF ConnInv
  <2>2. UpToDate(k, m, Taken(m)) /\ ~m.broken
    BY <1>8, <2>1 DEF UpToDate
  <2>3. ASSUME m.waits PROVE WaitsForAnswer(k, m)
    <3>1. n.waits /\ Answered(n) /\ ~k.overlapped
      BY <1>1, <1>2, <1>8, <2>3 DEF ConnInv
    <3>2. /\ k.writes = <<>> /\ Len(n.answers) = n.sent \div 2
          /\ n.sent % 2 = 0 => Len(n.socket) = 0
          /\ n.sent % 2 = 1 => /\ Len(n.socket) <= 1
                               /\ Len(n.socket) = 1 => ~n.script[n.sent \div 2 + 1].expect
      BY <1>1, <1>7, <2>1, <3>1, SendsOn
    <3>3. n.sent \in Nat /\ Len(n.socket) \in Nat
      BY <1>1 DEF PeerState
    <3>4. CASE n.sent % 2 = 0
      <4>1. m.sent % 2 = 1 /\ m.sent \div 2 = n.sent \div 2 /\ Len(m.socket) = 1
        BY <1>8, <3>2, <3>3, <3>4, Halves
      <4>2. ~m.continued /\ Len(m.answers) = m.sent \div 2
        BY <1>8, <1>12, <3>2, <3>4, <4>1
      <4> QED
        BY <3>2, <4>1, <4>2 DEF WaitsForAnswer
    <3>5. CASE n.sent % 2 = 1
      <4>1. m.sent % 2 = 0 /\ m.sent \div 2 = n.sent \div 2 + 1 /\ Len(m.socket) <= 2
        <5>1. (n.sent + 1) % 2 = 0 /\ (n.sent + 1) \div 2 = n.sent \div 2 + 1
          BY <3>3, <3>5, Halves
        <5>2. Len(n.socket) <= 1
          BY <3>2, <3>5
        <5>3. m.sent = n.sent + 1 /\ Len(m.socket) = Len(n.socket) + 1
          BY <1>8
        <5> QED
          BY <3>3, <5>1, <5>2, <5>3
      <4>2. ASSUME Len(m.socket) = 2 PROVE ~m.script[m.sent \div 2].expect
        <5>1. Len(n.socket) = 1 /\ m.script = n.script
          <6>1. Len(m.socket) = Len(n.socket) + 1 /\ m.script = n.script
            BY <1>8
          <6> QED
            BY <3>3, <4>2, <6>1, OneLess
        <5> QED
          BY <3>2, <3>5, <4>1, <5>1
      <4> QED
        BY <3>2, <4>1, <4>2 DEF WaitsForAnswer
    <3> QED
      BY <3>3, <3>4, <3>5, Halves
  <2> QED
    BY <2>2, <2>3 DEF WaitsForAnswer
<1>10. ConnInv(m, k, timers, c)
  BY <1>1, <1>2, <1>8, <1>9 DEF ConnInv, InOrder, Answers
<1> QED
  BY <1>1, <1>5, <1>6, <1>8, <1>10, OneMoves, SameFrame

LEMMA LeaveInv ==
  ASSUME HttpInv, NEW c \in Conns, Leave(c)
  PROVE  HttpInv'
<1> DEFINE n == net[c]
           k == conn[c]
           m == [n EXCEPT !.gone = TRUE]
<1>1. /\ net \in [Conns -> PeerState] /\ conn \in [Conns -> Connection] /\ timers \in Queue
      /\ ConnInv(n, k, timers, c) /\ k \in Connection /\ n \in PeerState
  BY DEF HttpInv
<1>2. net' = [net EXCEPT ![c] = m]
  BY <1>1 DEF Leave, PeerState
<1>3. conn' = [conn EXCEPT ![c] = k] /\ timers' = timers
  BY <1>1, Same DEF Leave
<1>4. k.life \notin {"none", "deleted"}
  BY DEF Leave
<1> HIDE DEF n, k
<1>5. /\ m \in PeerState /\ m.gone
      /\ m.script = n.script /\ m.sent = n.sent /\ m.socket = n.socket /\ m.waits = n.waits
      /\ m.broken = n.broken /\ m.answers = n.answers /\ m.continued = n.continued
  BY <1>1 DEF PeerState
<1> HIDE DEF m
<1>6. Taken(m) = Taken(n) /\ SocketInv(m)
  BY <1>1, <1>5 DEF Taken, SocketInv, ConnInv
<1>7. InOrder(k, m)
  BY <1>1, <1>5 DEF ConnInv, InOrder, Answers
<1>8. Reads(k) => UpToDate(k, m, Taken(m)) /\ WaitsForAnswer(k, m)
  BY <1>1, <1>5, <1>6 DEF ConnInv, UpToDate, WaitsForAnswer
<1>9. ConnInv(m, k, timers, c)
  BY <1>1, <1>4, <1>5, <1>6, <1>7, <1>8 DEF ConnInv
<1> QED
  BY <1>1, <1>2, <1>3, <1>5, <1>9, OneMoves, SameFrame

LEMMA ReadingInv ==
  ASSUME HttpInv, NEW c \in Conns, Reading(c)
  PROVE  HttpInv'
<1> DEFINE n == net[c]
<1>1. /\ net \in [Conns -> PeerState] /\ conn \in [Conns -> Connection] /\ timers \in Queue
      /\ ConnInv(n, conn[c], timers, c) /\ n \in PeerState
  BY DEF HttpInv
<1>2. conn[c].life = "live" /\ conn[c].pending /\ conn[c].open
  BY DEF Reading
<1>3. PICK i \in 1 .. Len(n.socket) :
         /\ Do(c, ReadDone(On(c), SubSeq(n.socket, 1, i), FALSE, n.script, c))
         /\ net' = [net EXCEPT ![c].socket = SubSeq(@, i + 1, Len(@))]
  BY DEF Reading
<1> DEFINE parts == SubSeq(n.socket, 1, i)
           m == [n EXCEPT !.socket = SubSeq(n.socket, i + 1, Len(n.socket))]
           t == ReadDone(On(c), parts, FALSE, n.script, c)
<1>4. net' = [net EXCEPT ![c] = m]
  BY <1>1, <1>3 DEF PeerState
<1> HIDE DEF n
<1>5. Len(parts) = i /\ Begins(parts, n.socket)
  <2>1. n.socket \in Seq(Part) /\ i \in 1 .. Len(n.socket)
    BY <1>1 DEF PeerState
  <2>2. Len(parts) = i /\ \A j \in 1 .. i : parts[j] = n.socket[j]
    BY <2>1
  <2> HIDE DEF parts
  <2> QED
    BY <2>1, <2>2 DEF Begins
<1>6. conn' = [conn EXCEPT ![c] = t.k] /\ timers' = t.q
  BY <1>3 DEF Do
<1> HIDE DEF parts, t
<1>7. m = [n EXCEPT !.socket = SubSeq(n.socket, Len(parts) + 1, Len(n.socket))]
  BY <1>5
<1> HIDE DEF m
<1>8. /\ m \in PeerState
      /\ ConnInv(m, t.k, t.q, c) /\ t.k \in Connection /\ t.q \in Queue
      /\ Frame(timers, t.q, c)
  BY <1>1, <1>2, <1>5, <1>7, ReadDoneSound DEF t
<1> QED
  BY <1>1, <1>4, <1>6, <1>8, OneMoves

LEMMA NothingFed ==
  ASSUME NEW s, NEW script, NEW c, NEW parts, Len(parts) = 0
  PROVE  FeedBuffer(s, parts, script, c) = s
<1> DEFINE after == Fed(s, parts, script, c)
<1>1. Len(parts) \in Nat
  OBVIOUS
<1> HIDE DEF after
<1>2. after[0] = s
  BY <1>1, FedDefined DEF after
<1> QED
  BY <1>2 DEF FeedBuffer, after

\* A request that cannot be logged leaves its connection without a read and without a
\* deadline; its writes are as they were.
LEMMA InterruptedGood ==
  ASSUME timers \in Queue, NEW c \in Conns, NEW n, NEW s, Good(s, c, n),
         NEW r \in Request, NEW t, t = Interrupted(s, r)
  PROVE  Good(t, c, n) /\ ~t.k.pending
<1> DEFINE u == CancelDeadline(s)
           cl == u.k.close \/ r.close
           hd == u.k.handled + 1
           z == IF r.route = "nohost" THEN BadRequest ELSE u.k.res
           j == [u.k EXCEPT !.close = cl, !.handled = hd, !.pending = FALSE, !.thrown = TRUE, !.res = z]
<1>1. Sound(u, c) /\ Alike(u.k, s.k)
  BY CancelSound DEF Good
<1>2. Good(u, c, n) /\ u \in Work /\ u.k \in Connection
  BY <1>1, AlikeGood DEF Sound, Work
<1> HIDE DEF u
<1>3. cl \in BOOLEAN /\ hd \in Nat /\ z \in Response
  <2>1. BadRequest \in Response
    BY DEF BadRequest, Response, Bodies
  <2>2. u.k.res \in Response /\ u.k.close \in BOOLEAN /\ u.k.handled \in Nat /\ r.close \in BOOLEAN
    BY <1>2 DEF Connection, Request
  <2> HIDE DEF u
  <2> QED
    BY <2>1, <2>2
<1>4. t = [u EXCEPT !.k = j]
  BY <1>2 DEF Interrupted, Begin, u, Work, Connection
<1> HIDE DEF cl, hd, z
<1>5. /\ j \in Connection /\ j.life = u.k.life /\ j.key = u.k.key /\ j.late = u.k.late
      /\ j.writes = u.k.writes /\ j.is_writing = u.k.is_writing
      /\ j.overlapped = u.k.overlapped /\ ~j.pending
  BY <1>2, <1>3 DEF Connection
<1> HIDE DEF j
<1> QED
  BY <1>2, <1>4, <1>5, ConnectionSet

LEMMA ReadThrowsInv ==
  ASSUME HttpInv, NEW c \in Conns, ReadThrows(c)
  PROVE  HttpInv'
<1> DEFINE n == net[c]
<1>1. /\ net \in [Conns -> PeerState] /\ conn \in [Conns -> Connection] /\ timers \in Queue
      /\ ConnInv(n, conn[c], timers, c) /\ n \in PeerState
  BY DEF HttpInv
<1>2. conn[c].life = "live" /\ conn[c].pending /\ conn[c].open
  BY DEF ReadThrows
<1>17. PICK i \in 1 .. Len(n.socket) : \E h \in 1 .. i :
         /\ Do(c, Interrupted(FeedBuffer(On(c), SubSeq(n.socket, 1, h - 1), n.script, c),
                              n.script[n.socket[h].n]))
         /\ net' = [net EXCEPT ![c].socket = SubSeq(@, i + 1, Len(@))]
  BY DEF ReadThrows
<1>3. PICK h \in 1 .. i :
         /\ Do(c, Interrupted(FeedBuffer(On(c), SubSeq(n.socket, 1, h - 1), n.script, c),
                              n.script[n.socket[h].n]))
         /\ net' = [net EXCEPT ![c].socket = SubSeq(@, i + 1, Len(@))]
  BY <1>17
<1> DEFINE parts == SubSeq(n.socket, 1, i)
           few == SubSeq(n.socket, 1, h - 1)
           m == [n EXCEPT !.socket = SubSeq(n.socket, i + 1, Len(n.socket))]
           s == FeedBuffer(On(c), few, n.script, c)
           r == n.script[n.socket[h].n]
           t == Interrupted(s, r)
<1>4. net' = [net EXCEPT ![c] = m]
  BY <1>1, <1>3 DEF PeerState
<1>5. conn' = [conn EXCEPT ![c] = t.k] /\ timers' = t.q
  BY <1>3 DEF Do
<1> HIDE DEF n
<1>6. n.socket \in Seq(Part) /\ i \in 1 .. Len(n.socket) /\ h \in 1 .. i /\ Len(n.socket) \in Nat
  BY <1>1, <1>3 DEF PeerState
<1>7. Len(parts) = i /\ Begins(parts, n.socket)
  <2>1. Len(parts) = i /\ \A j \in 1 .. i : parts[j] = n.socket[j]
    BY <1>6
  <2> HIDE DEF parts
  <2> QED
    BY <1>6, <2>1 DEF Begins
<1>8. Len(few) = h - 1 /\ (h # 1 => Begins(few, n.socket))
  <2>1. Len(few) = h - 1 /\ \A j \in 1 .. (h - 1) : few[j] = n.socket[j]
    BY <1>6
  <2> HIDE DEF few
  <2> QED
    BY <1>6, <2>1 DEF Begins
<1>9. r \in Request
  <2>1. n.socket[h] = PartOf(Taken(n) + h)
    BY <1>1, <1>6 DEF ConnInv, SocketInv
  <2>2. Taken(n) \in Nat /\ Taken(n) + h <= 2 * Len(n.script) /\ Len(n.script) \in Nat
    BY <1>1, <1>6 DEF ConnInv, SocketInv, Taken, PeerState
  <2> DEFINE b == Taken(n) + h - 1
  <2>3. b \in Nat /\ Taken(n) + h = b + 1 /\ b + 1 <= 2 * Len(n.script)
    BY <1>6, <2>2
  <2> HIDE DEF b
  <2>5. PartOf(b + 1).n = b \div 2 + 1
    BY <2>3 DEF PartOf
  <2>4. n.socket[h].n \in 1 .. Len(n.script)
    BY <2>1, <2>2, <2>3, <2>5
  <2> QED
    BY <1>1, <2>4 DEF PeerState
<1> HIDE DEF parts, few, r, t
<1>10. Good(s, c, n)
  <2>1. Good(On(c), c, n) /\ On(c).k = conn[c] /\ ~On(c).failed /\ ~On(c).left
    BY <1>1, <1>2, OnGood
  <2>2. CASE h = 1
    BY <1>8, <2>1, <2>2, NothingFed
  <2>3. CASE h # 1
    <3>1. FedTo(On(c), c, n, Taken(n)) /\ WaitsForAnswer(On(c).k, n) /\ SocketInv(n)
      BY <1>1, <1>2, <2>1 DEF FedTo, ConnInv, Reads
    <3>2. FedTo(s, c, n, Taken(n) + Len(few))
      BY <1>1, <1>8, <2>3, <3>1, BufferFed
    <3> QED
      BY <3>2 DEF FedTo
  <2> QED
    BY <2>2, <2>3
<1> HIDE DEF s
<1>11. Good(t, c, n) /\ ~t.k.pending
  BY <1>1, <1>9, <1>10, InterruptedGood DEF t
<1>12. m = [n EXCEPT !.socket = SubSeq(n.socket, Len(parts) + 1, Len(n.socket))]
  BY <1>7
<1> HIDE DEF m
<1>13. /\ m \in PeerState /\ SocketInv(m) /\ m.script = n.script /\ m.waits = n.waits
       /\ m.broken = n.broken /\ m.answers = n.answers
  BY <1>1, <1>7, <1>12, PartsTaken DEF ConnInv
<1>14. Done(t, c, m)
  BY <1>11, <1>13 DEF Good, Sound, Done, InOrder, Answers
<1>15. Kept(t.k, m)
  BY <1>11 DEF Kept, Reads, Good, Sound
<1>16. ConnInv(m, t.k, t.q, c) /\ t.k \in Connection /\ t.q \in Queue /\ Frame(timers, t.q, c)
  BY <1>13, <1>14, <1>15, DoneInv DEF Done
<1> QED
  BY <1>4, <1>5, <1>13, <1>16, OneMoves

LEMMA ReadFailsInv ==
  ASSUME HttpInv, NEW c \in Conns, ReadFails(c)
  PROVE  HttpInv'
<1> DEFINE n == net[c]
           t == ReadDone(On(c), <<>>, TRUE, n.script, c)
<1>1. /\ net \in [Conns -> PeerState] /\ conn \in [Conns -> Connection] /\ timers \in Queue
      /\ ConnInv(n, conn[c], timers, c) /\ n \in PeerState
  BY DEF HttpInv
<1>2. conn[c].life = "live" /\ conn[c].pending
  BY DEF ReadFails
<1>3. conn' = [conn EXCEPT ![c] = t.k] /\ timers' = t.q /\ net' = [net EXCEPT ![c] = n]
  BY <1>1, Same DEF ReadFails, Do
<1> HIDE DEF n, t
<1>4. /\ ConnInv(n, t.k, t.q, c) /\ t.k \in Connection /\ t.q \in Queue
      /\ Frame(timers, t.q, c)
  BY <1>1, <1>2, ReadDoneSound DEF t
<1> QED
  BY <1>1, <1>3, <1>4, OneMoves

LEMMA WrittenInv ==
  ASSUME HttpInv, NEW c \in Conns, Written(c)
  PROVE  HttpInv'
<1> DEFINE n == net[c]
           k == conn[c]
<1>1. /\ net \in [Conns -> PeerState] /\ conn \in [Conns -> Connection] /\ timers \in Queue
      /\ ConnInv(n, k, timers, c) /\ n \in PeerState /\ k \in Connection
  BY DEF HttpInv
<1>2. k.writes # <<>>
  BY DEF Written
<1>3. k.life \in {"live", "deleted"}
  <2>1. k.life \in {"none", "posted", "live", "deleted"}
    BY <1>1 DEF Connection
  <2>2. ASSUME k.life = "none" \/ k.life = "posted" PROVE k.writes = <<>>
    <3>1. \/ k = Blank
          \/ k = [Blank EXCEPT !.life = "posted", !.open = TRUE]
      <4> HIDE DEF k, n
      <4> QED
        BY <1>1, <2>2 DEF ConnInv
    <3>2. Blank.writes = <<>>
      BY DEF Blank
    <3>3. [Blank EXCEPT !.life = "posted", !.open = TRUE].writes = Blank.writes
      BY BlankType DEF Connection
    <3> HIDE DEF k, Blank
    <3> QED
      BY <3>1, <3>2, <3>3
  <2> QED
    BY <1>2, <2>1, <2>2
<1>4. CASE k.life = "deleted"
  <2> DEFINE j == [k EXCEPT !.late = TRUE, !.writes = Tail(k.writes)]
  <2>1. conn' = [conn EXCEPT ![c].late = TRUE, ![c].writes = Tail(@)] /\ net' = net /\ timers' = timers
    BY <1>4 DEF Written
  <2>2. conn' = [conn EXCEPT ![c] = j] /\ net' = [net EXCEPT ![c] = n]
    BY <1>1, <2>1, Same DEF Connection
  <2> HIDE DEF n, k
  <2>3. Tail(k.writes) \in Seq(Answer) /\ k.overlapped
    <3>1. k.writes \in Seq(Answer)
      BY <1>1 DEF Connection
    <3> QED
      BY <1>1, <1>2, <1>4, <3>1, HeadTailProperties DEF ConnInv
  <2>4. /\ j \in Connection /\ j.life = k.life /\ j.key = k.key /\ j.overlapped = k.overlapped
    BY <1>1, <2>3 DEF Connection
  <2> HIDE DEF j
  <2>5. Mine(j, timers, c)
    BY <1>1, <2>4 DEF ConnInv, Mine
  <2>6. ConnInv(n, j, timers, c)
    BY <1>1, <1>4, <2>3, <2>4, <2>5 DEF ConnInv, InOrder, Reads
  <2> QED
    BY <1>1, <2>1, <2>2, <2>4, <2>6, OneMoves, SameFrame
<1>5. CASE k.life = "live"
  <2>1. k.life # "deleted"
    BY <1>5
  <2>2. PICK error \in BOOLEAN :
          /\ error => n.gone \/ ~k.open
          /\ n.broken \/ (~k.is_reading /\ ~k.open /\ ~k.stranded) => error
          /\ Do(c, WriteDone(On(c), error))
          /\ net' = IF error THEN [net EXCEPT ![c].broken = TRUE]
                    ELSE [net EXCEPT ![c] = Received(@, Head(k.writes))]
    BY <2>1 DEF Written
  <2> DEFINE t == WriteDone(On(c), error)
             a == k.writes[1]
             m == IF error THEN [n EXCEPT !.broken = TRUE] ELSE Received(n, a)
  <2>3. a \in Answer /\ Head(k.writes) = a
    <3>1. k.writes \in Seq(Answer)
      BY <1>1 DEF Connection
    <3> HIDE DEF k
    <3> QED
      BY <1>2, <3>1
  <2>4. net' = [net EXCEPT ![c] = m]
    BY <1>1, <2>2, <2>3
  <2>5. conn' = [conn EXCEPT ![c] = t.k] /\ timers' = t.q
    BY <2>2 DEF Do
  <2>6. m \in PeerState /\ PeerGot(m, n, a, error)
    <3>1. CASE error
      <4>1. m = [n EXCEPT !.broken = TRUE] /\ error = TRUE
        BY <3>1
      <4> HIDE DEF m, n
      <4> QED
        BY <1>1, <4>1, PeerLoses
    <3>2. CASE ~error
      <4>1. m = Received(n, a) /\ error = FALSE /\ ~n.broken
        BY <2>2, <3>2
      <4> HIDE DEF m, n, a
      <4> QED
        BY <1>1, <2>3, <4>1, PeerGets
    <3> QED
      BY <3>1, <3>2
  <2>7. (n.broken => error) /\ (error => n.gone \/ ~k.open)
    BY <2>2
  <2> HIDE DEF m, t
  <2>8. /\ ConnInv(m, t.k, t.q, c) /\ t.k \in Connection /\ t.q \in Queue
        /\ Frame(timers, t.q, c)
    <3> HIDE DEF n
    <3> QED
      BY <1>1, <1>2, <1>5, <2>6, <2>7, WriteDoneSound DEF t
  <2> QED
    BY <1>1, <2>4, <2>5, <2>6, <2>8, OneMoves
<1> QED
  BY <1>3, <1>4, <1>5

-----------------------------------------------------------------------------
(***************************************************************************)
(* The deadlines that pass.                                                *)
(***************************************************************************)
LEMMA OlderQueue ==
  ASSUME NEW q \in Queue, NEW r, r = Older(q)
  PROVE  /\ r \in Queue /\ r.step = q.step /\ Len(r.dq) = Len(q.dq)
         /\ \A i \in 1 .. Len(q.dq) : /\ r.dq[i].owner = q.dq[i].owner
                                      /\ r.dq[i].armed = q.dq[i].armed
<1> DEFINE d == [i \in DOMAIN q.dq |-> Aged(q.dq[i])]
           l == Len(q.dq)
<1>1. /\ q.dq \in Seq(Entry) /\ q.step \in Nat /\ l \in Nat
      /\ DOMAIN q.dq = 1 .. l /\ \A i \in 1 .. l : q.dq[i] \in Entry
  BY QueueShape
<1>2. ASSUME NEW i \in 1 .. l
      PROVE  d[i] \in Entry /\ d[i].owner = q.dq[i].owner /\ d[i].armed = q.dq[i].armed
  <2> DEFINE e == q.dq[i]
             g == IF e.age < Tick THEN e.age + 1 ELSE e.age
  <2>1. e \in Entry
    BY <1>1
  <2>2. d[i] = [e EXCEPT !.age = g]
    BY <1>1 DEF Aged
  <2> HIDE DEF e, d
  <2>3. g \in Nat
    BY <2>1 DEF Entry
  <2> HIDE DEF g
  <2> QED
    BY <2>1, <2>2, <2>3 DEF Entry, e
<1>3. r = [q EXCEPT !.dq = d]
  BY DEF Older
<1>4. d = [i \in 1 .. l |-> Aged(q.dq[i])]
  BY <1>1
<1> HIDE DEF d
<1>5. d \in [1 .. l -> Entry]
  <2> HIDE DEF l
  <2> QED
    BY <1>2, <1>4
<1>6. d \in Seq(Entry) /\ Len(d) = l
  <2> HIDE DEF l
  <2> QED
    BY <1>1, <1>5
<1>7. r \in Queue /\ r.dq = d /\ r.step = q.step
  BY <1>1, <1>3, <1>6 DEF Queue
<1> QED
  BY <1>2, <1>6, <1>7

LEMMA PassedDefined ==
  ASSUME NEW q \in Queue
  PROVE  Passed(q) \in 0 .. Len(q.dq)
<1> DEFINE Is(n) == /\ \A i \in 1 .. n : q.dq[i].age >= Tick
                    /\ n < Len(q.dq) => q.dq[n + 1].age < Tick
           T == {n \in 0 .. Len(q.dq) : n < Len(q.dq) => q.dq[n + 1].age < Tick}
<1>1. /\ Len(q.dq) \in Nat /\ \A i \in 1 .. Len(q.dq) : q.dq[i].age \in Nat
  BY QueueShape DEF Entry
<1>2. Len(q.dq) \in T /\ T \subseteq Nat
  BY <1>1
<1>3. PICK n \in T : \A m \in T : n <= m
  BY <1>2, LeastNat
<1>4. n \in 0 .. Len(q.dq) /\ (n < Len(q.dq) => q.dq[n + 1].age < Tick)
  BY <1>3
<1>5. ASSUME NEW i \in 1 .. n PROVE q.dq[i].age >= Tick
  <2>1. i - 1 \in 0 .. Len(q.dq) /\ ~(n <= i - 1) /\ (i - 1) + 1 = i /\ i \in 1 .. Len(q.dq)
    BY <1>1, <1>4
  <2>2. i - 1 \notin T
    BY <1>3, <2>1
  <2>3. ~(q.dq[i].age < Tick)
    BY <2>1, <2>2
  <2> QED
    BY <1>1, <2>1, <2>3, TickAssumption
<1>6. \E x \in 0 .. Len(q.dq) : Is(x)
  BY <1>4, <1>5
<1> HIDE DEF Is
<1>7. Passed(q) = CHOOSE x \in 0 .. Len(q.dq) : Is(x)
  BY DEF Passed, Is
<1> QED
  BY <1>6, <1>7

LEMMA ProcessQueue ==
  ASSUME NEW q \in Queue, NEW p \in 0 .. Len(q.dq), p = Passed(q), NEW r, r = Process(q)
  PROVE  /\ r \in Queue /\ r.step = q.step + p /\ Len(r.dq) = Len(q.dq) - p
         /\ \A i \in 1 .. Len(r.dq) : p + i \in 1 .. Len(q.dq) /\ r.dq[i] = q.dq[p + i]
<1> DEFINE d == SubSeq(q.dq, p + 1, Len(q.dq))
<1>1. q.dq \in Seq(Entry) /\ q.step \in Nat /\ Len(q.dq) \in Nat /\ p \in Nat
  BY QueueShape
<1>2. /\ d \in Seq(Entry) /\ Len(d) = Len(q.dq) - p
      /\ \A i \in 1 .. (Len(q.dq) - (p + 1) + 1) : d[i] = q.dq[p + 1 + i - 1]
  <2>1. \A i \in (p + 1) .. Len(q.dq) : q.dq[i] \in Entry
    BY <1>1
  <2> QED
    BY <1>1, <2>1, SubSeqProperties
<1>3. ASSUME NEW i \in 1 .. Len(d) PROVE p + i \in 1 .. Len(q.dq) /\ d[i] = q.dq[p + i]
  <2> HIDE DEF d
  <2>1. i \in Int /\ 1 <= i /\ i <= Len(q.dq) - p
    BY <1>1, <1>2
  <2>2. p + i \in 1 .. Len(q.dq) /\ i \in 1 .. (Len(q.dq) - (p + 1) + 1) /\ p + 1 + i - 1 = p + i
    BY <1>1, <2>1
  <2> QED
    BY <1>2, <2>2
<1>4. r = [dq |-> d, step |-> q.step + p]
  BY DEF Process
<1> HIDE DEF d
<1>5. r \in Queue /\ r.dq = d /\ r.step = q.step + p
  BY <1>1, <1>2, <1>4 DEF Queue
<1> QED
  BY <1>2, <1>3, <1>5

LEMMA OnTimerInv ==
  ASSUME HttpInv, OnTimer
  PROVE  HttpInv'
<1> DEFINE o == Older(timers)
           p == Passed(o)
           r == Process(o)
<1>1. /\ net \in [Conns -> PeerState] /\ conn \in [Conns -> Connection] /\ timers \in Queue
      /\ \A c \in Conns : ConnInv(net[c], conn[c], timers, c)
  BY DEF HttpInv
<1>2. /\ timers' = r /\ net' = net
      /\ conn' = [c \in Conns |-> IF c \in Fired(o) THEN [conn[c] EXCEPT !.open = FALSE] ELSE conn[c]]
  BY DEF OnTimer
<1>3. /\ timers.dq \in Seq(Entry) /\ timers.step \in Nat /\ Len(timers.dq) \in Nat
  BY <1>1, QueueShape
<1>4. /\ o \in Queue /\ o.step = timers.step /\ Len(o.dq) = Len(timers.dq)
      /\ \A i \in 1 .. Len(timers.dq) : /\ o.dq[i].owner = timers.dq[i].owner
                                        /\ o.dq[i].armed = timers.dq[i].armed
  <2>1. o = Older(timers)
    OBVIOUS
  <2> HIDE DEF o
  <2> QED
    BY <1>1, <2>1, OlderQueue
<1>5. p \in 0 .. Len(timers.dq)
  <2> HIDE DEF o
  <2> QED
    BY <1>4, PassedDefined
<1>6. /\ r \in Queue /\ r.step = timers.step + p /\ Len(r.dq) = Len(timers.dq) - p
      /\ \A i \in 1 .. Len(r.dq) : /\ p + i \in 1 .. Len(timers.dq)
                                   /\ r.dq[i].owner = timers.dq[p + i].owner
                                   /\ r.dq[i].armed = timers.dq[p + i].armed
  <2>1. r = Process(o) /\ p = Passed(o)
    OBVIOUS
  <2> HIDE DEF o, p, r
  <2>2. p \in 0 .. Len(o.dq)
    BY <1>4, <1>5
  <2>3. /\ r \in Queue /\ r.step = o.step + p /\ Len(r.dq) = Len(o.dq) - p
        /\ \A i \in 1 .. Len(r.dq) : p + i \in 1 .. Len(o.dq) /\ r.dq[i] = o.dq[p + i]
    BY <1>4, <2>1, <2>2, ProcessQueue
  <2>4. ASSUME NEW i \in 1 .. Len(r.dq)
        PROVE  /\ p + i \in 1 .. Len(timers.dq)
               /\ r.dq[i].owner = timers.dq[p + i].owner
               /\ r.dq[i].armed = timers.dq[p + i].armed
    <3>1. p + i \in 1 .. Len(timers.dq) /\ r.dq[i] = o.dq[p + i]
      BY <1>4, <2>3
    <3> QED
      BY <1>4, <3>1
  <2> QED
    BY <1>4, <2>3, <2>4
<1>7. ASSUME NEW i \in 1 .. Len(timers.dq), timers.dq[i].armed, timers.dq[i].owner \notin Fired(o)
      PROVE  p < i
  <2> SUFFICES ASSUME i <= p PROVE FALSE
    BY <1>3, <1>5
  <2>1. i \in 1 .. p /\ o.dq[i].armed /\ o.dq[i].owner = timers.dq[i].owner
    BY <1>3, <1>4, <1>5, <1>7
  <2> HIDE DEF o
  <2> QED
    BY <1>7, <2>1 DEF Fired
<1>8. ASSUME NEW c \in Fired(o)
      PROVE  \E i \in 1 .. Len(timers.dq) : timers.dq[i].owner = c /\ timers.dq[i].armed
  <2>1. PICK i \in 1 .. p : o.dq[i].armed /\ c = o.dq[i].owner
    <3> HIDE DEF o
    <3> QED
      BY <1>8 DEF Fired
  <2>2. i \in 1 .. Len(timers.dq)
    BY <1>3, <1>5
  <2> HIDE DEF o
  <2> QED
    BY <1>4, <2>1, <2>2
<1> HIDE DEF o, p, r
<1>9. ASSUME NEW c \in Conns
      PROVE  conn'[c] \in Connection /\ ConnInv(net[c], conn'[c], r, c)
  <2> DEFINE k == conn[c]
             j == conn'[c]
             n == net[c]
  <2>1. k \in Connection /\ ConnInv(n, k, timers, c) /\ Mine(k, timers, c)
    BY <1>1 DEF ConnInv
  <2>2. \/ c \in Fired(o) /\ j = [k EXCEPT !.open = FALSE]
        \/ c \notin Fired(o) /\ j = k
    BY <1>2
  <2> HIDE DEF k, j, n
  <2>3. /\ j \in Connection /\ j.life = k.life /\ j.key = k.key /\ j.late = k.late
        /\ j.writes = k.writes /\ j.is_writing = k.is_writing /\ j.pending = k.pending
        /\ j.overlapped = k.overlapped /\ (c \in Fired(o) => ~j.open)
    BY <2>1, <2>2 DEF Connection
  <2>4. c \in Fired(o) => k.life = "live"
    <3> SUFFICES ASSUME c \in Fired(o) PROVE k.life = "live"
      OBVIOUS
    <3>1. PICK i \in 1 .. Len(timers.dq) : timers.dq[i].owner = c /\ timers.dq[i].armed
      BY <1>8
    <3>2. k.key = timers.step + i - 1
      BY <2>1, <3>1 DEF Mine
    <3>3. k.key # NoKey
      BY <1>3, <3>2 DEF NoKey
    <3> QED
      BY <2>1, <3>3 DEF ConnInv
  <2>5. Mine(j, r, c)
    <3>1. j.key = NoKey \/ (j.key \in Nat /\ j.key < r.step + Len(r.dq))
      <4>1. r.step + Len(r.dq) = timers.step + Len(timers.dq)
        BY <1>3, <1>5, <1>6
      <4> QED
        BY <2>1, <2>3, <4>1 DEF Mine
    <3>2. ASSUME NEW i \in 1 .. Len(r.dq)
          PROVE  /\ j.key = r.step + i - 1 => r.dq[i].owner = c
                 /\ r.dq[i].owner = c /\ r.dq[i].armed => j.key = r.step + i - 1
      <4>1. r.step + i - 1 = timers.step + (p + i) - 1
        BY <1>3, <1>5, <1>6
      <4> QED
        BY <1>6, <2>1, <2>3, <4>1 DEF Mine
    <3> QED
      BY <3>1, <3>2 DEF Mine
  <2>6. j.life = "live" /\ j.pending /\ j.open => Armed(r, c)
    <3> SUFFICES ASSUME j.life = "live", j.pending, j.open PROVE Armed(r, c)
      OBVIOUS
    <3>1. c \notin Fired(o) /\ j = k
      BY <2>2, <2>3
    <3>2. Armed(timers, c)
      BY <2>1, <3>1 DEF ConnInv
    <3>3. PICK i \in 1 .. Len(timers.dq) : timers.dq[i].owner = c /\ timers.dq[i].armed
      BY <3>2 DEF Armed
    <3>4. p < i
      BY <1>7, <3>1, <3>3
    <3>5. i - p \in 1 .. Len(r.dq) /\ p + (i - p) = i
      BY <1>3, <1>5, <1>6, <3>4
    <3>6. r.dq[i - p].owner = c /\ r.dq[i - p].armed
      BY <1>6, <3>3, <3>5
    <3> QED
      BY <3>5, <3>6 DEF Armed
  <2>7. ASSUME j = k PROVE ConnInv(n, j, r, c)
    BY <2>1, <2>5, <2>6, <2>7 DEF ConnInv
  <2>8. ASSUME c \in Fired(o) PROVE ConnInv(n, j, r, c)
    <3>1. ~Reads(j) /\ j.life = "live"
      BY <2>3, <2>4, <2>8 DEF Reads
    <3>2. OneAtATime(j) /\ InOrder(j, n)
      BY <2>1, <2>3, <3>1 DEF ConnInv, OneAtATime, InOrder, AnswerInFlight
    <3> QED
      BY <2>1, <2>3, <2>5, <2>6, <3>1, <3>2 DEF ConnInv
  <2> QED
    BY <2>2, <2>3, <2>7, <2>8 DEF j, n
<1>10. conn' \in [Conns -> Connection]
  BY <1>2, <1>9
<1> QED
  BY <1>1, <1>2, <1>6, <1>9, <1>10 DEF HttpInv

-----------------------------------------------------------------------------
(***************************************************************************)
(* The theorems.                                                           *)
(***************************************************************************)
LEMMA HttpStep == HttpInv /\ [Next]_vars => HttpInv'
<1> SUFFICES ASSUME HttpInv, [Next]_vars PROVE HttpInv'
  OBVIOUS
<1>1. CASE UNCHANGED vars
  BY <1>1 DEF vars, HttpInv, ConnInv, Mine, Armed
<1>2. CASE OnTimer
  BY <1>2, OnTimerInv
<1>3. ASSUME NEW c \in Conns, Accept(c) PROVE HttpInv'
  BY <1>3, AcceptInv
<1>4. ASSUME NEW c \in Conns, Started(c) PROVE HttpInv'
  BY <1>4, StartedInv
<1>5. ASSUME NEW c \in Conns, Reading(c) PROVE HttpInv'
  BY <1>5, ReadingInv
<1>6. ASSUME NEW c \in Conns, ReadFails(c) PROVE HttpInv'
  BY <1>6, ReadFailsInv
<1>10. ASSUME NEW c \in Conns, ReadThrows(c) PROVE HttpInv'
  BY <1>10, ReadThrowsInv
<1>7. ASSUME NEW c \in Conns, Written(c) PROVE HttpInv'
  BY <1>7, WrittenInv
<1>8. ASSUME NEW c \in Conns, Send(c) PROVE HttpInv'
  BY <1>8, SendInv
<1>9. ASSUME NEW c \in Conns, Leave(c) PROVE HttpInv'
  BY <1>9, LeaveInv
<1> QED
  BY <1>1, <1>2, <1>3, <1>4, <1>5, <1>6, <1>7, <1>8, <1>9, <1>10 DEF Next, Server, Peers

LEMMA HttpAlways == Spec => []HttpInv
<1> QED
  BY InitInv, HttpStep, PTL DEF Spec

\* A connection that waits for its peer has one deadline armed, and one that does not
\* has none: no old deadline closes a busy connection (Connection::start_deadline and
\* cancel_deadline_timer, over dumb_timer_queue).
THEOREM DeadlinesMatch == Spec => []DeadlineMatches
<1>1. HttpInv => DeadlineMatches
  <2> SUFFICES ASSUME HttpInv PROVE DeadlineMatches
    OBVIOUS
  <2>1. timers \in Queue /\ \A c \in Conns : ConnInv(net[c], conn[c], timers, c)
    BY DEF HttpInv
  <2>2. DOMAIN timers.dq = 1 .. Len(timers.dq) /\ timers.step \in Nat
    BY <2>1, QueueShape
  <2>3. ASSUME NEW i \in 1 .. Len(timers.dq), timers.dq[i].armed
        PROVE  /\ conn[timers.dq[i].owner].life = "live"
               /\ conn[timers.dq[i].owner].key = timers.step + i - 1
    <3> DEFINE c == timers.dq[i].owner
    <3>1. c \in Conns
      BY <2>1, QueueShape DEF Entry
    <3>2. ConnInv(net[c], conn[c], timers, c) /\ Mine(conn[c], timers, c)
      BY <2>1, <3>1 DEF ConnInv
    <3>3. conn[c].key = timers.step + i - 1
      BY <2>3, <3>2 DEF Mine
    <3>4. conn[c].key # NoKey
      BY <2>2, <3>3 DEF NoKey
    <3> QED
      BY <3>2, <3>3, <3>4 DEF ConnInv
  <2>4. ASSUME NEW c \in Conns, conn[c].life = "live", conn[c].pending, conn[c].open
        PROVE  \E i \in DOMAIN timers.dq : timers.dq[i].owner = c /\ timers.dq[i].armed
    BY <2>1, <2>2, <2>4 DEF ConnInv, Armed
  <2> QED
    BY <2>2, <2>3, <2>4 DEF DeadlineMatches
<1> QED
  BY <1>1, HttpAlways, PTL

\* A connection that writes one answer at a time is deleted only when none of its writes
\* is on the way (Connection::check_destroy): none completes on a deleted connection.
THEOREM NoLateCompletions == Spec => []NoLateCompletion
<1>1. HttpInv => NoLateCompletion
  BY DEF HttpInv, ConnInv, NoLateCompletion
<1> QED
  BY <1>1, HttpAlways, PTL

\* A peer that waits for each answer gets the answers to its own requests, in their order
\* and none to an upgrade, whatever the timers, the other peers and the buffers of the
\* reads do (Connection::handle, complete_request and do_write with the one response).
THEOREM AnswersAreOwn == Spec => []OwnAnswers
<1>1. HttpInv => OwnAnswers
  <2> SUFFICES ASSUME HttpInv, NEW c \in Conns
               PROVE  /\ net[c].waits => ~conn[c].overlapped
                      /\ ~conn[c].overlapped =>
                           \A i \in DOMAIN net[c].answers :
                             /\ i \in DOMAIN net[c].script /\ ~Upgrade(net[c].script[i])
                             /\ net[c].answers[i] = Own(net[c].script[i])
    BY DEF OwnAnswers
  <2>1. net[c] \in PeerState /\ ConnInv(net[c], conn[c], timers, c)
    BY DEF HttpInv
  <2>2. /\ DOMAIN net[c].answers = 1 .. Len(net[c].answers)
        /\ DOMAIN net[c].script = 1 .. Len(net[c].script)
    BY <2>1 DEF PeerState
  <2> QED
    BY <2>1, <2>2 DEF ConnInv, InOrder, Answers
<1> QED
  BY <1>1, HttpAlways, PTL

=============================================================================
