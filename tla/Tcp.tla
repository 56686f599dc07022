-------------------------------- MODULE Tcp --------------------------------
(***************************************************************************)
(* The TCP of the network library (lib/net/tcp.c) between two hosts that   *)
(* both run it, over a network that reorders segments, loses all but one   *)
(* of the identical ones in flight and, if Duplicates, delivers any of     *)
(* them again and again or never.                                          *)
(*                                                                         *)
(* Each host has one binding and at most one connection: a client process  *)
(* listens or connects, then reads, writes and disconnects, one blocking   *)
(* request at a time.  The bytes a client writes are numbered 0, 1, ... in *)
(* the order it writes them, so that a packet's data is the number of its  *)
(* first byte and its length.  Sequence numbers start at 0 and do not wrap *)
(* around: the code compares them as plain integers.                       *)
(***************************************************************************)
EXTENDS Integers, Sequences, FiniteSets, SequencesExt

CONSTANTS Active, Passive,     \* the host that connects, the one that listens
          Duplicates,
          WriteLens, ReadLens, \* sizes of the clients' requests
          MaxBytes,            \* MaxBytes[h]: how much h's client writes
          MaxQueue,            \* bound on a connection's two lists of packets
          nil

Hosts == {Active, Passive}
Peer(h) == IF h = Active THEN Passive ELSE Active

States == {"listen", "syn_sent", "syn_received", "established", "fin_wait_1",
           "fin_wait_2", "close_wait", "last_ack", "time_wait"}
Requests == {"none", "listen", "connect", "disconnect"}
Flags == {"syn", "ack", "fin", "psh"}

\* A packet in the list sending, and one in recv_wait.
Packet == [seq : Nat, flags : SUBSET Flags, from : Nat, len : Nat]
Data == [seq : Nat, from : Nat, len : Nat]

Connection ==
  [state : States, closing : BOOLEAN, ack : Nat, next_seq : Nat, sending : Seq(Packet),
   offset : Nat, recv_wait : Seq(Data)]

\* A segment on the network.
Segment ==
  [to : Hosts, seq : Nat, ack : Nat, flags : SUBSET Flags, from : Nat, len : Nat]

\* What the code takes for granted of its constants.
TcpOK ==
  /\ Active # Passive /\ Duplicates \in BOOLEAN
  /\ WriteLens \subseteq Nat /\ ReadLens \subseteq Nat
  /\ MaxBytes \in [Hosts -> Nat] /\ MaxQueue \in Nat \ {0}
  /\ nil \notin Connection

VARIABLES con,      \* con[h]: the connection, nil before listen or connect
          arp,      \* hosts that wait for the address of their peer
          net,      \* segments in flight
          waiting,  \* waiting[h]: the request h's client is blocked in
          stray,    \* history: a reply nobody waited for was sent
          sent,     \* history: sent[h] bytes were written by h's client
          got       \* history: got[h]: the bytes h's client has read

vars == <<con, arp, net, waiting, stray, sent, got>>

NewCon(state) ==
  [state |-> state, closing |-> FALSE, ack |-> 0, next_seq |-> 0,
   sending |-> <<>>, offset |-> 0, recv_wait |-> <<>>]

-----------------------------------------------------------------------------
(* A handler turns a connection into a job: the connection it leaves, the  *)
(* segments it sends and the reply it makes.                               *)

Job(c) == [c |-> c, out |-> {}, reply |-> "none"]
Update(j, c) == [j EXCEPT !.c = c]
Answer(j, c, reply) == [j EXCEPT !.c = c, !.reply = reply]

\* The packet add_pkt appends: it takes the next sequence number.
Pkt(c, flags, from, len) ==
  [seq |-> c.next_seq, flags |-> flags, from |-> from, len |-> len]
add_pkt(j, flags, from, len) ==
  Update(j, [j.c EXCEPT !.sending = Append(@, Pkt(j.c, flags, from, len))])

\* Empty packets before the one to send are forgotten.
Sendable(q) ==
  LET stays(k) == q[k].len > 0 \/ q[k].flags \cap {"syn", "fin"} # {} \/ k = Len(q)
      first == CHOOSE k \in 1..Len(q) : stays(k) /\ \A i \in 1..k-1 : ~stays(i)
  IN  SubSeq(q, first, Len(q))

\* Sending a fin changes the state.
AfterSending(state, flags) ==
  CASE "fin" \in flags /\ state = "established" -> "fin_wait_1"
    [] "fin" \in flags /\ state = "close_wait" -> "last_ack"
    [] OTHER -> state

SegmentOf(h, c, p) ==
  [to |-> Peer(h), seq |-> p.seq, ack |-> c.ack, flags |-> p.flags, from |-> p.from,
   len |-> p.len]

send_tcp_pkt(h, j) ==
  IF j.c.sending = <<>> THEN j
  ELSE LET q == Sendable(j.c.sending)
           c == [j.c EXCEPT !.sending = q, !.state = AfterSending(@, q[1].flags)]
       IN  [j EXCEPT !.c = c, !.out = @ \cup {SegmentOf(h, c, q[1])}]

AckNow(h, j) == send_tcp_pkt(h, add_pkt(j, {"ack"}, 0, 0))

-----------------------------------------------------------------------------
(* handle_tcp: what a segment does to the connection it is for.            *)

Unacked(p, ack) == ack < p.seq + p.len \/ "fin" \in p.flags

\* Packets up to the acknowledged one are dropped, a fin never.
Acked(q, ack) ==
  LET kept == {k \in 1..Len(q) : Unacked(q[k], ack)}
      first == CHOOSE k \in kept : \A i \in kept : k <= i
  IN  IF kept = {} THEN <<>> ELSE SubSeq(q, first, Len(q))

\* Where the loop over recv_wait stops: packets not after ack are skipped.
Spot(c, seq) ==
  LET stops == {k \in 1..Len(c.recv_wait) :
                  c.recv_wait[k].seq > c.ack /\ c.recv_wait[k].seq >= seq}
  IN  IF stops = {} THEN Len(c.recv_wait) + 1
      ELSE CHOOSE k \in stops : \A i \in stops : k <= i

insert_received(c, m) ==
  LET k == Spot(c, m.seq)
      have == k <= Len(c.recv_wait) => c.recv_wait[k].seq # m.seq
      pkt == [seq |-> m.seq, from |-> m.from, len |-> m.len]
  IN  IF have THEN [c EXCEPT !.recv_wait = InsertAt(@, k, pkt)] ELSE c

\* Mutant: a fin is not expected once ours is acknowledged.
FinWaitOne == {"fin_wait_1"}

FinWait == {"fin_wait_1", "fin_wait_2"}

FinAgain(h, j) == AckNow(h, j)

CloseWait(c) == [c EXCEPT !.state = "close_wait", !.closing = TRUE]
CountFin(c) == [c EXCEPT !.ack = @ + 1]

handle_tcp_fin(h, j) ==
  LET c == j.c
      finished == [CountFin(c) EXCEPT !.state = "time_wait"]
  IN  CASE c.state = "established" ->
             IF c.recv_wait # <<>> THEN Update(j, CloseWait(c))
             ELSE AckNow(h, Update(j, CountFin(CloseWait(c))))
        [] c.state \in FinWait -> AckNow(h, Answer(j, finished, "disconnect"))
        [] c.state = "time_wait" -> FinAgain(h, j)
        [] OTHER -> j

AckSyn(h, j) == AckNow(h, j)

handle_tcp_syn(h, j, m) ==
  LET c == j.c
      up == [c EXCEPT !.state = "established", !.ack = m.seq + 1, !.next_seq = @ + 1]
      received == [c EXCEPT !.state = "syn_received", !.ack = m.seq + 1]
  IN  CASE c.state = "syn_sent" -> AckSyn(h, Answer(j, up, "connect"))
        [] c.state = "listen" ->
             send_tcp_pkt(h, add_pkt(Update(j, received), {"syn", "ack"}, 0, 0))
        [] OTHER -> j

\* The fin that the acknowledgement is for leaves the sending list.
DropHead(c) == IF c.sending = <<>> THEN c ELSE [c EXCEPT !.sending = Tail(@)]

IsNew(c, m) == c.ack < m.seq + m.len

\* After last_ack nothing more happens: tcp_con_free refuses every state but
\* closed, which no connection enters.
handle_tcp_ack(h, j, m) ==
  LET c == j.c IN
  CASE c.state = "last_ack" ->
         IF m.ack = c.next_seq + 1 THEN Update(j, DropHead(c)) ELSE j
    [] c.state = "fin_wait_1" ->
         IF m.ack = c.next_seq + 1
         THEN Update(j, [DropHead(c) EXCEPT !.state = "fin_wait_2",
                                            !.next_seq = @ + 1])
         ELSE send_tcp_pkt(h, j)
    [] c.state = "syn_received" ->
         Answer(j, [c EXCEPT !.state = "established", !.next_seq = @ + 1], "listen")
    [] c.state = "established" ->
         IF IsNew(c, m) THEN Update(j, insert_received(c, m))
         ELSE IF m.len > 0 THEN AckNow(h, j) ELSE j
    [] OTHER -> j

\* A reset is logged and otherwise ignored; no segment of this code has one.
Dispatch(h, j, m) ==
  CASE "fin" \in m.flags -> handle_tcp_fin(h, j)
    [] "fin" \notin m.flags /\ "syn" \in m.flags -> handle_tcp_syn(h, j, m)
    [] OTHER -> handle_tcp_ack(h, j, m)

Acknowledged(h, m) ==
  IF "ack" \in m.flags THEN [con[h] EXCEPT !.sending = Acked(@, m.ack)] ELSE con[h]

-----------------------------------------------------------------------------
Finish(h, j) ==
  /\ Len(j.c.sending) <= MaxQueue /\ Len(j.c.recv_wait) <= MaxQueue
  /\ con' = [con EXCEPT ![h] = j.c]
  /\ stray' = (stray \/ (j.reply # "none" /\ waiting[h] # j.reply))

Replied(h, reply) ==
  IF reply = "none" THEN waiting ELSE [waiting EXCEPT ![h] = "none"]

\* Without a connection the segment is dropped.  (Each \E names the one result
\* of a step of the handler.)
handle_tcp(h, m) ==
  /\ m \in net /\ m.to = h
  /\ LET left == IF Duplicates THEN net ELSE net \ {m} IN
     IF con[h] = nil
     THEN net' = left /\ UNCHANGED <<con, waiting, stray>>
     ELSE \E c \in {Acknowledged(h, m)} :
          \E handled \in {Dispatch(h, Job(c), m)} :
          \E j \in {send_tcp_pkt(h, handled)} :
            /\ Finish(h, j)
            /\ net' = left \cup j.out
            /\ waiting' = Replied(h, j.reply)
  /\ UNCHANGED <<arp, sent, got>>

(* The requests of the clients.                                            *)

ip_tcp_listen(h) ==
  /\ h = Passive /\ con[h] = nil /\ waiting[h] = "none"
  /\ con' = [con EXCEPT ![h] = NewCon("listen")]
  /\ waiting' = [waiting EXCEPT ![h] = "listen"]
  /\ UNCHANGED <<arp, net, stray, sent, got>>

\* The syn waits in sending until the address of the peer is known.
ip_tcp_connect(h) ==
  /\ h = Active /\ con[h] = nil /\ waiting[h] = "none"
  /\ con' = [con EXCEPT ![h] = add_pkt(Job(NewCon("syn_sent")), {"syn"}, 0, 0).c]
  /\ waiting' = [waiting EXCEPT ![h] = "connect"]
  /\ arp' = arp \cup {h}
  /\ UNCHANGED <<net, stray, sent, got>>

\* The answer to the address request of ip_tcp_connect.
connect_tcp_arp(h) ==
  /\ h \in arp
  /\ arp' = arp \ {h}
  /\ \E j \in {send_tcp_pkt(h, Job(con[h]))} :
       Finish(h, j) /\ net' = net \cup j.out
  /\ UNCHANGED <<waiting, sent, got>>

Connected(h) ==
  con[h] # nil /\ waiting[h] = "none" /\ con[h].state # "time_wait"

\* A disconnect with unread data is neither done nor answered.
ip_tcp_disconnect(h) ==
  /\ Connected(h)
  /\ waiting' = [waiting EXCEPT ![h] = "disconnect"]
  /\ LET c == [con[h] EXCEPT !.closing = TRUE]
         fin == add_pkt(Job(c), {"ack", "fin"}, 0, 0)
         j == send_tcp_pkt(h, IF c.state \in {"established", "close_wait"}
                              THEN fin ELSE Job(c))
     IN  IF con[h].recv_wait # <<>> THEN UNCHANGED <<con, net, stray>>
         ELSE Finish(h, j) /\ net' = net \cup j.out
  /\ UNCHANGED <<arp, sent, got>>

\* Writing is refused unless the connection is established and open.
ip_write_tcp(h, len) ==
  /\ Connected(h) /\ con[h].state = "established" /\ ~con[h].closing
  /\ sent[h] + len <= MaxBytes[h]
  /\ LET added == add_pkt(Job(con[h]), {"ack", "psh"}, sent[h], len)
         j == send_tcp_pkt(h, Update(added, [added.c EXCEPT !.next_seq = @ + len]))
     IN  Finish(h, j) /\ net' = net \cup j.out
  /\ sent' = [sent EXCEPT ![h] = @ + len]
  /\ UNCHANGED <<arp, waiting, got>>

\* Mutant: whatever is first in recv_wait is read.
CopyEndsFull(r, p) == r.stop \/ r.room = 0

CopyEnds(r, p) == r.stop \/ r.room = 0 \/ p.seq # r.ack

\* One turn of the loop that copies from recv_wait: r is how far it is.
Copy(r, p) ==
  IF CopyEnds(r, p)
  THEN [r EXCEPT !.stop = TRUE, !.left = Append(@, p)]
  ELSE LET l == IF r.room > p.len - r.offset THEN p.len - r.offset ELSE r.room
           bytes == [i \in 1..l |-> p.from + r.offset + i - 1]
       IN  IF r.offset + l < p.len
           THEN [r EXCEPT !.room = @ - l, !.bytes = @ \o bytes, !.stop = TRUE,
                          !.offset = @ + l, !.left = Append(@, p)]
           ELSE [r EXCEPT !.room = @ - l, !.bytes = @ \o bytes, !.ack = @ + l,
                          !.offset = 0]

Copied(c, len) ==
  LET start == [room |-> len, ack |-> c.ack, offset |-> c.offset, bytes |-> <<>>,
                left |-> <<>>, stop |-> FALSE]
      r[k \in 0..Len(c.recv_wait)] ==
        IF k = 0 THEN start ELSE Copy(r[k - 1], c.recv_wait[k])
  IN  r[Len(c.recv_wait)]

\* Reading is refused in every state but established.
ip_read_tcp(h, len) ==
  /\ Connected(h) /\ con[h].state = "established"
  /\ \E r \in {Copied(con[h], len)} :
       LET c == con[h]
           taken == [c EXCEPT !.recv_wait = r.left, !.offset = r.offset, !.ack = r.ack]
       IN  \E acked \in {IF c.ack < r.ack THEN AckNow(h, Job(taken)) ELSE Job(taken)} :
           \E j \in {IF c.closing /\ r.left = <<>>
                     THEN AckNow(h, Update(acked, CountFin(CloseWait(acked.c))))
                     ELSE acked} :
             /\ Finish(h, j)
             /\ net' = net \cup j.out
             /\ got' = [got EXCEPT ![h] = @ \o r.bytes]
  /\ UNCHANGED <<arp, waiting, sent>>

-----------------------------------------------------------------------------
Init ==
  /\ con = [h \in Hosts |-> nil]
  /\ arp = {}
  /\ net = {}
  /\ waiting = [h \in Hosts |-> "none"]
  /\ stray = FALSE
  /\ sent = [h \in Hosts |-> 0]
  /\ got = [h \in Hosts |-> <<>>]

Deliver(h) == \E m \in net : handle_tcp(h, m)
Write(h) == \E len \in WriteLens : ip_write_tcp(h, len)
Read(h) == \E len \in ReadLens : ip_read_tcp(h, len)

Next == \E h \in Hosts :
  \/ Deliver(h)
  \/ ip_tcp_listen(h)
  \/ ip_tcp_connect(h)
  \/ connect_tcp_arp(h)
  \/ ip_tcp_disconnect(h)
  \/ Write(h)
  \/ Read(h)

Spec == Init /\ [][Next]_vars

\* Segments that a host can handle are eventually handled, and the answer to
\* an address request comes.  Clients keep reading, and disconnect once the
\* other side has.
Closing(h) == ip_tcp_disconnect(h) /\ con[h].state = "close_wait"
FairNet == WF_vars(connect_tcp_arp(Active)) /\ \A h \in Hosts : WF_vars(Deliver(h))
FairSpec == Spec /\ FairNet /\ \A h \in Hosts : WF_vars(Closing(h))
FairReads == Spec /\ FairNet /\ WF_vars(Read(Passive))

-----------------------------------------------------------------------------
(* Properties.                                                             *)

\* The variables have the types of struct tcp_con and the history.
TypeOK ==
  /\ con \in [Hosts -> Connection \cup {nil}]
  /\ \A h \in Hosts : con[h] # nil => Len(con[h].sending) <= MaxQueue
  /\ arp \subseteq Hosts /\ net \subseteq Segment
  /\ waiting \in [Hosts -> Requests] /\ stray \in BOOLEAN
  /\ sent \in [Hosts -> Nat] /\ got \in [Hosts -> Seq(Nat)]
  /\ \A h \in Hosts : sent[h] <= MaxBytes[h]

\* ip_read_tcp hands the client the bytes that the peer's client wrote, each
\* once and in order, whatever the network does with the segments.
StreamIntact == \A h \in Hosts :
  /\ Len(got[Peer(h)]) <= sent[h]
  /\ \A i \in 1..Len(got[Peer(h)]) : got[Peer(h)][i] = i - 1

\* handle_tcp and send_tcp_pkt drop a packet from sending only when the
\* peer's client has read all of it: every byte that was written and not yet
\* read is still in the sending list, so it can be sent again.
UnreadIsKept == \A h \in Hosts : con[h] # nil =>
  \A b \in Len(got[Peer(h)])..sent[h]-1 :
    \E p \in Range(con[h].sending) : b \in p.from .. p.from + p.len - 1

\* connect_tcp_finish, listen_tcp_finish and tcp_con_finish reply only to a
\* client that is blocked in the request they answer.
RepliesAwaited == ~stray

\* A connection never acknowledges more than its peer has sent: syn and fin
\* count once however often they arrive.
AckSound == \A h \in Hosts :
  con[h] # nil /\ con[h].state \notin {"listen", "syn_sent"} =>
    LET c == con[h]
        p == con[Peer(h)]
        fin == p.state \in {"fin_wait_1", "last_ack"} \/
               (p.state = "time_wait" /\ \E q \in Range(p.sending) : "fin" \in q.flags)
        syn == p.state \in {"syn_sent", "syn_received"}
    IN  p # nil /\ c.ack <= p.next_seq + (IF fin \/ syn THEN 1 ELSE 0)

-----------------------------------------------------------------------------
(* Why they hold.  Each part speaks of a connection c of h, of which s     *)
(* bytes were written and g read, while the peer's client has read gp.     *)

Up == {"established", "fin_wait_1", "fin_wait_2", "close_wait", "last_ack", "time_wait"}
FinSent == {"fin_wait_1", "fin_wait_2", "last_ack", "time_wait"}

\* h has sent its fin, and its peer's client has read all that h wrote.
Finished(h) == con[h] # nil /\ con[h].state \in FinSent /\ Len(got[Peer(h)]) = sent[h]

\* The data that packets carry, and all that is on its way to h.
DataOf(S) == {[seq |-> p.seq, from |-> p.from, len |-> p.len] : p \in {q \in S : q.len > 0}}
SendingOf(c) == IF c = nil THEN {} ELSE Range(c.sending)
ReceivedOf(c) == IF c = nil THEN {} ELSE Range(c.recv_wait)
Flow(h) ==
  DataOf({m \in net : m.to = h}) \cup DataOf(SendingOf(con[Peer(h)]))
    \cup DataOf(ReceivedOf(con[h]))

\* Data is numbered from 1, after the syn, and goes without syn and fin.
Numbered(p, s) ==
  /\ p.len > 0 => p.seq = p.from + 1 /\ p.from + p.len <= s /\ p.flags \cap {"syn", "fin"} = {}
  /\ "syn" \in p.flags => p.seq = 0 /\ "fin" \notin p.flags

\* Before it is established a connection has no data.
Starting(h, c, s, g) == c.state \notin Up =>
  /\ c.next_seq = 0 /\ s = 0 /\ g = 0 /\ ~c.closing /\ c.offset = 0 /\ c.recv_wait = <<>>
  /\ c.ack = IF c.state = "syn_received" THEN 1 ELSE 0
  /\ h = IF c.state = "syn_sent" THEN Active ELSE Passive
  /\ c.state = "listen" => c.sending = <<>>
  /\ c.state = "syn_sent" => \A k \in 1..Len(c.sending) : c.sending[k].flags = {"syn"}

\* The requests that are open, w being the one that the client is blocked in.
Asked(c, w) ==
  /\ c.state \in {"listen", "syn_received"} => w = "listen"
  /\ c.state = "syn_sent" => w = "connect"
  /\ c.state \in {"fin_wait_1", "fin_wait_2"} \/ (c.state = "established" /\ c.closing)
       => w = "disconnect"

\* Our syn has a number and so has our fin, once it is acknowledged.
Counted(c, s) ==
  /\ c.state \in Up =>
       c.next_seq = s + 1 \/ (c.next_seq = s + 2 /\ c.state \in {"fin_wait_2", "time_wait"})
  /\ c.state = "fin_wait_2" => c.next_seq = s + 2
  /\ c.state = "fin_wait_1" \/ (c.state = "time_wait" /\ c.next_seq = s + 1) =>
       \E k \in 1..Len(c.sending) : "fin" \in c.sending[k].flags

\* What is in sending: the bytes that were not read, and no data after a fin.
Sending(c, s, gp) ==
  /\ \A k \in 1..Len(c.sending) :
       Numbered(c.sending[k], s) /\ ("fin" \in c.sending[k].flags => c.closing)
  /\ \A i, k \in 1..Len(c.sending) :
       i < k /\ "fin" \in c.sending[i].flags => c.sending[k].len = 0
  /\ \A b \in gp..s-1 : \E k \in 1..Len(c.sending) :
       b \in c.sending[k].from .. c.sending[k].from + c.sending[k].len - 1

\* An acknowledgement counts the syn, what was read and, if there is one, the fin.
AckOK(ack, g, fin) == ack <= g + 1 \/ (fin /\ ack <= g + 2)

\* What is read next is at offset in the first packet, or starts a packet, or
\* else no data at all has the number that is waited for: a packet that is read
\* in pieces is acknowledged in part only, and then nothing more is read.
InStep(ack, offset, q, g, F) ==
  IF offset > 0
  THEN ack + offset = g + 1 /\ q # <<>> /\ q[1].seq = ack /\ offset < q[1].len
  ELSE ack <= g + 1 /\ (ack < g + 1 => \A x \in F : x.seq # ack)

\* The receiving side, F being the data on its way to h and fin whether the
\* peer has Finished.
Receiving(c, g, fin, F) ==
  /\ c.state \in Up => AckOK(c.ack, g, fin)
  /\ c.state \in {"established", "fin_wait_1", "fin_wait_2"} => c.ack <= g + 1
  /\ c.state = "established" => InStep(c.ack, c.offset, c.recv_wait, g, F)

\* A segment that h has sent.
SentBy(h, c, m, s, g, gp, fin) ==
  /\ Numbered(m, s) /\ AckOK(m.ack, g, fin)
  /\ "fin" \in m.flags => c.state \in FinSent /\ gp = s
  /\ h = Active /\ c.state = "syn_sent" => m.flags = {"syn"}
  /\ h = Passive => c.state # "listen"

Connections == \A h \in Hosts : con[h] # nil =>
  LET g == Len(got[h]) IN
  /\ Starting(h, con[h], sent[h], g) /\ Asked(con[h], waiting[h])
  /\ Counted(con[h], sent[h]) /\ Sending(con[h], sent[h], Len(got[Peer(h)]))
  /\ Receiving(con[h], g, Finished(Peer(h)), Flow(h))

Segments == \A m \in net : LET h == Peer(m.to) IN
  /\ con[h] # nil
  /\ SentBy(h, con[h], m, sent[h], Len(got[h]), Len(got[m.to]), Finished(m.to))

\* No two packets of data overlap.
Whole == \A h \in Hosts : \A x, y \in Flow(h) :
  /\ x.seq = x.from + 1 /\ x.from + x.len <= sent[Peer(h)]
  /\ x = y \/ x.from + x.len <= y.from \/ y.from + y.len <= x.from

\* How far one host is when the other one is.
Paired ==
  /\ con[Active] # nil /\ con[Active].state \in Up =>
       con[Passive] # nil /\ con[Passive].state # "listen"
  /\ con[Passive] # nil /\ con[Passive].state # "listen" =>
       con[Active] # nil /\ (con[Passive].state \in Up => con[Active].state \in Up)
  /\ \A h \in Hosts : con[h] = nil => sent[h] = 0 /\ got[h] = <<>> /\ h \notin arp

TcpInv ==
  /\ TypeOK /\ StreamIntact /\ RepliesAwaited
  /\ Connections /\ Segments /\ Whole /\ Paired

-----------------------------------------------------------------------------
\* handle_tcp_syn and handle_tcp_ack: once a syn is on its way to a listening
\* host both clients get their answers.
Connects ==
  ((\E m \in net : m.flags = {"syn"}) /\ con[Passive] # nil /\ con[Passive].state = "listen")
     ~> (\A h \in Hosts : waiting[h] \notin {"connect", "listen"})

\* The client that disconnects first is answered, once its fin is on the way
\* to an established peer with nothing left to read, when the other client
\* disconnects in its turn.
Closes == \A h \in Hosts :
  (/\ waiting[h] = "disconnect" /\ con[h].state = "fin_wait_1"
   /\ con[Peer(h)].state = "established" /\ con[Peer(h)].recv_wait = <<>>
   /\ \E m \in net : m.to = Peer(h) /\ "fin" \in m.flags)
     ~> waiting[h] = "none"

\* The first segment of the stream that is on the way to an established peer
\* is read by a client that keeps reading and does not disconnect.
Delivered ==
  (/\ con[Passive] # nil /\ con[Passive].state = "established"
   /\ \E m \in net : m.to = Passive /\ m.len > 0 /\ m.seq = con[Passive].ack)
     ~> (got[Passive] # <<>> \/ waiting[Passive] = "disconnect")

\* A connection over a network that loses, repeats and reorders packets: the
\* stream, what is kept to be sent again, the acknowledgements and the replies.
StreamSound == TcpInv /\ UnreadIsKept /\ AckSound

-----------------------------------------------------------------------------
(* Stated in the repository, and not kept by the code (see the README).   *)

\* insert_received keeps a packet it already has only once ("already have
\* pkt", lib/net/tcp.c:273).
HeldOnce == \A h \in Hosts : con[h] # nil =>
  \A i, k \in 1..Len(con[h].recv_wait) :
    con[h].recv_wait[i].seq = con[h].recv_wait[k].seq => i = k

\* Every disconnect is answered ("closing works from both sides",
\* lib/net/tcp.c:21).
BothSidesClose == \A h \in Hosts :
  (waiting[h] = "disconnect" /\ con[h].state = "last_ack") ~> waiting[h] = "none"
=============================================================================
