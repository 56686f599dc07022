-------------------------------- MODULE Log ---------------------------------
(***************************************************************************)
(* The log server (procs/log/log.c) with the clients' side of it           *)
(* (lib/log/log.c) and the serial driver it prints through                 *)
(* (arm/drivers/serial-pl01x/main.c).  Lines are put in a ring buffer and  *)
(* sent to the serial driver in pieces of a message's size.                *)
(*                                                                         *)
(* A byte is the number it was logged at, modulo Size + 1, so that any two *)
(* bytes that can be in the buffer together are different.                 *)
(***************************************************************************)
EXTENDS Integers, Sequences

CONSTANTS Clients,
          Size,          \* sizeof(buf)
          Piece,         \* sizeof(rq.write.data)
          MAX_SERVICES,
          RegisterLen, FailLen, SlotLen, LogLens,  \* lengths of the lines
          nil

\* The lines of one request, those of a failed registration the most of them,
\* are shorter than the buffer.
LogOK ==
  /\ {Size, Piece, MAX_SERVICES, RegisterLen, FailLen, SlotLen} \subseteq Nat \ {0}
  /\ LogLens \subseteq Nat \ {0} /\ nil \notin Clients
  /\ FailLen + MAX_SERVICES * SlotLen < Size
  /\ \A l \in LogLens \cup {RegisterLen} : l < Size

VARIABLES services,      \* by slot: the client, nil when free
          ring,          \* buf, start and end
          pc, slot,      \* where the server is; the slot it prints
          from, reply,   \* whom it serves, what it answers after sending
          queue,         \* requests at the endpoint
          setup, waits,  \* of a client: log_init has succeeded; it waits
          logged, printed   \* history: numbers of the next byte to log, to print

clients == <<setup, waits>>
server == <<services, ring, pc, slot, from, reply>>
vars == <<server, queue, clients, logged, printed>>

Slots == 0..MAX_SERVICES - 1
Number(n) == n % (Size + 1)

-----------------------------------------------------------------------------
(* The ring.                                                               *)

\* n bytes copied to end, which stays inside the buffer; the first is number b.
Put(r, b, n) ==
  [r EXCEPT !.buf = [i \in DOMAIN @ |-> IF i \in r.end .. r.end + n - 1
                                         THEN Number(b + i - r.end) ELSE @[i]],
            !.end = (@ + n) % Size]

Full(r, len) == r.end < r.start /\ r.end + len >= r.start

\* Mutant: the rest of a line goes where its beginning went.
RestAgain(r, b, n) == Put(r, b - (Size - r.end), n)

Rest(r, b, n) == IF Full(r, n) THEN r ELSE Put(r, b, n)

\* add_log of a line of len bytes.
add_log(r, b, len) ==
  IF Full(r, len) THEN r
  ELSE IF r.end + len > Size
       THEN Rest(Put(r, b, Size - r.end), b + Size - r.end, len - (Size - r.end))
       ELSE Put(r, b, len)

AddLine(len) ==
  ring' = add_log(ring, logged, len) /\ logged' = Number(logged + len)

\* What send_logs sends next.
UptoEnd(r) == IF r.start < r.end THEN r.end - r.start ELSE Size - r.start
Sent(r) == IF UptoEnd(r) > Piece THEN Piece ELSE UptoEnd(r)

-----------------------------------------------------------------------------
(* Clients, lib/log/log.c.                                                 *)

Mesg(c, rq) == waits' = [waits EXCEPT ![c] = rq] /\ queue' = Append(queue, <<c, rq>>)

log_init(c) ==
  /\ waits[c] = nil /\ ~setup[c]
  /\ Mesg(c, [type |-> "register"])
  /\ UNCHANGED <<server, setup, logged, printed>>

\* log, with a level the server knows or not.
log(c, len, known) ==
  /\ waits[c] = nil /\ setup[c]
  /\ Mesg(c, [type |-> "log", len |-> len, known |-> known])
  /\ UNCHANGED <<server, setup, logged, printed>>

Reply(c, ret) ==
  /\ waits' = [waits EXCEPT ![c] = nil]
  /\ setup' = [setup EXCEPT ![c] = @ \/ (waits[c].type = "register" /\ ret = "OK")]

-----------------------------------------------------------------------------
(* The server.                                                             *)

Receive(c, rq) == pc = "recv" /\ queue # <<>> /\ Head(queue) = <<c, rq>> /\ queue' = Tail(queue)

Free == {i \in Slots : services[i] = nil}
First(s) == CHOOSE i \in s : \A j \in s : i <= j

\* handle_register: it replies, and then sends what it logged.
handle_register(c, rq) ==
  /\ Receive(c, rq) /\ rq.type = "register"
  /\ IF Free # {}
     THEN /\ services' = [services EXCEPT ![First(Free)] = c]
          /\ AddLine(RegisterLen)
          /\ Reply(c, "OK")
          /\ pc' = "send" /\ UNCHANGED <<slot, from, reply>>
     ELSE /\ AddLine(FailLen)
          /\ pc' = "slots" /\ slot' = 0 /\ from' = c
          /\ UNCHANGED <<services, reply, clients>>
  /\ UNCHANGED printed

\* The table is logged when a registration fails.
LogSlot ==
  /\ pc = "slots"
  /\ AddLine(SlotLen)
  /\ IF slot + 1 < MAX_SERVICES
     THEN slot' = slot + 1 /\ UNCHANGED <<pc, from, clients>>
     ELSE pc' = "send" /\ slot' = 0 /\ from' = nil /\ Reply(from, "ERR")
  /\ UNCHANGED <<services, reply, queue, printed>>

\* find_service
find_service(c) == {i \in Slots : services[i] = c}

\* handle_log of a client that is not registered or a level that is unknown.
Refused(c, rq) ==
  /\ Receive(c, rq) /\ rq.type = "log"
  /\ find_service(c) = {} \/ ~rq.known
  /\ Reply(c, "ERR")
  /\ UNCHANGED <<server, logged, printed>>

\* handle_log: it sends the line, and then replies.
handle_log(c, rq) ==
  /\ Receive(c, rq) /\ rq.type = "log"
  /\ find_service(c) # {} /\ rq.known
  /\ AddLine(rq.len)
  /\ pc' = "send" /\ from' = c /\ reply' = "OK"
  /\ UNCHANGED <<services, slot, clients, printed>>

\* One turn of send_logs: the serial driver's handle_write prints the piece.
send_logs ==
  /\ pc = "send" /\ ring.start # ring.end
  /\ ring' = [ring EXCEPT !.start = (@ + Sent(ring)) % Size]
  /\ printed' = Number(printed + Sent(ring))
  /\ UNCHANGED <<services, pc, slot, from, reply, queue, clients, logged>>

\* The serial driver cannot be reached: the server exits.
SendFails ==
  /\ pc = "send" /\ ring.start # ring.end
  /\ pc' = "exited"
  /\ UNCHANGED <<services, ring, slot, from, reply, queue, clients, logged, printed>>

Done ==
  /\ pc = "send" /\ ring.start = ring.end
  /\ pc' = "recv" /\ from' = nil /\ reply' = nil
  /\ IF from # nil THEN Reply(from, reply) ELSE UNCHANGED clients
  /\ UNCHANGED <<services, ring, slot, queue, logged, printed>>

Init ==
  /\ services = [i \in Slots |-> nil]
  /\ ring = add_log([buf |-> [i \in 0..Size - 1 |-> 0], start |-> 0, end |-> 0], 0, 1)
  /\ pc = "send" /\ slot = 0 /\ from = nil /\ reply = nil
  /\ queue = <<>>
  /\ setup = [c \in Clients |-> FALSE] /\ waits = [c \in Clients |-> nil]
  /\ logged = 1 /\ printed = 0

ServerNext ==
  \/ \E c \in Clients :
       \E rq \in {waits[c]} \ {nil} :
         handle_register(c, rq) \/ Refused(c, rq) \/ handle_log(c, rq)
  \/ LogSlot \/ send_logs \/ Done
ClientNext == \E c \in Clients :
  log_init(c) \/ \E len \in LogLens, known \in BOOLEAN : log(c, len, known)
Next == ServerNext \/ ClientNext \/ SendFails
Spec == Init /\ [][Next]_vars

\* The server is scheduled.  Whether clients log is up to them.
FairSpec == Spec /\ WF_vars(ServerNext)

-----------------------------------------------------------------------------
(* Properties.                                                             *)

\* The variables have the types of the server's data.
TypeOK ==
  /\ services \in [Slots -> Clients \cup {nil}] /\ slot \in Slots
  /\ ring.start \in 0..Size - 1 /\ ring.end \in 0..Size - 1
  /\ ring.buf \in [0..Size - 1 -> 0..Size]
  /\ pc \in {"recv", "slots", "send", "exited"} /\ from \in Clients \cup {nil}
  /\ setup \in [Clients -> BOOLEAN]

\* The buffer holds, from start to end and around its end, exactly what was
\* logged and not printed yet, in that order: nothing that a client logged is
\* lost, cut or printed twice, and what the serial driver is sent is it.
RingHolds ==
  LET n == (ring.end - ring.start) % Size IN
  /\ n = (logged - printed) % (Size + 1)
  /\ \A k \in 0..n - 1 : ring.buf[(ring.start + k) % Size] = Number(printed + k)

\* A client whose log_init succeeded is in the table, in one slot, for good:
\* what it logs is never refused as a stranger's.
SetUpIsKnown == \A c \in Clients :
  setup[c] => \E i \in Slots : services[i] = c /\ \A j \in Slots \ {i} : services[j] # c

\* Every request is answered, unless the server exits.
Answered == \A c \in Clients : waits[c] # nil ~> (waits[c] = nil \/ pc = "exited")

\* Everything that was logged is printed or kept, in order, and those who may log
\* are known.
LinesKept == TypeOK /\ RingHolds /\ SetUpIsKnown

-----------------------------------------------------------------------------
(* What LinesKept rests on.                                                *)

\* The bytes in the buffer.
Held(r) == (r.end - r.start) % Size

\* The buffer is empty when a request comes and never full, because it is
\* sent before the next one; while the table is logged it holds just that.
RingFits ==
  /\ ring \in [buf : [0..Size - 1 -> 0..Size], start : 0..Size - 1, end : 0..Size - 1]
  /\ logged \in 0..Size /\ printed \in 0..Size
  /\ pc = "recv" => ring.start = ring.end
  /\ pc = "slots" => Held(ring) = FailLen + slot * SlotLen

\* What clients ask.
Request(rq) == rq.type = "register" \/ (rq.type = "log" /\ rq.len \in LogLens)

\* The client that is served waits for its answer, and one that waits to be
\* registered is not in the table yet.
ClientsFit ==
  /\ waits = [c \in Clients |-> waits[c]]
  /\ pc = "recv" => from = nil
  /\ pc = "slots" => from \in Clients /\ waits[from] # nil /\ waits[from].type = "register"
  /\ pc = "send" /\ from # nil => waits[from] # nil /\ waits[from].type = "log"
  /\ \A c \in Clients :
       /\ ~setup[c] => \A i \in Slots : services[i] # c
       /\ waits[c] # nil => Request(waits[c])
       /\ waits[c] # nil /\ waits[c].type = "register" => ~setup[c]

LogInv == LinesKept /\ RingFits /\ ClientsFit
=============================================================================
