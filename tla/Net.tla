-------------------------------- MODULE Net --------------------------------
(***************************************************************************)
(* The server side of the network library: the requests of client          *)
(* processes (lib/net/net.c), the bindings of ports and the packets that   *)
(* arrive (lib/net/ip.c), the address table with its waiting requests      *)
(* (lib/net/arp.c) and datagrams (lib/net/udp.c).                          *)
(*                                                                         *)
(* A client has one request at a time: it is blocked until the server      *)
(* replies.  A datagram is the remote address and the numbers of its       *)
(* bytes, which are counted over everything that arrives, so that every    *)
(* byte read can be told apart.  Of a TCP binding the module has only the  *)
(* request to connect; Tcp has the connections.                            *)
(***************************************************************************)
EXTENDS Integers, Sequences, Functions, Lists

CONSTANTS Procs, Addrs, Ports,
          Lens,      \* lengths of datagrams and of reads
          MaxIds,    \* bound: bindings made
          MaxBytes,  \* bound: bytes that arrive
          MaxFaults  \* bound: requests dropped for want of memory

\* What the code takes for granted of its constants.
NetOK ==
  /\ Lens \subseteq Nat \ {0}
  /\ {MaxIds, MaxBytes, MaxFaults} \subseteq Nat

VARIABLES bindings,      \* bindings: chan_id -> the binding
          n_binding_id,
          arp_entries,   \* addresses whose hardware address is known
          arp_requests,  \* the list of requests that wait for an address
          waiting,       \* waiting[p]: what p is blocked in
          faults,
          lost,          \* history: clients whose request was dropped
          bytes,         \* history: bytes that have arrived
          arrived, read  \* history, per binding: bytes queued, bytes read

history == <<lost, bytes, arrived, read>>
vars == <<bindings, n_binding_id, arp_entries, arp_requests, waiting, faults, history>>

Ids == 1..MaxIds

-----------------------------------------------------------------------------
Found(p, id) == id \in DOMAIN bindings /\ bindings[id].proc = p

PortBound(proto, port) ==
  \E id \in DOMAIN bindings : bindings[id].proto = proto /\ bindings[id].port = port
BindingOf(proto, port) ==
  CHOOSE id \in DOMAIN bindings : bindings[id].proto = proto /\ bindings[id].port = port

\* A request that cannot be served is dropped: its client stays blocked.
Dropped(p, what) ==
  /\ waiting' = [waiting EXCEPT ![p] = what]
  /\ lost' = lost \cup {p}

Idle(p) == waiting[p] = "none"

-----------------------------------------------------------------------------
(* Requests.                                                               *)

NewId == n_binding_id + 1

NewBinding(p, proto, port) ==
  [proc |-> p, proto |-> proto, port |-> port, recv_wait |-> <<>>, offset |-> 0]

\* The list of bindings with a new one.
With(id, b) ==
  [i \in DOMAIN bindings \cup {id} |-> IF i = id THEN b ELSE bindings[i]]

\* The reply is ERR when the port is taken and when there is no memory.
handle_bind(p, proto, port) ==
  /\ Idle(p) /\ n_binding_id < MaxIds
  /\ n_binding_id' = n_binding_id + 1
  /\ IF PortBound(proto, port)
     THEN UNCHANGED bindings
     ELSE bindings' = With(NewId, NewBinding(p, proto, port))
  /\ UNCHANGED <<arp_entries, arp_requests, waiting, faults, history>>

\* What ip_unbind leaves, with the datagrams that wait.
Without(id) == [i \in DOMAIN bindings \ {id} |-> bindings[i]]

\* Whatever ip_unbind returns the binding goes, and the reply says what it was.
handle_unbind(p, id) ==
  /\ Idle(p)
  /\ IF Found(p, id)
     THEN /\ bindings' = Without(id)
          /\ UNCHANGED <<waiting, lost>>
     ELSE Dropped(p, "unbind") /\ UNCHANGED bindings
  /\ UNCHANGED <<n_binding_id, arp_entries, arp_requests, faults, bytes, arrived, read>>

\* ip_write_udp: the datagram is sent when the address is known, and the reply
\* follows.  A frame that cannot be mapped, and memory that is not there, leave
\* the client blocked.
arp_match_ip(addr) == addr \in arp_entries
Request(p, id, addr) == [binding |-> id, proc |-> p, addr |-> addr]

\* Mutant: the list is replaced.
WaitingAlone(r) == <<r>>

Waiting(r) == <<r>> \o arp_requests

WriteUdp(p, id, addr) ==
  /\ Idle(p)
  /\ IF ~Found(p, id) THEN Dropped(p, "write") /\ UNCHANGED arp_requests
     ELSE /\ bindings[id].proto = "udp"
          /\ IF arp_match_ip(addr)
             THEN UNCHANGED <<waiting, arp_requests>>
             ELSE /\ waiting' = [waiting EXCEPT ![p] = "write"]
                  /\ arp_requests' = Waiting(Request(p, id, addr))
          /\ UNCHANGED lost
  /\ UNCHANGED <<bindings, n_binding_id, arp_entries, faults, bytes, arrived, read>>

WriteFails(p, id) ==
  /\ Idle(p) /\ Found(p, id) /\ bindings[id].proto = "udp"
  /\ faults < MaxFaults /\ faults' = faults + 1
  /\ Dropped(p, "write")
  /\ UNCHANGED <<bindings, n_binding_id, arp_entries, arp_requests,
                 bytes, arrived, read>>

\* ip_tcp_connect: the connection is added at once, its syn waits for the
\* address, and the reply comes with the connection (see Tcp).
handle_tcp_connect(p, id, addr) ==
  /\ Idle(p)
  /\ IF ~Found(p, id) \/ bindings[id].proto # "tcp"
     THEN Dropped(p, "connect") /\ UNCHANGED arp_requests
     ELSE /\ waiting' = [waiting EXCEPT ![p] = "connect"]
          /\ arp_requests' = IF arp_match_ip(addr) THEN arp_requests
                             ELSE Waiting(Request(p, id, addr))
          /\ UNCHANGED lost
  /\ UNCHANGED <<bindings, n_binding_id, arp_entries, faults, bytes, arrived, read>>

\* The remote host accepts the connection whose syn was sent.
ConnectDone(p) ==
  /\ waiting[p] = "connect" /\ p \notin lost
  /\ \A r \in Range(arp_requests) : r.proc # p
  /\ waiting' = [waiting EXCEPT ![p] = "none"]
  /\ UNCHANGED <<bindings, n_binding_id, arp_entries, arp_requests, faults, history>>

Rest(b) == b

\* ip_read_udp: one read takes at most one datagram, or a part of it.  What it
\* leaves of the binding, and the bytes it copies.
ip_read_udp(b, len) ==
  IF b.recv_wait = <<>> THEN [binding |-> b, part |-> <<>>]
  ELSE LET d == Head(b.recv_wait)
           rest == d.len - b.offset
           l == IF len > rest THEN rest ELSE len
       IN  [part |-> [i \in 1..l |-> <<d.addr, d.first + b.offset + i - 1>>],
            binding |-> IF l < rest THEN [b EXCEPT !.offset = @ + l]
                        ELSE [b EXCEPT !.offset = 0, !.recv_wait = Tail(@)]]

ReadUdp(p, id, len) ==
  /\ Idle(p)
  /\ IF ~Found(p, id) THEN Dropped(p, "read") /\ UNCHANGED <<bindings, read>>
     ELSE /\ bindings[id].proto = "udp"
          /\ LET r == ip_read_udp(Rest(bindings[id]), len) IN
             /\ read' = [read EXCEPT ![id] = @ \o r.part]
             /\ bindings' = [bindings EXCEPT ![id] = r.binding]
          /\ UNCHANGED <<waiting, lost>>
  /\ UNCHANGED <<n_binding_id, arp_entries, arp_requests, faults, bytes, arrived>>

-----------------------------------------------------------------------------
(* Packets.                                                                *)

\* Mutant: only the last request for the address is served.
ServedLast(addr) ==
  {k \in 1..Len(arp_requests) : arp_requests[k].addr = addr /\
     \A i \in 1..k-1 : arp_requests[i].addr # addr}

Served(addr) == {k \in 1..Len(arp_requests) : arp_requests[k].addr = addr}

\* The writes among the served requests are answered.
udp_write_finish(served) ==
  LET answered == {arp_requests[k].proc : k \in served} IN
  [p \in Procs |-> IF p \in answered /\ waiting[p] = "write" THEN "none" ELSE waiting[p]]

\* arp_add_entry: every request that waits for the address is taken off the
\* list and served.  A write is answered, a connection's syn is sent.
arp_add_entry(addr) ==
  LET served == Served(addr) IN
  /\ arp_entries' = arp_entries \cup {addr}
  /\ arp_requests' =
       Kept(arp_requests, ListOf(arp_requests) \ {arp_requests[k] : k \in served})
  /\ waiting' = udp_write_finish(served)
  /\ UNCHANGED <<bindings, n_binding_id, faults, history>>

\* A request about us is answered and its sender remembered, like the sender of
\* an answer to us; other packets are ignored.
handle_arp(addr) == arp_add_entry(addr)

\* handle_ipv4 and handle_udp for a datagram that is not fragmented.
handle_udp(addr, port, len) ==
  /\ bytes + len <= MaxBytes /\ bytes' = bytes + len
  /\ IF PortBound("udp", port)
     THEN LET id == BindingOf("udp", port)
              d == [addr |-> addr, first |-> bytes, len |-> len]
          IN  /\ bindings' = [bindings EXCEPT ![id].recv_wait = Append(@, d)]
              /\ arrived' = [arrived EXCEPT ![id] =
                               @ \o [i \in 1..len |-> <<addr, bytes + i - 1>>]]
     ELSE UNCHANGED <<bindings, arrived>>
  /\ UNCHANGED <<n_binding_id, arp_entries, arp_requests, waiting, faults, lost, read>>

-----------------------------------------------------------------------------
Init ==
  /\ bindings = <<>> /\ n_binding_id = 0
  /\ arp_entries = {} /\ arp_requests = <<>>
  /\ waiting = [p \in Procs |-> "none"]
  /\ faults = 0
  /\ lost = {} /\ bytes = 0
  /\ arrived = [id \in Ids |-> <<>>] /\ read = [id \in Ids |-> <<>>]

\* A client names any binding there has been.
net_handle_message(p) ==
  \/ \E proto \in {"udp", "tcp"}, port \in Ports : handle_bind(p, proto, port)
  \/ \E id \in 1..n_binding_id :
       \/ handle_unbind(p, id)
       \/ WriteFails(p, id)
       \/ \E addr \in Addrs : WriteUdp(p, id, addr) \/ handle_tcp_connect(p, id, addr)
       \/ \E len \in Lens : ReadUdp(p, id, len)

net_process_pkt ==
  \/ \E addr \in Addrs : handle_arp(addr)
  \/ \E addr \in Addrs, port \in Ports, len \in Lens : handle_udp(addr, port, len)
Next ==
  \/ \E p \in Procs : net_handle_message(p) \/ ConnectDone(p)
  \/ net_process_pkt

\* Remote hosts answer address requests and accept connections.
Fairness ==
  /\ \A addr \in Addrs : WF_vars(handle_arp(addr))
  /\ \A p \in Procs : WF_vars(ConnectDone(p))
Spec == Init /\ [][Next]_vars
FairSpec == Spec /\ Fairness

-----------------------------------------------------------------------------
(* Properties.                                                             *)

\* The variables have the types of the structures in lib/net/net.h.
TypeOK ==
  /\ DOMAIN bindings \subseteq Ids /\ n_binding_id \in 0..MaxIds
  /\ \A id \in DOMAIN bindings :
       /\ bindings[id].proc \in Procs /\ bindings[id].port \in Ports
       /\ bindings[id].proto \in {"udp", "tcp"} /\ bindings[id].offset \in Nat
  /\ arp_entries \subseteq Addrs
  /\ waiting \in [Procs -> {"none", "unbind", "write", "connect", "read"}]
  /\ lost \subseteq Procs

\* A request that waits for an address keeps a pointer to its binding:
\* nothing frees the binding before arp_add_entry has used it.
NoFreedBinding == \A r \in Range(arp_requests) : r.binding \in DOMAIN bindings

\* A client that is blocked in a write, or in a connect whose syn was not
\* sent, is in the list of arp requests, once, unless its request was dropped.
BlockedAreQueued == \A p \in Procs : p \notin lost =>
  LET mine == {k \in 1..Len(arp_requests) : arp_requests[k].proc = p}
  IN  /\ \A j, k \in mine : j = k
      /\ waiting[p] = "write" => mine # {}
      /\ mine # {} => waiting[p] \in {"write", "connect"}

\* Nobody waits for an address that arp_entries already has: arp_add_entry
\* serves every request for it.
NobodyWaitsForKnown == \A r \in Range(arp_requests) : r.addr \notin arp_entries

\* ip_read_udp returns the bytes of the datagrams that handle_udp queued for
\* the binding, in order, each once and with its sender's address.
DatagramsInOrder == \A id \in Ids : Begins(read[id], arrived[id])

\* ip_bind: a port has at most one binding of a protocol, so that what
\* arrives for it goes to one client.
OnePortOneBinding == \A i, j \in DOMAIN bindings :
  bindings[i].proto = bindings[j].proto /\ bindings[i].port = bindings[j].port => i = j

\* What keeps these so.  The structures, in full:
Datagram == [addr : Addrs, first : Nat, len : Lens]
Binding == [proc : Procs, proto : {"udp", "tcp"}, port : Ports,
            recv_wait : Seq(Datagram), offset : Nat]
Waits == [binding : Ids, proc : Procs, addr : Addrs]

Structures ==
  /\ n_binding_id \in 0..MaxIds
  /\ DOMAIN bindings \subseteq 1..n_binding_id
  /\ bindings \in [DOMAIN bindings -> Binding]
  /\ arp_entries \subseteq Addrs /\ arp_requests \in Seq(Waits)
  /\ waiting \in [Procs -> {"none", "unbind", "write", "connect", "read"}]
  /\ lost \subseteq Procs /\ bytes \in Nat
  /\ arrived \in [Ids -> Seq(Addrs \X Nat)] /\ read \in [Ids -> Seq(Addrs \X Nat)]

\* A client with a request in the list is blocked in it, it is the owner of
\* the binding, and so cannot unbind it; a dropped client never comes back.
RequestsOwned ==
  /\ OneEach(arp_requests)
  /\ \A r \in ListOf(arp_requests) :
       /\ r.binding \in DOMAIN bindings /\ bindings[r.binding].proc = r.proc
       /\ waiting[r.proc] \in {"write", "connect"} /\ r.proc \notin lost
       /\ r.addr \notin arp_entries
       /\ \A s \in ListOf(arp_requests) : s.proc = r.proc => s = r
  /\ \A p \in Procs :
       /\ waiting[p] = "write" /\ p \notin lost => \E r \in ListOf(arp_requests) : r.proc = p
       /\ p \in lost => waiting[p] # "none"

\* at[k] bytes came for the binding before its k-th datagram that waits; those
\* that were read end inside the first one.
Places(b, came, seen, at) ==
  LET n == Len(b.recv_wait) IN
  /\ at[1] + b.offset = Len(seen) /\ at[n + 1] = Len(came)
  /\ \A k \in 1..n :
       /\ at[k + 1] = at[k] + b.recv_wait[k].len /\ at[k + 1] <= Len(came)
       /\ \A i \in 1..b.recv_wait[k].len :
            came[at[k] + i] = <<b.recv_wait[k].addr, b.recv_wait[k].first + i - 1>>
  /\ IF n = 0 THEN b.offset = 0 ELSE b.offset < b.recv_wait[1].len

Placed(b, came, seen) ==
  \E at \in [1..Len(b.recv_wait) + 1 -> Nat] : Places(b, came, seen, at)

\* What a binding keeps is what came for it and was not read; a number that was
\* not given out has nothing.
BytesKept ==
  /\ \A id \in DOMAIN bindings : Placed(bindings[id], arrived[id], read[id])
  /\ \A id \in Ids : id > n_binding_id => arrived[id] = <<>> /\ read[id] = <<>>

NetInv == Structures /\ RequestsOwned /\ BytesKept /\ OnePortOneBinding /\ DatagramsInOrder

\* A write or a connect that was not dropped is answered.
Answered == \A p \in Procs :
  (waiting[p] \in {"write", "connect"} /\ p \notin lost) ~> waiting[p] = "none"

\* The clients of net.c: what they are blocked in is remembered, with bindings
\* that exist, and what arrives reaches the one it is for, in order.
ClientsServed ==
  /\ TypeOK /\ NoFreedBinding /\ BlockedAreQueued /\ NobodyWaitsForKnown
  /\ DatagramsInOrder /\ OnePortOneBinding
=============================================================================
