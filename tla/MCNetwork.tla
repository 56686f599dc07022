----------------------------- MODULE MCNetwork ------------------------------
(***************************************************************************)
(* Instances of the network components: the connections of two hosts over  *)
(* a network that loses, repeats and reorders packets, the server with two *)
(* clients, and the virtio driver with its device.  The server links the   *)
(* stack and the driver into one process that handles one message at a     *)
(* time; Tcp and Net take a packet from the driver whole, and VirtioNet    *)
(* shows that packets come whole, so a run takes the steps of one of them  *)
(* and leaves the others where they start.                                 *)
(***************************************************************************)
EXTENDS Integers, Sequences

CONSTANTS
  nil, End,
  A, B, Duplicates, WriteLens, ReadLens, BytesA, BytesB, MaxQueue,  \* Tcp
  Procs, Addrs, Ports, Lens, MaxIds, MaxBytes, MaxFaults,  \* Net
  Word16, Size, MaxPkts                                 \* VirtioNet

VARIABLES
  which,                                                \* the component that runs
  con, arp, net, blocked, stray, written, taken,        \* Tcp
  bindings, n_binding_id, arp_entries, arp_requests,    \* Net
  waiting, faults, lost, bytes, queued, read,
  rx, tx, rx_buf, tx_buf, pc, e, interrupt_status, masked, signal,  \* VirtioNet
  arrived, got, sent, out, missed

tcp == <<con, arp, net, blocked, stray, written, taken>>
server == <<bindings, n_binding_id, arp_entries, arp_requests, waiting, faults, lost,
            bytes, queued, read>>
driver == <<rx, tx, rx_buf, tx_buf, pc, e, interrupt_status, masked, signal, arrived,
            got, sent, out, missed>>
vars == <<which, tcp, server, driver>>

-----------------------------------------------------------------------------
\* The client of A connects, that of B listens.
Tcp == INSTANCE Tcp WITH
  Active <- A, Passive <- B,
  MaxBytes <- [h \in {A, B} |-> IF h = A THEN BytesA ELSE BytesB],
  waiting <- blocked, sent <- written, got <- taken

Net == INSTANCE Net WITH arrived <- queued

Virtio == INSTANCE VirtioNet

ASSUME ConstantsOK == Tcp!TcpOK /\ Net!NetOK /\ Virtio!VirtioOK

-----------------------------------------------------------------------------
Init ==
  /\ which \in {"tcp", "net", "virtio"}
  /\ Tcp!Init
  /\ Net!Init
  /\ Virtio!Init

Next ==
  /\ \/ which = "tcp" /\ Tcp!Next /\ UNCHANGED <<server, driver>>
     \/ which = "net" /\ Net!Next /\ UNCHANGED <<tcp, driver>>
     \/ which = "virtio" /\ Virtio!Next /\ UNCHANGED <<tcp, server>>
  /\ UNCHANGED which

Spec == Init /\ [][Next]_vars

-----------------------------------------------------------------------------
\* tcp.c: the client reads what the other one wrote, in order and once; what it
\* has not read is kept, and acknowledgements and replies are never made up.
StreamSound == which = "tcp" => Tcp!StreamSound

\* net.c, arp.c, udp.c: whoever is blocked is remembered, with a binding that
\* exists, and datagrams reach their reader in order.
ClientsServed == which = "net" => Net!ClientsServed

\* virtio/net/net.c: packets pass the queues intact, in order and none
\* forgotten but in one way, and the descriptors are all accounted for.
PacketsKept == which = "virtio" => Virtio!PacketsKept
=============================================================================
