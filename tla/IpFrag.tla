------------------------------- MODULE IpFrag -------------------------------
(***************************************************************************)
(* How handle_ipv4 puts fragments together (lib/net/ip.c).                 *)
(*                                                                         *)
(* A packet of N fragments of eight bytes each is sent; fragments arrive   *)
(* in any order, more than once or not at all.  The header gives the       *)
(* offset of a fragment in units of eight bytes, and handle_ipv4 uses that *)
(* number as it is, next to lengths in bytes.                              *)
(***************************************************************************)
EXTENDS Integers, Sequences, SequencesExt

CONSTANTS Packets,  \* what identifies a packet: source, ident and protocol
          N,        \* fragments of a packet
          MaxFrags  \* bound on the fragments that arrive

VARIABLES pkts,     \* i->ip.pkts: the packets that fragments were kept for
          arrived,  \* number of fragments so far
          handed    \* packets handed to their protocol, with their fragments

vars == <<pkts, arrived, handed>>

ip_pkt_new == [have_last |-> FALSE, frags |-> <<>>, freed |-> FALSE]

\* What handle_ipv4 keeps of the i-th fragment.
Frag(i) == [offset |-> i - 1, len |-> 8]

Insert(frags, f) ==
  LET later == {k \in 1..Len(frags) : f.offset < frags[k].offset}
      spot == IF later = {} THEN Len(frags) + 1
              ELSE CHOOSE k \in later : \A j \in later : k <= j
  IN  InsertAt(frags, spot, f)

Gap(frags) == \E k \in 1..Len(frags)-1 :
  frags[k].offset + frags[k].len < frags[k+1].offset

\* get_waiting_ip_pkt: the packet that is kept, or a new one.
\* The packet stays in the list when it is handed on, and its handler frees
\* it: a fragment that comes later finds freed memory, which may still hold
\* the packet or not.
get_waiting_ip_pkt(id) ==
  {pkts[id]} \cup (IF pkts[id].freed THEN {ip_pkt_new} ELSE {})

handle_ipv4(id, i) ==
  /\ arrived < MaxFrags /\ arrived' = arrived + 1
  /\ \E old \in get_waiting_ip_pkt(id) :
       LET q == [have_last |-> old.have_last \/ i = N,
                 frags |-> Insert(old.frags, Frag(i)), freed |-> FALSE]
       IN  IF ~q.have_last \/ Gap(q.frags)
           THEN pkts' = [pkts EXCEPT ![id] = q] /\ UNCHANGED handed
           ELSE /\ pkts' = [pkts EXCEPT ![id] = [q EXCEPT !.freed = TRUE]]
                /\ handed' = handed \cup {q.frags}

Init == pkts = [id \in Packets |-> ip_pkt_new] /\ arrived = 0 /\ handed = {}
Next == \E id \in Packets, i \in 1..N : handle_ipv4(id, i)
Spec == Init /\ [][Next]_vars

\* insert_pkt_frag looks for missing fragments ("found gap", lib/net/ip.c:257)
\* and handle_ipv4 waits for them ("need to wait for more", line 360): a
\* packet is handed on when all its fragments are there.
HandedOnWhole == \A frags \in handed :
  \A i \in 1..N : Frag(i) \in Range(frags)
=============================================================================
