----------------------------- MODULE VirtioNet ------------------------------
(***************************************************************************)
(* The virtio network driver (arm/drivers/virtio/net/net.c), the device on *)
(* the other side of its two queues, and the interrupt between them.       *)
(*                                                                         *)
(* A chain is a descriptor for the header and one for the body; a buffer   *)
(* belongs to each descriptor for good.  Packets are numbers.  The driver  *)
(* is one thread: it waits in recv_cap, serves a client or, on a signal,   *)
(* empties both rings.  The interrupt may come at any time after the       *)
(* device asks for it: the controller holds it back while that of another  *)
(* device is not acknowledged, and the driver goes on meanwhile.           *)
(***************************************************************************)
EXTENDS Virtq, Sequences, Lists

CONSTANTS Size,       \* descriptors of each queue, 16 in the code
          MaxPkts,    \* bound: packets each way
          nil

\* What the code takes for granted of its constants.
VirtioOK ==
  /\ Size \in Nat /\ Size % 2 = 0 /\ Size > 0
  /\ {MaxPkts, Word16} \subseteq Nat /\ MaxPkts + Size \div 2 < Word16
  /\ End \notin 0..Size-1 /\ nil \notin 0..Size-1

VARIABLES rx, tx,          \* the queues
          rx_buf, tx_buf,  \* what the buffer of each descriptor holds
          pc, e,           \* where the driver is; the chain it processes
          interrupt_status,
          masked,          \* the kernel holds the interrupt until intr_ack
          signal,          \* the signal 0x10 is pending
          arrived, got,    \* history: packets the device wrote; and process_rx saw
          sent, out,       \* history: packets given to send_pkt; and on the wire
          missed           \* history: the driver has cleared a request for an
                           \* interrupt that was to tell it of a received packet

irq == <<interrupt_status, masked, signal>>
hist == <<arrived, got, sent, out, missed>>
vars == <<rx, tx, rx_buf, tx_buf, pc, e, irq, hist>>

-----------------------------------------------------------------------------
(* The device and the kernel.                                              *)

DeviceReceives ==
  /\ IsAvailable(rx) /\ Len(arrived) < MaxPkts
  /\ rx_buf' = [rx_buf EXCEPT ![rx.next[Chain(rx)]] = Len(arrived) + 1]
  /\ arrived' = Append(arrived, Len(arrived) + 1)
  /\ rx' = DeviceUses(rx)
  /\ interrupt_status' = 1
  /\ UNCHANGED <<tx, tx_buf, pc, e, masked, signal, got, sent, out, missed>>

DeviceTransmits ==
  /\ IsAvailable(tx)
  /\ out' = Append(out, tx_buf[tx.next[Chain(tx)]])
  /\ tx' = DeviceUses(tx)
  /\ interrupt_status' = 1
  /\ UNCHANGED <<rx, rx_buf, tx_buf, pc, e, masked, signal, arrived, got, sent, missed>>

\* The kernel masks the interrupt and signals the driver's endpoint.
Interrupt ==
  /\ interrupt_status = 1 /\ ~masked
  /\ masked' = TRUE /\ signal' = TRUE
  /\ UNCHANGED <<rx, tx, rx_buf, tx_buf, pc, e, interrupt_status, hist>>

-----------------------------------------------------------------------------
(* The driver.                                                             *)

\* Mutant: the driver does this at the end.
AckedLate(at) ==
  IF at = "end" THEN [status |-> 0, masked |-> FALSE]
  ELSE [status |-> interrupt_status, masked |-> masked]

\* The interrupt when the driver starts to empty the rings, and when it has:
\* the device's status is cleared, and intr_ack unmasks it in the kernel.
Acked(at) ==
  IF at = "start" THEN [status |-> 0, masked |-> FALSE]
  ELSE [status |-> interrupt_status, masked |-> masked]

RecvSignal ==
  /\ pc = "recv" /\ signal
  /\ signal' = FALSE
  /\ interrupt_status' = Acked("start").status /\ masked' = Acked("start").masked
  /\ pc' = "rx"
  /\ UNCHANGED <<rx, tx, rx_buf, tx_buf, e, hist>>

\* send_pkt, for a client's request or for an answer to a packet that is
\* processed.  Without descriptors the packet is dropped.
Filled(h, b, p) == [tx_buf EXCEPT ![b] = p]

send_pkt ==
  /\ Len(sent) < MaxPkts
  /\ pc = "recv" \/ (pc = "rx" /\ e # nil)
  /\ \E h \in {virtq_get_desc(tx)} : \E b \in {virtq_get_desc(TakeDesc(tx))} :
       IF h = End \/ b = End
       THEN tx' = TakeDesc(TakeDesc(tx)) /\ UNCHANGED <<tx_buf, sent>>
       ELSE /\ tx' = virtq_push([TakeDesc(TakeDesc(tx)) EXCEPT !.next[h] = b], h)
            /\ tx_buf' = Filled(h, b, Len(sent) + 1)
            /\ sent' = Append(sent, Len(sent) + 1)
  /\ UNCHANGED <<rx, rx_buf, pc, e, irq, arrived, got, out, missed>>

\* virtq_pop writes 1 to interrupt_ack.
PopRx ==
  /\ pc = "rx" /\ e = nil /\ IsUsed(rx)
  /\ e' = virtq_pop(rx) /\ rx' = Popped(rx)
  /\ interrupt_status' = 0
  /\ UNCHANGED <<tx, rx_buf, tx_buf, pc, masked, signal, hist>>

\* process_rx: net_process_pkt reads the buffer, which then is the device's
\* again.
process_rx ==
  /\ pc = "rx" /\ e # nil
  /\ got' = Append(got, rx_buf[rx.next[e]])
  /\ rx' = virtq_push(rx, e)
  /\ e' = nil
  /\ UNCHANGED <<tx, rx_buf, tx_buf, pc, irq, arrived, sent, out, missed>>

RxEmpty ==
  /\ pc = "rx" /\ e = nil /\ ~IsUsed(rx)
  /\ pc' = "tx"
  /\ missed' = FALSE
  /\ UNCHANGED <<rx, tx, rx_buf, tx_buf, e, irq, arrived, got, sent, out>>

\* Mutant: the header's next is followed after the header is freed.
FreedPairLate(q, h) ==
  LET r == virtq_free_desc(q, h) IN virtq_free_desc(r, r.next[h])

\* process_tx frees the body and then the header.
FreedPair(q, h) == virtq_free_desc(virtq_free_desc(q, q.next[h]), h)

\* Its virtq_pop writes interrupt_ack too, and so drops what the device asks
\* for on account of the other queue, if the interrupt has not come yet.
process_tx ==
  /\ pc = "tx" /\ IsUsed(tx)
  /\ tx' = FreedPair(Popped(tx), virtq_pop(tx))
  /\ interrupt_status' = 0
  /\ missed' = (missed \/ (IsUsed(rx) /\ ~signal))
  /\ UNCHANGED <<rx, rx_buf, tx_buf, pc, e, masked, signal, arrived, got, sent, out>>

TxEmpty ==
  /\ pc = "tx" /\ ~IsUsed(tx)
  /\ pc' = "recv"
  /\ interrupt_status' = Acked("end").status /\ masked' = Acked("end").masked
  /\ UNCHANGED <<rx, tx, rx_buf, tx_buf, e, signal, hist>>

\* init_rx makes every pair of descriptors available.
AddPair(q) ==
  LET h == virtq_get_desc(q)
      b == virtq_get_desc(TakeDesc(q))
  IN  virtq_push([TakeDesc(TakeDesc(q)) EXCEPT !.next[h] = b], h)
init_rx ==
  LET added[n \in 0..Size \div 2] ==
        IF n = 0 THEN virtq_init(Size) ELSE AddPair(added[n - 1])
  IN  added[Size \div 2]

\* init_tx and init_rx get a buffer for each descriptor.
init_tx == [i \in 0..Size-1 |-> nil]

Init ==
  /\ rx = init_rx /\ tx = virtq_init(Size)
  /\ rx_buf = init_tx /\ tx_buf = init_tx
  /\ pc = "recv" /\ e = nil
  /\ interrupt_status = 0 /\ masked = FALSE /\ signal = FALSE
  /\ arrived = <<>> /\ got = <<>> /\ sent = <<>> /\ out = <<>>
  /\ missed = FALSE

Handling == RecvSignal \/ PopRx \/ process_rx \/ RxEmpty \/ process_tx \/ TxEmpty
Next == DeviceReceives \/ DeviceTransmits \/ Interrupt \/ Handling \/ send_pkt
Spec == Init /\ [][Next]_vars

\* The device and the kernel go on, and the driver is scheduled.  The stack
\* need not send.
Fairness ==
  WF_vars(DeviceTransmits) /\ WF_vars(Interrupt) /\ WF_vars(Handling)
FairSpec == Spec /\ Fairness

-----------------------------------------------------------------------------
(* Properties.                                                             *)

\* The variables have the types of the driver's data.
TypeOK ==
  /\ rx.desc_free_index \in 0..Size-1 \cup {End}
  /\ tx.desc_free_index \in 0..Size-1 \cup {End}
  /\ pc \in {"recv", "rx", "tx"} /\ e \in 0..Size-1 \cup {nil}
  /\ interrupt_status \in 0..1 /\ {masked, signal, missed} \subseteq BOOLEAN
  /\ \A i \in 0..Size-1 : tx_buf[i] \in 1..MaxPkts \cup {nil}

\* Every descriptor for sending is free or in one chain: none is lost and the
\* list is never tangled, in whatever order the device is done with them.
DescsDivided ==
  /\ FreeDescs(tx) \cup UNION {ChainAt(tx, i) : i \in InFlight(tx)} = 0..Size-1
  /\ \A i \in InFlight(tx) :
       /\ HeadAt(tx, i) # BodyAt(tx, i) /\ ChainAt(tx, i) \cap FreeDescs(tx) = {}
       /\ \A j \in InFlight(tx) : i # j => ChainAt(tx, i) \cap ChainAt(tx, j) = {}

\* What goes out is what the stack sent, in that order: a buffer is not
\* written again while the device may still read it.
SentIntact == Begins(out, sent)

\* The stack sees what the device received, in that order, once: a buffer is
\* given back to the device only after it was read.
GotInOrder == Begins(got, arrived)

\* When the driver waits and neither the device nor the kernel has anything to
\* tell it, it has seen all that the device used, but for packets whose
\* interrupt process_tx has dropped: in no other way is a completion forgotten.
NoneForgotten ==
  pc = "recv" /\ ~signal /\ interrupt_status = 0 => ~IsUsed(tx) /\ (IsUsed(rx) => missed)

\* Every descriptor that was sent is free again, every packet received comes to
\* the stack unless its interrupt was dropped, and the next interrupt brings
\* those too.
AllHandled ==
  /\ IsUsed(tx) ~> ~IsUsed(tx)
  /\ got # arrived ~> got = arrived \/ missed
  /\ signal ~> got = arrived

\* What keeps these so.  The structures in full: the used ring's index is the
\* device's, and neither index has wrapped around.
Descs == 0..Size-1
Queue ==
  [size : {Size}, next : [Descs -> Descs \cup {End}], desc_free_index : Descs \cup {End},
   avail : [Descs -> Descs], avail_idx : Nat, seen : Nat,
   used : [Descs -> Descs], used_index : Nat, last_seen_used : Nat]

Indexes(q) ==
  /\ q.last_seen_used <= q.seen /\ q.seen <= q.avail_idx /\ q.used_index = q.seen
  /\ q.avail_idx < Word16 /\ q.avail_idx - q.last_seen_used <= Size \div 2

\* The free descriptors are the list free.
FreeList(q, free) ==
  /\ OneEach(free)
  /\ q.desc_free_index = IF free = <<>> THEN End ELSE free[1]
  /\ \A k \in 1..Len(free) : q.next[free[k]] = IF k = Len(free) THEN End ELSE free[k + 1]

\* No two chains of a queue share a descriptor, nor does a chain share one with
\* the free ones.
Apart(q, i, j) ==
  /\ HeadAt(q, i) # HeadAt(q, j) /\ BodyAt(q, i) # BodyAt(q, j)
  /\ HeadAt(q, i) # BodyAt(q, j)
Chained(q, free) ==
  \A i \in InFlight(q) :
    /\ BodyAt(q, i) \in Descs /\ BodyAt(q, i) # HeadAt(q, i)
    /\ HeadAt(q, i) \notin ListOf(free) /\ BodyAt(q, i) \notin ListOf(free)
    /\ \A j \in InFlight(q) : i # j => Apart(q, i, j)
Covered(q, free) ==
  \A d \in Descs : d \in ListOf(free) \/ \E i \in InFlight(q) : d \in ChainAt(q, i)

Sending ==
  /\ tx \in Queue /\ Indexes(tx)
  /\ \E free \in Seq(Descs) :
       /\ FreeList(tx, free) /\ Chained(tx, free) /\ Covered(tx, free)
       /\ Len(free) + 2 * (tx.avail_idx - tx.last_seen_used) = Size

\* Packet n + 1 is in the chain at position n until the device has it.
SentKept ==
  /\ sent \in Seq(Nat) /\ \A k \in 1..Len(sent) : sent[k] = k
  /\ out \in Seq(Nat) /\ \A k \in 1..Len(out) : out[k] = k
  /\ Len(sent) = tx.avail_idx /\ Len(sent) <= MaxPkts /\ Len(out) = tx.seen
  /\ tx_buf \in [Descs -> 1..MaxPkts \cup {nil}]
  /\ \A i \in tx.seen..tx.avail_idx - 1 : tx_buf[BodyAt(tx, i)] = i + 1

\* The chains for receiving are the pairs of init_rx; one that was popped is
\* apart from those in the rings.
Receiving ==
  /\ rx \in Queue /\ Indexes(rx) /\ rx.desc_free_index = End
  /\ rx.next = NextInit(Size)
  /\ e \in Descs \cup {nil} /\ (e # nil => e # Size - 1)
  /\ \A i \in InFlight(rx) :
       /\ HeadAt(rx, i) # e /\ HeadAt(rx, i) # Size - 1
       /\ \A j \in InFlight(rx) : i # j => HeadAt(rx, i) # HeadAt(rx, j)
  /\ rx.avail_idx - rx.last_seen_used + (IF e = nil THEN 0 ELSE 1) = Size \div 2

\* Packet n + 1 is in the chain at position n until the stack has it.
ReceivedKept ==
  /\ arrived \in Seq(Nat) /\ \A k \in 1..Len(arrived) : arrived[k] = k
  /\ got \in Seq(Nat) /\ \A k \in 1..Len(got) : got[k] = k
  /\ Len(arrived) = rx.seen /\ Len(arrived) <= MaxPkts
  /\ Len(got) = rx.last_seen_used - (IF e = nil THEN 0 ELSE 1)
  /\ rx_buf \in [Descs -> Nat \cup {nil}]
  /\ \A i \in rx.last_seen_used..rx.seen - 1 : rx_buf[BodyAt(rx, i)] = i + 1
  /\ e # nil => rx_buf[rx.next[e]] = Len(got) + 1

\* A masked interrupt is signalled.  If neither the device nor the kernel has
\* anything to tell the driver, it has emptied what it has passed in its loop, or
\* dropped the interrupt.
Told ==
  /\ pc \in {"recv", "rx", "tx"} /\ interrupt_status \in 0..1
  /\ masked \in BOOLEAN /\ signal \in BOOLEAN /\ missed \in BOOLEAN
  /\ masked => signal
  /\ pc # "rx" => e = nil
  /\ interrupt_status = 0 /\ ~signal =>
       (pc # "rx" /\ IsUsed(rx) => missed) /\ (pc = "recv" => ~IsUsed(tx))

VirtioInv == Sending /\ SentKept /\ Receiving /\ ReceivedKept /\ Told

\* Packets go through the two queues unharmed and in order, none is forgotten in
\* any way but one, and every descriptor is accounted for.
PacketsKept == TypeOK /\ DescsDivided /\ SentIntact /\ GotInOrder /\ NoneForgotten
=============================================================================
