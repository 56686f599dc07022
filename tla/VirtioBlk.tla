----------------------------- MODULE VirtioBlk ------------------------------
(***************************************************************************)
(* The block server (lib/block/block.c) over the virtio block driver       *)
(* (arm/drivers/virtio/blk/blk.c) and its queue of three descriptors.  A   *)
(* client gives the frame it wants read into or written from; the device   *)
(* reads and writes that memory itself.                                    *)
(*                                                                         *)
(* The unit of memory and of lengths is a block.  The server takes one     *)
(* request at a time and waits for the device, which is external: a write  *)
(* whose data descriptor is marked for the device to write to has no data  *)
(* for the disk.                                                           *)
(***************************************************************************)
EXTENDS Virtq, Sequences, SequencesExt

CONSTANTS Clients, Frame,   \* Frame[c]: where the frame of c is
          MemLen, DiskLen,
          Offs, Ns,         \* off and n_blks of requests
          Values,
          Word,             \* size_t wraps around here
          nil

\* What the code takes for granted of its constants.
BlkOK ==
  /\ \A c \in Clients : Frame[c].pa + Frame[c].len <= MemLen
  /\ Offs \subseteq Nat /\ Ns \subseteq Nat /\ MemLen < Word

VARIABLES memory, disk,
          q, writes,  \* the queue; descriptors with VIRTQ_DESC_F_WRITE
          req,        \* the request that is served, nil when none is
          d,          \* its descriptors
          status,     \* the byte that the device writes, nil before
          rsp,        \* the last reply
          before,     \* history: memory and disk when the request came
          kept        \* history: what was written with OK, per block

vars == <<memory, disk, q, writes, req, d, status, rsp, before, kept>>

-----------------------------------------------------------------------------
(* block.c                                                                 *)

\* The frame is long enough.  handle_read subtracts, handle_write adds.
Fits(r) ==
  IF r.type = "BLOCK_read"
  THEN (Frame[r.from].len - r.off) % Word >= r.n
  ELSE Frame[r.from].len >= (r.off + r.n) % Word

\* Where the device finds the data.
Buffer(r) == Frame[r.from].pa + r.off

Refuse(r) ==
  /\ req = nil /\ ~Fits(r)
  /\ rsp' = [to |-> r, ret |-> "ERR"]
  /\ before' = [memory |-> memory, disk |-> disk]
  /\ UNCHANGED <<memory, disk, q, writes, req, d, status, kept>>

-----------------------------------------------------------------------------
(* blk.c                                                                   *)

Take3 ==
  LET q1 == TakeDesc(q)
      q2 == TakeDesc(q1)
  IN  [d |-> <<virtq_get_desc(q), virtq_get_desc(q1), virtq_get_desc(q2)>>,
       q |-> TakeDesc(q2)]

\* virtio_blk_op up to its wait.  The flags of the data descriptor are
\* assigned for a read; for a write NEXT is added to what they were.
Flags(t, type) ==
  IF type = "BLOCK_read" THEN (writes \ {t[1]}) \cup {t[2], t[3]}
  ELSE (writes \ {t[1]}) \cup {t[3]}

virtio_blk_op(r) ==
  /\ req = nil /\ Fits(r)
  /\ q.used_index < Word16 - 1          \* bound
  /\ \E t \in {Take3} :
       IF End \in ToSet(t.d)
       THEN /\ q' = t.q
            /\ rsp' = [to |-> r, ret |-> "ERR"]
            /\ UNCHANGED <<writes, req, d, status>>
       ELSE /\ q' = virtq_push([t.q EXCEPT !.next[t.d[1]] = t.d[2],
                                           !.next[t.d[2]] = t.d[3]], t.d[1])
            /\ writes' = Flags(t.d, r.type)
            /\ req' = r /\ d' = t.d /\ status' = nil
            /\ UNCHANGED rsp
  /\ before' = [memory |-> memory, disk |-> disk]
  /\ UNCHANGED <<memory, disk, kept>>

\* The memory's addresses that the request names, as far as there is memory.
Addresses(r) == {Buffer(r) + i : i \in 0..r.n-1} \cap 0..MemLen-1

\* The device (external) does the whole chain, or fails.
DeviceReads ==
  /\ IsAvailable(q) /\ req.type = "BLOCK_read" /\ d[2] \in writes
  /\ memory' = [a \in DOMAIN memory |->
                  IF a \in Addresses(req) THEN disk[req.blk + a - Buffer(req)]
                  ELSE memory[a]]
  /\ q' = DeviceUses(q) /\ status' = "OK"
  /\ UNCHANGED <<disk, writes, req, d, rsp, before, kept>>

DeviceWrites ==
  /\ IsAvailable(q) /\ req.type = "BLOCK_write"
  /\ disk' = [b \in DOMAIN disk |->
                IF d[2] \notin writes /\ b \in req.blk .. req.blk + req.n - 1
                   /\ Buffer(req) + b - req.blk \in DOMAIN memory
                THEN memory[Buffer(req) + b - req.blk] ELSE disk[b]]
  /\ q' = DeviceUses(q) /\ status' = "OK"
  /\ UNCHANGED <<memory, writes, req, d, rsp, before, kept>>

DeviceFails ==
  /\ IsAvailable(q)
  /\ q' = DeviceUses(q) /\ status' = "IOERR"
  /\ UNCHANGED <<memory, disk, writes, req, d, rsp, before, kept>>

\* Mutant: the last descriptor stays taken.
Freed3Short(qq, t) == virtq_free_desc(virtq_free_desc(qq, t[1]), t[2])

\* The rest of virtio_blk_op, and the reply.
Freed3(qq, t) ==
  virtq_free_desc(virtq_free_desc(virtq_free_desc(qq, t[1]), t[2]), t[3])

Finish ==
  /\ req # nil /\ IsUsed(q)
  /\ q' = Freed3(Popped(q), d)
  /\ rsp' = [to |-> req, ret |-> status]
  /\ req' = nil
  /\ kept' = IF req.type = "BLOCK_write" /\ status = "OK"
             THEN [b \in DOMAIN kept |->
                     IF b \in req.blk .. req.blk + req.n - 1
                     THEN before.memory[Buffer(req) + b - req.blk] ELSE kept[b]]
             ELSE kept
  /\ UNCHANGED <<memory, disk, writes, d, status, before>>

\* A client that waits for nothing changes its memory.
Store(c) ==
  /\ req = nil
  /\ \E v \in Values, i \in 0..Frame[c].len-1 :
       memory' = [memory EXCEPT ![Frame[c].pa + i] = v]
  /\ rsp' = nil
  /\ UNCHANGED <<disk, q, writes, req, d, status, before, kept>>

Requests ==
  {r \in [type : {"BLOCK_read", "BLOCK_write"}, from : Clients,
          blk : 0..DiskLen-1, n : Ns, off : Offs] : r.blk + r.n <= DiskLen}

Init ==
  /\ memory = [a \in 0..MemLen-1 |-> nil] /\ disk \in [0..DiskLen-1 -> Values \cup {nil}]
  /\ q = virtq_init(3) /\ writes = {} /\ req = nil /\ d = <<>> /\ status = nil
  /\ rsp = nil /\ before = nil /\ kept = disk

Next == \/ \E r \in Requests : Refuse(r) \/ virtio_blk_op(r)
        \/ DeviceReads \/ DeviceWrites \/ DeviceFails \/ Finish
        \/ \E c \in Clients : Store(c)
Spec == Init /\ [][Next]_vars

-----------------------------------------------------------------------------
(* Properties.                                                             *)

FrameOf(c) == Frame[c].pa .. Frame[c].pa + Frame[c].len - 1

\* The variables have the types of the server's data.
TypeOK ==
  /\ memory \in [0..MemLen-1 -> Values \cup {nil}]
  /\ disk \in [0..DiskLen-1 -> Values \cup {nil}]
  /\ writes \subseteq 0..2 /\ q.desc_free_index \in 0..2 \cup {End}
  /\ req \in Requests \cup {nil} /\ status \in {"OK", "IOERR", nil}

\* Between requests all three descriptors are free, however the last request
\* ended: the driver would refuse every later one otherwise.
DescsBack == req = nil => FreeDescs(q) = 0..2

\* A read that is answered with OK has brought the blocks of the disk to
\* where the client wanted them, and has changed nothing else.
ReadBringsBlocks ==
  req = nil /\ rsp # nil /\ rsp.ret = "OK" /\ rsp.to.type = "BLOCK_read" =>
    LET at == Frame[rsp.to.from].pa + rsp.to.off
        there == at .. at + rsp.to.n - 1
    IN  /\ \A i \in 0..rsp.to.n-1 : memory[at + i] = disk[rsp.to.blk + i]
        /\ \A a \in DOMAIN memory \ there : memory[a] = before.memory[a]

\* What clients of block.c rely on: a read that succeeds brings the blocks, and
\* requests that fail leave the driver able to serve the next one.
BlocksServed == TypeOK /\ DescsBack /\ ReadBringsBlocks

-----------------------------------------------------------------------------
(* Stated in the repository, and not kept by the code (see the README).   *)

\* A request touches the frame that came with it and no other memory: it is
\* refused with "frame too small" otherwise (lib/block/block.c:58).
InsideFrame ==
  req # nil => \A i \in 0..req.n-1 : Buffer(req) + i \in FrameOf(req.from)

\* What was written is on the disk: the file system's test reads a partition
\* table, writes a file, loads it again and expects to read it
\* (procs/lfs/main.c:112-142).
WritesAreKept == req = nil => disk = kept
=============================================================================
