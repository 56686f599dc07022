-------------------------------- MODULE Lfs --------------------------------
(***************************************************************************)
(* The log-structured file system (procs/lfs/lfs.c).                       *)
(*                                                                         *)
(* Files live in memory as inodes with lists of blocks.  lfs_flush writes  *)
(* what changed into new segments, a summary, data blocks and inodes, and  *)
(* then a checkpoint with the list of segments into one of two places,     *)
(* chosen by a timestamp.  lfs_load picks the newer checkpoint and scans   *)
(* the segments of its list for inodes.                                    *)
(*                                                                         *)
(* Offsets and lengths are in whole blocks; the checksum of a block is its *)
(* contents; a summary or checkpoint with a bad checksum is Bad.  A block  *)
(* on the disk is named by its segment and place, <<s, k>>.                *)
(***************************************************************************)
EXTENDS Integers, SequencesExt

CONSTANTS Names, Data,
          Zero,       \* a block of zeroes
          NInodes,    \* n_inodes
          NSegs,      \* n_segs
          SegBlks,    \* lfs_seg_blks - 1: blocks of a segment after its summary
          Direct,     \* n_direct_blks
          Hash,       \* Hash[n]: what lfs_hash makes of the name n
          MaxBlks, MaxTs, MaxFaults,  \* bounds
          Bad,        \* a block whose magic number or checksum is wrong
          Err,        \* a read that returns ERR
          Unknown, nil

\* What the code takes for granted of its constants.
LfsOK ==
  /\ {NInodes, NSegs, SegBlks, Direct, MaxBlks} \subseteq Nat \ {0}
  /\ {MaxTs, MaxFaults} \subseteq Nat
  /\ \A n \in Names : Hash[n] \in 0..NInodes-1

VARIABLES proc,      \* what the process is doing: up, or how it ended
          flushing,  \* inside lfs_flush
          used,      \* the list seg_head .. seg_tail, as segment numbers
          free,      \* the list seg_free
          ts,        \* checkpoint_timestamp
          inodes, pending,
          cp,        \* cp[i]: checkpoint i on the disk
          seg,       \* seg[s]: segment s on the disk
          faults,    \* failures of the block driver so far
          file,      \* history: what the clients have written
          saved,     \* history: what the last flush promised to keep
          doubt,     \* history: names of which something failed on the way
          stale      \* history: the checkpoint that was loaded is not the newest

memory == <<used, free, ts, inodes, pending>>
disk == <<cp, seg>>
history == <<file, saved, doubt, stale>>
vars == <<proc, flushing, memory, disk, faults, history>>

Ids == 0..NInodes-1
Empty == [k \in 1..MaxBlks |-> Err]

FreeInode == [free |-> TRUE, created |-> FALSE, name |-> nil, len |-> 0, blks |-> <<>>]
NewBlk(off) == [written |-> FALSE, pos |-> nil, crc |-> Zero, off |-> off,
                empty |-> TRUE, cached |-> FALSE, data |-> Zero]

-----------------------------------------------------------------------------
\* lfs_find_inode: probing from the hash of the name.

Probe(n, k) == (Hash[n] + k) % NInodes

\* Mutant: a removed inode ends the search.
FindStops(ino, n) ==
  LET hits == {k \in Ids : LET i == ino[Probe(n, k)]
                           IN i.free \/ ~i.created \/ i.name = n}
      i == Probe(n, Min(hits))
  IN IF hits = {} THEN nil ELSE IF ino[i].free \/ ~ino[i].created THEN nil ELSE i

Find(ino, n) ==
  LET hits == {k \in Ids : LET i == ino[Probe(n, k)]
                           IN i.free \/ (i.created /\ i.name = n)}
  IN IF hits = {} \/ ino[Probe(n, Min(hits))].free THEN nil ELSE Probe(n, Min(hits))

FindSpot(n) ==
  LET hits == {k \in Ids : LET i == inodes[Probe(n, k)] IN i.free \/ ~i.created}
  IN IF hits = {} THEN nil ELSE Probe(n, Min(hits))

\* What a block of the disk holds.
OnDisk(p) == IF seg[p[1]] = Bad \/ p[2] > Len(seg[p[1]]) THEN Bad ELSE seg[p[1]][p[2]]

\* lfs_cache_blk has to read the block, and finds what it expects.
NeedsDisk(b) == ~b.cached /\ ~b.empty
Good(b) == NeedsDisk(b) => OnDisk(b.pos) = b.crc

Cached(b) == [b EXCEPT !.cached = TRUE, !.data = IF b.cached THEN @ ELSE b.crc]

\* What lfs_read returns for block k of a file.
ReadBlk(ino, n, k) ==
  LET i == Find(ino, n)
  IN IF i = nil THEN Err
     ELSE IF k > ino[i].len \/ k > Len(ino[i].blks) THEN Err
     ELSE IF Good(ino[i].blks[k]) THEN Cached(ino[i].blks[k]).data ELSE Bad

Contents(ino, n) == [k \in 1..MaxBlks |-> ReadBlk(ino, n, k)]

-----------------------------------------------------------------------------
\* lfs_format, and the start of the process.

Init ==
  /\ proc = "start" /\ flushing = FALSE
  /\ used = <<>> /\ free = <<>> /\ ts = 0
  /\ inodes = [i \in Ids |-> FreeInode] /\ pending = <<>>
  /\ cp = [i \in 0..1 |-> Bad]
  /\ seg = [s \in 0..NSegs-1 |-> Bad]
  /\ faults = 0
  /\ file = [n \in Names |-> Empty] /\ saved = [n \in Names |-> Unknown]
  /\ doubt = {} /\ stale = FALSE

Checkpoint(t, list, unused) ==
  [timestamp |-> t, segs |-> list, free |-> {unused[i] : i \in DOMAIN unused}]

\* lfs_init makes one list of all segments.
AllFree == [i \in 1..NSegs |-> i - 1]

Format ==
  /\ proc = "start"
  /\ proc' = "up"
  /\ free' = AllFree
  /\ cp' = [cp EXCEPT ![0] = Checkpoint(0, <<>>, free')]
  /\ ts' = 1
  /\ saved' = file
  /\ UNCHANGED <<flushing, used, inodes, pending, seg, faults, file, doubt, stale>>

Up == proc = "up" /\ ~flushing

\* The block driver fails.
Fails == faults < MaxFaults /\ faults' = faults + 1

-----------------------------------------------------------------------------
\* Requests.  One that returns ERR without touching anything is no step.

AddPending(i) == pending' = <<i>> \o Remove(pending, i)

Create(n) ==
  LET i == FindSpot(n)
  IN /\ Up
     /\ Find(inodes, n) = nil /\ i # nil
     /\ inodes' = [inodes EXCEPT ![i] = [FreeInode EXCEPT !.free = FALSE,
                                                         !.created = TRUE, !.name = n]]
     /\ AddPending(i)
     /\ file' = [file EXCEPT ![n] = Empty]
     /\ UNCHANGED <<proc, flushing, used, free, ts, disk, faults, saved, doubt, stale>>

Rm(n) ==
  LET i == Find(inodes, n)
  IN /\ Up
     /\ i # nil
     /\ inodes' = [inodes EXCEPT ![i].blks = <<>>, ![i].created = FALSE]
     /\ AddPending(i)
     /\ file' = [file EXCEPT ![n] = Empty]
     /\ UNCHANGED <<proc, flushing, used, free, ts, disk, faults, saved, doubt, stale>>

\* lfs_inode_get_blk with add, then the loop of lfs_write: the block list long
\* enough for cnt blocks after the first off.  The first loop numbers its new
\* blocks by what is left of the offset, the second by the offset.
Extended(blks, off, cnt) ==
  [k \in 1..Max({Len(blks), off + cnt}) |->
     IF k <= Len(blks) THEN blks[k]
     ELSE NewBlk(IF k <= off + 1 THEN off + 1 - k ELSE k - 1)]

Overwrite(b, d) ==
  [Cached(b) EXCEPT !.empty = FALSE, !.written = FALSE, !.data = d]

\* A block made by the loop of lfs_write has no bnext of its own.
MadeInLoop(i, off, cnt) == off + cnt > Max({Len(inodes[i].blks), off + 1})

\* It starts after the end of the file, or of its list of blocks.
LeavesGap(i, off) == off > Min({inodes[i].len, Len(inodes[i].blks)})

\* After a gap the offsets of the blocks are wrong, and what Trunc leaves of the
\* file is not claimed to be right.
Write(n, off, cnt, d) ==
  LET i == Find(inodes, n)
      blks == Extended(inodes[i].blks, off, cnt)
  IN /\ Up
     /\ i # nil /\ off + cnt <= MaxBlks
     /\ \A k \in off+1..off+cnt : Good(blks[k])
     /\ inodes' = [inodes EXCEPT
          ![i].blks = [k \in DOMAIN blks |->
                         IF k \in off+1..off+cnt THEN Overwrite(blks[k], d) ELSE blks[k]],
          ![i].len = Max({@, off + cnt})]
     /\ AddPending(i)
     /\ proc' \in IF MadeInLoop(i, off, cnt) THEN {"up", "corrupt"} ELSE {"up"}
     /\ file' = [file EXCEPT ![n] =
          [k \in 1..MaxBlks |-> IF k \in off+1..off+cnt THEN d
                                ELSE IF k <= off /\ @[k] = Err THEN Zero ELSE @[k]]]
     /\ doubt' = IF LeavesGap(i, off) THEN doubt \cup {n} ELSE doubt
     /\ UNCHANGED <<flushing, used, free, ts, disk, faults, saved, stale>>

\* A block cannot be read for the write: the ones before it are changed, the
\* inode is not put on the pending list.
WriteFails(n, off, cnt, d) ==
  LET i == Find(inodes, n)
  IN /\ Up
     /\ i # nil
     /\ \E j \in off+1..off+cnt :
          /\ j <= Len(inodes[i].blks)
          /\ NeedsDisk(inodes[i].blks[j])
          /\ \A k \in off+1..j-1 : Good(inodes[i].blks[k])
          /\ inodes' = [inodes EXCEPT ![i].blks = [k \in DOMAIN @ |->
                          IF k \in off+1..j-1 THEN Overwrite(@[k], d) ELSE @[k]]]
     /\ Fails
     /\ file' = [file EXCEPT ![n] = Contents(inodes', n)]
     /\ doubt' = doubt \cup {n}
     /\ UNCHANGED <<proc, flushing, used, free, ts, pending, disk, saved, stale>>

Read(n, k) ==
  LET i == Find(inodes, n)
  IN /\ Up
     /\ i # nil /\ k <= inodes[i].len /\ k <= Len(inodes[i].blks)
     /\ Good(inodes[i].blks[k])
     /\ inodes' = [inodes EXCEPT ![i].blks[k] = Cached(@)]
     /\ UNCHANGED <<proc, flushing, used, free, ts, pending, disk, faults, history>>

\* The block on the disk is not the one expected: lfs_cache_blk returns nil,
\* which is OK, and the caller copies from address 0.
ReadFaults(n, k) ==
  LET i == Find(inodes, n)
  IN /\ Up
     /\ i # nil /\ k <= Len(inodes[i].blks)
     /\ ~Good(inodes[i].blks[k])
     /\ proc' = "faulted"
     /\ UNCHANGED <<flushing, memory, disk, faults, history>>

\* The blocks that lfs_trunc leaves: those before the first that starts at len.
Kept(blks, len) ==
  LET past == {k \in DOMAIN blks : blks[k].off >= len}
  IN IF past = {} THEN blks ELSE SubSeq(blks, 1, Min(past) - 1)

Trunc(n, len) ==
  LET i == Find(inodes, n)
  IN /\ Up
     /\ i # nil /\ len < inodes[i].len
     /\ inodes' = [inodes EXCEPT ![i].len = len, ![i].blks = Kept(@, len)]
     /\ AddPending(i)
     /\ file' = [file EXCEPT ![n] = [k \in 1..MaxBlks |-> IF k > len THEN Err ELSE @[k]]]
     /\ UNCHANGED <<proc, flushing, used, free, ts, disk, faults, saved, doubt, stale>>

-----------------------------------------------------------------------------
\* lfs_flush.

\* lfs_fill_seg takes, for each pending inode, its changed blocks and then the
\* inode, <<i, k>> for block k of inode i and <<i, 0>> for the inode itself.
RECURSIVE Items(_)
Items(todo) ==
  IF todo = <<>> THEN <<>>
  ELSE LET i == Head(todo)
           blks == inodes[i].blks
           changed == SelectSeq([k \in DOMAIN blks |-> k],
                                LAMBDA k : ~blks[k].written /\ ~blks[k].empty)
       IN [k \in DOMAIN changed |-> <<i, changed[k]>>] \o <<<<i, 0>>>>
            \o Items(Tail(todo))

\* How much of it fits, and whether lfs_fill_inode meets an inode that is too long.
Batch == LET all == Items(pending) IN SubSeq(all, 1, Min({Len(all), SegBlks}))
TooLong(items) == {j \in DOMAIN items :
                     items[j][2] = 0 /\ Len(inodes[items[j][1]].blks) > Direct}

\* The inodes with their blocks placed in segment s.
Placed(items, s) ==
  [i \in Ids |-> [inodes[i] EXCEPT !.blks = [k \in DOMAIN @ |->
     IF \E j \in DOMAIN items : items[j] = <<i, k>>
     THEN LET j == CHOOSE j \in DOMAIN items : items[j] = <<i, k>>
          IN [@[k] EXCEPT !.written = TRUE, !.pos = <<s, j>>, !.crc = inodes[i].blks[k].data]
     ELSE @[k]]]]

\* lfs_fill_inode: what goes on the disk.
DiskInode(i, ino) ==
  [index |-> i, name |-> ino.name, len |-> ino.len,
   blks |-> [k \in DOMAIN ino.blks |->
               IF ino.blks[k].empty THEN [pos |-> nil, crc |-> Zero]
               ELSE [pos |-> ino.blks[k].pos, crc |-> ino.blks[k].crc]]]

Image(items, ino) ==
  [j \in DOMAIN items |-> LET i == items[j][1] k == items[j][2]
                          IN IF k = 0 THEN DiskInode(i, ino[i]) ELSE ino[i].blks[k].data]

NextSeg == IF used = <<>> THEN 0 ELSE used[Len(used)] + 1

Flush ==
  /\ Up /\ ts <= MaxTs
  /\ flushing' = TRUE
  /\ UNCHANGED <<proc, memory, disk, faults, history>>

Building == proc = "up" /\ flushing /\ pending # <<>>
Filled(items) ==
  /\ inodes' = Placed(items, NextSeg)
  /\ pending' = SelectSeq(pending, LAMBDA i : \A j \in DOMAIN items : items[j] # <<i, 0>>)
  /\ free' = Tail(free)

FlushSegment ==
  /\ Building /\ free # <<>>
  /\ TooLong(Batch) = {}
  /\ Filled(Batch)
  /\ seg' = [seg EXCEPT ![NextSeg] = Image(Batch, inodes')]
  /\ used' = Append(used, NextSeg)
  /\ UNCHANGED <<proc, flushing, ts, cp, faults, history>>

\* block_write returns an error, with nothing, part or all of it written.
FlushSegmentFails ==
  /\ Building /\ free # <<>>
  /\ TooLong(Batch) = {}
  /\ Fails
  /\ Filled(Batch)
  /\ \E image \in {seg[NextSeg], Bad, Image(Batch, inodes')} :
       seg' = [seg EXCEPT ![NextSeg] = image]
  /\ flushing' = FALSE
  /\ doubt' = Names
  /\ UNCHANGED <<proc, used, ts, cp, file, saved, stale>>

\* An inode with too many blocks, after its blocks were marked as written.
FlushTooLong ==
  LET bad == Min(TooLong(Batch))
      before == SubSeq(Batch, 1, bad - 1)
  IN /\ Building /\ free # <<>>
     /\ TooLong(Batch) # {}
     /\ Filled(before)
     /\ flushing' = FALSE
     /\ doubt' = Names
     /\ UNCHANGED <<proc, used, ts, disk, faults, file, saved, stale>>

\* No memory for the segment.
FlushNoMemory ==
  /\ Building /\ free # <<>>
  /\ Fails
  /\ free' = Tail(free)
  /\ flushing' = FALSE
  /\ UNCHANGED <<proc, used, ts, inodes, pending, disk, history>>

\* lfs_get_free_seg reads the next field of no segment.
FlushNoSegment ==
  /\ Building /\ free = <<>>
  /\ proc' = "faulted"
  /\ UNCHANGED <<flushing, memory, disk, faults, history>>

\* Mutant: always the same place.
SlotFixed == 0

\* lfs_write_checkpoint.
Slot == ts % 2

\* What a flush promises: the contents of the files, but nothing of a name that
\* a removed inode still bears.  No inode on the disk says that it is removed.
Shadowed(n) == \E i \in Ids : ~inodes[i].free /\ ~inodes[i].created /\ inodes[i].name = n
Promise == [n \in Names |-> IF n \in doubt \/ Shadowed(n) THEN Unknown ELSE file[n]]

WritesCheckpoint ==
  /\ cp' = [cp EXCEPT ![Slot] = Checkpoint(ts, used, free)]
  /\ saved' = Promise
  /\ stale' = FALSE

FlushCheckpoint ==
  /\ proc = "up" /\ flushing /\ pending = <<>>
  /\ WritesCheckpoint
  /\ ts' = ts + 1
  /\ flushing' = FALSE
  /\ UNCHANGED <<proc, used, free, inodes, pending, seg, faults, file, doubt>>

FlushCheckpointFails ==
  /\ proc = "up" /\ flushing /\ pending = <<>>
  /\ Fails
  /\ \/ cp' = [cp EXCEPT ![Slot] = Bad] /\ UNCHANGED <<saved, stale>>
     \/ WritesCheckpoint
  /\ flushing' = FALSE
  /\ UNCHANGED <<proc, memory, seg, file, doubt>>

-----------------------------------------------------------------------------
\* lfs_load.

\* lfs_load_checkpoint, with the checkpoints that could be read and are valid:
\* the newer of two, nil if that cannot be told.
Whole == {i \in 0..1 : cp[i] # Bad}
Chosen(valid) ==
  IF valid = {} THEN nil
  ELSE IF Cardinality(valid) = 1 THEN CHOOSE i \in valid : TRUE
  ELSE IF cp[0].timestamp = cp[1].timestamp + 1 THEN 0
  ELSE IF cp[1].timestamp = cp[0].timestamp + 1 THEN 1
  ELSE nil
Newest == Chosen(Whole)

\* lfs_scan_inode_blks
ScannedBlk(b, k) ==
  [NewBlk(k - 1) EXCEPT !.written = TRUE, !.pos = b.pos, !.crc = b.crc,
                        !.empty = b.pos = nil]

\* lfs_scan: each record of an inode in the segments of the list is taken over
\* the one before, but one without blocks leaves the list of blocks as it is.
IsInode(x) == x \notin Data \cup {Zero}
Scanned(list) ==
  LET records == SelectSeq(FlattenSeq([a \in DOMAIN list |-> seg[list[a]]]), IsInode)
  IN [i \in Ids |->
        LET mine == SelectSeq(records, LAMBDA x : x.index = i)
            full == SelectSeq(mine, LAMBDA x : x.blks # <<>>)
            blks == IF full = <<>> THEN <<>> ELSE Last(full).blks
        IN IF mine = <<>> THEN FreeInode
           ELSE [free |-> FALSE, created |-> TRUE, name |-> Last(mine).name,
                 len |-> Last(mine).len, blks |-> [k \in DOMAIN blks |-> ScannedBlk(blks[k], k)]]]

Readable(list) == \A a \in DOMAIN list : seg[list[a]] # Bad

\* lfs_process_checkpoint does not advance along a list of two or more segments.
Endless(list) == Len(list) > 1

\* lfs_free, lfs_setup and lfs_load, as main does after a flush.  A checkpoint
\* that the block driver does not bring counts as invalid, and the other one is
\* loaded, older or not: what was promised since is then not in the files.
ReadsFail(n) == faults + n <= MaxFaults /\ faults' = faults + n

Load ==
  /\ Up /\ pending = <<>>
  /\ \E valid \in SUBSET Whole :
       LET c == Chosen(valid)
       IN /\ ReadsFail(Cardinality(Whole \ valid))
          /\ c # nil /\ Readable(cp[c].segs) /\ ~Endless(cp[c].segs)
          /\ used' = cp[c].segs
          /\ free' = SetToSortSeq(cp[c].free, <)
          /\ stale' = (stale \/ c # Newest)
  /\ inodes' = Scanned(used')
  /\ file' = [n \in Names |-> Contents(inodes', n)]
  /\ saved' = [n \in Names |-> IF stale' THEN Unknown ELSE saved[n]]
  /\ doubt' = {n \in Names : saved'[n] = Unknown}
  /\ UNCHANGED <<proc, flushing, ts, pending, disk>>

\* No checkpoint is found, or it cannot be read a second time, or a segment cannot.
LoadFails ==
  /\ Up /\ pending = <<>>
  /\ \E valid \in SUBSET Whole :
       LET c == Chosen(valid)
           lost == Cardinality(Whole \ valid)
       IN \/ /\ c # nil => ~Endless(cp[c].segs) /\ ~Readable(cp[c].segs)
             /\ ReadsFail(lost) /\ proc' = "failed"
          \/ c # nil /\ ReadsFail(lost + 1) /\ proc' = "failed"
          \/ c # nil /\ Endless(cp[c].segs) /\ ReadsFail(lost) /\ proc' = "hung"
  /\ UNCHANGED <<flushing, memory, disk, history>>

\* lfs_free with inodes still on the pending list, which then points at freed memory.
LoadDangling ==
  /\ Up /\ pending # <<>>
  /\ proc' = "corrupt"
  /\ UNCHANGED <<flushing, memory, disk, faults, history>>

Stopped == proc \in {"hung", "failed", "faulted", "corrupt"} /\ UNCHANGED vars

Next ==
  \/ Format \/ Flush \/ FlushSegment \/ FlushSegmentFails \/ FlushTooLong
  \/ FlushNoMemory \/ FlushNoSegment \/ FlushCheckpoint \/ FlushCheckpointFails
  \/ Load \/ LoadFails \/ LoadDangling \/ Stopped
  \/ \E n \in Names :
       \/ Create(n) \/ Rm(n)
       \/ \E k \in 1..MaxBlks : Read(n, k) \/ ReadFaults(n, k) \/ Trunc(n, k - 1)
       \/ \E off \in 0..MaxBlks-1, cnt \in 1..2, d \in Data :
            Write(n, off, cnt, d) \/ WriteFails(n, off, cnt, d)

Spec == Init /\ [][Next]_vars

-----------------------------------------------------------------------------
\* Properties.

BlkType ==
  [written : BOOLEAN, pos : ((0..NSegs-1) \X (1..SegBlks)) \cup {nil},
   crc : Data \cup {Zero}, off : 0..MaxBlks-1, empty : BOOLEAN, cached : BOOLEAN,
   data : Data \cup {Zero}]

\* The variables have their types: segment numbers stay below n_segs although
\* lfs_flush numbers segments itself, and the two lists never hold more segments
\* than there are.
TypeOK ==
  /\ proc \in {"start", "up", "hung", "failed", "faulted", "corrupt"}
  /\ flushing \in BOOLEAN
  /\ used \in Seq(0..NSegs-1) /\ free \in Seq(0..NSegs-1)
  /\ Len(used) + Len(free) <= NSegs
  /\ ts \in 0..MaxTs+1
  /\ \A i \in Ids : \A k \in DOMAIN inodes[i].blks : inodes[i].blks[k] \in BlkType
  /\ pending \in Seq(Ids)
  /\ faults \in 0..MaxFaults

\* lfs_read returns what was written last, through caching, flushing with its
\* failures, truncating, removing and creating anew under colliding names.  (A name
\* of which an operation was reported to have failed is not claimed.)
ReadsLastWrite ==
  proc = "up" => \A n \in Names \ doubt : Contents(inodes, n) = file[n]

\* Whenever the machine stops, in the middle of a flush or of its checkpoint too,
\* it can be told which checkpoint is the newest, the segments that it lists are
\* whole, and read in their order they hold what the last completed flush promised:
\* neither a flush that did not come to its end nor the next checkpoint has
\* touched any of them.  (Only after the load of an older checkpoint may a flush
\* do so, until its own checkpoint is written.  This is about the disk: lfs_load
\* itself gets through lists of one segment, see LoadReturns.)
LogKept ==
  proc # "start" /\ ~stale =>
    /\ Newest # nil
    /\ Readable(cp[Newest].segs)
    /\ LET log == Scanned(cp[Newest].segs)
       IN \A n \in Names : saved[n] # Unknown => Contents(log, n) = saved[n]

\* An inode whose contents are not on the disk is on the pending list, or a
\* failure has been reported: what is neither is lost at the next load.
NothingForgotten ==
  proc = "up" => \A i \in Ids : \A k \in DOMAIN inodes[i].blks :
    LET b == inodes[i].blks[k]
    IN ~b.written /\ ~b.empty =>
         (\E j \in DOMAIN pending : pending[j] = i) \/ doubt # {}

\* What clients rely on while the file system is up: reads return what was
\* written last, nothing that is not on the disk is forgotten, and the structures
\* of lfs.c that this rests on are sound.
FilesKept == TypeOK /\ ReadsLastWrite /\ NothingForgotten

-----------------------------------------------------------------------------
(* Stated in the repository, and not kept by the code (see the README).   *)

\* The test program in main.c flushes, frees and loads the file system and goes
\* on: lfs_load returns.
LoadReturns == proc # "hung"
=============================================================================
