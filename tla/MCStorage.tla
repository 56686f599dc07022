----------------------------- MODULE MCStorage ------------------------------
(***************************************************************************)
(* Instances of the storage components: the log-structured file system     *)
(* twice, with two names that collide and with files of several blocks,    *)
(* the FAT server and the block server over virtio.  They are processes of *)
(* their own that share no memory, so a run takes the steps of one of them *)
(* and leaves the others where they start.                                 *)
(***************************************************************************)
EXTENDS Integers, Sequences, TLC

CONSTANTS nil, End, f1, f2, f3, d1, d2, d3, zero, Bad, Err, Unknown, c1, c2, v1

VARIABLES
  which,                                            \* the component that runs
  proc, flushing, used, free, ts, inodes, pending,  \* Lfs
  cp, seg, faults, file, saved, doubt, stale,
  files, held, revived, found,                      \* Fat
  memory, disk, q, writes, req, d, status, rsp, before, kept  \* VirtioBlk

lfs == <<proc, flushing, used, free, ts, inodes, pending, cp, seg, faults, file, saved,
         doubt, stale>>
fat == <<files, held, revived, found>>
blk == <<memory, disk, q, writes, req, d, status, rsp, before, kept>>
vars == <<which, lfs, fat, blk>>

-----------------------------------------------------------------------------
\* All names hash to the same inode.
Collide == [n \in {f1, f2, f3} |-> 0]

LfsNames == INSTANCE Lfs WITH
  Names <- {f1, f2}, Data <- {d3}, Zero <- zero, NInodes <- 2, NSegs <- 2, SegBlks <- 2,
  Direct <- 1, Hash <- Collide, MaxBlks <- 1, MaxTs <- 2, MaxFaults <- 0

LfsBlocks == INSTANCE Lfs WITH
  Names <- {f3}, Data <- {d1, d2}, Zero <- zero, NInodes <- 1, NSegs <- 2, SegBlks <- 2,
  Direct <- 1, Hash <- Collide, MaxBlks <- 2, MaxTs <- 2, MaxFaults <- 1

\* Nothing in lfs.c tells two names with one hash, or two contents, apart.
AnyName == Permutations({f1, f2}) \cup Permutations({d1, d2})

Entry(name, start, isdir) == [name |-> name, start |-> start, isdir |-> isdir]

\* The root directory holds the file a, of three clusters that are not in the
\* order of the disk, and the directory d of two clusters, which hold the file
\* b after a deleted entry.
Entries ==
  [c \in {0, 3, 6} |->
     CASE c = 0 -> <<Entry("lfn", 0, FALSE), Entry("a", 2, FALSE), Entry("d", 3, TRUE)>>
       [] c = 3 -> <<Entry("deleted", 0, FALSE)>>
       [] c = 6 -> <<Entry("b", 7, FALSE), Entry("empty", 0, FALSE)>>]

\* 2 -> 5 -> 4, 3 -> 6, 7.
Links == [c \in 2..7 |-> CASE c = 2 -> 5 [] c = 5 -> 4 [] c = 3 -> 6
                           [] c = 4 -> 8 [] c = 6 -> 9 [] c = 7 -> 8]

\* Two sectors to the cluster, from sector 10 on.
SectorsOfFiles ==
  [c \in {2, 3, 7} |-> CASE c = 2 -> <<10, 11, 16, 17, 14, 15>>
                        [] c = 3 -> <<12, 13, 18, 19>>
                        [] c = 7 -> <<20, 21>>]

Fat == INSTANCE Fat WITH
  Clients <- {c1, c2}, Names <- {"a", "b", "d"}, Dir <- Entries, Table <- Links,
  EndMark <- 8, Spc <- 2, DataArea <- 10, FIDSMAX <- 3, Offs <- {0, 1}, Lens <- {2},
  Contents <- SectorsOfFiles, MaxRefs <- 3, rsp <- found

\* Two clients whose frames are next to each other.
Frames == c1 :> [pa |-> 0, len |-> 2] @@ c2 :> [pa |-> 2, len |-> 1]

Blk == INSTANCE VirtioBlk WITH
  Word16 <- 5, Word <- 16, Clients <- {c1, c2}, Frame <- Frames, MemLen <- 3,
  DiskLen <- 2, Offs <- {0, 1}, Ns <- {1, 2}, Values <- {v1}

ASSUME ConstantsOK == LfsNames!LfsOK /\ LfsBlocks!LfsOK /\ Fat!FatOK /\ Blk!BlkOK

-----------------------------------------------------------------------------
Init ==
  /\ which \in {"names", "blocks", "fat", "blk"}
  /\ IF which = "names" THEN LfsNames!Init ELSE LfsBlocks!Init
  /\ Fat!Init
  /\ Blk!Init /\ (which # "blk" => disk = [i \in 0..1 |-> nil])

Next ==
  /\ \/ which = "names" /\ LfsNames!Next /\ UNCHANGED <<fat, blk>>
     \/ which = "blocks" /\ LfsBlocks!Next /\ UNCHANGED <<fat, blk>>
     \/ which = "fat" /\ Fat!Next /\ UNCHANGED <<lfs, blk>>
     \/ which = "blk" /\ Blk!Next /\ UNCHANGED <<lfs, fat>>
  /\ UNCHANGED which

Spec == Init /\ [][Next]_vars

-----------------------------------------------------------------------------
\* lfs.c: what was written is read back and none of it is forgotten, through
\* cache, flushes, failures and names that collide.
FilesKept ==
  /\ which = "names" => LfsNames!FilesKept
  /\ which = "blocks" => LfsBlocks!FilesKept

\* lfs.c: whenever the machine stops, the log on the disk holds what the last
\* completed flush promised.
LogKept ==
  /\ which = "names" => LfsNames!LogKept
  /\ which = "blocks" => LfsBlocks!LogKept

\* fat.c and fatfs: numbers of files stay those files', and reads bring their
\* sectors.
FilesServed == which = "fat" => Fat!FilesServed

\* block.c and blk.c: reads bring the blocks, and no request uses up the queue.
BlocksServed == which = "blk" => Blk!BlocksServed
=============================================================================
