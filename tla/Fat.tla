-------------------------------- MODULE Fat ---------------------------------
(***************************************************************************)
(* The FAT library (lib/fat/fat.c) and the file server over it             *)
(* (procs/fatfs/main.c): files are found in directories, read along their  *)
(* chain of clusters, and given up (clunked).  The table of open files     *)
(* keeps a file that was given up until its slot is needed.                *)
(*                                                                         *)
(* Lengths and offsets of reads are in clusters.  What is on the disk does *)
(* not change.  Any request to the block device may fail.                  *)
(***************************************************************************)
EXTENDS Integers, Sequences, SequencesExt, FiniteSets

CONSTANTS Clients, Names,
          Dir,        \* Dir[c]: the entries in cluster c, 0 for the root directory
          Table,      \* the allocation table, from cluster 2 on
          EndMark,    \* table values from here on end a chain
          Spc, DataArea,
          FIDSMAX,
          Offs, Lens, \* reads in clusters
          Contents,   \* the sectors of the file that starts at a cluster
          MaxRefs,    \* bound: finds below one directory
          nil

Clusters == DOMAIN Table

\* What the code takes for granted of its constants.
FatOK ==
  /\ Clusters \subseteq Nat \ {0, 1} /\ FIDSMAX \in Nat /\ EndMark \in Nat
  /\ Spc \in Nat \ {0} /\ DataArea \in Nat /\ DOMAIN Contents \subseteq Clusters

VARIABLES files,   \* the open files; 0 is the root directory
          held,    \* history: what each client found and has not clunked
          revived, \* history: a slot that was clunked was found again
          rsp      \* the last reply

vars == <<files, held, revived, rsp>>

-----------------------------------------------------------------------------
(* The library: chains and directories.                                    *)

\* fat_next_cluster of what fat_table_info reads.
fat_next_cluster(c) == IF Table[c] >= EndMark THEN 0 ELSE Table[c]

\* The clusters from c on, in order.
Chain(c) ==
  LET at[n \in 0..Cardinality(Clusters)] ==
        IF n = 0 THEN c
        ELSE IF at[n - 1] \notin Clusters THEN 0 ELSE fat_next_cluster(at[n - 1])
  IN  SelectSeq([n \in 1..Cardinality(Clusters) |-> at[n - 1]],
                LAMBDA x : x # 0)

cluster_to_sector(c) == DataArea + (c - 2) * Spc
Sectors(c) == [i \in 1..Spc |-> cluster_to_sector(c) + i - 1]

\* fat_find_file_in_sectors: the place of name among the entries.  Deleted
\* entries and long names are skipped, an empty one ends the search with ERR.
Matches(entries, name) ==
  {k \in 1..Len(entries) :
     entries[k].name \in {name, "empty"} /\
     \A j \in 1..k-1 : entries[j].name \notin {name, "empty"}}
EntryIn(c, name) ==
  LET ks == Matches(Dir[c], name) IN
  IF ks = {} THEN nil ELSE Dir[c][CHOOSE k \in ks : TRUE]

\* The search of fat_file_find, cluster by cluster: it ends where an entry
\* matches or is empty.
Search(start, name) ==
  LET cs == IF start = 0 THEN <<0>> ELSE Chain(start)
      hits == {k \in 1..Len(cs) : EntryIn(cs[k], name) # nil}
      first == CHOOSE k \in hits : \A j \in hits : k <= j
  IN  IF hits = {} \/ EntryIn(cs[first], name).name = "empty" THEN nil
      ELSE EntryIn(cs[first], name)

Entry(name, start, isdir) == [name |-> name, start |-> start, isdir |-> isdir]

-----------------------------------------------------------------------------
(* The table of open files.                                                *)

Unused == [refs |-> 0, name |-> nil, parent |-> nil, start |-> 0]
Fids == 1..FIDSMAX-1
Least(s) == CHOOSE i \in s : \A j \in s : i <= j

\* Slots that were clunked and still hold what is looked for.
Clunked(p, name) ==
  {i \in Fids : files[i].parent = p /\ files[i].refs = 0 /\ files[i].name = name}

\* Mutant: any slot may be reused.
ReusableAny == Fids

\* fat_find_free_fid: the first slot that is unused, or the first clunked one.
Reusable == {i \in Fids : files[i].refs = 0}
FreeFid ==
  LET unused == {i \in Fids : files[i].name = nil} IN
  IF unused # {} THEN Least(unused)
  ELSE IF Reusable # {} THEN Least(Reusable) ELSE 0

\* The server's handle_find: each file that is found counts in its parent.
Found(c, p, fid, e) ==
  /\ held' = held \cup {[by |-> c, fid |-> fid, name |-> e.name, start |-> e.start]}
  /\ rsp' = [op |-> "find", ret |-> "OK", fid |-> fid, name |-> e.name, parent |-> p]

Refused(op) == rsp' = [op |-> op, ret |-> "ERR"]

\* fat_file_find finds a slot: refs stays 0.
FindClunked(c, p, name) ==
  /\ files[p].refs \in 1..MaxRefs
  /\ Clunked(p, name) # {}
  /\ \E i \in {Least(Clunked(p, name))} :
       /\ files' = [files EXCEPT ![p].refs = @ + 1]
       /\ Found(c, p, i, [name |-> name, start |-> files[i].start])
  /\ revived' = TRUE

\* fat_file_from_entry.
FindOnDisk(c, p, name) ==
  /\ files[p].refs \in 1..MaxRefs
  /\ Clunked(p, name) = {}
  /\ \E e \in {Search(files[p].start, name)}, i \in {FreeFid} :
       IF e = nil \/ i = 0
       THEN Refused("find") /\ UNCHANGED <<files, held>>
       ELSE /\ files' = [files EXCEPT ![p].refs = @ + 1,
                           ![i] = [refs |-> 1, name |-> name, parent |-> p,
                                   start |-> e.start]]
            /\ Found(c, p, i, e)
  /\ UNCHANGED revived

\* A request to the block device failed, or the directory is not open.
FindFails(p, name) ==
  /\ files[p].refs = 0 \/ Clunked(p, name) = {}
  /\ Refused("find")
  /\ UNCHANGED <<files, held, revived>>

Part(cs, off, len) ==
  SubSeq(cs, off + 1, IF off + len < Len(cs) THEN off + len ELSE Len(cs))
SectorsOf(cs) == FlattenSeq([i \in 1..Len(cs) |-> Sectors(cs[i])])

\* handle_read and fat_file_read.  A table that cannot be read ends the chain
\* there: k is the number of clusters that were read.
handle_read(h, off, len) ==
  /\ LET part == Part(Chain(files[h.fid].start), off, len) IN
     IF files[h.fid].refs = 0 THEN Refused("read")
     ELSE \/ Refused("read")
          \/ \E k \in 0..Len(part) :
               rsp' = [op |-> "read", ret |-> "OK", of |-> h, off |-> off,
                       len |-> len, got |-> SectorsOf(SubSeq(part, 1, k))]
  /\ UNCHANGED <<files, held, revived>>

\* handle_clunk and fat_file_clunk, which keeps what the slot holds.
ClunkedSlot(f) == [f EXCEPT !.refs = 0]

handle_clunk(h) ==
  /\ IF files[h.fid].refs = 0
     THEN Refused("clunk") /\ UNCHANGED files
     ELSE /\ files' = [files EXCEPT ![h.fid] = ClunkedSlot(@)]
          /\ rsp' = [op |-> "clunk", ret |-> "OK"]
  /\ held' = held \ {h}
  /\ UNCHANGED revived

\* The directories that c can look in: the root, and what it found.
OpenFor(c) == {0} \cup {h.fid : h \in {h \in held : h.by = c}}

Init ==
  /\ files = [i \in 0..FIDSMAX-1 |->
                IF i = 0 THEN [Unused EXCEPT !.refs = 1] ELSE Unused]
  /\ held = {} /\ revived = FALSE /\ rsp = nil

Next ==
  \/ \E c \in Clients : \E p \in OpenFor(c), name \in Names :
       /\ files[p].start = 0 \/ files[p].start \in DOMAIN Dir
       /\ FindClunked(c, p, name) \/ FindOnDisk(c, p, name) \/ FindFails(p, name)
  \/ \E h \in held :
       \/ \E off \in Offs, len \in Lens : handle_read(h, off, len)
       \/ handle_clunk(h)
Spec == Init /\ [][Next]_vars

-----------------------------------------------------------------------------
(* Properties.                                                             *)

\* The variables have the types of the library's data.
TypeOK ==
  /\ \A i \in 0..FIDSMAX-1 :
       /\ files[i].refs \in 0..MaxRefs + 1 /\ files[i].name \in Names \cup {nil}
       /\ files[i].parent \in 0..FIDSMAX-1 \cup {nil}
       /\ files[i].start \in Clusters \cup {0}
       /\ files[i].name = nil <=> files[i].parent = nil
  /\ \A h \in held : h.fid \in Fids

\* What a client found stays what its number stands for, as long as no slot
\* was found again that had been clunked: the table being full, or another
\* client's clunk, does not change it.
HeldStays ==
  ~revived => \A h \in held :
    /\ files[h.fid].refs > 0
    /\ files[h.fid].name = h.name /\ files[h.fid].start = h.start

\* A read brings sectors of the file that the client found, from the offset
\* on and in order, and never those of another file.
ReadsTheFile ==
  rsp # nil /\ rsp.op = "read" /\ rsp.ret = "OK" /\ ~revived =>
    /\ IsPrefix(rsp.got, SubSeq(Contents[rsp.of.start], rsp.off * Spc + 1,
                                Len(Contents[rsp.of.start])))
    /\ Len(rsp.got) <= rsp.len * Spc

\* What clients of the server rely on: the number of a file stays that file's,
\* and reads bring its sectors.
FilesServed == TypeOK /\ HeldStays /\ ReadsTheFile

-----------------------------------------------------------------------------
(* Stated in the repository, and not kept by the code (see the README).   *)

\* A file that was found can be used: "Slot was clunked but still in array"
\* (lib/fat/fat.c:201).
FoundIsOpen ==
  rsp # nil /\ rsp.op = "find" /\ rsp.ret = "OK" => files[rsp.fid].refs > 0

\* A read that is answered with OK brought all that was asked for and is
\* there: the test takes anything else for "error reading init file"
\* (procs/test/fs.c:222-228).
ReadIsWhole ==
  rsp # nil /\ rsp.op = "read" /\ rsp.ret = "OK" /\ ~revived =>
    rsp.got = SectorsOf(Part(Chain(rsp.of.start), rsp.off, rsp.len))
=============================================================================
