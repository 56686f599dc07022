------------------------------ MODULE Objects ------------------------------
(***************************************************************************)
(* Kernel objects: untyped memory that user processes split, merge and     *)
(* retype through capabilities (sys/sys.c, sys_obj_create of               *)
(* arm/kern/sys.c).                                                        *)
(*                                                                         *)
(* The kernel keeps no list of its objects.  An object is a header in      *)
(* memory, the size of an untyped object is in that header, and whether    *)
(* two objects overlap depends on who holds which capability.  The slots   *)
(* of all caplists are one set, because messages move capabilities between *)
(* any two of them.  h.refs is left out: no code ever makes it exceed 1.   *)
(***************************************************************************)
EXTENDS Integers

CONSTANTS Slots,     \* the slots of all caplists
          Size,      \* addresses are below it
          Blocks,    \* the addresses of the frames that can become objects
          BlockLen,  \* their lengths
          Types,     \* the types memory can be given, "untyped" apart
          SizeOf,    \* sizeof(obj_..._t)
          MinLen,    \* sizeof(obj_untyped_t)
          nil

Addr == 0..(Size - 1)

ASSUME ObjectsOK ==
  /\ Size \in Nat
  /\ Blocks \subseteq Addr
  /\ BlockLen \in [Blocks -> Nat \ {0}]
  /\ \A b \in Blocks : b + BlockLen[b] <= Size
  /\ \A b, c \in Blocks : b < c => b + BlockLen[b] <= c
  /\ {"endpoint", "frame"} \subseteq Types /\ "untyped" \notin Types
  /\ SizeOf \in [Types -> Nat \ {0}]
  /\ MinLen \in Nat \ {0}
  /\ nil \notin Addr

VARIABLES caps,   \* caps[s]: the capability in slot s; empty when obj is nil
          type,   \* type[a], len[a]: the header at address a, which stays in
          len,    \*   memory when the object is gone
          fresh,  \* the blocks that are still frames of user memory
          inuse   \* frame objects that only the kernel refers to (mapped)

vars == <<caps, type, len, fresh, inuse>>

Cap == [obj: Addr, perm: {"w", "rw"}]
Empty == [obj |-> nil, perm |-> "no"]

TypeOK ==
  /\ caps \in [Slots -> Cap \cup {Empty}]
  /\ type \in [Addr -> Types \cup {"untyped"}]
  /\ len \in [Addr -> Nat]
  /\ fresh \subseteq Blocks
  /\ inuse \subseteq Addr

\* Memory that becomes kernel objects is cleared first.
Init ==
  /\ caps = [s \in Slots |-> Empty]
  /\ type = [a \in Addr |-> "untyped"]
  /\ len = [a \in Addr |-> 0]
  /\ fresh = Blocks
  /\ inuse = {}

Holds(s, t) == caps[s] # Empty /\ type[caps[s].obj] = t

-----------------------------------------------------------------------------
\* sys_obj_create: the frame at b, which nobody has mapped, is given up.
Create(s, b) ==
  /\ caps[s] = Empty
  /\ b \in fresh
  /\ type' = [type EXCEPT ![b] = "untyped"]
  /\ len' = [len EXCEPT ![b] = BlockLen[b]]
  /\ caps' = [caps EXCEPT ![s] = [obj |-> b, perm |-> "rw"]]
  /\ fresh' = fresh \ {b}
  /\ UNCHANGED inuse

\* Mutant: the object is retyped without a look at its length.
RetypeUnmeasured(s, t) ==
  /\ Holds(s, "untyped")
  /\ type' = [type EXCEPT ![caps[s].obj] = t]
  /\ len' = [len EXCEPT ![caps[s].obj] = SizeOf[t]]
  /\ UNCHANGED <<caps, fresh, inuse>>

\* The object takes sizeof its type; what is left of the memory is lost.
Retype(s, t) ==
  /\ Holds(s, "untyped")
  /\ SizeOf[t] <= len[caps[s].obj]
  /\ type' = [type EXCEPT ![caps[s].obj] = t]
  /\ len' = [len EXCEPT ![caps[s].obj] = SizeOf[t]]
  /\ UNCHANGED <<caps, fresh, inuse>>

\* sys_obj_retype to OBJ_untyped with a smaller length.
Shrink(s, n) ==
  /\ Holds(s, "untyped")
  /\ MinLen <= n /\ n <= len[caps[s].obj]
  /\ len' = [len EXCEPT ![caps[s].obj] = n]
  /\ UNCHANGED <<caps, type, fresh, inuse>>

\* Mutant: the length is not halved.
HalfWhole(n) == n

Half(n) == n \div 2

Split(s, t) ==
  /\ Holds(s, "untyped")
  /\ caps[t] = Empty
  /\ \E h \in {Half(len[caps[s].obj])} :
       /\ h >= MinLen
       /\ type' = [type EXCEPT ![caps[s].obj + h] = "untyped"]
       /\ len' = [len EXCEPT ![caps[s].obj + h] = h, ![caps[s].obj] = h]
       /\ caps' = [caps EXCEPT ![t] = [obj |-> caps[s].obj + h, perm |-> "rw"]]
  /\ UNCHANGED <<fresh, inuse>>

\* Only neighbours of one length are merged; the upper header is left behind.
\* (The code reads cl->obj and ch->obj before it knows that the slots are in
\* use; callers are assumed to name slots that are.)
Merge(s, t) ==
  /\ Holds(s, "untyped")
  /\ Holds(t, "untyped")
  /\ len[caps[s].obj] = len[caps[t].obj]
  /\ caps[s].obj + len[caps[s].obj] = caps[t].obj
  /\ len' = [len EXCEPT ![caps[s].obj] = @ + len[caps[t].obj]]
  /\ caps' = [caps EXCEPT ![t] = Empty]
  /\ UNCHANGED <<type, fresh, inuse>>

\* Mutant: any object can be connected to.
ConnectAny(s, t) ==
  /\ caps[s] # Empty
  /\ caps[t] = Empty
  /\ caps' = [caps EXCEPT ![t] = [obj |-> caps[s].obj, perm |-> "w"]]
  /\ UNCHANGED <<type, len, fresh, inuse>>

\* sys_endpoint_connect: the one way to a second capability of an object.
Connect(s, t) ==
  /\ Holds(s, "endpoint")
  /\ caps[t] = Empty
  /\ caps' = [caps EXCEPT ![t] = [obj |-> caps[s].obj, perm |-> "w"]]
  /\ UNCHANGED <<type, len, fresh, inuse>>

\* A message or a reply moves a capability.
Give(s, t) ==
  /\ caps[s] # Empty
  /\ caps[t] = Empty
  /\ caps' = [caps EXCEPT ![t] = caps[s], ![s] = Empty]
  /\ UNCHANGED <<type, len, fresh, inuse>>

\* sys_frame_map and sys_frame_l2_map: the capability of the frame is taken.
FrameMap(s) ==
  /\ Holds(s, "frame")
  /\ inuse' = inuse \cup {caps[s].obj}
  /\ caps' = [caps EXCEPT ![s] = Empty]
  /\ UNCHANGED <<type, len, fresh>>

\* sys_frame_unmap: a capability of it is put in a slot, which must be empty
\* or hold untyped memory (that is then lost).
FrameUnmap(s, a) ==
  /\ a \in inuse
  /\ caps[s] = Empty \/ Holds(s, "untyped")
  /\ inuse' = inuse \ {a}
  /\ caps' = [caps EXCEPT ![s] = [obj |-> a, perm |-> "rw"]]
  /\ UNCHANGED <<type, len, fresh>>

Next ==
  \/ \E s \in Slots, b \in Blocks : Create(s, b)
  \/ \E s \in Slots, t \in Types : Retype(s, t)
  \/ \E s \in Slots, n \in 1..Size : Shrink(s, n)
  \/ \E s, t \in Slots : Split(s, t) \/ Merge(s, t) \/ Connect(s, t) \/ Give(s, t)
  \/ \E s \in Slots : FrameMap(s)
  \/ \E s \in Slots, a \in Addr : FrameUnmap(s, a)

Spec == Init /\ [][Next]_vars

-----------------------------------------------------------------------------
\* The objects that somebody can still reach.
Reachable(a) == a \in inuse \/ \E s \in Slots : caps[s].obj = a

\* Whatever sequence of splits, merges and retypes led here, the objects that
\* capabilities reach do not overlap, so that no header is overwritten by
\* another object's contents, and none reaches into a frame of user memory.
Disjoint ==
  /\ \A a \in Addr : Reachable(a) => a + len[a] <= Size
  /\ \A a, b \in Addr :
       Reachable(a) /\ Reachable(b) /\ a < b => a + len[a] <= b
  /\ \A a \in Addr, b \in fresh :
       Reachable(a) => a + len[a] <= b \/ b + BlockLen[b] <= a

\* Only endpoints have several capabilities, and only one of them may receive;
\* so memory that is retyped, split or merged has no second owner, and a frame
\* in use by the kernel has none.
Unaliased ==
  /\ \A s, t \in Slots :
       /\ s # t
       /\ caps[s] # Empty
       /\ caps[s].obj = caps[t].obj
       => type[caps[s].obj] = "endpoint" /\ "w" \in {caps[s].perm, caps[t].perm}
  /\ \A s \in Slots : caps[s].obj \notin inuse

\* A capability without the right to receive is one of an endpoint.
WriteOnly == \A s \in Slots : caps[s].perm = "w" => type[caps[s].obj] = "endpoint"

\* Objects have at least one unit of memory, frames in use are frames.
Sized ==
  /\ \A a \in Addr : Reachable(a) => len[a] > 0
  /\ \A a \in inuse : type[a] = "frame"

ObjInv == TypeOK /\ Disjoint /\ Unaliased /\ WriteOnly /\ Sized
=============================================================================
