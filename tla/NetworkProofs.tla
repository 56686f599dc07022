--------------------------- MODULE NetworkProofs ---------------------------
(***************************************************************************)
(* Components of the network, one by one, for every value of the constants *)
(* that MCNetwork hands to them.                                           *)
(***************************************************************************)
EXTENDS MCNetwork, ListTheorems

-----------------------------------------------------------------------------
(* The server and its clients.                                             *)

\* The lists of Net are those of ListTheorems.
LEMMA NetLists ==
  ASSUME NEW s, NEW K
  PROVE  /\ Net!ListOf(s) = ListOf(s) /\ (Net!OneEach(s) <=> OneEach(s))
         /\ Net!Kept(s, K) = Kept(s, K)
  BY DEF Net!ListOf, ListOf, Net!OneEach, OneEach, Net!Kept, Kept

\* What the fields of a binding are.
LEMMA BindingIs ==
  ASSUME Net!Structures, NEW id \in DOMAIN bindings
  PROVE  /\ id \in Net!Ids /\ id \in 1..n_binding_id /\ bindings[id] \in Net!Binding
         /\ bindings[id].proc \in Procs /\ bindings[id].proto \in {"udp", "tcp"}
         /\ bindings[id].port \in Ports /\ bindings[id].recv_wait \in Seq(Net!Datagram)
         /\ bindings[id].offset \in Nat
<1>1. id \in 1..n_binding_id /\ n_binding_id \in 0..MaxIds /\ MaxIds \in Nat
  BY ConstantsOK DEF Net!Structures, Net!NetOK
<1>2. id \in 1..MaxIds
  BY <1>1
<1>3. bindings[id] \in Net!Binding
  BY DEF Net!Structures
<1> QED
  BY <1>1, <1>2, <1>3 DEF Net!Binding, Net!Ids

\* What the fields of a waiting request are.
LEMMA WaitsIs ==
  ASSUME Net!Structures, NEW r \in Net!ListOf(arp_requests)
  PROVE  r \in Net!Waits /\ r.binding \in Net!Ids /\ r.proc \in Procs /\ r.addr \in Addrs
<1>1. r \in Net!Waits
  BY DEF Net!Structures, Net!ListOf
<1> QED
  BY <1>1 DEF Net!Waits

\* A process that is idle has no request in the list and was not dropped.
LEMMA IdleFree ==
  ASSUME Net!Structures, Net!RequestsOwned, NEW p \in Procs, Net!Idle(p)
  PROVE  p \notin lost /\ \A r \in Net!ListOf(arp_requests) : r.proc # p
  BY DEF Net!RequestsOwned, Net!Idle

\* A request that is dropped blocks its client and leaves the others alone.
LEMMA DroppedOwned ==
  ASSUME Net!Structures, Net!RequestsOwned, NEW p \in Procs, Net!Idle(p),
         NEW what \in {"unbind", "write", "connect", "read"}, Net!Dropped(p, what),
         UNCHANGED <<bindings, arp_entries, arp_requests>>
  PROVE  /\ Net!RequestsOwned' /\ lost' \subseteq Procs
         /\ waiting' \in [Procs -> {"none", "unbind", "write", "connect", "read"}]
<1>1. /\ waiting \in [Procs -> {"none", "unbind", "write", "connect", "read"}]
      /\ lost \subseteq Procs
  BY DEF Net!Structures
<1>2. /\ waiting' = [waiting EXCEPT ![p] = what] /\ lost' = lost \cup {p}
  BY DEF Net!Dropped
<1>3. waiting'[p] = what /\ \A c \in Procs : c # p => waiting'[c] = waiting[c]
  BY <1>1, <1>2
<1>4. \A r \in Net!ListOf(arp_requests) : r.proc # p /\ r.proc \in Procs
  BY IdleFree, WaitsIs
<1>5. Net!RequestsOwned'
  BY <1>2, <1>3, <1>4 DEF Net!RequestsOwned, Net!OneEach, Net!ListOf
<1> QED
  BY <1>1, <1>2, <1>5

\* A request that waits for an address is put in front of the list.
LEMMA QueuedOwned ==
  ASSUME Net!Structures, Net!RequestsOwned, NEW p \in Procs, Net!Idle(p),
         NEW id, Net!Found(p, id), NEW addr \in Addrs, ~Net!arp_match_ip(addr),
         NEW what \in {"write", "connect"}, waiting' = [waiting EXCEPT ![p] = what],
         arp_requests' = Net!Waiting(Net!Request(p, id, addr)),
         UNCHANGED <<bindings, arp_entries, lost>>
  PROVE  /\ Net!RequestsOwned' /\ arp_requests' \in Seq(Net!Waits)
         /\ waiting' \in [Procs -> {"none", "unbind", "write", "connect", "read"}]
<1> DEFINE r == Net!Request(p, id, addr)
<1>1. /\ waiting \in [Procs -> {"none", "unbind", "write", "connect", "read"}]
      /\ arp_requests \in Seq(Net!Waits)
  BY DEF Net!Structures
<1>2. id \in DOMAIN bindings /\ bindings[id].proc = p /\ id \in Net!Ids
  BY BindingIs DEF Net!Found
<1>3. r \in Net!Waits /\ r.binding = id /\ r.proc = p /\ r.addr = addr
  BY <1>2 DEF Net!Waits, Net!Request
<1>4. arp_requests' = <<r>> \o arp_requests
  BY DEF Net!Waiting
<1>5. p \notin lost /\ \A s \in Net!ListOf(arp_requests) : s.proc # p /\ s.proc \in Procs
  BY IdleFree, WaitsIs
<1> HIDE DEF r
<1>6. r \notin ListOf(arp_requests) /\ OneEach(arp_requests)
  BY <1>3, <1>5, NetLists DEF Net!RequestsOwned
<1>7. /\ arp_requests' \in Seq(Net!Waits)
      /\ ListOf(arp_requests') = ListOf(arp_requests) \cup {r} /\ OneEach(arp_requests')
  BY <1>1, <1>3, <1>4, <1>6, ConsProps
<1>8. /\ Net!ListOf(arp_requests)' = Net!ListOf(arp_requests) \cup {r}
      /\ Net!OneEach(arp_requests)'
  BY <1>7, NetLists
<1>9. waiting'[p] = what /\ \A c \in Procs : c # p => waiting'[c] = waiting[c]
  BY <1>1
<1>10. addr \notin arp_entries
  BY DEF Net!arp_match_ip
<1>11. \A s \in Net!ListOf(arp_requests)' :
        /\ s.binding \in DOMAIN bindings /\ bindings[s.binding].proc = s.proc
        /\ waiting'[s.proc] \in {"write", "connect"} /\ s.proc \notin lost
        /\ s.addr \notin arp_entries
  BY <1>2, <1>3, <1>5, <1>8, <1>9, <1>10 DEF Net!RequestsOwned
<1>12. \A s, t \in Net!ListOf(arp_requests)' : s.proc = t.proc => s = t
  BY <1>3, <1>5, <1>8 DEF Net!RequestsOwned
<1>13. \A c \in Procs : waiting'[c] = "write" /\ c \notin lost =>
         \E s \in Net!ListOf(arp_requests)' : s.proc = c
  BY <1>3, <1>8, <1>9 DEF Net!RequestsOwned
<1>14. \A c \in Procs : c \in lost => waiting'[c] # "none"
  BY <1>5, <1>9 DEF Net!RequestsOwned
<1> QED
  BY <1>1, <1>7, <1>8, <1>11, <1>12, <1>13, <1>14 DEF Net!RequestsOwned

\* The bytes of datagrams, each with the address it came from.
Bytes == Addrs \X Nat

\* What a datagram is.
LEMMA DatagramIs ==
  ASSUME Net!NetOK, NEW d \in Net!Datagram
  PROVE  d.addr \in Addrs /\ d.first \in Nat /\ d.len \in Nat /\ d.len > 0
<1>1. d.addr \in Addrs /\ d.first \in Nat /\ d.len \in Lens
  BY DEF Net!Datagram
<1>2. Lens \subseteq Nat \ {0}
  BY DEF Net!NetOK
<1>3. d.len \in Nat \ {0}
  BY <1>1, <1>2
<1> QED
  BY <1>1, <1>3

\* What places say of the first datagram.
LEMMA PlacesFirst ==
  ASSUME Net!NetOK, NEW b \in Net!Binding, NEW came \in Seq(Bytes), NEW seen \in Seq(Bytes),
         NEW at \in [1..Len(b.recv_wait) + 1 -> Nat], Net!Places(b, came, seen, at)
  PROVE  /\ b.offset \in Nat /\ b.recv_wait \in Seq(Net!Datagram) /\ at[1] \in Nat
         /\ at[1] + b.offset = Len(seen)
         /\ b.recv_wait = <<>> => b.offset = 0 /\ Len(came) = Len(seen)
         /\ b.recv_wait # <<>> =>
              /\ Len(b.recv_wait) > 0 /\ b.recv_wait[1] \in Net!Datagram
              /\ b.offset < b.recv_wait[1].len /\ at[1] + b.recv_wait[1].len <= Len(came)
              /\ at[2] = at[1] + b.recv_wait[1].len
              /\ \A i \in 1..b.recv_wait[1].len :
                   came[at[1] + i] = <<b.recv_wait[1].addr, b.recv_wait[1].first + i - 1>>
<1>1. b.offset \in Nat /\ b.recv_wait \in Seq(Net!Datagram)
  BY DEF Net!Binding
<1>2. Len(b.recv_wait) \in Nat
  BY <1>1
<1>3. at[1] \in Nat
  <2>1. 1 \in 1..(Len(b.recv_wait) + 1)
    BY ONLY <1>2
  <2> QED
    BY <2>1
<1>4. at[1] + b.offset = Len(seen) /\ at[Len(b.recv_wait) + 1] = Len(came)
  BY DEF Net!Places
<1>5. ASSUME b.recv_wait = <<>>
      PROVE  b.offset = 0 /\ Len(came) = Len(seen)
  <2>1. Len(b.recv_wait) = 0
    BY <1>5
  <2>2. b.offset = 0
    BY <2>1 DEF Net!Places
  <2> QED
    BY <1>3, <1>4, <2>1, <2>2
<1>6. ASSUME b.recv_wait # <<>>
      PROVE  /\ Len(b.recv_wait) > 0 /\ b.recv_wait[1] \in Net!Datagram
             /\ b.offset < b.recv_wait[1].len /\ at[1] + b.recv_wait[1].len <= Len(came)
             /\ at[2] = at[1] + b.recv_wait[1].len
             /\ \A i \in 1..b.recv_wait[1].len :
                  came[at[1] + i] = <<b.recv_wait[1].addr, b.recv_wait[1].first + i - 1>>
  <2>1. Len(b.recv_wait) > 0 /\ 1 \in 1..Len(b.recv_wait) /\ Len(b.recv_wait) # 0
    BY <1>1, <1>2, <1>6
  <2>2. b.recv_wait[1] \in Net!Datagram
    BY <1>1, <2>1
  <2>3. b.offset < b.recv_wait[1].len
    BY <2>1 DEF Net!Places
  <2>4. /\ at[1 + 1] = at[1] + b.recv_wait[1].len /\ at[1 + 1] <= Len(came)
        /\ \A i \in 1..b.recv_wait[1].len :
             came[at[1] + i] = <<b.recv_wait[1].addr, b.recv_wait[1].first + i - 1>>
    BY <2>1 DEF Net!Places
  <2> QED
    BY <2>1, <2>2, <2>3, <2>4
<1> QED
  BY <1>1, <1>3, <1>4, <1>5, <1>6

\* Positions inside a piece are positions of the whole.
LEMMA Within ==
  ASSUME NEW a \in Nat, NEW l \in Nat, NEW m \in Nat, a + l <= m,
         NEW i \in Nat, i >= 1, i <= l
  PROVE  a + i \in 1..m
  OBVIOUS

\* A datagram comes: it is put after those that wait.
LEMMA PlacesAppend ==
  ASSUME Net!NetOK, NEW b \in Net!Binding, NEW came \in Seq(Bytes), NEW seen \in Seq(Bytes),
         Net!Placed(b, came, seen), NEW d \in Net!Datagram,
         NEW more \in Seq(Bytes), Len(more) = d.len,
         \A i \in 1..d.len : more[i] = <<d.addr, d.first + i - 1>>,
         NEW b2 \in Net!Binding, b2.recv_wait = Append(b.recv_wait, d), b2.offset = b.offset
  PROVE  Net!Placed(b2, came \o more, seen)
<1>0. PICK at \in [1..Len(b.recv_wait) + 1 -> Nat] : Net!Places(b, came, seen, at)
  BY DEF Net!Placed
<1> DEFINE n == Len(b.recv_wait)
           w == b.recv_wait
           w2 == b2.recv_wait
           c2 == came \o more
           at2 == [k \in 1..(n + 2) |-> IF k = n + 2 THEN Len(came) + d.len ELSE at[k]]
<1>1. w \in Seq(Net!Datagram) /\ b.offset \in Nat /\ n \in Nat /\ Len(came) \in Nat
  BY DEF Net!Binding
<1>2. d.len \in Nat /\ d.len > 0
  BY DatagramIs
<1>3. /\ at[1] + b.offset = Len(seen) /\ at[n + 1] = Len(came)
      /\ \A k \in 1..n : at[k + 1] = at[k] + w[k].len /\ at[k + 1] <= Len(came)
      /\ \A k \in 1..n : \A i \in 1..w[k].len :
           came[at[k] + i] = <<w[k].addr, w[k].first + i - 1>>
      /\ n = 0 => b.offset = 0
      /\ n # 0 => b.offset < w[1].len
  BY <1>0 DEF Net!Places
<1>4. \A k \in 1..n : w[k] \in Net!Datagram /\ w[k].len \in Nat
  <2> TAKE k \in 1..n
  <2>1. w[k] \in Net!Datagram
    BY <1>1
  <2> QED
    BY <2>1, DatagramIs
<1>5. \A k \in 1..(n + 1) : at[k] \in Nat
  BY <1>0
<1>6. /\ w2 = Append(w, d) /\ Len(w2) = n + 1 /\ w2[n + 1] = d
      /\ \A k \in 1..n : w2[k] = w[k]
  BY <1>1
<1>7. /\ Len(c2) = Len(came) + d.len
      /\ \A i \in 1..Len(came) : c2[i] = came[i]
      /\ \A i \in 1..d.len : c2[Len(came) + i] = more[i]
  <2>1. /\ Len(c2) = Len(came) + Len(more)
        /\ \A i \in 1..Len(came) : c2[i] = came[i]
        /\ \A i \in 1..Len(more) : c2[Len(came) + i] = more[i]
    <3>1. came \in Seq(Bytes) /\ more \in Seq(Bytes)
      OBVIOUS
    <3> QED
      BY ONLY <3>1 DEF c2
  <2> QED
    BY <2>1
<1>8. at2 \in [1..Len(w2) + 1 -> Nat]
  <2>1. Len(w2) + 1 = n + 2 /\ Len(came) + d.len \in Nat
    BY <1>1, <1>2, <1>6
  <2>2. \A k \in 1..(n + 2) : k # n + 2 => k \in 1..(n + 1)
    BY ONLY <1>1
  <2>3. \A k \in 1..(n + 2) : at2[k] \in Nat
    BY <1>5, <2>1, <2>2
  <2> QED
    BY <2>1, <2>3
<1>9. \A k \in 1..(n + 1) : at2[k] = at[k]
  BY <1>1
<1>10. at2[n + 2] = Len(came) + d.len
  BY <1>1
<1> HIDE DEF n, w, w2, c2, at2
<1>11. ASSUME NEW k \in 1..(n + 1)
       PROVE  /\ at2[k + 1] = at2[k] + w2[k].len /\ at2[k + 1] <= Len(c2)
              /\ \A i \in 1..w2[k].len : c2[at2[k] + i] = <<w2[k].addr, w2[k].first + i - 1>>
  <2>1. CASE k = n + 1
    <3>1. at2[k] = Len(came) /\ w2[k] = d /\ k + 1 = n + 2
      BY <1>1, <1>3, <1>6, <1>9, <2>1
    <3>2. at2[k + 1] = Len(came) + d.len
      BY <1>10, <3>1
    <3>4. Len(came) + d.len <= Len(c2)
      <4>1. Len(came) + d.len \in Nat
        BY ONLY <1>1, <1>2
      <4> QED
        BY <1>7, <4>1
    <3>3. \A i \in 1..d.len : c2[Len(came) + i] = <<d.addr, d.first + i - 1>>
      BY <1>7
    <3> QED
      BY <3>1, <3>2, <3>4, <3>3
  <2>2. CASE k \in 1..n
    <3>0. k \in 1..(n + 1) /\ k + 1 \in 1..(n + 1)
      BY <1>1, <2>2
    <3>1. /\ at2[k] = at[k] /\ at2[k + 1] = at[k + 1] /\ w2[k] = w[k] /\ w[k].len \in Nat
          /\ at[k] \in Nat
      BY <1>4, <1>5, <1>6, <1>9, <2>2, <3>0
    <3>2. at[k + 1] = at[k] + w[k].len /\ at[k + 1] <= Len(came)
      BY <1>3, <2>2
    <3>3. \A i \in 1..w[k].len : at[k] + i \in 1..Len(came)
      <4> TAKE i \in 1..w[k].len
      <4>1. i \in Nat /\ i >= 1 /\ i <= w[k].len
        BY <3>1
      <4>2. at[k] + w[k].len <= Len(came)
        BY <3>2
      <4>3. at[k] \in Nat /\ w[k].len \in Nat /\ Len(came) \in Nat
        BY <1>1, <3>1
      <4> QED
        BY <4>1, <4>2, <4>3, Within
    <3>4. \A i \in 1..w[k].len : c2[at[k] + i] = came[at[k] + i]
      BY <1>7, <3>3
    <3>5. \A i \in 1..w[k].len : came[at[k] + i] = <<w[k].addr, w[k].first + i - 1>>
      BY <1>3, <2>2
    <3>6. at2[k + 1] <= Len(c2)
      <4>1. at[k + 1] \in Nat
        BY <1>5, <3>0
      <4>2. at[k + 1] <= Len(came) /\ Len(came) \in Nat /\ Len(c2) = Len(came) + d.len
        BY <1>1, <1>7, <3>2
      <4>3. at[k + 1] <= Len(c2)
        BY ONLY <1>2, <4>1, <4>2
      <4> QED
        BY <3>1, <4>3
    <3> QED
      BY <3>1, <3>2, <3>4, <3>5, <3>6
  <2> QED
    BY <1>1, <2>1, <2>2
<1>12. at2[1] + b2.offset = Len(seen) /\ at2[Len(w2) + 1] = Len(c2)
  BY <1>1, <1>3, <1>6, <1>7, <1>9, <1>10
<1>13. b2.offset < w2[1].len /\ Len(w2) # 0
  <2>1. CASE n = 0
    <3>1. w2[1] = d /\ b2.offset = 0 /\ Len(w2) = 1
      BY <1>3, <1>6, <2>1
    <3> QED
      BY <1>2, <3>1
  <2>2. CASE n # 0
    <3>1. 1 \in 1..n /\ n + 1 # 0
      BY ONLY <1>1, <2>2
    <3> QED
      BY <1>3, <1>6, <2>2, <3>1
  <2> QED
    BY <2>1, <2>2
<1>14. Net!Places(b2, c2, seen, at2)
  BY <1>6, <1>11, <1>12, <1>13 DEF Net!Places, w2
<1> QED
  BY <1>8, <1>14 DEF Net!Placed, c2, w2

\* A part of the first datagram is read.
LEMMA PlacesPart ==
  ASSUME Net!NetOK, NEW b \in Net!Binding, NEW came \in Seq(Bytes), NEW seen \in Seq(Bytes),
         Net!Placed(b, came, seen),
         NEW more \in Seq(Bytes), NEW b2 \in Net!Binding, b2.recv_wait = b.recv_wait,
         b.recv_wait # <<>>, b2.offset = b.offset + Len(more), b2.offset < b.recv_wait[1].len
  PROVE  Net!Placed(b2, came, seen \o more)
<1>0. PICK at \in [1..Len(b.recv_wait) + 1 -> Nat] : Net!Places(b, came, seen, at)
  BY DEF Net!Placed
<1>1. b.offset \in Nat /\ at[1] \in Nat /\ at[1] + b.offset = Len(seen) /\ Len(b.recv_wait) > 0
  BY <1>0, PlacesFirst
<1>2. Len(seen \o more) = Len(seen) + Len(more) /\ Len(more) \in Nat
  OBVIOUS
<1>3. at[1] + b2.offset = Len(seen \o more)
  <2>1. b2.offset = b.offset + Len(more)
    OBVIOUS
  <2>2. at[1] + (b.offset + Len(more)) = (at[1] + b.offset) + Len(more)
    BY <1>1, <1>2
  <2> QED
    BY <1>1, <1>2, <2>1, <2>2
<1>4. Len(b.recv_wait) # 0
  BY <1>1
<1>5. Net!Places(b2, came, seen \o more, at)
  BY <1>0, <1>3, <1>4 DEF Net!Places
<1> QED
  BY <1>5 DEF Net!Placed

\* The rest of the first datagram is read, and it is taken off the list.
LEMMA PlacesTail ==
  ASSUME Net!NetOK, NEW b \in Net!Binding, NEW came \in Seq(Bytes), NEW seen \in Seq(Bytes),
         Net!Placed(b, came, seen),
         NEW more \in Seq(Bytes), NEW b2 \in Net!Binding, b2.recv_wait = Tail(b.recv_wait),
         b.recv_wait # <<>>, b.offset + Len(more) = b.recv_wait[1].len, b2.offset = 0
  PROVE  Net!Placed(b2, came, seen \o more)
<1>0. PICK at \in [1..Len(b.recv_wait) + 1 -> Nat] : Net!Places(b, came, seen, at)
  BY DEF Net!Placed
<1> DEFINE n == Len(b.recv_wait)
           w == b.recv_wait
           w2 == b2.recv_wait
           at2 == [k \in 1..n |-> at[k + 1]]
<1>1. w \in Seq(Net!Datagram) /\ n \in Nat /\ n > 0 /\ at[1] \in Nat /\ b.offset \in Nat
  BY <1>0, PlacesFirst
<1>2. at[1] + b.offset = Len(seen)
  BY <1>0 DEF Net!Places
<1>15. at[2] = at[1] + b.recv_wait[1].len
  <2>1. 1 \in 1..n /\ 1 + 1 = 2
    BY ONLY <1>1
  <2>2. at[1 + 1] = at[1] + b.recv_wait[1].len
    BY <1>0, <2>1 DEF Net!Places
  <2> QED
    BY <2>1, <2>2
<1>3. /\ at[n + 1] = Len(came)
      /\ \A k \in 1..n : at[k + 1] = at[k] + w[k].len /\ at[k + 1] <= Len(came)
      /\ \A k \in 1..n : \A i \in 1..w[k].len :
           came[at[k] + i] = <<w[k].addr, w[k].first + i - 1>>
  BY <1>0 DEF Net!Places
<1>4. w2 = Tail(w) /\ Len(w2) = n - 1 /\ \A k \in 1..(n - 1) : w2[k] = w[k + 1]
  BY <1>1
<1>5. at2 \in [1..Len(w2) + 1 -> Nat]
  <2>1. Len(w2) + 1 = n
    BY <1>1, <1>4
  <2>2. \A k \in 1..n : k + 1 \in 1..(n + 1)
    BY ONLY <1>1
  <2>3. \A k \in 1..n : at[k + 1] \in Nat
    BY <1>0, <2>2
  <2> QED
    BY <2>1, <2>3
<1>6. \A k \in 1..n : at2[k] = at[k + 1]
  OBVIOUS
<1>7. Len(seen \o more) = Len(seen) + Len(more) /\ Len(more) \in Nat
  OBVIOUS
<1>8. w[1].len \in Nat
  <2>1. w[1] \in Net!Datagram
    BY <1>1
  <2> QED
    BY <2>1, DatagramIs
<1>9. \A k \in 1..(n - 1) : w2[k].len \in Nat /\ w2[k].len > 0
  <2> TAKE k \in 1..(n - 1)
  <2>1. w2[k] = w[k + 1] /\ k + 1 \in 1..n
    BY <1>1, <1>4
  <2>2. w2[k] \in Net!Datagram
    BY <1>1, <2>1
  <2> QED
    BY <2>2, DatagramIs
<1> HIDE DEF n, w, w2, at2
<1>10. ASSUME NEW k \in 1..(n - 1)
       PROVE  /\ at2[k + 1] = at2[k] + w2[k].len /\ at2[k + 1] <= Len(came)
              /\ \A i \in 1..w2[k].len : came[at2[k] + i] = <<w2[k].addr, w2[k].first + i - 1>>
  <2>1. k + 1 \in 1..n /\ k \in 1..n /\ w2[k] = w[k + 1]
    BY <1>1, <1>4
  <2>2. at2[k] = at[k + 1] /\ at2[k + 1] = at[(k + 1) + 1]
    BY <1>6, <2>1
  <2>3. /\ at[(k + 1) + 1] = at[k + 1] + w[k + 1].len /\ at[(k + 1) + 1] <= Len(came)
        /\ \A i \in 1..w[k + 1].len :
             came[at[k + 1] + i] = <<w[k + 1].addr, w[k + 1].first + i - 1>>
    BY <1>3, <2>1
  <2> QED
    BY <2>1, <2>2, <2>3
<1>11. at2[1] + b2.offset = Len(seen \o more)
  <2>1. 1 \in 1..n /\ 1 + 1 = 2
    BY <1>1
  <2>2. at2[1] = at[2]
    BY <1>6, <2>1
  <2>3. at2[1] = at[1] + (b.offset + Len(more))
    BY <1>15, <2>2
  <2>4. at[1] + (b.offset + Len(more)) = (at[1] + b.offset) + Len(more)
    BY <1>1, <1>7
  <2>5. at2[1] \in Nat
    BY <1>1, <1>7, <2>3
  <2>6. at2[1] = Len(seen \o more)
    BY <1>2, <1>7, <2>3, <2>4
  <2>7. at2[1] + 0 = at2[1]
    BY ONLY <2>5
  <2> QED
    BY <2>6, <2>7
<1>12. at2[Len(w2) + 1] = Len(came)
  <2>1. Len(w2) + 1 = n /\ n \in 1..n
    BY <1>1, <1>4
  <2> QED
    BY <1>3, <1>6, <2>1
<1>13. IF Len(w2) = 0 THEN b2.offset = 0 ELSE b2.offset < w2[1].len
  <2>1. ASSUME Len(w2) # 0 PROVE 1 \in 1..(n - 1)
    <3>1. n \in Nat /\ n > 0 /\ n - 1 # 0
      BY <1>1, <1>4, <2>1
    <3> QED
      BY ONLY <3>1
  <2> QED
    BY <1>9, <2>1
<1>14. Net!Places(b2, came, seen \o more, at2)
  BY <1>4, <1>10, <1>11, <1>12, <1>13 DEF Net!Places, w2
<1> QED
  BY <1>5, <1>14 DEF Net!Placed, w2

\* A longer prefix.
LEMMA PrefixLonger ==
  ASSUME NEW s \in Seq(Bytes), NEW t \in Seq(Bytes), NEW more \in Seq(Bytes),
         Net!Begins(s, t), Len(s) + Len(more) <= Len(t),
         \A i \in 1..Len(more) : more[i] = t[Len(s) + i]
  PROVE  s \o more \in Seq(Bytes) /\ Net!Begins(s \o more, t)
<1> DEFINE c == s \o more
<1>1. Len(s) \in Nat /\ Len(t) \in Nat /\ Len(more) \in Nat
  OBVIOUS
<1>2. /\ c \in Seq(Bytes) /\ Len(c) = Len(s) + Len(more)
      /\ \A i \in 1..Len(s) : c[i] = s[i]
      /\ \A i \in 1..Len(more) : c[Len(s) + i] = more[i]
  OBVIOUS
<1> HIDE DEF c
<1>3. \A i \in 1..Len(s) : s[i] = t[i]
  BY DEF Net!Begins
<1>4. ASSUME NEW i \in 1..Len(c) PROVE c[i] = t[i]
  <2>1. CASE i \in 1..Len(s)
    BY <1>2, <1>3, <2>1
  <2>2. CASE i \notin 1..Len(s)
    <3>1. i - Len(s) \in 1..Len(more) /\ Len(s) + (i - Len(s)) = i
      BY <1>1, <1>2, <2>2
    <3> QED
      BY <1>2, <3>1
  <2> QED
    BY <2>1, <2>2
<1>5. Net!Begins(c, t)
  BY <1>2, <1>4 DEF Net!Begins
<1> QED
  BY <1>2, <1>5 DEF c

\* A prefix of what grows.
LEMMA PrefixGrows ==
  ASSUME NEW s \in Seq(Bytes), NEW t \in Seq(Bytes), NEW more \in Seq(Bytes),
         Net!Begins(s, t)
  PROVE  t \o more \in Seq(Bytes) /\ Net!Begins(s, t \o more)
<1> DEFINE c == t \o more
<1>1. Len(s) \in Nat /\ Len(t) \in Nat /\ Len(more) \in Nat
  OBVIOUS
<1>2. /\ c \in Seq(Bytes) /\ Len(c) = Len(t) + Len(more)
      /\ \A i \in 1..Len(t) : c[i] = t[i]
  OBVIOUS
<1> HIDE DEF c
<1>3. Len(s) <= Len(t) /\ \A i \in 1..Len(s) : s[i] = t[i]
  BY DEF Net!Begins
<1>4. \A i \in 1..Len(s) : i \in 1..Len(t)
  BY <1>1, <1>3
<1>5. Len(s) <= Len(c) /\ \A i \in 1..Len(s) : s[i] = c[i]
  BY <1>1, <1>2, <1>3, <1>4
<1>6. Net!Begins(s, c)
  BY <1>2, <1>5 DEF Net!Begins
<1> QED
  BY <1>2, <1>6 DEF c

\* What a change of the datagrams makes of a binding.
MadeOf(c, b, w, o) ==
  /\ c \in Net!Binding /\ c.proc = b.proc /\ c.proto = b.proto /\ c.port = b.port
  /\ c.recv_wait = w /\ c.offset = o

\* A binding that is replaced or added.
LEMMA BindingWith ==
  ASSUME NEW b \in Net!Binding, NEW w \in Seq(Net!Datagram), NEW o \in Nat
  PROVE  MadeOf([b EXCEPT !.offset = o, !.recv_wait = w], b, w, o)
  BY DEF Net!Binding, MadeOf

\* What ip_read_udp must return.
ReadOf(r, b, came, seen) ==
  /\ r.binding \in Net!Binding /\ r.binding.proc = b.proc
  /\ r.binding.proto = b.proto /\ r.binding.port = b.port
  /\ seen \o r.part \in Seq(Bytes) /\ Net!Begins(seen \o r.part, came)
  /\ Net!Placed(r.binding, came, seen \o r.part)

\* ip_read_udp: it returns the bytes that come next, and keeps the rest.
LEMMA ReadProps ==
  ASSUME Net!NetOK, NEW b \in Net!Binding, NEW came \in Seq(Bytes), NEW seen \in Seq(Bytes),
         Net!Placed(b, came, seen), Net!Begins(seen, came), NEW len \in Lens
  PROVE  ReadOf(Net!ip_read_udp(b, len), b, came, seen)
<1> DEFINE r == Net!ip_read_udp(b, len)
<1> SUFFICES ReadOf(r, b, came, seen)
  OBVIOUS
<1> USE DEF ReadOf
<1>0. PICK at \in [1..Len(b.recv_wait) + 1 -> Nat] : Net!Places(b, came, seen, at)
  BY DEF Net!Placed
<1>1. /\ b.offset \in Nat /\ b.recv_wait \in Seq(Net!Datagram) /\ at[1] \in Nat
      /\ at[1] + b.offset = Len(seen)
  BY <1>0, PlacesFirst
<1>2. CASE b.recv_wait = <<>>
  <2>1. r.binding = b /\ r.part = <<>>
    BY <1>2 DEF Net!ip_read_udp, r
  <2> HIDE DEF r
  <2>2. seen \o r.part = seen
    BY <2>1
  <2> QED
    BY <2>1, <2>2
<1>3. CASE b.recv_wait # <<>>
  <2> DEFINE d == b.recv_wait[1]
             rest == d.len - b.offset
             l == IF len > rest THEN rest ELSE len
             part == [i \in 1..l |-> <<d.addr, d.first + b.offset + i - 1>>]
  <2>1. /\ d \in Net!Datagram /\ b.offset < d.len /\ at[1] + d.len <= Len(came)
        /\ \A i \in 1..d.len : came[at[1] + i] = <<d.addr, d.first + i - 1>>
    BY <1>0, <1>3, PlacesFirst
  <2>2. d.addr \in Addrs /\ d.first \in Nat /\ d.len \in Nat
    BY <2>1, DatagramIs
  <2>3. len \in Nat /\ len > 0
    <3>1. len \in Nat \ {0}
      BY DEF Net!NetOK
    <3> QED
      BY <3>1
  <2>4. Head(b.recv_wait) = d
    BY <1>1, <1>3
  <2>5. /\ r.part = part
        /\ r.binding = IF l < rest THEN [b EXCEPT !.offset = @ + l]
                       ELSE [b EXCEPT !.offset = 0, !.recv_wait = Tail(@)]
    BY <1>3, <2>4 DEF Net!ip_read_udp
  <2> HIDE DEF d, r
  <2>6. rest \in Nat /\ l \in Nat /\ l <= rest /\ b.offset + rest = d.len
    BY <1>1, <2>1, <2>2, <2>3
  <2> HIDE DEF l, rest
  <2>7. part \in Seq(Bytes) /\ Len(part) = l
    <3>1. \A i \in 1..l : d.first + b.offset + i - 1 \in Nat
      <4>1. d.first \in Nat /\ b.offset \in Nat /\ l \in Nat
        BY <1>1, <2>2, <2>6
      <4> QED
        BY ONLY <4>1
    <3>2. \A i \in 1..l : <<d.addr, d.first + b.offset + i - 1>> \in Bytes
      BY <2>2, <3>1 DEF Bytes
    <3> QED
      BY <2>6, <3>2
  <2>8. Len(seen) + l <= Len(came)
    <3>1. Len(seen) \in Nat /\ Len(came) \in Nat
      OBVIOUS
    <3> QED
      BY <1>1, <2>1, <2>2, <2>6, <3>1
  <2>9. ASSUME NEW i \in 1..l PROVE part[i] = came[Len(seen) + i]
    <3>1. b.offset + i \in 1..d.len
      <4>1. i \in Nat /\ i >= 1 /\ i <= l /\ l <= rest /\ rest \in Nat
        BY <2>6
      <4>2. i <= rest
        BY <2>6, <4>1
      <4>3. b.offset \in Nat /\ d.len \in Nat /\ b.offset + rest <= d.len
        BY <1>1, <2>2, <2>6
      <4> QED
        BY <4>1, <4>2, <4>3, Within
    <3>2. came[at[1] + (b.offset + i)] = <<d.addr, d.first + (b.offset + i) - 1>>
      BY <2>1, <3>1
    <3>3. at[1] + (b.offset + i) = Len(seen) + i
      <4>1. at[1] + (b.offset + i) = (at[1] + b.offset) + i
        BY ONLY <1>1, <2>6
      <4> QED
        BY <1>1, <4>1
    <3>4. d.first + (b.offset + i) - 1 = d.first + b.offset + i - 1
      BY <1>1, <2>2, <2>6
    <3>5. part[i] = <<d.addr, d.first + b.offset + i - 1>>
      OBVIOUS
    <3> QED
      BY <3>2, <3>3, <3>4, <3>5
  <2> HIDE DEF part
  <2>10. seen \o part \in Seq(Bytes) /\ Net!Begins(seen \o part, came)
    BY <2>7, <2>8, <2>9, PrefixLonger
  <2>11. CASE l < rest
    <3>1. r.binding = [b EXCEPT !.offset = b.offset + l]
      BY <2>5, <2>11
    <3>2. b.offset + l \in Nat /\ b.offset + l < d.len
      BY <1>1, <2>2, <2>6, <2>11
    <3>3. /\ r.binding \in Net!Binding /\ r.binding.proc = b.proc
          /\ r.binding.proto = b.proto /\ r.binding.port = b.port
          /\ r.binding.recv_wait = b.recv_wait /\ r.binding.offset = b.offset + l
      BY <3>1, <3>2 DEF Net!Binding
    <3>4. Net!Placed(r.binding, came, seen \o part)
      <4>1. r.binding.offset = b.offset + Len(part)
        BY <2>7, <3>3
      <4>2. r.binding.offset < b.recv_wait[1].len
        BY <3>2, <3>3 DEF d
      <4> QED
        BY <1>3, <2>7, <3>3, <4>1, <4>2, PlacesPart
    <3> QED
      BY <2>5, <2>10, <3>3, <3>4
  <2>12. CASE ~(l < rest)
    <3> DEFINE tail == Tail(b.recv_wait)
    <3>1. r.binding = [b EXCEPT !.offset = 0, !.recv_wait = tail]
      BY <2>5, <2>12
    <3>2. tail \in Seq(Net!Datagram)
      BY <1>1, <1>3
    <3> HIDE DEF tail
    <3>3. /\ r.binding \in Net!Binding /\ r.binding.proc = b.proc
          /\ r.binding.proto = b.proto /\ r.binding.port = b.port
          /\ r.binding.recv_wait = tail /\ r.binding.offset = 0
      <4>1. MadeOf([b EXCEPT !.offset = 0, !.recv_wait = tail], b, tail, 0)
        BY <3>2, BindingWith
      <4>2. MadeOf(r.binding, b, tail, 0)
        BY <3>1, <4>1
      <4> QED
        BY <4>2 DEF MadeOf
    <3>4. b.offset + Len(part) = b.recv_wait[1].len
      <4>1. l = rest
        BY <2>6, <2>12
      <4> QED
        BY <2>6, <2>7, <4>1 DEF d
    <3>5. Net!Placed(r.binding, came, seen \o part)
      BY <1>3, <2>7, <3>3, <3>4, PlacesTail DEF tail
    <3> QED
      BY <2>5, <2>10, <3>3, <3>5
  <2> QED
    BY <2>11, <2>12
<1> QED
  BY <1>2, <1>3

\* What does not move bindings and bytes leaves what is said of them.
LEMMA BytesSame ==
  ASSUME Net!NetInv, UNCHANGED <<bindings, n_binding_id, queued, read>>
  PROVE  Net!BytesKept' /\ Net!OnePortOneBinding' /\ Net!DatagramsInOrder'
  BY DEF Net!NetInv, Net!BytesKept, Net!OnePortOneBinding, Net!DatagramsInOrder

\* A request that is dropped.
LEMMA DroppedInv ==
  ASSUME Net!NetInv, NEW p \in Procs, Net!Idle(p),
         NEW what \in {"unbind", "write", "connect", "read"}, Net!Dropped(p, what),
         UNCHANGED <<bindings, n_binding_id, arp_entries, arp_requests, bytes, queued, read>>
  PROVE  Net!NetInv'
<1>1. Net!Structures /\ Net!RequestsOwned
  BY DEF Net!NetInv
<1>2. /\ Net!RequestsOwned' /\ lost' \subseteq Procs
      /\ waiting' \in [Procs -> {"none", "unbind", "write", "connect", "read"}]
  BY <1>1, DroppedOwned
<1>3. Net!Structures'
  BY <1>1, <1>2 DEF Net!Structures
<1> QED
  BY <1>2, <1>3, BytesSame DEF Net!NetInv

\* A request that waits for an address.
LEMMA QueuedInv ==
  ASSUME Net!NetInv, NEW p \in Procs, Net!Idle(p),
         NEW id, Net!Found(p, id), NEW addr \in Addrs, ~Net!arp_match_ip(addr),
         NEW what \in {"write", "connect"}, waiting' = [waiting EXCEPT ![p] = what],
         arp_requests' = Net!Waiting(Net!Request(p, id, addr)),
         UNCHANGED <<bindings, n_binding_id, arp_entries, lost, bytes, queued, read>>
  PROVE  Net!NetInv'
<1>1. Net!Structures /\ Net!RequestsOwned
  BY DEF Net!NetInv
<1>2. /\ Net!RequestsOwned' /\ arp_requests' \in Seq(Net!Waits)
      /\ waiting' \in [Procs -> {"none", "unbind", "write", "connect", "read"}]
  BY <1>1, QueuedOwned
<1>3. Net!Structures'
  BY <1>1, <1>2 DEF Net!Structures
<1> QED
  BY <1>2, <1>3, BytesSame DEF Net!NetInv

\* A client is blocked or answered that has no request in the list.
LEMMA AnsweredInv ==
  ASSUME Net!NetInv, NEW p \in Procs, p \notin lost, NEW what \in {"none", "connect"},
         \A r \in Net!ListOf(arp_requests) : r.proc # p,
         waiting' = [waiting EXCEPT ![p] = what],
         UNCHANGED <<bindings, n_binding_id, arp_entries, arp_requests, lost, bytes, queued,
                     read>>
  PROVE  Net!NetInv'
<1>1. Net!Structures /\ Net!RequestsOwned
  BY DEF Net!NetInv
<1>2. waiting \in [Procs -> {"none", "unbind", "write", "connect", "read"}]
  BY <1>1 DEF Net!Structures
<1>3. waiting'[p] = what /\ \A c \in Procs : c # p => waiting'[c] = waiting[c]
  BY <1>2
<1>4. \A r \in Net!ListOf(arp_requests) : r.proc # p /\ r.proc \in Procs
  BY <1>1, WaitsIs
<1>5. Net!RequestsOwned'
  BY <1>1, <1>3, <1>4 DEF Net!RequestsOwned, Net!OneEach, Net!ListOf
<1>6. Net!Structures'
  BY <1>1, <1>2 DEF Net!Structures
<1> QED
  BY <1>5, <1>6, BytesSame DEF Net!NetInv

\* A port is bound, unless it is taken.
LEMMA BindInv ==
  ASSUME Net!NetOK, Net!NetInv, NEW p \in Procs, NEW proto \in {"udp", "tcp"},
         NEW port \in Ports, Net!handle_bind(p, proto, port)
  PROVE  Net!NetInv'
<1> DEFINE id == n_binding_id + 1
           b == Net!NewBinding(p, proto, port)
<1>1. /\ Net!Structures /\ Net!RequestsOwned /\ Net!BytesKept /\ Net!OnePortOneBinding
      /\ Net!DatagramsInOrder
  BY DEF Net!NetInv
<1>2. /\ n_binding_id \in Nat /\ MaxIds \in Nat /\ n_binding_id < MaxIds
      /\ n_binding_id' = id
      /\ UNCHANGED <<arp_entries, arp_requests, waiting, faults, lost, bytes, queued, read>>
  BY <1>1 DEF Net!handle_bind, Net!history, Net!Structures, Net!NetOK
<1>3. /\ DOMAIN bindings \subseteq 1..n_binding_id
      /\ bindings \in [DOMAIN bindings -> Net!Binding]
  BY <1>1 DEF Net!Structures
<1>4. id \in 1..MaxIds /\ id \notin DOMAIN bindings /\ 1..n_binding_id \subseteq 1..id
      /\ id \in 1..id /\ id \in 0..MaxIds /\ id > n_binding_id
  BY <1>2, <1>3
<1>5. CASE Net!PortBound(proto, port)
  <2>1. bindings' = bindings
    BY <1>5 DEF Net!handle_bind
  <2>2. Net!Structures'
    BY <1>1, <1>2, <1>3, <1>4, <2>1 DEF Net!Structures
  <2>3. \A i \in Net!Ids : i > id => i > n_binding_id
    BY <1>2 DEF Net!Ids
  <2>4. Net!RequestsOwned' /\ Net!OnePortOneBinding' /\ Net!DatagramsInOrder'
    BY <1>1, <1>2, <2>1 DEF Net!RequestsOwned, Net!OnePortOneBinding, Net!DatagramsInOrder
  <2>5. Net!BytesKept'
    BY <1>1, <1>2, <2>1, <2>3 DEF Net!BytesKept
  <2> QED
    BY <2>2, <2>4, <2>5 DEF Net!NetInv
<1>6. CASE ~Net!PortBound(proto, port)
  <2>1. bindings' = Net!With(id, b)
    BY <1>6 DEF Net!handle_bind, Net!NewId
  <2>2. /\ b \in Net!Binding /\ b.proc = p /\ b.proto = proto /\ b.port = port
        /\ b.recv_wait = <<>> /\ b.offset = 0
    BY DEF Net!NewBinding, Net!Binding
  <2> HIDE DEF b
  <2>3. /\ DOMAIN bindings' = DOMAIN bindings \cup {id}
        /\ bindings'[id] = b /\ \A i \in DOMAIN bindings : bindings'[i] = bindings[i]
    BY <1>4, <2>1 DEF Net!With
  <2>4. bindings' \in [DOMAIN bindings' -> Net!Binding]
    BY <1>3, <2>1, <2>2 DEF Net!With
  <2>5. DOMAIN bindings' \subseteq 1..id
    BY <1>3, <1>4, <2>3
  <2> HIDE DEF id
  <2>6. Net!Structures'
    BY <1>1, <1>2, <1>4, <2>4, <2>5 DEF Net!Structures
  <2>7. Net!RequestsOwned'
    BY <1>1, <1>2, <2>3 DEF Net!RequestsOwned
  <2>8. \A i \in DOMAIN bindings : ~(bindings[i].proto = proto /\ bindings[i].port = port)
    BY <1>6 DEF Net!PortBound
  <2>9. Net!OnePortOneBinding'
    BY <1>1, <2>2, <2>3, <2>8 DEF Net!OnePortOneBinding
  <2>10. Net!DatagramsInOrder'
    BY <1>1, <1>2 DEF Net!DatagramsInOrder
  <2>11. queued[id] = <<>> /\ read[id] = <<>>
    BY <1>1, <1>2, <1>4 DEF Net!BytesKept, Net!Ids
  <2>12. Net!Placed(b, queued[id], read[id])
    <3> DEFINE at == [k \in 1..1 |-> 0]
    <3>1. Len(b.recv_wait) = 0 /\ Len(queued[id]) = 0 /\ Len(read[id]) = 0
      BY <2>2, <2>11
    <3>2. at \in [1..Len(b.recv_wait) + 1 -> Nat] /\ at[1] = 0 /\ at[0 + 1] = 0
      BY <3>1
    <3> HIDE DEF at
    <3>3. Net!Places(b, queued[id], read[id], at)
      BY <2>2, <3>1, <3>2 DEF Net!Places
    <3> QED
      BY <3>2, <3>3 DEF Net!Placed
  <2>13. \A i \in Net!Ids : i > id => i > n_binding_id
    BY <1>2, <1>4 DEF Net!Ids
  <2>14. Net!BytesKept'
    BY <1>1, <1>2, <2>3, <2>12, <2>13 DEF Net!BytesKept
  <2> QED
    BY <2>6, <2>7, <2>9, <2>10, <2>14 DEF Net!NetInv
<1> QED
  BY <1>5, <1>6

\* A binding goes: its owner is idle, so no request in the list needs it.
LEMMA UnbindInv ==
  ASSUME Net!NetOK, Net!NetInv, NEW p \in Procs, NEW id \in Net!Ids, Net!handle_unbind(p, id)
  PROVE  Net!NetInv'
<1>1. Net!Idle(p) /\ UNCHANGED <<n_binding_id, arp_entries, arp_requests, bytes, queued, read>>
  BY DEF Net!handle_unbind
<1>2. CASE ~Net!Found(p, id)
  <2>1. Net!Dropped(p, "unbind") /\ UNCHANGED bindings
    BY <1>2 DEF Net!handle_unbind
  <2> QED
    BY <1>1, <2>1, DroppedInv
<1>3. CASE Net!Found(p, id)
  <2>1. bindings' = Net!Without(id) /\ UNCHANGED <<waiting, lost>>
    BY <1>3 DEF Net!handle_unbind
  <2>2. /\ Net!Structures /\ Net!RequestsOwned /\ Net!BytesKept /\ Net!OnePortOneBinding
        /\ Net!DatagramsInOrder
    BY DEF Net!NetInv
  <2>3. /\ DOMAIN bindings' = DOMAIN bindings \ {id}
        /\ \A i \in DOMAIN bindings' : bindings'[i] = bindings[i]
    BY <2>1 DEF Net!Without
  <2>4. bindings' \in [DOMAIN bindings' -> Net!Binding]
    BY <2>1, <2>2 DEF Net!Without, Net!Structures
  <2>5. Net!Structures'
    BY <1>1, <2>1, <2>2, <2>3, <2>4 DEF Net!Structures
  <2>6. \A r \in Net!ListOf(arp_requests) : r.binding # id
    <3>1. bindings[id].proc = p
      BY <1>3 DEF Net!Found
    <3> QED
      BY <1>1, <2>2, <3>1, IdleFree DEF Net!RequestsOwned
  <2>7. Net!RequestsOwned'
    BY <1>1, <2>1, <2>2, <2>3, <2>6 DEF Net!RequestsOwned
  <2>8. Net!BytesKept' /\ Net!OnePortOneBinding' /\ Net!DatagramsInOrder'
    BY <1>1, <2>2, <2>3 DEF Net!BytesKept, Net!OnePortOneBinding, Net!DatagramsInOrder
  <2> QED
    BY <2>5, <2>7, <2>8 DEF Net!NetInv
<1> QED
  BY <1>2, <1>3

\* A datagram is sent, or its sender waits for the address.
LEMMA WriteInv ==
  ASSUME Net!NetInv, NEW p \in Procs, NEW id \in Net!Ids, NEW addr \in Addrs,
         Net!WriteUdp(p, id, addr)
  PROVE  Net!NetInv'
<1>1. Net!Idle(p) /\ UNCHANGED <<bindings, n_binding_id, arp_entries, bytes, queued, read>>
  BY DEF Net!WriteUdp
<1>2. CASE ~Net!Found(p, id)
  <2>1. Net!Dropped(p, "write") /\ UNCHANGED arp_requests
    BY <1>2 DEF Net!WriteUdp
  <2> QED
    BY <1>1, <2>1, DroppedInv
<1>3. CASE Net!Found(p, id) /\ Net!arp_match_ip(addr)
  <2>1. UNCHANGED <<waiting, arp_requests, lost>>
    BY <1>3 DEF Net!WriteUdp
  <2>2. Net!Structures' /\ Net!RequestsOwned'
    BY <1>1, <2>1 DEF Net!NetInv, Net!Structures, Net!RequestsOwned
  <2> QED
    BY <1>1, <2>2, BytesSame DEF Net!NetInv
<1>4. CASE Net!Found(p, id) /\ ~Net!arp_match_ip(addr)
  <2>1. /\ waiting' = [waiting EXCEPT ![p] = "write"]
        /\ arp_requests' = Net!Waiting(Net!Request(p, id, addr)) /\ UNCHANGED lost
    BY <1>4 DEF Net!WriteUdp
  <2> QED
    BY <1>1, <1>4, <2>1, QueuedInv
<1> QED
  BY <1>2, <1>3, <1>4

\* A connection waits for its address, or its syn is sent.
LEMMA ConnectInv ==
  ASSUME Net!NetInv, NEW p \in Procs, NEW id \in Net!Ids, NEW addr \in Addrs,
         Net!handle_tcp_connect(p, id, addr)
  PROVE  Net!NetInv'
<1>1. Net!Idle(p) /\ UNCHANGED <<bindings, n_binding_id, arp_entries, bytes, queued, read>>
  BY DEF Net!handle_tcp_connect
<1>2. CASE ~Net!Found(p, id) \/ bindings[id].proto # "tcp"
  <2>1. Net!Dropped(p, "connect") /\ UNCHANGED arp_requests
    BY <1>2 DEF Net!handle_tcp_connect
  <2> QED
    BY <1>1, <2>1, DroppedInv
<1>3. CASE Net!Found(p, id) /\ bindings[id].proto = "tcp" /\ Net!arp_match_ip(addr)
  <2>1. /\ waiting' = [waiting EXCEPT ![p] = "connect"] /\ arp_requests' = arp_requests
        /\ UNCHANGED lost
    BY <1>3 DEF Net!handle_tcp_connect
  <2>2. p \notin lost /\ \A r \in Net!ListOf(arp_requests) : r.proc # p
    BY <1>1, IdleFree DEF Net!NetInv
  <2> QED
    BY <1>1, <2>1, <2>2, AnsweredInv
<1>4. CASE Net!Found(p, id) /\ bindings[id].proto = "tcp" /\ ~Net!arp_match_ip(addr)
  <2>1. /\ waiting' = [waiting EXCEPT ![p] = "connect"]
        /\ arp_requests' = Net!Waiting(Net!Request(p, id, addr)) /\ UNCHANGED lost
    BY <1>4 DEF Net!handle_tcp_connect
  <2> QED
    BY <1>1, <1>4, <2>1, QueuedInv
<1> QED
  BY <1>2, <1>3, <1>4

\* A connection is there.
LEMMA ConnectDoneInv ==
  ASSUME Net!NetInv, NEW p \in Procs, Net!ConnectDone(p)
  PROVE  Net!NetInv'
<1>1. /\ p \notin lost /\ waiting' = [waiting EXCEPT ![p] = "none"]
      /\ \A r \in Net!Range(arp_requests) : r.proc # p
      /\ UNCHANGED <<bindings, n_binding_id, arp_entries, arp_requests, lost, bytes, queued,
                     read>>
  BY DEF Net!ConnectDone, Net!history
<1>2. \A r \in Net!ListOf(arp_requests) : r.proc # p
  BY <1>1 DEF Net!Range, Net!ListOf
<1> QED
  BY <1>1, <1>2, AnsweredInv

\* A client reads.
LEMMA ReadInv ==
  ASSUME Net!NetOK, Net!NetInv, NEW p \in Procs, NEW id \in Net!Ids, NEW len \in Lens,
         Net!ReadUdp(p, id, len)
  PROVE  Net!NetInv'
<1>1. /\ Net!Idle(p)
      /\ UNCHANGED <<n_binding_id, arp_entries, arp_requests, bytes, queued>>
  BY DEF Net!ReadUdp
<1>2. CASE ~Net!Found(p, id)
  <2>1. Net!Dropped(p, "read") /\ UNCHANGED <<bindings, read>>
    BY <1>2 DEF Net!ReadUdp
  <2> QED
    BY <1>1, <2>1, DroppedInv
<1>3. CASE Net!Found(p, id)
  <2> DEFINE b == bindings[id]
             r == Net!ip_read_udp(b, len)
             seen == read[id] \o r.part
  <2>1. /\ Net!Structures /\ Net!RequestsOwned /\ Net!BytesKept /\ Net!OnePortOneBinding
        /\ Net!DatagramsInOrder
    BY DEF Net!NetInv
  <2>2. /\ read' = [read EXCEPT ![id] = seen]
        /\ bindings' = [bindings EXCEPT ![id] = r.binding]
        /\ UNCHANGED <<waiting, lost>>
    BY <1>3 DEF Net!ReadUdp, Net!Rest
  <2>3. id \in DOMAIN bindings
    BY <1>3 DEF Net!Found
  <2>4. /\ read \in [Net!Ids -> Seq(Bytes)] /\ queued \in [Net!Ids -> Seq(Bytes)]
        /\ bindings \in [DOMAIN bindings -> Net!Binding]
    BY <2>1 DEF Net!Structures, Bytes
  <2>5. Net!Placed(b, queued[id], read[id])
    BY <2>1, <2>3 DEF Net!BytesKept
  <2>6. b \in Net!Binding /\ queued[id] \in Seq(Bytes) /\ read[id] \in Seq(Bytes)
    BY <2>3, <2>4
  <2>7. Net!Begins(read[id], queued[id])
    BY <2>1 DEF Net!DatagramsInOrder
  <2> HIDE DEF b
  <2>8. /\ r.binding \in Net!Binding /\ r.binding.proc = b.proc
        /\ r.binding.proto = b.proto /\ r.binding.port = b.port
        /\ seen \in Seq(Bytes) /\ Net!Begins(seen, queued[id])
        /\ Net!Placed(r.binding, queued[id], seen)
    <3>1. ReadOf(r, b, queued[id], read[id])
      BY <2>5, <2>6, <2>7, ReadProps
    <3> QED
      BY <3>1 DEF ReadOf
  <2> HIDE DEF r, seen
  <2>9. /\ DOMAIN bindings' = DOMAIN bindings /\ bindings'[id] = r.binding
        /\ \A i \in DOMAIN bindings : i # id => bindings'[i] = bindings[i]
        /\ bindings' \in [DOMAIN bindings -> Net!Binding]
    BY <2>2, <2>3, <2>4, <2>8
  <2>10. /\ read'[id] = seen /\ \A i \in Net!Ids : i # id => read'[i] = read[i]
         /\ read' \in [Net!Ids -> Seq(Bytes)]
    BY <2>2, <2>4, <2>8
  <2>11. Net!Structures'
    BY <1>1, <2>1, <2>2, <2>9, <2>10 DEF Net!Structures, Bytes
  <2>12. \A i \in DOMAIN bindings :
           /\ bindings'[i].proc = bindings[i].proc /\ bindings'[i].proto = bindings[i].proto
           /\ bindings'[i].port = bindings[i].port
    BY <2>8, <2>9 DEF b
  <2>13. Net!RequestsOwned'
    BY <1>1, <2>1, <2>2, <2>9, <2>12 DEF Net!RequestsOwned
  <2>14. Net!OnePortOneBinding'
    BY <2>1, <2>9, <2>12 DEF Net!OnePortOneBinding
  <2>15. Net!DatagramsInOrder'
    BY <1>1, <2>1, <2>8, <2>10 DEF Net!DatagramsInOrder
  <2>16. id \in 1..n_binding_id /\ n_binding_id \in Nat
    BY <2>1, <2>3 DEF Net!Structures
  <2>17. \A i \in Net!Ids : i > n_binding_id => i # id
    BY <2>16 DEF Net!Ids
  <2>18. DOMAIN bindings \subseteq Net!Ids
    BY <2>1, BindingIs
  <2>19. Net!BytesKept'
    <3>1. \A i \in Net!Ids : i > n_binding_id => queued'[i] = <<>> /\ read'[i] = <<>>
      BY <1>1, <2>1, <2>10, <2>17 DEF Net!BytesKept
    <3>2. ASSUME NEW i \in DOMAIN bindings
          PROVE  Net!Placed(bindings'[i], queued[i], read'[i])
      <4>1. CASE i = id
        BY <2>8, <2>9, <2>10, <4>1
      <4>2. CASE i # id
        BY <2>1, <2>9, <2>10, <2>18, <4>2 DEF Net!BytesKept
      <4> QED
        BY <4>1, <4>2
    <3> QED
      BY <1>1, <2>9, <3>1, <3>2 DEF Net!BytesKept
  <2> QED
    BY <2>11, <2>13, <2>14, <2>15, <2>19 DEF Net!NetInv
<1> QED
  BY <1>2, <1>3

\* An address is known: those who wait for it are served.
LEMMA ArpInv ==
  ASSUME Net!NetInv, NEW addr \in Addrs, Net!handle_arp(addr)
  PROVE  Net!NetInv'
<1> DEFINE served == Net!Served(addr)
           K == Net!ListOf(arp_requests) \ {arp_requests[k] : k \in served}
<1>1. /\ Net!Structures /\ Net!RequestsOwned
  BY DEF Net!NetInv
<1>2. /\ arp_entries' = arp_entries \cup {addr}
      /\ arp_requests' = Net!Kept(arp_requests, K)
      /\ waiting' = Net!udp_write_finish(served)
      /\ UNCHANGED <<bindings, n_binding_id, lost, bytes, queued, read>>
  BY DEF Net!handle_arp, Net!arp_add_entry, Net!history
<1>3. /\ arp_requests \in Seq(Net!Waits)
      /\ waiting \in [Procs -> {"none", "unbind", "write", "connect", "read"}]
      /\ arp_entries \subseteq Addrs
  BY <1>1 DEF Net!Structures
<1>4. served = {k \in DOMAIN arp_requests : arp_requests[k].addr = addr}
  BY <1>3 DEF Net!Served
<1>5. {arp_requests[k] : k \in served} = {r \in Net!ListOf(arp_requests) : r.addr = addr}
  BY <1>4 DEF Net!ListOf
<1>6. K = {r \in Net!ListOf(arp_requests) : r.addr # addr}
  BY <1>5
<1>7. /\ arp_requests' \in Seq(Net!Waits) /\ Net!OneEach(arp_requests)'
      /\ Net!ListOf(arp_requests)' = Net!ListOf(arp_requests) \cap K
  <2>1. OneEach(arp_requests)
    BY <1>1, NetLists DEF Net!RequestsOwned
  <2> HIDE DEF K
  <2>2. arp_requests' = Kept(arp_requests, K)
    BY <1>2, NetLists
  <2>3. /\ arp_requests' \in Seq(Net!Waits) /\ OneEach(arp_requests')
        /\ ListOf(arp_requests') = ListOf(arp_requests) \cap K
    BY <1>3, <2>1, <2>2, KeptProps
  <2> QED
    BY <2>3, NetLists
<1>8. Net!ListOf(arp_requests)' = {r \in Net!ListOf(arp_requests) : r.addr # addr}
  BY <1>6, <1>7
<1> DEFINE answered == {arp_requests[k].proc : k \in served}
<1>9. answered = {r.proc : r \in {r \in Net!ListOf(arp_requests) : r.addr = addr}}
  <2>1. answered = {r.proc : r \in {arp_requests[k] : k \in served}}
    OBVIOUS
  <2> QED
    BY <1>5, <2>1
<1>10. /\ waiting' \in [Procs -> {"none", "unbind", "write", "connect", "read"}]
       /\ \A c \in Procs : waiting'[c] = IF c \in answered /\ waiting[c] = "write"
                                         THEN "none" ELSE waiting[c]
  BY <1>2, <1>3 DEF Net!udp_write_finish
<1> HIDE DEF answered, K, served
<1>11. Net!Structures'
  BY <1>1, <1>2, <1>3, <1>7, <1>10 DEF Net!Structures
<1>12. \A r \in Net!ListOf(arp_requests) :
         /\ r.binding \in DOMAIN bindings /\ bindings[r.binding].proc = r.proc
         /\ waiting[r.proc] \in {"write", "connect"} /\ r.proc \notin lost
         /\ r.addr \notin arp_entries /\ r.proc \in Procs
         /\ \A s \in Net!ListOf(arp_requests) : s.proc = r.proc => s = r
  BY <1>1, WaitsIs DEF Net!RequestsOwned
<1>13. \A r \in Net!ListOf(arp_requests)' : r \in Net!ListOf(arp_requests) /\ r.addr # addr
  BY <1>8
<1>14. \A r \in Net!ListOf(arp_requests)' : r.proc \notin answered
  BY <1>9, <1>12, <1>13
<1>15. \A r \in Net!ListOf(arp_requests)' :
         waiting'[r.proc] \in {"write", "connect"} /\ r.addr \notin arp_entries'
  BY <1>2, <1>10, <1>12, <1>13, <1>14
<1>16. ASSUME NEW c \in Procs, waiting'[c] = "write", c \notin lost
       PROVE  \E r \in Net!ListOf(arp_requests)' : r.proc = c
  <2>1. waiting[c] = "write" /\ c \notin answered
    BY <1>10, <1>16
  <2>2. PICK r \in Net!ListOf(arp_requests) : r.proc = c
    BY <1>1, <1>16, <2>1 DEF Net!RequestsOwned
  <2>3. r.addr # addr
    BY <1>9, <2>1, <2>2
  <2> QED
    BY <1>8, <2>2, <2>3
<1>17. ASSUME NEW c \in Procs, c \in lost PROVE waiting'[c] # "none"
  <2>1. \A r \in Net!ListOf(arp_requests) : r.proc # c
    BY <1>12, <1>17
  <2>2. c \notin answered
    BY <1>9, <2>1
  <2>3. waiting[c] # "none"
    BY <1>1, <1>17 DEF Net!RequestsOwned
  <2> QED
    BY <1>10, <2>2, <2>3
<1>18. Net!RequestsOwned'
  BY <1>2, <1>7, <1>12, <1>13, <1>15, <1>16, <1>17 DEF Net!RequestsOwned
<1> QED
  BY <1>2, <1>11, <1>18, BytesSame DEF Net!NetInv

\* A datagram comes, for a binding or for nobody.
LEMMA UdpInv ==
  ASSUME Net!NetOK, Net!NetInv, NEW addr \in Addrs, NEW port \in Ports, NEW len \in Lens,
         Net!handle_udp(addr, port, len)
  PROVE  Net!NetInv'
<1>1. /\ bytes' = bytes + len
      /\ UNCHANGED <<n_binding_id, arp_entries, arp_requests, waiting, lost, read>>
  BY DEF Net!handle_udp
<1>2. /\ Net!Structures /\ Net!RequestsOwned /\ Net!BytesKept /\ Net!OnePortOneBinding
      /\ Net!DatagramsInOrder
  BY DEF Net!NetInv
<1>3. len \in Nat /\ bytes \in Nat
  BY <1>2 DEF Net!NetOK, Net!Structures
<1>4. bytes' \in Nat
  BY <1>1, <1>3
<1>5. CASE ~Net!PortBound("udp", port)
  <2>1. UNCHANGED <<bindings, queued>>
    BY <1>5 DEF Net!handle_udp
  <2>2. Net!Structures' /\ Net!RequestsOwned'
    BY <1>1, <1>2, <1>4, <2>1 DEF Net!Structures, Net!RequestsOwned
  <2> QED
    BY <1>1, <2>1, <2>2, BytesSame DEF Net!NetInv
<1>6. CASE Net!PortBound("udp", port)
  <2> DEFINE id == Net!BindingOf("udp", port)
             d == [addr |-> addr, first |-> bytes, len |-> len]
             more == [i \in 1..len |-> <<addr, bytes + i - 1>>]
             b == bindings[id]
             b2 == [b EXCEPT !.recv_wait = Append(b.recv_wait, d)]
             came == queued[id] \o more
  <2>1. id \in DOMAIN bindings
    BY <1>6 DEF Net!PortBound, Net!BindingOf
  <2>2. /\ bindings' = [bindings EXCEPT ![id].recv_wait = Append(@, d)]
        /\ queued' = [queued EXCEPT ![id] = came]
    BY <1>6 DEF Net!handle_udp
  <2> HIDE DEF id
  <2>3. bindings' = [bindings EXCEPT ![id] = b2]
    BY <2>1, <2>2
  <2>4. /\ read \in [Net!Ids -> Seq(Bytes)] /\ queued \in [Net!Ids -> Seq(Bytes)]
        /\ bindings \in [DOMAIN bindings -> Net!Binding] /\ DOMAIN bindings \subseteq Net!Ids
    BY <1>2, BindingIs DEF Net!Structures, Bytes
  <2>5. b \in Net!Binding /\ queued[id] \in Seq(Bytes) /\ read[id] \in Seq(Bytes)
    BY <2>1, <2>4
  <2>6. Net!Placed(b, queued[id], read[id])
    BY <1>2, <2>1 DEF Net!BytesKept
  <2>7. /\ d \in Net!Datagram /\ d.addr = addr /\ d.first = bytes /\ d.len = len
    BY <1>3 DEF Net!Datagram
  <2>8. more \in Seq(Bytes) /\ Len(more) = len
        /\ \A i \in 1..len : more[i] = <<addr, bytes + i - 1>>
    <3>1. \A i \in 1..len : bytes + i - 1 \in Nat
      BY <1>3
    <3>2. \A i \in 1..len : <<addr, bytes + i - 1>> \in Bytes
      BY <3>1 DEF Bytes
    <3>3. more \in Seq(Bytes)
      <4>1. more \in [1..len -> Bytes]
        BY <3>2
      <4> HIDE DEF more
      <4> QED
        BY ONLY <1>3, <4>1
    <3>4. Len(more) = len
      BY <1>3
    <3> QED
      BY <3>3, <3>4
  <2>9. Net!Begins(read[id], queued[id])
    BY <1>2, <2>1, <2>4 DEF Net!DatagramsInOrder
  <2> HIDE DEF d, more, b
  <2>10. b.recv_wait \in Seq(Net!Datagram)
    BY <2>5 DEF Net!Binding
  <2>11. Append(b.recv_wait, d) \in Seq(Net!Datagram)
    BY <2>7, <2>10
  <2>12. /\ b2 \in Net!Binding /\ b2.proc = b.proc /\ b2.proto = b.proto /\ b2.port = b.port
         /\ b2.recv_wait = Append(b.recv_wait, d) /\ b2.offset = b.offset
    BY <2>5, <2>11 DEF Net!Binding
  <2> HIDE DEF b2
  <2>13. came \in Seq(Bytes) /\ Net!Begins(read[id], came)
    BY <2>5, <2>8, <2>9, PrefixGrows
  <2>14. Net!Placed(b2, came, read[id])
    BY <2>5, <2>6, <2>7, <2>8, <2>12, PlacesAppend
  <2> HIDE DEF came
  <2>15. /\ DOMAIN bindings' = DOMAIN bindings /\ bindings'[id] = b2
         /\ \A i \in DOMAIN bindings : i # id => bindings'[i] = bindings[i]
         /\ bindings' \in [DOMAIN bindings -> Net!Binding]
    BY <2>1, <2>3, <2>4, <2>12
  <2>16. /\ queued'[id] = came /\ \A i \in Net!Ids : i # id => queued'[i] = queued[i]
         /\ queued' \in [Net!Ids -> Seq(Bytes)]
    BY <2>1, <2>2, <2>4, <2>13
  <2>17. Net!Structures'
    BY <1>1, <1>2, <1>4, <2>15, <2>16 DEF Net!Structures, Bytes
  <2>18. \A i \in DOMAIN bindings :
           /\ bindings'[i].proc = bindings[i].proc /\ bindings'[i].proto = bindings[i].proto
           /\ bindings'[i].port = bindings[i].port
    BY <2>12, <2>15 DEF b
  <2>19. Net!RequestsOwned'
    BY <1>1, <1>2, <2>15, <2>18 DEF Net!RequestsOwned
  <2>20. Net!OnePortOneBinding'
    BY <1>2, <2>15, <2>18 DEF Net!OnePortOneBinding
  <2>21. Net!DatagramsInOrder'
    BY <1>1, <1>2, <2>13, <2>16 DEF Net!DatagramsInOrder
  <2>22. id \in 1..n_binding_id /\ n_binding_id \in Nat
    BY <1>2, <2>1 DEF Net!Structures
  <2>23. \A i \in Net!Ids : i > n_binding_id => i # id
    BY <2>22 DEF Net!Ids
  <2>24. Net!BytesKept'
    <3>1. \A i \in Net!Ids : i > n_binding_id => queued'[i] = <<>> /\ read'[i] = <<>>
      BY <1>1, <1>2, <2>16, <2>23 DEF Net!BytesKept
    <3>2. ASSUME NEW i \in DOMAIN bindings
          PROVE  Net!Placed(bindings'[i], queued'[i], read[i])
      <4>1. CASE i = id
        BY <2>14, <2>15, <2>16, <4>1
      <4>2. CASE i # id
        BY <1>2, <2>4, <2>15, <2>16, <4>2 DEF Net!BytesKept
      <4> QED
        BY <4>1, <4>2
    <3> QED
      BY <1>1, <2>15, <3>1, <3>2 DEF Net!BytesKept
  <2> QED
    BY <2>17, <2>19, <2>20, <2>21, <2>24 DEF Net!NetInv
<1> QED
  BY <1>5, <1>6

\* The server starts with nothing.
LEMMA NetStart ==
  ASSUME Net!NetOK, Net!Init
  PROVE  Net!NetInv
<1>1. /\ bindings = <<>> /\ n_binding_id = 0 /\ arp_entries = {} /\ arp_requests = <<>>
      /\ waiting = [p \in Procs |-> "none"] /\ lost = {} /\ bytes = 0
      /\ queued = [id \in Net!Ids |-> <<>>] /\ read = [id \in Net!Ids |-> <<>>]
  BY DEF Net!Init
<1>2. DOMAIN bindings = {} /\ Net!ListOf(arp_requests) = {} /\ DOMAIN arp_requests = {}
  BY <1>1 DEF Net!ListOf
<1>3. MaxIds \in Nat
  BY DEF Net!NetOK
<1>4. Net!Structures
  BY <1>1, <1>2, <1>3 DEF Net!Structures
<1>5. Net!RequestsOwned
  BY <1>1, <1>2 DEF Net!RequestsOwned, Net!OneEach
<1>6. Net!BytesKept /\ Net!OnePortOneBinding
  BY <1>1, <1>2 DEF Net!BytesKept, Net!OnePortOneBinding
<1>7. Net!DatagramsInOrder
  <2>1. <<>> \in Seq(Bytes) /\ Len(<<>>) = 0
    OBVIOUS
  <2>2. Net!Begins(<<>>, <<>>)
    BY <2>1 DEF Net!Begins
  <2> QED
    BY <1>1, <2>2 DEF Net!DatagramsInOrder
<1> QED
  BY <1>4, <1>5, <1>6, <1>7 DEF Net!NetInv

\* Every step of the server keeps the invariant.
LEMMA NetStep ==
  ASSUME Net!NetOK, Net!NetInv, [Next]_vars
  PROVE  Net!NetInv'
<1>1. CASE UNCHANGED server
  <2>1. Net!Structures' /\ Net!RequestsOwned'
    BY <1>1 DEF server, Net!NetInv, Net!Structures, Net!RequestsOwned
  <2> QED
    BY <1>1, <2>1, BytesSame DEF server, Net!NetInv
<1>2. CASE Net!Next
  <2>1. \A id \in 1..n_binding_id : id \in Net!Ids
    <3>1. n_binding_id \in 0..MaxIds /\ MaxIds \in Nat
      BY DEF Net!NetInv, Net!Structures, Net!NetOK
    <3> QED
      BY <3>1 DEF Net!Ids
  <2>2. ASSUME NEW p \in Procs, Net!net_handle_message(p) PROVE Net!NetInv'
    <3>1. ASSUME NEW proto \in {"udp", "tcp"}, NEW port \in Ports,
                 Net!handle_bind(p, proto, port)
          PROVE  Net!NetInv'
      BY <3>1, BindInv
    <3>2. ASSUME NEW id \in Net!Ids, Net!handle_unbind(p, id) PROVE Net!NetInv'
      BY <3>2, UnbindInv
    <3>3. ASSUME NEW id \in Net!Ids, Net!WriteFails(p, id) PROVE Net!NetInv'
      <4>1. /\ Net!Idle(p) /\ Net!Dropped(p, "write")
            /\ UNCHANGED <<bindings, n_binding_id, arp_entries, arp_requests, bytes, queued,
                           read>>
        BY <3>3 DEF Net!WriteFails
      <4> QED
        BY <4>1, DroppedInv
    <3>4. ASSUME NEW id \in Net!Ids, NEW addr \in Addrs,
                 Net!WriteUdp(p, id, addr) \/ Net!handle_tcp_connect(p, id, addr)
          PROVE  Net!NetInv'
      BY <3>4, WriteInv, ConnectInv
    <3>5. ASSUME NEW id \in Net!Ids, NEW len \in Lens, Net!ReadUdp(p, id, len)
          PROVE  Net!NetInv'
      BY <3>5, ReadInv
    <3> QED
      BY <2>1, <2>2, <3>1, <3>2, <3>3, <3>4, <3>5 DEF Net!net_handle_message
  <2>3. CASE Net!net_process_pkt
    BY <2>3, ArpInv, UdpInv DEF Net!net_process_pkt
  <2> QED
    BY <1>2, <2>2, <2>3, ConnectDoneInv DEF Net!Next
<1> QED
  BY <1>1, <1>2 DEF Next, vars

\* At most one request of a client is in the list.
LEMMA OneRequest ==
  ASSUME Net!NetInv, NEW p \in Procs
  PROVE  LET mine == {k \in 1..Len(arp_requests) : arp_requests[k].proc = p}
         IN  \A j, k \in mine : j = k
<1> DEFINE mine == {k \in 1..Len(arp_requests) : arp_requests[k].proc = p}
<1>1. arp_requests \in Seq(Net!Waits) /\ DOMAIN arp_requests = 1..Len(arp_requests)
  BY DEF Net!NetInv, Net!Structures
<1>2. \A j, k \in mine : j = k
  <2> SUFFICES ASSUME NEW j \in mine, NEW k \in mine PROVE j = k
    OBVIOUS
  <2>1. /\ j \in DOMAIN arp_requests /\ k \in DOMAIN arp_requests
        /\ arp_requests[j].proc = arp_requests[k].proc
    BY <1>1
  <2>2. arp_requests[j] \in Net!ListOf(arp_requests) /\ arp_requests[k] \in Net!ListOf(arp_requests)
    BY <2>1 DEF Net!ListOf
  <2>3. arp_requests[j] = arp_requests[k]
    BY <2>1, <2>2 DEF Net!NetInv, Net!RequestsOwned
  <2> QED
    BY <2>1, <2>3 DEF Net!NetInv, Net!RequestsOwned, Net!OneEach
<1> QED
  BY <1>2

\* What the inductive invariant says of the clients.
LEMMA NetInvServes ==
  ASSUME Net!NetOK, Net!NetInv
  PROVE  Net!ClientsServed
<1>1. Net!Structures /\ Net!RequestsOwned
  BY DEF Net!NetInv
<1>2. Net!Range(arp_requests) = Net!ListOf(arp_requests)
  BY DEF Net!Range, Net!ListOf
<1>3. Net!TypeOK
  BY <1>1, BindingIs DEF Net!TypeOK, Net!Structures
<1>4. Net!NoFreedBinding /\ Net!NobodyWaitsForKnown
  BY <1>1, <1>2 DEF Net!RequestsOwned, Net!NoFreedBinding, Net!NobodyWaitsForKnown
<1>5. Net!BlockedAreQueued
  <2> SUFFICES ASSUME NEW p \in Procs, p \notin lost,
                      NEW mine, mine = {k \in 1..Len(arp_requests) : arp_requests[k].proc = p}
               PROVE  /\ \A j, k \in mine : j = k
                      /\ waiting[p] = "write" => mine # {}
                      /\ mine # {} => waiting[p] \in {"write", "connect"}
    BY DEF Net!BlockedAreQueued
  <2>1. \A j, k \in mine : j = k
    BY OneRequest
  <2>2. \A k : k \in mine <=> k \in DOMAIN arp_requests /\ arp_requests[k].proc = p
    BY <1>1 DEF Net!Structures
  <2>3. waiting[p] = "write" => mine # {}
    BY <1>1, <2>2 DEF Net!RequestsOwned, Net!ListOf
  <2>4. mine # {} => waiting[p] \in {"write", "connect"}
    BY <1>1, <2>2 DEF Net!RequestsOwned, Net!ListOf
  <2> QED
    BY <2>1, <2>3, <2>4
<1> QED
  BY <1>3, <1>4, <1>5 DEF Net!NetInv, Net!ClientsServed

\* net.c, arp.c and udp.c, for any clients, addresses, ports, lengths and
\* numbers of bindings: whoever is blocked is remembered once, with a binding
\* that exists, and every byte queued for a binding reaches its reader in order.
THEOREM ClientsStayServed == Spec => []ClientsServed
<1>1. Net!NetOK
  BY ConstantsOK
<1>2. Init => Net!NetInv
  BY <1>1, NetStart DEF Init
<1>3. Net!NetInv /\ [Next]_vars => Net!NetInv'
  BY <1>1, NetStep
<1>4. Net!NetInv => ClientsServed
  BY <1>1, NetInvServes DEF ClientsServed
<1> QED
  BY <1>2, <1>3, <1>4, PTL DEF Spec

-----------------------------------------------------------------------------
(* The virtio driver and its device.                                       *)

\* The lists of VirtioNet are those of ListTheorems.
LEMMA VirtioLists ==
  ASSUME NEW s
  PROVE  Virtio!ListOf(s) = ListOf(s) /\ (Virtio!OneEach(s) <=> OneEach(s))
  BY DEF Virtio!ListOf, ListOf, Virtio!OneEach, OneEach

Half == Size \div 2

\* What VirtioOK says of the sizes.
LEMMA HalfIs ==
  /\ Size \in Nat /\ Half \in Nat /\ Half >= 1 /\ Size = 2 * Half
  /\ MaxPkts \in Nat /\ Word16 \in Nat /\ MaxPkts + Half < Word16
  /\ End \notin 0..Size-1 /\ nil \notin 0..Size-1
<1>1. Size \in Nat /\ Size % 2 = 0 /\ Size > 0
  BY ConstantsOK DEF Virtio!VirtioOK
<1>2. Size = 2 * (Size \div 2) + (Size % 2) /\ Size \div 2 \in Nat
  BY <1>1
<1> QED
  BY <1>1, <1>2, ConstantsOK DEF Virtio!VirtioOK, Half

\* Positions less than a ring apart have places of their own in it.
LEMMA ModApart ==
  ASSUME NEW n \in Nat \ {0}, NEW i \in Nat, NEW j \in Nat, i < j, j - i < n
  PROVE  i % n # j % n
<1> SUFFICES ASSUME i % n = j % n PROVE FALSE
  OBVIOUS
<1>1. i = n * (i \div n) + (i % n) /\ i \div n \in Nat /\ i % n \in 0..n-1
  OBVIOUS
<1>2. j = n * (j \div n) + (j % n) /\ j \div n \in Nat /\ j % n \in 0..n-1
  OBVIOUS
<1>3. j - i = n * ((j \div n) - (i \div n))
  BY <1>1, <1>2
<1>4. (j \div n) - (i \div n) \in Int
  BY <1>1, <1>2
<1> DEFINE k == (j \div n) - (i \div n)
<1>5. k <= 0 \/ k >= 1
  BY <1>4
<1> HIDE DEF k
<1>6. k \in Int /\ j - i = n * k
  BY <1>3, <1>4 DEF k
<1>7. CASE k <= 0
  <2>1. n * k <= 0
    BY ONLY n \in Nat, <1>6, <1>7
  <2> QED
    BY <1>6, <2>1
<1>8. CASE k >= 1
  <2>1. n * k >= n
    BY ONLY n \in Nat, <1>6, <1>8
  <2> QED
    BY <1>6, <2>1
<1> QED
  BY <1>5, <1>7, <1>8

\* Before the first time around, a position is its own place.
LEMMA ModSmall ==
  ASSUME NEW n \in Nat \ {0}, NEW i \in Nat, i < n
  PROVE  i % n = i
  OBVIOUS

\* The same, whichever position is first.
LEMMA ModDiffers ==
  ASSUME NEW n \in Nat \ {0}, NEW i \in Nat, NEW j \in Nat, i # j, j - i < n, i - j < n
  PROVE  i % n # j % n
<1>1. CASE i < j
  BY <1>1, ModApart
<1>2. CASE j < i
  BY <1>2, ModApart
<1> QED
  BY <1>1, <1>2

\* The indexes in terms of Half.
LEMMA IndexesAre ==
  ASSUME NEW q
  PROVE  Virtio!Indexes(q) <=>
           /\ q.last_seen_used <= q.seen /\ q.seen <= q.avail_idx /\ q.used_index = q.seen
           /\ q.avail_idx < Word16 /\ q.avail_idx - q.last_seen_used <= Half
  BY DEF Virtio!Indexes, Half

\* What the fields of a queue are.
LEMMA QueueIs ==
  ASSUME NEW q \in Virtio!Queue
  PROVE  /\ q.size = Size /\ q.next \in [0..Size-1 -> 0..Size-1 \cup {End}]
         /\ q.desc_free_index \in 0..Size-1 \cup {End}
         /\ q.avail \in [0..Size-1 -> 0..Size-1] /\ q.used \in [0..Size-1 -> 0..Size-1]
         /\ q.avail_idx \in Nat /\ q.seen \in Nat /\ q.used_index \in Nat
         /\ q.last_seen_used \in Nat
  BY DEF Virtio!Queue, Virtio!Descs

\* A chain that is in flight is in the rings.
LEMMA HeadIs ==
  ASSUME NEW q \in Virtio!Queue, NEW i \in Nat
  PROVE  Virtio!HeadAt(q, i) \in 0..Size-1 /\ i % Size \in 0..Size-1
<1>1. i % Size \in 0..Size-1
  BY HalfIs
<1> QED
  BY <1>1, QueueIs DEF Virtio!HeadAt

\* The parts of a queue that its rings do not matter to.
SameIndexes(r, q) ==
  /\ r.avail_idx = q.avail_idx /\ r.seen = q.seen /\ r.used_index = q.used_index
  /\ r.last_seen_used = q.last_seen_used /\ r.avail = q.avail /\ r.used = q.used
  /\ r.size = q.size

\* virtq_push: the chain is the last that is available.
Pushed(r, q, d) ==
  /\ r \in Virtio!Queue /\ Virtio!Indexes(r)
  /\ r.next = q.next /\ r.desc_free_index = q.desc_free_index
  /\ r.avail_idx = q.avail_idx + 1 /\ r.seen = q.seen
  /\ r.last_seen_used = q.last_seen_used
  /\ Virtio!HeadAt(r, q.avail_idx) = d
  /\ \A i \in Virtio!InFlight(q) : Virtio!HeadAt(r, i) = Virtio!HeadAt(q, i)
  /\ q.avail_idx \notin Virtio!InFlight(q)
  /\ Virtio!InFlight(r) = Virtio!InFlight(q) \cup {q.avail_idx}

\* The ring has room: no chain in flight is overwritten.
LEMMA PushProps ==
  ASSUME NEW q \in Virtio!Queue, Virtio!Indexes(q), NEW d \in 0..Size-1,
         q.avail_idx + 1 < Word16, q.avail_idx - q.last_seen_used + 1 <= Half
  PROVE  Pushed(Virtio!virtq_push(q, d), q, d)
<1> DEFINE r == Virtio!virtq_push(q, d)
           a == q.avail_idx
<1>1. /\ a \in Nat /\ q.seen \in Nat /\ q.used_index \in Nat /\ q.last_seen_used \in Nat
      /\ q.last_seen_used <= q.seen /\ q.seen <= a /\ q.used_index = q.seen
      /\ q.size = Size /\ q.avail \in [0..Size-1 -> 0..Size-1]
  BY QueueIs DEF Virtio!Indexes
<1>2. Size \in Nat /\ Half \in Nat /\ Half >= 1 /\ Size = 2 * Half /\ Word16 \in Nat
  BY HalfIs
<1>m. a % Size \in 0..Size-1
  BY <1>1, HeadIs
<1>3. (a + 1) % Word16 = a + 1 /\ a + 1 \in Nat
  <2>0. a \in Nat /\ a + 1 < Word16 /\ Word16 \in Nat
    BY <1>1, <1>2
  <2>1. a + 1 \in Nat /\ Word16 \in Nat \ {0}
    BY ONLY <2>0
  <2> QED
    BY <2>0, <2>1, ModSmall
<1>4. r = [q EXCEPT !.avail[a % Size] = d, !.avail_idx = a + 1]
  BY <1>1, <1>3 DEF Virtio!virtq_push
<1> HIDE DEF r
<1>5. r \in Virtio!Queue
  <2>1. [q.avail EXCEPT ![a % Size] = d] \in [0..Size-1 -> 0..Size-1]
    BY <1>1
  <2> QED
    BY <1>3, <1>4, <2>1 DEF Virtio!Queue, Virtio!Descs
<1>6. /\ r.next = q.next /\ r.desc_free_index = q.desc_free_index /\ r.avail_idx = a + 1
      /\ r.seen = q.seen /\ r.last_seen_used = q.last_seen_used
      /\ r.used_index = q.used_index /\ r.used = q.used /\ r.size = Size
      /\ r.avail = [q.avail EXCEPT ![a % Size] = d]
  BY <1>1, <1>4 DEF Virtio!Queue
<1>7. Virtio!Indexes(r)
  <2>0. /\ a \in Nat /\ q.seen \in Nat /\ q.last_seen_used \in Nat /\ Half \in Nat
        /\ q.seen <= a /\ a - q.last_seen_used + 1 <= Half
    BY <1>1, <1>2
  <2>1. q.seen <= a + 1 /\ a + 1 - q.last_seen_used <= Half
    BY ONLY <2>0
  <2> QED
    BY <1>1, <1>6, <2>1, IndexesAre, a + 1 < Word16
<1>8. Virtio!HeadAt(r, a) = d
  <2>1. ~(a < q.seen)
    BY <1>1
  <2> QED
    BY <1>1, <1>m, <1>6, <2>1 DEF Virtio!HeadAt
<1>9. ASSUME NEW i \in Virtio!InFlight(q)
      PROVE  Virtio!HeadAt(r, i) = Virtio!HeadAt(q, i)
  <2>1. i \in Nat /\ i < a /\ q.last_seen_used <= i
    BY <1>1 DEF Virtio!InFlight
  <2>2. i # a /\ a - i < Size /\ i - a < Size
    <3>1. /\ a \in Nat /\ q.last_seen_used \in Nat /\ Half \in Nat /\ Half >= 1
          /\ a - q.last_seen_used + 1 <= Half /\ i \in Nat /\ i < a /\ q.last_seen_used <= i
          /\ Size = 2 * Half
      BY <1>1, <1>2, <2>1
    <3> QED
      BY ONLY <3>1
  <2>3. i % Size # a % Size
    BY <1>1, <1>2, <2>1, <2>2, ModDiffers
  <2>4. i % Size \in 0..Size-1
    BY <2>1, HeadIs
  <2> QED
    BY <1>1, <1>6, <2>3, <2>4 DEF Virtio!HeadAt
<1>10. /\ a \notin Virtio!InFlight(q)
       /\ Virtio!InFlight(r) = Virtio!InFlight(q) \cup {a}
  BY <1>1, <1>6 DEF Virtio!InFlight
<1> QED
  BY <1>5, <1>6, <1>7, <1>8, <1>9, <1>10 DEF Pushed, r

\* DeviceUses: the chain goes from one ring to the other.
Used(r, q) ==
  /\ r \in Virtio!Queue /\ Virtio!Indexes(r)
  /\ r.next = q.next /\ r.desc_free_index = q.desc_free_index
  /\ r.avail_idx = q.avail_idx /\ r.seen = q.seen + 1
  /\ r.last_seen_used = q.last_seen_used
  /\ q.seen \in Virtio!InFlight(q) /\ Virtio!Chain(q) = Virtio!HeadAt(q, q.seen)
  /\ \A i \in Virtio!InFlight(q) : Virtio!HeadAt(r, i) = Virtio!HeadAt(q, i)
  /\ Virtio!InFlight(r) = Virtio!InFlight(q)

\* The chain that the device returns overwrites none that was not popped.
LEMMA UseProps ==
  ASSUME NEW q \in Virtio!Queue, Virtio!Indexes(q), Virtio!IsAvailable(q)
  PROVE  Used(Virtio!DeviceUses(q), q)
<1> DEFINE r == Virtio!DeviceUses(q)
           s == q.seen
           d == q.avail[s % Size]
<1>1. /\ q.avail_idx \in Nat /\ s \in Nat /\ q.used_index = s /\ q.last_seen_used \in Nat
      /\ q.last_seen_used <= s /\ s < q.avail_idx
      /\ q.avail_idx < Word16 /\ q.avail_idx - q.last_seen_used <= Half
      /\ q.size = Size /\ q.avail \in [0..Size-1 -> 0..Size-1]
      /\ q.used \in [0..Size-1 -> 0..Size-1]
  BY QueueIs DEF Virtio!Indexes, Virtio!IsAvailable, Half
<1>2. Size \in Nat /\ Half \in Nat /\ Half >= 1 /\ Size = 2 * Half /\ Word16 \in Nat
  BY HalfIs
<1>m. s % Size \in 0..Size-1
  BY <1>1, HeadIs
<1>3. (s + 1) % Word16 = s + 1 /\ s + 1 \in Nat
  <2>0. s \in Nat /\ q.avail_idx \in Nat /\ s < q.avail_idx /\ q.avail_idx < Word16 /\ Word16 \in Nat
    BY <1>1, <1>2
  <2>1. s + 1 < Word16 /\ s + 1 \in Nat
    BY ONLY <2>0
  <2> QED
    BY <1>2, <2>1, ModSmall
<1>4. Virtio!Chain(q) = d /\ d \in 0..Size-1
  BY <1>1, <1>m DEF Virtio!Chain
<1>5. r = [q EXCEPT !.seen = s + 1, !.used[s % Size] = d, !.used_index = s + 1]
  BY <1>1, <1>3, <1>4 DEF Virtio!DeviceUses
<1> HIDE DEF r
<1>6. r \in Virtio!Queue
  <2>1. [q.used EXCEPT ![s % Size] = d] \in [0..Size-1 -> 0..Size-1]
    BY <1>1, <1>4
  <2> QED
    BY <1>3, <1>5, <2>1 DEF Virtio!Queue, Virtio!Descs
<1>7. /\ r.next = q.next /\ r.desc_free_index = q.desc_free_index
      /\ r.avail_idx = q.avail_idx /\ r.seen = s + 1
      /\ r.last_seen_used = q.last_seen_used
      /\ r.used_index = s + 1 /\ r.avail = q.avail /\ r.size = Size
      /\ r.used = [q.used EXCEPT ![s % Size] = d]
  BY <1>1, <1>5 DEF Virtio!Queue
<1>8. Virtio!Indexes(r)
  <2>1. q.last_seen_used <= s + 1 /\ s + 1 <= q.avail_idx
    BY <1>1
  <2> QED
    BY <1>1, <1>7, <2>1, IndexesAre
<1>9. Virtio!HeadAt(q, s) = d /\ Virtio!HeadAt(r, s) = d
  <2>1. ~(s < s) /\ s < s + 1
    BY <1>1
  <2> QED
    BY <1>1, <1>m, <1>7, <2>1 DEF Virtio!HeadAt
<1>10. ASSUME NEW i \in Virtio!InFlight(q)
       PROVE  Virtio!HeadAt(r, i) = Virtio!HeadAt(q, i)
  <2>1. i \in Nat /\ i < q.avail_idx /\ q.last_seen_used <= i
    BY <1>1 DEF Virtio!InFlight
  <2>2. CASE i = s
    BY <2>2, <1>9
  <2>3. CASE i # s
    <3>1. s - i < Size /\ i - s < Size
      BY ONLY <1>1, <1>2, <2>1
    <3>2. i % Size # s % Size
      BY <1>1, <1>2, <2>1, <2>3, <3>1, ModDiffers
    <3>3. i < s + 1 <=> i < s
      BY <1>1, <2>1, <2>3
    <3>4. i % Size \in 0..Size-1
      BY <2>1, HeadIs
    <3> QED
      BY <1>1, <1>7, <3>2, <3>3, <3>4 DEF Virtio!HeadAt
  <2> QED
    BY <2>2, <2>3
<1>11. s \in Virtio!InFlight(q) /\ Virtio!InFlight(r) = Virtio!InFlight(q)
  BY <1>1, <1>7 DEF Virtio!InFlight
<1> QED
  BY <1>4, <1>6, <1>7, <1>8, <1>9, <1>10, <1>11 DEF Used, r

\* virtq_pop: the chain that has waited longest.
PoppedOf(r, q) ==
  /\ r \in Virtio!Queue /\ Virtio!Indexes(r)
  /\ r.next = q.next /\ r.desc_free_index = q.desc_free_index
  /\ r.avail_idx = q.avail_idx /\ r.seen = q.seen
  /\ r.last_seen_used = q.last_seen_used + 1 /\ q.last_seen_used < q.seen
  /\ q.last_seen_used \in Virtio!InFlight(q)
  /\ Virtio!virtq_pop(q) = Virtio!HeadAt(q, q.last_seen_used)
  /\ \A i \in Virtio!InFlight(q) : Virtio!HeadAt(r, i) = Virtio!HeadAt(q, i)
  /\ Virtio!InFlight(r) = Virtio!InFlight(q) \ {q.last_seen_used}

\* What is popped is the chain at last_seen_used.
LEMMA PopProps ==
  ASSUME NEW q \in Virtio!Queue, Virtio!Indexes(q), Virtio!IsUsed(q)
  PROVE  PoppedOf(Virtio!Popped(q), q)
<1> DEFINE r == Virtio!Popped(q)
           l == q.last_seen_used
<1>1. /\ q.avail_idx \in Nat /\ q.seen \in Nat /\ q.used_index = q.seen /\ l \in Nat
      /\ l < q.seen /\ q.seen <= q.avail_idx
      /\ q.avail_idx < Word16 /\ q.avail_idx - l <= Half
      /\ q.size = Size
  BY QueueIs DEF Virtio!Indexes, Virtio!IsUsed, Half
<1>2. Half \in Nat
  BY HalfIs
<1>3. r = [q EXCEPT !.last_seen_used = l + 1]
  BY DEF Virtio!Popped
<1> HIDE DEF r
<1>4. r \in Virtio!Queue
  BY <1>1, <1>3 DEF Virtio!Queue
<1>5. /\ r.next = q.next /\ r.desc_free_index = q.desc_free_index
      /\ r.avail_idx = q.avail_idx /\ r.seen = q.seen /\ r.used_index = q.used_index
      /\ r.last_seen_used = l + 1
      /\ r.avail = q.avail /\ r.used = q.used /\ r.size = q.size
  BY <1>3 DEF Virtio!Queue
<1>6. Virtio!Indexes(r)
  BY <1>1, <1>2, <1>5, HalfIs DEF Virtio!Indexes, Half
<1>7. \A i \in Virtio!InFlight(q) : Virtio!HeadAt(r, i) = Virtio!HeadAt(q, i)
  BY <1>5 DEF Virtio!HeadAt
<1>8. Virtio!virtq_pop(q) = Virtio!HeadAt(q, l)
  BY <1>1 DEF Virtio!virtq_pop, Virtio!HeadAt
<1>9. l \in Virtio!InFlight(q) /\ Virtio!InFlight(r) = Virtio!InFlight(q) \ {l}
  BY <1>1, <1>5 DEF Virtio!InFlight
<1> QED
  BY <1>1, <1>4, <1>5, <1>6, <1>7, <1>8, <1>9 DEF PoppedOf, r

\* A list without its first element.
LEMMA TailIs ==
  ASSUME NEW S, NEW s \in Seq(S), s # <<>>
  PROVE  /\ Tail(s) \in Seq(S) /\ Len(Tail(s)) = Len(s) - 1 /\ s[1] \in S
         /\ \A k \in 1..(Len(s) - 1) : Tail(s)[k] = s[k + 1]
         /\ ListOf(s) = ListOf(Tail(s)) \cup {s[1]}
         /\ OneEach(s) => OneEach(Tail(s)) /\ s[1] \notin ListOf(Tail(s))
<1> DEFINE t == Tail(s)
           n == Len(s) - 1
<1>1. /\ t \in Seq(S) /\ Len(t) = n /\ Len(s) \in Nat /\ Len(s) >= 1 /\ n \in Nat
      /\ \A k \in 1..n : t[k] = s[k + 1]
      /\ DOMAIN s = 1..Len(s) /\ DOMAIN t = 1..n
  OBVIOUS
<1> HIDE DEF t
<1>2. \A i \in 1..Len(s) : i = 1 \/ (i - 1 \in 1..n /\ i = (i - 1) + 1)
  BY <1>1 DEF n
<1>3. \A k \in 1..n : k + 1 \in 1..Len(s) /\ k + 1 # 1
  BY <1>1 DEF n
<1>a. 1 \in 1..Len(s)
  BY <1>1
<1> HIDE DEF n
<1>4. ListOf(s) \subseteq ListOf(t) \cup {s[1]}
  <2> SUFFICES ASSUME NEW i \in 1..Len(s) PROVE s[i] \in ListOf(t) \cup {s[1]}
    BY <1>1 DEF ListOf
  <2>1. CASE i = 1
    BY <2>1
  <2>2. CASE i - 1 \in 1..n /\ i = (i - 1) + 1
    <3>1. t[i - 1] = s[i]
      BY <1>1, <2>2
    <3> QED
      BY <1>1, <2>2, <3>1 DEF ListOf
  <2> QED
    BY <1>2, <2>1, <2>2
<1>5. ListOf(t) \cup {s[1]} \subseteq ListOf(s)
  BY <1>1, <1>3, <1>a DEF ListOf
<1>6. ASSUME OneEach(s) PROVE OneEach(t) /\ s[1] \notin ListOf(t)
  <2>1. \A i, j \in 1..Len(s) : s[i] = s[j] => i = j
    BY <1>1, <1>6 DEF OneEach
  <2>2. ASSUME NEW i \in 1..n, NEW j \in 1..n, t[i] = t[j] PROVE i = j
    <3>1. s[i + 1] = s[j + 1] /\ i + 1 \in 1..Len(s) /\ j + 1 \in 1..Len(s)
      BY <1>1, <1>3, <2>2
    <3>2. i + 1 = j + 1
      BY <2>1, <3>1
    <3> QED
      BY <3>2
  <2>3. \A k \in 1..n : t[k] # s[1]
    BY <1>1, <1>3, <1>a, <2>1
  <2> QED
    BY <1>1, <2>2, <2>3 DEF OneEach, ListOf
<1> QED
  BY <1>1, <1>3, <1>4, <1>5, <1>6, <1>a DEF t, n

\* What is on a list.
LEMMA ListIn ==
  ASSUME NEW S, NEW s \in Seq(S)
  PROVE  \A x \in ListOf(s) : x \in S
  BY DEF ListOf

\* The chains are where they were, if the rings are.
LEMMA HeadSame ==
  ASSUME NEW q, NEW r, SameIndexes(r, q)
  PROVE  /\ Virtio!InFlight(r) = Virtio!InFlight(q)
         /\ \A i : Virtio!HeadAt(r, i) = Virtio!HeadAt(q, i)
         /\ Virtio!Indexes(q) => Virtio!Indexes(r)
  BY DEF SameIndexes, Virtio!InFlight, Virtio!HeadAt, Virtio!Indexes

\* The free list does not depend on what is not in it.
LEMMA FreeSame ==
  ASSUME NEW q, NEW r, NEW free \in Seq(0..Size-1), Virtio!FreeList(q, free),
         r.desc_free_index = q.desc_free_index,
         \A d \in ListOf(free) : r.next[d] = q.next[d]
  PROVE  Virtio!FreeList(r, free)
<1>1. \A k \in 1..Len(free) : free[k] \in ListOf(free)
  BY DEF ListOf
<1> QED
  BY <1>1 DEF Virtio!FreeList

\* virtq_get_desc takes the first of the list.
TakenOf(r, q, free) ==
  /\ Virtio!virtq_get_desc(q) = free[1] /\ free[1] \in 0..Size-1
  /\ r \in Virtio!Queue /\ SameIndexes(r, q) /\ r.next = q.next
  /\ Tail(free) \in Seq(0..Size-1) /\ Virtio!FreeList(r, Tail(free))

\* The rest of the list is free.
LEMMA TakeProps ==
  ASSUME NEW q \in Virtio!Queue, NEW free \in Seq(0..Size-1), Virtio!FreeList(q, free),
         free # <<>>
  PROVE  TakenOf(Virtio!TakeDesc(q), q, free)
<1> DEFINE r == Virtio!TakeDesc(q)
           t == Tail(free)
           n == Len(free) - 1
<1>1. /\ t \in Seq(0..Size-1) /\ Len(t) = n /\ free[1] \in 0..Size-1
      /\ \A k \in 1..n : t[k] = free[k + 1]
      /\ Virtio!OneEach(t)
  BY TailIs, VirtioLists DEF Virtio!FreeList
<1>2. Len(free) \in Nat /\ Len(free) >= 1 /\ 1 \in 1..Len(free) /\ n \in Nat
  OBVIOUS
<1> HIDE DEF t
<1>3. /\ q.desc_free_index = free[1] /\ free[1] # End
      /\ \A k \in 1..Len(free) : q.next[free[k]] = IF k = Len(free) THEN End ELSE free[k + 1]
  BY <1>1, HalfIs DEF Virtio!FreeList
<1>4. r = [q EXCEPT !.desc_free_index = q.next[free[1]]]
  BY <1>3 DEF Virtio!TakeDesc
<1>5. q.next[free[1]] = IF n = 0 THEN End ELSE free[2]
  <2>1. (1 = Len(free) <=> n = 0) /\ 1 + 1 = 2
    BY <1>2
  <2>2. q.next[free[1]] = IF 1 = Len(free) THEN End ELSE free[1 + 1]
    BY <1>2, <1>3
  <2> QED
    BY ONLY <2>1, <2>2
<1>6. q.next[free[1]] \in 0..Size-1 \cup {End}
  BY <1>1, QueueIs
<1> HIDE DEF r
<1>7. r \in Virtio!Queue
  BY <1>4, <1>6 DEF Virtio!Queue, Virtio!Descs
<1>8. SameIndexes(r, q) /\ r.next = q.next /\ r.desc_free_index = q.next[free[1]]
  BY <1>4 DEF Virtio!Queue, SameIndexes
<1>9. q.next[free[1]] = IF t = <<>> THEN End ELSE t[1]
  <2>1. CASE n = 0
    BY <1>1, <1>5, <2>1
  <2>2. CASE n # 0
    <3>1. 1 \in 1..n /\ t # <<>>
      BY <1>1, <1>2, <2>2
    <3> QED
      BY <1>1, <1>5, <2>2, <3>1
  <2> QED
    BY <2>1, <2>2
<1>10. ASSUME NEW k \in 1..n
       PROVE  q.next[t[k]] = IF k = n THEN End ELSE t[k + 1]
  <2>1. k + 1 \in 1..Len(free) /\ (k + 1 = Len(free) <=> k = n)
    BY <1>2
  <2>2. q.next[t[k]] = IF k = n THEN End ELSE free[(k + 1) + 1]
    BY <1>1, <1>3, <2>1
  <2>3. k # n => k + 1 \in 1..n
    BY <1>2
  <2> QED
    BY <1>1, <2>2, <2>3
<1>11. Virtio!FreeList(r, t)
  BY <1>1, <1>8, <1>9, <1>10 DEF Virtio!FreeList
<1> QED
  BY <1>1, <1>3, <1>7, <1>8, <1>11 DEF TakenOf, Virtio!virtq_get_desc, r, t

\* virtq_free_desc puts a descriptor in front of the list.
PutOf(r, q, d, free) ==
  /\ r \in Virtio!Queue /\ SameIndexes(r, q)
  /\ r.next = [q.next EXCEPT ![d] = q.desc_free_index]
  /\ <<d>> \o free \in Seq(0..Size-1) /\ Virtio!FreeList(r, <<d>> \o free)
  /\ ListOf(<<d>> \o free) = ListOf(free) \cup {d} /\ Len(<<d>> \o free) = Len(free) + 1

\* The descriptor was not free: it is not in the list twice.
LEMMA PutProps ==
  ASSUME NEW q \in Virtio!Queue, NEW free \in Seq(0..Size-1), Virtio!FreeList(q, free),
         NEW d \in 0..Size-1, d \notin ListOf(free)
  PROVE  PutOf(Virtio!virtq_free_desc(q, d), q, d, free)
<1> DEFINE r == Virtio!virtq_free_desc(q, d)
           c == <<d>> \o free
           n == Len(free)
<1>1. /\ c \in Seq(0..Size-1) /\ ListOf(c) = ListOf(free) \cup {d} /\ Virtio!OneEach(c)
  BY ConsProps, VirtioLists DEF Virtio!FreeList
<1>2. /\ n \in Nat /\ Len(c) = n + 1 /\ c[1] = d
      /\ \A k \in 1..n : c[k + 1] = free[k]
      /\ c # <<>>
  OBVIOUS
<1> HIDE DEF c
<1>3. /\ q.desc_free_index = IF n = 0 THEN End ELSE free[1]
      /\ \A k \in 1..n : q.next[free[k]] = IF k = n THEN End ELSE free[k + 1]
      /\ \A k \in 1..n : free[k] \in 0..Size-1 /\ free[k] # d
  <2>1. free = <<>> <=> n = 0
    OBVIOUS
  <2>2. ASSUME NEW k \in 1..n PROVE free[k] \in 0..Size-1 /\ free[k] # d
    <3>1. free[k] \in ListOf(free)
      BY DEF ListOf
    <3> QED
      BY <3>1, ListIn
  <2> QED
    BY <2>1, <2>2 DEF Virtio!FreeList
<1>4. /\ q.next \in [0..Size-1 -> 0..Size-1 \cup {End}]
      /\ q.desc_free_index \in 0..Size-1 \cup {End}
  BY QueueIs
<1>5. r = [q EXCEPT !.next = [q.next EXCEPT ![d] = q.desc_free_index],
                    !.desc_free_index = d]
  BY DEF Virtio!virtq_free_desc, Virtio!Queue
<1> HIDE DEF r
<1>6. r \in Virtio!Queue
  <2>1. [q.next EXCEPT ![d] = q.desc_free_index] \in [0..Size-1 -> 0..Size-1 \cup {End}]
    BY <1>4
  <2> QED
    BY <1>5, <2>1 DEF Virtio!Queue, Virtio!Descs
<1>7. /\ SameIndexes(r, q) /\ r.desc_free_index = d
      /\ r.next = [q.next EXCEPT ![d] = q.desc_free_index]
  BY <1>5 DEF Virtio!Queue, SameIndexes
<1>8. r.next[d] = q.desc_free_index /\ \A k \in 1..n : r.next[free[k]] = q.next[free[k]]
  BY <1>3, <1>4, <1>7
<1>9. ASSUME NEW k \in 1..(n + 1)
      PROVE  r.next[c[k]] = IF k = n + 1 THEN End ELSE c[k + 1]
  <2>1. CASE k = 1
    <3>1. (1 = n + 1 <=> n = 0) /\ (n # 0 => 1 \in 1..n)
      BY <1>2
    <3> QED
      BY <1>2, <1>3, <1>8, <2>1, <3>1
  <2>2. CASE k # 1
    <3>1. k - 1 \in 1..n /\ (k - 1) + 1 = k /\ (k - 1 = n <=> k = n + 1)
      BY <1>2, <2>2
    <3>2. c[k] = free[k - 1]
      BY <1>2, <3>1
    <3>3. r.next[c[k]] = IF k = n + 1 THEN End ELSE free[(k - 1) + 1]
      BY <1>3, <1>8, <3>1, <3>2
    <3>4. k # n + 1 => k \in 1..n
      BY <1>2
    <3> QED
      BY <1>2, <3>1, <3>3, <3>4
  <2> QED
    BY <2>1, <2>2
<1>10. Virtio!FreeList(r, c)
  BY <1>1, <1>2, <1>7, <1>9 DEF Virtio!FreeList
<1> QED
  BY <1>1, <1>2, <1>6, <1>7, <1>10 DEF PutOf, r, c

\* The queue for sending, whose free descriptors are the list free.
Divided(q, free) ==
  /\ q \in Virtio!Queue /\ Virtio!Indexes(q) /\ free \in Seq(0..Size-1)
  /\ Virtio!FreeList(q, free) /\ Virtio!Chained(q, free) /\ Virtio!Covered(q, free)
  /\ Len(free) + 2 * (q.avail_idx - q.last_seen_used) = Size

\* The descriptors of the chains in flight.
LEMMA ChainsAre ==
  ASSUME NEW q, NEW free, Divided(q, free), NEW i \in Virtio!InFlight(q)
  PROVE  /\ i \in Nat
         /\ Virtio!HeadAt(q, i) \in 0..Size-1 /\ Virtio!BodyAt(q, i) \in 0..Size-1
         /\ Virtio!BodyAt(q, i) # Virtio!HeadAt(q, i)
         /\ Virtio!BodyAt(q, i) = q.next[Virtio!HeadAt(q, i)]
         /\ Virtio!HeadAt(q, i) \notin ListOf(free) /\ Virtio!BodyAt(q, i) \notin ListOf(free)
         /\ \A j \in Virtio!InFlight(q) : i # j =>
              /\ Virtio!HeadAt(q, i) # Virtio!HeadAt(q, j)
              /\ Virtio!BodyAt(q, i) # Virtio!BodyAt(q, j)
              /\ Virtio!HeadAt(q, i) # Virtio!BodyAt(q, j)
              /\ Virtio!BodyAt(q, i) # Virtio!HeadAt(q, j)
<1>1. q \in Virtio!Queue
  BY DEF Divided
<1>2. q.last_seen_used \in Nat /\ q.avail_idx \in Nat
  BY <1>1, QueueIs
<1>3. i \in Nat
  BY <1>2 DEF Virtio!InFlight
<1>4. Virtio!HeadAt(q, i) \in 0..Size-1
  BY <1>1, <1>3, HeadIs
<1>5. /\ Virtio!BodyAt(q, i) \in 0..Size-1 /\ Virtio!BodyAt(q, i) # Virtio!HeadAt(q, i)
      /\ Virtio!HeadAt(q, i) \notin ListOf(free) /\ Virtio!BodyAt(q, i) \notin ListOf(free)
  BY VirtioLists DEF Divided, Virtio!Chained, Virtio!Descs
<1>6. \A j \in Virtio!InFlight(q) : i # j =>
        Virtio!Apart(q, i, j) /\ Virtio!Apart(q, j, i)
  BY DEF Divided, Virtio!Chained
<1> QED
  BY <1>3, <1>4, <1>5, <1>6 DEF Virtio!Apart, Virtio!BodyAt

\* What Divided asks of the chains, in these terms.
LEMMA ChainedIf ==
  ASSUME NEW q, NEW free,
         \A i \in Virtio!InFlight(q) :
           /\ Virtio!BodyAt(q, i) \in 0..Size-1 /\ Virtio!BodyAt(q, i) # Virtio!HeadAt(q, i)
           /\ Virtio!HeadAt(q, i) \notin ListOf(free) /\ Virtio!BodyAt(q, i) \notin ListOf(free)
           /\ \A j \in Virtio!InFlight(q) : i # j =>
                /\ Virtio!HeadAt(q, i) # Virtio!HeadAt(q, j)
                /\ Virtio!BodyAt(q, i) # Virtio!BodyAt(q, j)
                /\ Virtio!HeadAt(q, i) # Virtio!BodyAt(q, j)
  PROVE  Virtio!Chained(q, free)
  BY VirtioLists DEF Virtio!Chained, Virtio!Apart, Virtio!Descs

\* Every descriptor is free or in a chain, in these terms.
LEMMA CoveredIs ==
  ASSUME NEW q, NEW free
  PROVE  Virtio!Covered(q, free) <=>
           \A d \in 0..Size-1 : d \in ListOf(free) \/ \E i \in Virtio!InFlight(q) :
             d = Virtio!HeadAt(q, i) \/ d = Virtio!BodyAt(q, i)
  BY VirtioLists DEF Virtio!Covered, Virtio!ChainAt, Virtio!Descs

\* The chains of r are those of q.
SameChains(r, q) ==
  \A i \in Virtio!InFlight(r) :
    /\ i \in Virtio!InFlight(q)
    /\ Virtio!HeadAt(r, i) = Virtio!HeadAt(q, i) /\ Virtio!BodyAt(r, i) = Virtio!BodyAt(q, i)

\* The device uses a chain: the descriptors stay where they are.
TransmitOf(r, q, free) ==
  /\ Divided(r, free) /\ SameChains(r, q)
  /\ r.avail_idx = q.avail_idx /\ r.seen = q.seen + 1
  /\ q.seen \in Virtio!InFlight(q) /\ q.next[Virtio!Chain(q)] = Virtio!BodyAt(q, q.seen)

\* The queue stays divided, and the body is that of the chain at seen.
LEMMA TransmitProps ==
  ASSUME NEW q, NEW free, Divided(q, free), Virtio!IsAvailable(q)
  PROVE  TransmitOf(Virtio!DeviceUses(q), q, free)
<1> DEFINE r == Virtio!DeviceUses(q)
<1>1. Used(r, q)
  BY UseProps DEF Divided
<1> HIDE DEF r
<1>2. /\ r \in Virtio!Queue /\ Virtio!Indexes(r) /\ free \in Seq(0..Size-1)
      /\ r.avail_idx = q.avail_idx /\ r.seen = q.seen + 1
      /\ r.last_seen_used = q.last_seen_used /\ r.next = q.next
      /\ r.desc_free_index = q.desc_free_index
      /\ Virtio!InFlight(r) = Virtio!InFlight(q)
      /\ q.seen \in Virtio!InFlight(q) /\ q.next[Virtio!Chain(q)] = Virtio!BodyAt(q, q.seen)
  BY <1>1 DEF Used, Divided, Virtio!BodyAt
<1>3. \A i \in Virtio!InFlight(q) : /\ Virtio!HeadAt(r, i) = Virtio!HeadAt(q, i)
                                    /\ Virtio!BodyAt(r, i) = Virtio!BodyAt(q, i)
  BY <1>1, <1>2 DEF Used, Virtio!BodyAt
<1>4. Virtio!FreeList(r, free)
  BY <1>2, FreeSame DEF Divided
<1>5. Virtio!Chained(r, free)
  BY <1>2, <1>3, ChainsAre, ChainedIf
<1>6. Virtio!Covered(r, free)
  BY <1>2, <1>3, CoveredIs DEF Divided
<1> QED
  BY <1>2, <1>3, <1>4, <1>5, <1>6 DEF Divided, SameChains, TransmitOf, r

\* send_pkt: there are two free descriptors or there is none; with two, they
\* become the chain that is pushed.
SendOf(h, b, r, q) ==
  /\ h \in 0..Size-1 /\ b \in 0..Size-1
  /\ \E f : Divided(r, f)
  /\ r.avail_idx = q.avail_idx + 1 /\ r.seen = q.seen
  /\ q.avail_idx \notin Virtio!InFlight(q) /\ Virtio!BodyAt(r, q.avail_idx) = b
  /\ Virtio!InFlight(r) = Virtio!InFlight(q) \cup {q.avail_idx}
  /\ \A i \in Virtio!InFlight(q) : /\ Virtio!BodyAt(r, i) = Virtio!BodyAt(q, i)
                                   /\ Virtio!BodyAt(q, i) # b

\* Without free descriptors the queue is not touched.
LEMMA SendNone ==
  ASSUME NEW q, Divided(q, <<>>)
  PROVE  Virtio!virtq_get_desc(q) = End /\ Virtio!TakeDesc(Virtio!TakeDesc(q)) = q
  BY DEF Divided, Virtio!FreeList, Virtio!virtq_get_desc, Virtio!TakeDesc

\* The length of the list is even, so that it is never left with one descriptor.
LEMMA SendProps ==
  ASSUME NEW q, NEW free, Divided(q, free), free # <<>>, q.avail_idx + 1 < Word16,
         NEW h, h = Virtio!virtq_get_desc(q),
         NEW b, b = Virtio!virtq_get_desc(Virtio!TakeDesc(q))
  PROVE  SendOf(h, b, Virtio!virtq_push([Virtio!TakeDesc(Virtio!TakeDesc(q))
                                           EXCEPT !.next[h] = b], h), q)
<1> DEFINE t == Tail(free)
           f == Tail(t)
           u == Virtio!TakeDesc(q)
           v == Virtio!TakeDesc(u)
           w == [v EXCEPT !.next[h] = b]
           r == Virtio!virtq_push(w, h)
<1>1. q \in Virtio!Queue /\ free \in Seq(0..Size-1) /\ Virtio!FreeList(q, free)
  BY DEF Divided
<1>2. TakenOf(u, q, free)
  BY <1>1, TakeProps
<1>3. /\ Len(t) = Len(free) - 1 /\ ListOf(free) = ListOf(t) \cup {free[1]}
      /\ free[1] \notin ListOf(t) /\ t \in Seq(0..Size-1)
  BY <1>1, TailIs, VirtioLists DEF Virtio!FreeList
<1>i. q.avail_idx \in Nat /\ q.last_seen_used \in Nat
  BY <1>1, QueueIs
<1>4. Len(t) >= 1 /\ q.avail_idx - q.last_seen_used + 1 <= Half
  <2>0. /\ Len(free) \in Nat /\ Len(free) # 0 /\ Half \in Nat /\ Size = 2 * Half
        /\ Len(free) + 2 * (q.avail_idx - q.last_seen_used) = Size
    BY <1>1, HalfIs DEF Divided
  <2>1. Len(free) >= 2 /\ q.avail_idx - q.last_seen_used + 1 <= Half
    BY ONLY <1>i, <2>0
  <2> QED
    BY <1>3, <2>0, <2>1
<1> HIDE DEF t
<1>5. t # <<>>
  BY <1>4
<1>6. TakenOf(v, u, t)
  BY <1>2, <1>5, TakeProps DEF TakenOf, t
<1>7. /\ Len(f) = Len(t) - 1 /\ ListOf(t) = ListOf(f) \cup {t[1]}
      /\ t[1] \notin ListOf(f) /\ f \in Seq(0..Size-1)
  <2>1. Virtio!FreeList(u, t)
    BY <1>2 DEF TakenOf, t
  <2> QED
    BY <1>3, <1>5, <2>1, TailIs, VirtioLists DEF Virtio!FreeList
<1>8. /\ h = free[1] /\ h \in 0..Size-1 /\ b = t[1] /\ b \in 0..Size-1
      /\ v \in Virtio!Queue /\ SameIndexes(v, q) /\ v.next = q.next
      /\ Virtio!FreeList(v, f)
  BY <1>2, <1>6 DEF TakenOf, SameIndexes
<1> HIDE DEF f, u, v
<1>9. /\ h \notin ListOf(f) /\ b \notin ListOf(f) /\ h # b
      /\ ListOf(free) = ListOf(f) \cup {h, b}
  BY <1>3, <1>7, <1>8
<1>n. v.next \in [0..Size-1 -> 0..Size-1 \cup {End}]
  BY <1>8, QueueIs
<1>10. w \in Virtio!Queue
  <2>1. [v.next EXCEPT ![h] = b] \in [0..Size-1 -> 0..Size-1 \cup {End}]
    BY <1>8, <1>n
  <2>2. w = [v EXCEPT !.next = [v.next EXCEPT ![h] = b]]
    BY <1>8 DEF Virtio!Queue
  <2> QED
    BY <1>8, <2>1, <2>2 DEF Virtio!Queue, Virtio!Descs
<1>11. /\ SameIndexes(w, q) /\ w.desc_free_index = v.desc_free_index
       /\ w.next = [q.next EXCEPT ![h] = b]
  BY <1>8 DEF Virtio!Queue, SameIndexes
<1> HIDE DEF w
<1>12. /\ \A i : Virtio!HeadAt(w, i) = Virtio!HeadAt(q, i)
       /\ Virtio!InFlight(w) = Virtio!InFlight(q) /\ Virtio!Indexes(w)
  BY <1>11, HeadSame DEF Divided
<1>13. Pushed(r, w, h)
  BY <1>4, <1>8, <1>10, <1>11, <1>12, PushProps DEF SameIndexes
<1> HIDE DEF r
<1> DEFINE a == q.avail_idx
<1>14. /\ r \in Virtio!Queue /\ Virtio!Indexes(r) /\ r.next = w.next
       /\ r.desc_free_index = v.desc_free_index
       /\ r.avail_idx = a + 1 /\ r.seen = q.seen /\ r.last_seen_used = q.last_seen_used
       /\ Virtio!HeadAt(r, a) = h
       /\ \A i \in Virtio!InFlight(q) : Virtio!HeadAt(r, i) = Virtio!HeadAt(q, i)
       /\ a \notin Virtio!InFlight(q)
       /\ Virtio!InFlight(r) = Virtio!InFlight(q) \cup {a}
  BY <1>11, <1>12, <1>13 DEF Pushed, SameIndexes
<1>15. /\ r.next[h] = b /\ \A d \in 0..Size-1 : d # h => r.next[d] = q.next[d]
  BY <1>8, <1>11, <1>14, <1>n
<1>16. Virtio!BodyAt(r, a) = b
  BY <1>14, <1>15 DEF Virtio!BodyAt
<1>17. \A i \in Virtio!InFlight(q) :
         /\ Virtio!HeadAt(q, i) \in 0..Size-1 /\ Virtio!HeadAt(q, i) # h
         /\ Virtio!HeadAt(q, i) # b /\ Virtio!BodyAt(q, i) # h /\ Virtio!BodyAt(q, i) # b
         /\ Virtio!HeadAt(q, i) \notin ListOf(f) /\ Virtio!BodyAt(q, i) \notin ListOf(f)
  BY <1>9, ChainsAre
<1>18. \A i \in Virtio!InFlight(q) : Virtio!BodyAt(r, i) = Virtio!BodyAt(q, i)
  BY <1>14, <1>15, <1>17 DEF Virtio!BodyAt
<1> HIDE DEF a
<1>19. Virtio!Chained(r, f)
  <2>1. ASSUME NEW i \in Virtio!InFlight(r)
        PROVE  /\ Virtio!BodyAt(r, i) \in 0..Size-1 /\ Virtio!BodyAt(r, i) # Virtio!HeadAt(r, i)
               /\ Virtio!HeadAt(r, i) \notin ListOf(f) /\ Virtio!BodyAt(r, i) \notin ListOf(f)
               /\ \A j \in Virtio!InFlight(r) : i # j =>
                    /\ Virtio!HeadAt(r, i) # Virtio!HeadAt(r, j)
                    /\ Virtio!BodyAt(r, i) # Virtio!BodyAt(r, j)
                    /\ Virtio!HeadAt(r, i) # Virtio!BodyAt(r, j)
    <3>1. CASE i = a
      BY <1>8, <1>9, <1>14, <1>16, <1>17, <1>18, <3>1
    <3>2. CASE i \in Virtio!InFlight(q)
      BY <1>14, <1>16, <1>17, <1>18, <3>2, ChainsAre
    <3> QED
      BY <1>14, <3>1, <3>2
  <2> QED
    BY <2>1, ChainedIf
<1>20. Virtio!Covered(r, f)
  <2>1. ASSUME NEW d \in 0..Size-1, d \notin ListOf(f)
        PROVE  \E i \in Virtio!InFlight(r) : d = Virtio!HeadAt(r, i) \/ d = Virtio!BodyAt(r, i)
    <3>1. CASE d \in {h, b}
      BY <1>14, <1>16, <3>1
    <3>2. CASE d \notin {h, b}
      <4>1. d \notin ListOf(free)
        BY <1>9, <2>1, <3>2
      <4>2. PICK i \in Virtio!InFlight(q) : d = Virtio!HeadAt(q, i) \/ d = Virtio!BodyAt(q, i)
        BY <4>1, CoveredIs DEF Divided
      <4> QED
        BY <1>14, <1>18, <4>2
    <3> QED
      BY <3>1, <3>2
  <2> QED
    BY <2>1, CoveredIs
<1>21. Virtio!FreeList(r, f)
  <2>1. \A d \in ListOf(f) : d \in 0..Size-1
    BY <1>7, ListIn
  <2>2. \A d \in ListOf(f) : r.next[d] = v.next[d]
    BY <1>8, <1>9, <1>15, <2>1
  <2> QED
    BY <1>7, <1>8, <1>14, <2>2, FreeSame
<1>22. Len(f) + 2 * (r.avail_idx - r.last_seen_used) = Size
  <2>0. /\ Len(free) \in Nat /\ Len(f) = Len(free) - 1 - 1
        /\ a \in Nat /\ q.last_seen_used \in Nat
        /\ Len(free) + 2 * (a - q.last_seen_used) = Size
    BY <1>1, <1>3, <1>7, <1>i DEF Divided, a
  <2>1. Len(f) + 2 * ((a + 1) - q.last_seen_used) = Size
    BY ONLY <2>0
  <2> QED
    BY <1>14, <2>1
<1>23. Divided(r, f)
  BY <1>7, <1>14, <1>19, <1>20, <1>21, <1>22 DEF Divided
<1> QED
  BY <1>8, <1>14, <1>16, <1>17, <1>18, <1>23 DEF SendOf, r, w, v, u, a

\* process_tx: the descriptors of the chain that is popped are free.
FreedOf(r, q) ==
  /\ \E f : Divided(r, f)
  /\ r.avail_idx = q.avail_idx /\ r.seen = q.seen /\ SameChains(r, q)

\* The body is freed first, and the header in front of it.
LEMMA FreedProps ==
  ASSUME NEW q, NEW free, Divided(q, free), Virtio!IsUsed(q)
  PROVE  FreedOf(Virtio!FreedPair(Virtio!Popped(q), Virtio!virtq_pop(q)), q)
<1> DEFINE l == q.last_seen_used
           h == Virtio!HeadAt(q, l)
           b == Virtio!BodyAt(q, l)
           p == Virtio!Popped(q)
           u == Virtio!virtq_free_desc(p, b)
           r == Virtio!virtq_free_desc(u, h)
           f == <<h>> \o (<<b>> \o free)
<1>1. /\ q \in Virtio!Queue /\ Virtio!Indexes(q)
      /\ free \in Seq(0..Size-1) /\ Virtio!FreeList(q, free)
      /\ q.next \in [0..Size-1 -> 0..Size-1 \cup {End}]
  BY QueueIs DEF Divided
<1>2. PoppedOf(p, q)
  BY <1>1, PopProps
<1> HIDE DEF p
<1>3. /\ p \in Virtio!Queue /\ Virtio!Indexes(p) /\ p.next = q.next
      /\ p.desc_free_index = q.desc_free_index
      /\ p.avail_idx = q.avail_idx /\ p.seen = q.seen /\ p.last_seen_used = l + 1
      /\ l \in Virtio!InFlight(q) /\ Virtio!virtq_pop(q) = h
      /\ \A i \in Virtio!InFlight(q) : Virtio!HeadAt(p, i) = Virtio!HeadAt(q, i)
      /\ Virtio!InFlight(p) = Virtio!InFlight(q) \ {l}
  BY <1>2 DEF PoppedOf
<1>4. /\ h \in 0..Size-1 /\ b \in 0..Size-1 /\ b # h /\ b = q.next[h]
      /\ h \notin ListOf(free) /\ b \notin ListOf(free)
      /\ \A i \in Virtio!InFlight(p) :
           /\ Virtio!HeadAt(q, i) # h /\ Virtio!HeadAt(q, i) # b
           /\ Virtio!BodyAt(q, i) # h /\ Virtio!BodyAt(q, i) # b
  BY <1>3, ChainsAre
<1> HIDE DEF h, b
<1>5. Virtio!FreeList(p, free)
  BY <1>1, <1>3, FreeSame
<1>6. PutOf(u, p, b, free)
  BY <1>1, <1>3, <1>4, <1>5, PutProps
<1> DEFINE c == <<b>> \o free
<1> HIDE DEF u, c
<1>7. /\ u \in Virtio!Queue /\ SameIndexes(u, p)
      /\ u.next = [q.next EXCEPT ![b] = p.desc_free_index]
      /\ c \in Seq(0..Size-1) /\ Virtio!FreeList(u, c)
      /\ ListOf(c) = ListOf(free) \cup {b} /\ Len(c) = Len(free) + 1
  BY <1>3, <1>6 DEF PutOf, c
<1>8. PutOf(r, u, h, c)
  BY <1>4, <1>7, PutProps
<1>f. f = <<h>> \o c
  BY DEF c
<1> HIDE DEF r, f
<1>9. /\ r \in Virtio!Queue /\ SameIndexes(r, u)
      /\ r.next = [u.next EXCEPT ![h] = u.desc_free_index]
      /\ f \in Seq(0..Size-1) /\ Virtio!FreeList(r, f)
      /\ ListOf(f) = ListOf(c) \cup {h} /\ Len(f) = Len(c) + 1
  BY <1>8, <1>f DEF PutOf
<1>10. SameIndexes(r, p)
  BY <1>7, <1>9 DEF SameIndexes
<1>11. /\ Virtio!InFlight(r) = Virtio!InFlight(p) /\ Virtio!Indexes(r)
       /\ \A i : Virtio!HeadAt(r, i) = Virtio!HeadAt(p, i)
  BY <1>3, <1>10, HeadSame
<1>12. \A d \in 0..Size-1 : d \notin {h, b} => r.next[d] = q.next[d]
  BY <1>1, <1>7, <1>9
<1>13. ASSUME NEW i \in Virtio!InFlight(r)
       PROVE  /\ i \in Virtio!InFlight(q) /\ i # l
              /\ Virtio!HeadAt(r, i) = Virtio!HeadAt(q, i)
              /\ Virtio!BodyAt(r, i) = Virtio!BodyAt(q, i)
  <2>1. i \in Virtio!InFlight(q) /\ i # l /\ Virtio!HeadAt(r, i) = Virtio!HeadAt(q, i)
    BY <1>3, <1>11, <1>13
  <2>2. Virtio!HeadAt(q, i) \in 0..Size-1 /\ Virtio!HeadAt(q, i) \notin {h, b}
    BY <1>4, <1>11, <1>13, <2>1, ChainsAre
  <2> QED
    BY <1>12, <2>1, <2>2 DEF Virtio!BodyAt
<1>14. SameChains(r, q)
  BY <1>13 DEF SameChains
<1>15. Virtio!Chained(r, f)
  <2>1. ASSUME NEW i \in Virtio!InFlight(r)
        PROVE  /\ Virtio!BodyAt(r, i) \in 0..Size-1 /\ Virtio!BodyAt(r, i) # Virtio!HeadAt(r, i)
               /\ Virtio!HeadAt(r, i) \notin ListOf(f) /\ Virtio!BodyAt(r, i) \notin ListOf(f)
               /\ \A j \in Virtio!InFlight(r) : i # j =>
                    /\ Virtio!HeadAt(r, i) # Virtio!HeadAt(r, j)
                    /\ Virtio!BodyAt(r, i) # Virtio!BodyAt(r, j)
                    /\ Virtio!HeadAt(r, i) # Virtio!BodyAt(r, j)
    <3>1. i \in Virtio!InFlight(q) /\ i \in Virtio!InFlight(p)
      BY <1>11, <1>13, <2>1
    <3>2. /\ Virtio!HeadAt(r, i) \notin ListOf(f) /\ Virtio!BodyAt(r, i) \notin ListOf(f)
      BY <1>4, <1>7, <1>9, <1>13, <2>1, <3>1, ChainsAre
    <3> QED
      BY <1>13, <2>1, <3>1, <3>2, ChainsAre
  <2> QED
    BY <2>1, ChainedIf
<1>16. Virtio!Covered(r, f)
  <2>1. ASSUME NEW d \in 0..Size-1, d \notin ListOf(f)
        PROVE  \E i \in Virtio!InFlight(r) : d = Virtio!HeadAt(r, i) \/ d = Virtio!BodyAt(r, i)
    <3>1. d \notin ListOf(free) /\ d # h /\ d # b
      BY <1>7, <1>9, <2>1
    <3>2. PICK i \in Virtio!InFlight(q) : d = Virtio!HeadAt(q, i) \/ d = Virtio!BodyAt(q, i)
      BY <3>1, CoveredIs DEF Divided
    <3>3. i \in Virtio!InFlight(r)
      BY <1>3, <1>11, <3>1, <3>2 DEF h, b
    <3> QED
      BY <1>13, <3>2, <3>3
  <2> QED
    BY <2>1, CoveredIs
<1>17. r.avail_idx = q.avail_idx /\ r.seen = q.seen /\ r.last_seen_used = l + 1
  BY <1>3, <1>10 DEF SameIndexes
<1>18. Len(f) + 2 * (r.avail_idx - r.last_seen_used) = Size
  <2>0. /\ Len(free) \in Nat /\ Len(f) = (Len(free) + 1) + 1
        /\ q.avail_idx \in Nat /\ l \in Nat
        /\ Len(free) + 2 * (q.avail_idx - l) = Size
    BY <1>1, <1>7, <1>9, QueueIs DEF Divided
  <2>1. Len(f) + 2 * (q.avail_idx - (l + 1)) = Size
    BY ONLY <2>0
  <2> QED
    BY <1>17, <2>1
<1>19. Divided(r, f)
  BY <1>9, <1>11, <1>15, <1>16, <1>18 DEF Divided
<1>20. Virtio!FreedPair(p, Virtio!virtq_pop(q)) = r
  BY <1>3, <1>4 DEF Virtio!FreedPair, r, u
<1>21. FreedOf(r, q)
  BY <1>14, <1>17, <1>19 DEF FreedOf
<1> QED
  BY <1>20, <1>21 DEF p

\* The walk from desc_free_index goes along the list and stops at its end.
LEMMA FreeWalk ==
  ASSUME NEW q \in Virtio!Queue, NEW free \in Seq(0..Size-1), Virtio!FreeList(q, free)
  PROVE  \A n \in 0..Size : Virtio!FreeAt(q)[n] = IF n < Len(free) THEN free[n + 1] ELSE End
<1> DEFINE body(G, n) == IF n = 0 THEN q.desc_free_index
                         ELSE IF G[n - 1] = End THEN End ELSE q.next[G[n - 1]]
           at(n) == IF n < Len(free) THEN free[n + 1] ELSE End
           F == [n \in 0..Size |-> at(n)]
           IsWalk(G) == G = [n \in 0..Size |-> body(G, n)]
<1>0. Size \in Nat /\ Size >= 1 /\ q.size = Size /\ Len(free) \in Nat /\ End \notin 0..Size-1
  BY HalfIs, QueueIs
<1>1. /\ q.desc_free_index = IF free = <<>> THEN End ELSE free[1]
      /\ \A k \in 1..Len(free) : q.next[free[k]] = IF k = Len(free) THEN End ELSE free[k + 1]
      /\ \A k \in 1..Len(free) : free[k] \in 0..Size-1 /\ free[k] # End
  BY <1>0 DEF Virtio!FreeList
<1>2. at(0) = q.desc_free_index
  <2>1. CASE free = <<>>
    BY <1>1, <2>1
  <2>2. CASE free # <<>>
    <3>1. 0 < Len(free) /\ 0 + 1 = 1
      BY <1>0, <2>2
    <3> QED
      BY <1>1, <2>2, <3>1
  <2> QED
    BY <2>1, <2>2
<1>3. ASSUME NEW n \in 1..Size
      PROVE  at(n) = IF at(n - 1) = End THEN End ELSE q.next[at(n - 1)]
  <2>1. CASE n - 1 < Len(free)
    <3>1. /\ n \in 1..Len(free) /\ (n - 1) + 1 = n /\ (n = Len(free) <=> ~(n < Len(free)))
      BY <1>0, <2>1
    <3> QED
      BY <1>1, <2>1, <3>1
  <2>2. CASE ~(n - 1 < Len(free))
    <3>1. ~(n < Len(free))
      BY <1>0, <2>2
    <3> QED
      BY <2>2, <3>1
  <2> QED
    BY <2>1, <2>2
<1> HIDE DEF at
<1>4. IsWalk(F)
  <2>1. ASSUME NEW n \in 0..Size PROVE at(n) = body(F, n)
    <3>1. CASE n = 0
      BY <1>2, <3>1
    <3>2. CASE n # 0
      <4>1. n \in 1..Size /\ n - 1 \in 0..Size
        BY <1>0, <3>2
      <4> QED
        BY <1>3, <3>2, <4>1
    <3> QED
      BY <3>1, <3>2
  <2> QED
    BY <2>1
<1> HIDE DEF F
<1>5. Virtio!FreeAt(q) = CHOOSE G : IsWalk(G)
  BY <1>0 DEF Virtio!FreeAt
<1>6. IsWalk(Virtio!FreeAt(q))
  <2> HIDE DEF IsWalk
  <2>1. \E G : IsWalk(G)
    BY <1>4
  <2>2. IsWalk(CHOOSE G : IsWalk(G))
    BY <2>1
  <2> QED
    BY <1>5, <2>2
<1> DEFINE W == Virtio!FreeAt(q)
           same == {n \in 0..Size : W[n] = at(n)}
<1> HIDE DEF W
<1>7. \A n \in 0..Size : W[n] = body(W, n)
  BY <1>6 DEF W
<1>8. 0 \in same
  BY <1>0, <1>2, <1>7
<1>9. ASSUME NEW n \in 0..(Size - 1), n \in same PROVE n + 1 \in same
  <2>1. n + 1 \in 1..Size /\ n + 1 \in 0..Size /\ (n + 1) - 1 = n /\ n + 1 # 0
    BY <1>0
  <2>2. W[n + 1] = IF W[n] = End THEN End ELSE q.next[W[n]]
    BY <1>7, <2>1
  <2>3. at(n + 1) = IF at(n) = End THEN End ELSE q.next[at(n)]
    BY <1>3, <2>1
  <2> QED
    BY <1>9, <2>1, <2>2, <2>3
<1> HIDE DEF same
<1>10. 0..Size \subseteq same
  BY <1>0, <1>8, <1>9, UpTo
<1> QED
  BY <1>10 DEF same, W, at

\* The descriptors on the walk are those of the list.
LEMMA FreeAre ==
  ASSUME NEW q \in Virtio!Queue, NEW free \in Seq(0..Size-1), Virtio!FreeList(q, free),
         Len(free) <= Size
  PROVE  Virtio!FreeDescs(q) = ListOf(free)
<1>0. Size \in Nat /\ q.size = Size /\ Len(free) \in Nat /\ End \notin 0..Size-1
  BY HalfIs, QueueIs
<1>1. \A n \in 0..Size : Virtio!FreeAt(q)[n] = IF n < Len(free) THEN free[n + 1] ELSE End
  BY FreeWalk
<1>2. ASSUME NEW d, d \in Virtio!FreeDescs(q) PROVE d \in ListOf(free)
  <2>1. PICK n \in 0..Size : d = Virtio!FreeAt(q)[n] /\ d # End
    BY <1>0, <1>2 DEF Virtio!FreeDescs
  <2>2. n < Len(free) /\ d = free[n + 1]
    BY <1>1, <2>1
  <2>3. n + 1 \in 1..Len(free)
    BY <1>0, <2>2
  <2> QED
    BY <2>2, <2>3 DEF ListOf
<1>3. ASSUME NEW d, d \in ListOf(free) PROVE d \in Virtio!FreeDescs(q)
  <2>1. PICK k \in 1..Len(free) : d = free[k]
    BY <1>3 DEF ListOf
  <2>2. k - 1 \in 0..Size /\ k - 1 < Len(free) /\ (k - 1) + 1 = k
    BY <1>0
  <2>3. d = Virtio!FreeAt(q)[k - 1]
    BY <1>1, <2>1, <2>2
  <2>4. d # End
    BY <1>0, <1>3, ListIn
  <2> QED
    BY <1>0, <2>2, <2>3, <2>4 DEF Virtio!FreeDescs
<1> QED
  BY <1>2, <1>3

\* init_tx and virtq_init: all descriptors are free.
LEMMA DividedStart == \E f : Divided(Virtio!virtq_init(Size), f)
<1> DEFINE q == Virtio!virtq_init(Size)
           f == [k \in 1..Size |-> k - 1]
<1>0. /\ Size \in Nat /\ Size >= 1 /\ Half \in Nat /\ Word16 \in Nat /\ 0 < Word16
      /\ End \notin 0..Size-1
  BY HalfIs
<1>z. 0 \in 0..Size-1
  BY <1>0
<1>1. q \in Virtio!Queue
  <2>1. Virtio!NextInit(Size) \in [0..Size-1 -> 0..Size-1 \cup {End}]
    <3>1. \A i \in 0..Size-1 : i # Size - 1 => i + 1 \in 0..Size-1
      BY <1>0
    <3> QED
      BY <3>1 DEF Virtio!NextInit
  <2>2. [i \in 0..Size-1 |-> Virtio!Nothing] \in [0..Size-1 -> 0..Size-1]
    BY <1>z DEF Virtio!Nothing
  <2> QED
    BY <1>z, <2>1, <2>2 DEF Virtio!virtq_init, Virtio!Queue, Virtio!Descs
<1>2. /\ q.avail_idx = 0 /\ q.seen = 0 /\ q.used_index = 0 /\ q.last_seen_used = 0
      /\ q.desc_free_index = 0 /\ q.next = Virtio!NextInit(Size)
  BY DEF Virtio!virtq_init
<1> HIDE DEF q
<1>3. Virtio!Indexes(q)
  BY <1>0, <1>2, IndexesAre
<1>4. Virtio!InFlight(q) = {}
  BY <1>2 DEF Virtio!InFlight
<1>5. /\ f \in Seq(0..Size-1) /\ Len(f) = Size /\ DOMAIN f = 1..Size
      /\ \A k \in 1..Size : f[k] = k - 1 /\ k - 1 \in 0..Size-1
  <2>1. \A k \in 1..Size : k - 1 \in 0..Size-1
    BY <1>0
  <2> QED
    BY <1>0, <2>1
<1> HIDE DEF f
<1>6. OneEach(f)
  BY <1>0, <1>5 DEF OneEach
<1>7. ListOf(f) = 0..Size-1
  <2>1. \A d \in 0..Size-1 : d + 1 \in 1..Size /\ (d + 1) - 1 = d
    BY <1>0
  <2>2. ASSUME NEW d \in 0..Size-1 PROVE d \in ListOf(f)
    <3>1. f[d + 1] = d /\ d + 1 \in DOMAIN f
      BY <1>5, <2>1
    <3> QED
      BY <3>1 DEF ListOf
  <2> QED
    BY <1>5, <2>2 DEF ListOf
<1>8. q.desc_free_index = IF f = <<>> THEN End ELSE f[1]
  <2>1. f # <<>> /\ 1 \in 1..Size
    BY <1>0, <1>5
  <2>2. f[1] = 0
    BY <1>5, <2>1
  <2> QED
    BY <1>2, <2>1, <2>2
<1>9. ASSUME NEW k \in 1..Len(f)
      PROVE  q.next[f[k]] = IF k = Len(f) THEN End ELSE f[k + 1]
  <2>1. /\ k \in 1..Size /\ f[k] = k - 1 /\ k - 1 \in 0..Size-1
    BY <1>5
  <2>2. q.next[k - 1] = IF k - 1 = Size - 1 THEN End ELSE (k - 1) + 1
    BY <1>2, <2>1 DEF Virtio!NextInit
  <2>3. (k - 1 = Size - 1 <=> k = Size) /\ (k - 1) + 1 = k /\ (k + 1) - 1 = k
        /\ (k # Size => k + 1 \in 1..Size)
    BY <1>0, <2>1
  <2>4. k # Size => f[k + 1] = k
    BY <1>5, <2>3
  <2> QED
    BY <1>5, <2>1, <2>2, <2>3, <2>4
<1>10. Virtio!FreeList(q, f)
  BY <1>6, <1>8, <1>9, VirtioLists DEF Virtio!FreeList
<1>11. Virtio!Chained(q, f)
  BY <1>4, ChainedIf
<1>12. Virtio!Covered(q, f)
  BY <1>7, CoveredIs
<1>13. Len(f) + 2 * (q.avail_idx - q.last_seen_used) = Size
  BY <1>0, <1>2, <1>5
<1>14. Divided(q, f)
  BY <1>1, <1>3, <1>5, <1>10, <1>11, <1>12, <1>13 DEF Divided
<1> QED
  BY <1>14 DEF q

\* The queue for receiving; the chain c is at the driver.
Filling(q, c) ==
  /\ q \in Virtio!Queue /\ Virtio!Indexes(q) /\ q.desc_free_index = End
  /\ q.next = Virtio!NextInit(Size)
  /\ c \in 0..Size-1 \cup {nil} /\ (c # nil => c # Size - 1)
  /\ \A i \in Virtio!InFlight(q) :
       /\ Virtio!HeadAt(q, i) # c /\ Virtio!HeadAt(q, i) # Size - 1
       /\ \A j \in Virtio!InFlight(q) : i # j => Virtio!HeadAt(q, i) # Virtio!HeadAt(q, j)
  /\ q.avail_idx - q.last_seen_used + (IF c = nil THEN 0 ELSE 1) = Half

\* init_rx, after n pairs.
Pairs(n) ==
  [size |-> Size, next |-> Virtio!NextInit(Size),
   desc_free_index |-> IF 2 * n = Size THEN End ELSE 2 * n,
   avail |-> [i \in 0..Size-1 |-> IF i < n THEN 2 * i ELSE 0], avail_idx |-> n, seen |-> 0,
   used |-> [i \in 0..Size-1 |-> 0], used_index |-> 0, last_seen_used |-> 0]

\* One more pair.
LEMMA PairsGrow ==
  ASSUME NEW n \in 0..Half - 1
  PROVE  Pairs(n + 1) = Virtio!AddPair(Pairs(n))
<1> DEFINE q == Pairs(n)
           next == Virtio!NextInit(Size)
           u == [q EXCEPT !.desc_free_index = 2 * n + 1]
           free == IF 2 * (n + 1) = Size THEN End ELSE 2 * (n + 1)
           ring == [i \in 0..Size-1 |-> IF i < n THEN 2 * i ELSE 0]
           none == [i \in 0..Size-1 |-> 0]
           v == [size |-> Size, next |-> next, desc_free_index |-> free,
                 avail |-> ring, avail_idx |-> n, seen |-> 0,
                 used |-> none, used_index |-> 0, last_seen_used |-> 0]
<1>0. /\ Size \in Nat /\ Half \in Nat /\ Size = 2 * Half /\ n \in Nat /\ n < Half
      /\ Word16 \in Nat /\ Half < Word16 /\ End \notin 0..Size-1
  BY HalfIs
<1>1. /\ 2 * n \in 0..Size-1 /\ 2 * n + 1 \in 0..Size-1 /\ 2 * n # Size - 1 /\ 2 * n # Size
      /\ (2 * n + 1 = Size - 1 <=> 2 * (n + 1) = Size) /\ (2 * n + 1) + 1 = 2 * (n + 1)
      /\ n + 1 < Word16 /\ n < Size /\ Size \in Nat \ {0} /\ Word16 \in Nat \ {0}
      /\ n \in 0..Size-1 /\ n + 1 \in Nat
  BY <1>0
<1>2. next[2 * n] = 2 * n + 1 /\ next[2 * n + 1] = free
  BY <1>1 DEF Virtio!NextInit
<1>n. next \in [0..Size-1 -> 0..Size-1 \cup {End}]
  <2>1. \A i \in 0..Size-1 : i # Size - 1 => i + 1 \in 0..Size-1
    BY <1>0
  <2> QED
    BY <2>1 DEF Virtio!NextInit
<1> HIDE DEF next
<1>3. q.desc_free_index = 2 * n /\ q.next = next /\ 2 * n # End /\ 2 * n + 1 # End
  BY <1>0, <1>1 DEF Pairs, next
<1>4. Virtio!virtq_get_desc(q) = 2 * n /\ Virtio!TakeDesc(q) = u
  BY <1>2, <1>3 DEF Virtio!virtq_get_desc, Virtio!TakeDesc
<1>5. u.desc_free_index = 2 * n + 1 /\ u.next = next
  BY <1>3 DEF Pairs
<1>6. [u EXCEPT !.desc_free_index = free] = v
  <2> DEFINE at == IF 2 * n = Size THEN End ELSE 2 * n
  <2>1. q = [size |-> Size, next |-> next, desc_free_index |-> at,
             avail |-> ring, avail_idx |-> n, seen |-> 0,
             used |-> none, used_index |-> 0, last_seen_used |-> 0]
    BY DEF Pairs, next
  <2> HIDE DEF q, at, ring, none, free
  <2>2. u = [size |-> Size, next |-> next, desc_free_index |-> 2 * n + 1,
             avail |-> ring, avail_idx |-> n, seen |-> 0,
             used |-> none, used_index |-> 0, last_seen_used |-> 0]
    BY <2>1
  <2> HIDE DEF u
  <2> QED
    BY <2>2
<1>7. Virtio!virtq_get_desc(u) = 2 * n + 1 /\ Virtio!TakeDesc(u) = v
  BY <1>2, <1>3, <1>5, <1>6 DEF Virtio!virtq_get_desc, Virtio!TakeDesc
<1>8. [v EXCEPT !.next[2 * n] = 2 * n + 1] = v
  <2>1. [next EXCEPT ![2 * n] = 2 * n + 1] = next
    BY <1>1, <1>2, <1>n
  <2> QED
    BY <2>1
<1>9. n % Size = n /\ (n + 1) % Word16 = n + 1
  BY <1>0, <1>1, ModSmall
<1>10. [ring EXCEPT ![n] = 2 * n]
         = [i \in 0..Size-1 |-> IF i < n + 1 THEN 2 * i ELSE 0]
  <2>1. \A i \in 0..Size-1 : (i < n + 1 <=> i < n \/ i = n) /\ (i = n => ~(i < n))
    BY <1>0
  <2> QED
    BY <1>1, <2>1
<1>11. Virtio!virtq_push(v, 2 * n) = Pairs(n + 1)
  <2> DEFINE full == [i \in 0..Size-1 |-> IF i < n + 1 THEN 2 * i ELSE 0]
  <2>1. Pairs(n + 1) = [size |-> Size, next |-> next, desc_free_index |-> free,
                        avail |-> full, avail_idx |-> n + 1, seen |-> 0,
                        used |-> none, used_index |-> 0, last_seen_used |-> 0]
    BY DEF Pairs, next
  <2> HIDE DEF ring, none, free, full
  <2>2. Virtio!virtq_push(v, 2 * n)
          = [v EXCEPT !.avail = [ring EXCEPT ![n] = 2 * n], !.avail_idx = n + 1]
    BY <1>9 DEF Virtio!virtq_push
  <2>3. [ring EXCEPT ![n] = 2 * n] = full
    BY <1>10 DEF full
  <2> QED
    BY <2>1, <2>2, <2>3
<1>12. Virtio!AddPair(q)
         = Virtio!virtq_push([Virtio!TakeDesc(Virtio!TakeDesc(q))
              EXCEPT !.next[Virtio!virtq_get_desc(q)]
                = Virtio!virtq_get_desc(Virtio!TakeDesc(q))], Virtio!virtq_get_desc(q))
  BY DEF Virtio!AddPair
<1> QED
  BY <1>4, <1>7, <1>8, <1>11, <1>12

\* init_rx makes Half pairs.
LEMMA PairsStart == Virtio!init_rx = Pairs(Half)
<1> DEFINE body(G, n) == IF n = 0 THEN Virtio!virtq_init(Size) ELSE Virtio!AddPair(G[n - 1])
           F == [n \in 0..Half |-> Pairs(n)]
           Adds(G) == G = [n \in 0..Half |-> body(G, n)]
           W == CHOOSE G : Adds(G)
<1>0. Half \in Nat /\ Size \in Nat /\ Half >= 1 /\ Size = 2 * Half
  BY HalfIs
<1>1. Pairs(0) = Virtio!virtq_init(Size)
  <2>1. 2 * 0 # Size /\ 2 * 0 = 0 /\ \A i \in 0..Size-1 : ~(i < 0)
    BY <1>0
  <2> QED
    BY <2>1 DEF Pairs, Virtio!virtq_init, Virtio!Nothing
<1>2. ASSUME NEW n \in 0..Half, n # 0
      PROVE  Pairs(n) = Virtio!AddPair(Pairs(n - 1)) /\ n - 1 \in 0..Half
  <2>1. n - 1 \in 0..Half - 1 /\ (n - 1) + 1 = n /\ n - 1 \in 0..Half
    BY <1>0, <1>2
  <2> QED
    BY <2>1, PairsGrow
<1>3. Adds(F)
  BY <1>1, <1>2
<1> HIDE DEF F
<1>4. Virtio!init_rx = W[Half]
  BY DEF Virtio!init_rx, Half
<1>5. Adds(W)
  <2> HIDE DEF Adds
  <2>1. \E G : Adds(G)
    BY <1>3
  <2> QED
    BY <2>1
<1> HIDE DEF W
<1> DEFINE same == {n \in 0..Half : W[n] = Pairs(n)}
<1>6. \A n \in 0..Half : W[n] = body(W, n)
  BY <1>5
<1>7. 0 \in same
  BY <1>0, <1>1, <1>6
<1>8. ASSUME NEW n \in 0..(Half - 1), n \in same PROVE n + 1 \in same
  <2>1. n + 1 \in 0..Half /\ (n + 1) - 1 = n /\ n + 1 # 0
    BY <1>0
  <2>2. W[n + 1] = Virtio!AddPair(W[n])
    BY <1>6, <2>1
  <2> QED
    BY <1>8, <2>1, <2>2, PairsGrow
<1> HIDE DEF same
<1>9. 0..Half \subseteq same
  BY <1>0, <1>7, <1>8, UpTo
<1>10. Half \in 0..Half
  BY <1>0
<1> QED
  BY <1>4, <1>9, <1>10 DEF same

\* The pairs of init_rx fill the queue.
LEMMA FillingStart == Filling(Virtio!init_rx, nil) /\ Virtio!init_rx.seen = 0
                      /\ Virtio!init_rx.last_seen_used = 0
<1> DEFINE q == Pairs(Half)
<1>0. /\ Size \in Nat /\ Half \in Nat /\ Half >= 1 /\ Size = 2 * Half
      /\ Word16 \in Nat /\ Half < Word16 /\ nil \notin 0..Size-1
  BY HalfIs
<1>1. /\ q.avail_idx = Half /\ q.seen = 0 /\ q.used_index = 0 /\ q.last_seen_used = 0
      /\ q.desc_free_index = End /\ q.next = Virtio!NextInit(Size) /\ q.size = Size
      /\ q.avail = [i \in 0..Size-1 |-> IF i < Half THEN 2 * i ELSE 0]
  BY <1>0 DEF Pairs
<1>2. q \in Virtio!Queue
  <2>1. Virtio!NextInit(Size) \in [0..Size-1 -> 0..Size-1 \cup {End}]
    <3>1. \A i \in 0..Size-1 : i # Size - 1 => i + 1 \in 0..Size-1
      BY <1>0
    <3> QED
      BY <3>1 DEF Virtio!NextInit
  <2>2. /\ 0 \in 0..Size-1 /\ \A i \in 0..Size-1 : i < Half => 2 * i \in 0..Size-1
    BY <1>0
  <2>3. [i \in 0..Size-1 |-> IF i < Half THEN 2 * i ELSE 0] \in [0..Size-1 -> 0..Size-1]
    BY <2>2
  <2>4. [i \in 0..Size-1 |-> 0] \in [0..Size-1 -> 0..Size-1]
    BY <2>2
  <2>5. (IF 2 * Half = Size THEN End ELSE 2 * Half) \in 0..Size-1 \cup {End}
    BY <1>0
  <2> QED
    BY <1>0, <2>1, <2>3, <2>4, <2>5 DEF Pairs, Virtio!Queue, Virtio!Descs
<1> HIDE DEF q
<1>3. Virtio!Indexes(q)
  BY <1>0, <1>1, IndexesAre
<1>4. Virtio!InFlight(q) = 0..Half - 1
  BY <1>0, <1>1 DEF Virtio!InFlight
<1>5. ASSUME NEW i \in 0..Half - 1
      PROVE  Virtio!HeadAt(q, i) = 2 * i /\ 2 * i \in 0..Size-1 /\ 2 * i # Size - 1
  <2>1. /\ i \in Nat /\ i < Size /\ Size \in Nat \ {0} /\ i < Half /\ ~(i < 0)
        /\ 2 * i \in 0..Size-1 /\ 2 * i # Size - 1 /\ i \in 0..Size-1
    BY <1>0
  <2>2. i % Size = i
    BY <2>1, ModSmall
  <2> QED
    BY <1>1, <2>1, <2>2 DEF Virtio!HeadAt
<1>6. \A i, j \in 0..Half - 1 : i # j => 2 * i # 2 * j
  BY <1>0
<1>7. q.avail_idx - q.last_seen_used + (IF nil = nil THEN 0 ELSE 1) = Half
  BY <1>0, <1>1
<1>8. Filling(q, nil)
  BY <1>0, <1>1, <1>2, <1>3, <1>4, <1>5, <1>6, <1>7 DEF Filling
<1> QED
  BY <1>1, <1>8, PairsStart DEF q

\* The descriptors of the chains for receiving: a header and the next one.
LEMMA FillingIs ==
  ASSUME NEW q, NEW c, Filling(q, c), NEW i \in Virtio!InFlight(q)
  PROVE  /\ i \in Nat /\ Virtio!HeadAt(q, i) \in 0..Size-1
         /\ Virtio!BodyAt(q, i) \in 0..Size-1
         /\ \A j \in Virtio!InFlight(q) : i # j => Virtio!BodyAt(q, i) # Virtio!BodyAt(q, j)
         /\ c # nil => q.next[c] # Virtio!BodyAt(q, i)
<1>0. Size \in Nat /\ q \in Virtio!Queue /\ q.last_seen_used \in Nat /\ q.avail_idx \in Nat
  BY HalfIs, QueueIs DEF Filling
<1>1. \A d \in 0..Size-1 : d # Size - 1 =>
        /\ q.next[d] = d + 1 /\ d + 1 \in 0..Size-1
  BY <1>0 DEF Filling, Virtio!NextInit
<1>2. \A j \in Virtio!InFlight(q) :
        j \in Nat /\ Virtio!HeadAt(q, j) \in 0..Size-1 /\ Virtio!HeadAt(q, j) # Size - 1
  BY <1>0, HeadIs DEF Filling, Virtio!InFlight
<1>3. \A j \in Virtio!InFlight(q) :
        Virtio!BodyAt(q, j) = Virtio!HeadAt(q, j) + 1 /\ Virtio!BodyAt(q, j) \in 0..Size-1
  BY <1>1, <1>2 DEF Virtio!BodyAt
<1>4. ASSUME NEW j \in Virtio!InFlight(q), i # j
      PROVE  Virtio!BodyAt(q, i) # Virtio!BodyAt(q, j)
  <2>1. Virtio!HeadAt(q, i) # Virtio!HeadAt(q, j)
    BY <1>4 DEF Filling
  <2> QED
    BY <1>2, <1>3, <2>1
<1>5. ASSUME c # nil PROVE q.next[c] # Virtio!BodyAt(q, i)
  <2>1. c \in 0..Size-1 /\ c # Size - 1 /\ Virtio!HeadAt(q, i) # c
    BY <1>5 DEF Filling
  <2>2. q.next[c] = c + 1
    BY <1>1, <2>1
  <2> QED
    BY <1>2, <1>3, <2>1, <2>2
<1> QED
  BY <1>2, <1>3, <1>4, <1>5

\* The two queues, now and after a step.
LEMMA SendingIs ==
  /\ Virtio!Sending <=> \E f : Divided(tx, f)
  /\ Virtio!Sending' <=> \E f : Divided(tx', f)
  BY DEF Virtio!Sending, Divided, Virtio!Descs

\* The queue for receiving, now and after a step.
LEMMA ReceivingIs ==
  /\ Virtio!Receiving <=> Filling(rx, e)
  /\ Virtio!Receiving' <=> Filling(rx', e')
  BY DEF Virtio!Receiving, Filling, Virtio!Descs, Half

\* The packets numbered from 1.
Counts(s) == s \in Seq(Nat) /\ \A k \in 1..Len(s) : s[k] = k

\* One more packet.
LEMMA CountsOn ==
  ASSUME NEW s, Counts(s), NEW n, n = Len(s) + 1
  PROVE  Counts(Append(s, n)) /\ Len(Append(s, n)) = Len(s) + 1 /\ Len(s) \in Nat
<1>1. s \in Seq(Nat) /\ Len(s) \in Nat /\ n \in Nat
  BY DEF Counts
<1>2. Append(s, n) \in Seq(Nat) /\ Len(Append(s, n)) = Len(s) + 1
  BY <1>1
<1>3. ASSUME NEW k \in 1..Len(s) + 1 PROVE Append(s, n)[k] = k
  <2>1. CASE k = Len(s) + 1
    BY <1>1, <2>1
  <2>2. CASE k # Len(s) + 1
    <3>1. k \in 1..Len(s)
      BY <1>1, <2>2
    <3> QED
      BY <1>1, <3>1 DEF Counts
  <2> QED
    BY <2>1, <2>2
<1> QED
  BY <1>1, <1>2, <1>3 DEF Counts

\* SentKept and ReceivedKept, of any state.
SentOf(q, buf, s, o) ==
  /\ Counts(s) /\ Counts(o) /\ Len(s) = q.avail_idx /\ Len(s) <= MaxPkts /\ Len(o) = q.seen
  /\ buf \in [0..Size-1 -> 1..MaxPkts \cup {nil}]
  /\ \A i \in q.seen..q.avail_idx - 1 : buf[Virtio!BodyAt(q, i)] = i + 1

ReceivedOf(q, c, buf, a, g) ==
  /\ Counts(a) /\ Counts(g) /\ Len(a) = q.seen /\ Len(a) <= MaxPkts
  /\ Len(g) = q.last_seen_used - (IF c = nil THEN 0 ELSE 1)
  /\ buf \in [0..Size-1 -> Nat \cup {nil}]
  /\ \A i \in q.last_seen_used..q.seen - 1 : buf[Virtio!BodyAt(q, i)] = i + 1
  /\ c # nil => buf[q.next[c]] = Len(g) + 1

\* The packets, now and after a step.
LEMMA KeptIs ==
  /\ Virtio!SentKept <=> SentOf(tx, tx_buf, sent, out)
  /\ Virtio!SentKept' <=> SentOf(tx', tx_buf', sent', out')
  /\ Virtio!ReceivedKept <=> ReceivedOf(rx, e, rx_buf, arrived, got)
  /\ Virtio!ReceivedKept' <=> ReceivedOf(rx', e', rx_buf', arrived', got')
  BY DEF Virtio!SentKept, SentOf, Virtio!ReceivedKept, ReceivedOf, Counts, Virtio!Descs

\* A step that leaves the sending side alone.
LEMMA TxSame ==
  ASSUME Virtio!Sending, Virtio!SentKept, UNCHANGED <<tx, tx_buf, sent, out>>
  PROVE  Virtio!Sending' /\ Virtio!SentKept'
  BY SendingIs, KeptIs

\* A step that leaves the receiving side alone.
LEMMA RxSame ==
  ASSUME Virtio!Receiving, Virtio!ReceivedKept, UNCHANGED <<rx, e, rx_buf, arrived, got>>
  PROVE  Virtio!Receiving' /\ Virtio!ReceivedKept'
  BY ReceivingIs, KeptIs

\* The indexes of a queue, as numbers.
LEMMA IndexNumbers ==
  ASSUME NEW q \in Virtio!Queue, Virtio!Indexes(q)
  PROVE  /\ q.avail_idx \in Nat /\ q.seen \in Nat /\ q.last_seen_used \in Nat
         /\ q.last_seen_used <= q.seen /\ q.seen <= q.avail_idx /\ q.used_index = q.seen
         /\ q.avail_idx - q.last_seen_used <= Half
         /\ \A i \in q.seen..q.avail_idx - 1 : i \in Virtio!InFlight(q)
         /\ \A i \in q.last_seen_used..q.seen - 1 : i \in Virtio!InFlight(q)
  BY QueueIs, IndexesAre DEF Virtio!InFlight

\* The device sends the packet that waits longest.
LEMMA TransmitsInv ==
  ASSUME Virtio!VirtioInv, Virtio!DeviceTransmits
  PROVE  Virtio!VirtioInv'
<1>1. Virtio!Receiving' /\ Virtio!ReceivedKept'
  BY RxSame DEF Virtio!VirtioInv, Virtio!DeviceTransmits
<1>2. PICK f : Divided(tx, f)
  BY SendingIs DEF Virtio!VirtioInv
<1>3. /\ TransmitOf(tx', tx, f) /\ out' = Append(out, tx_buf[tx.next[Virtio!Chain(tx)]])
      /\ UNCHANGED <<tx_buf, sent>> /\ tx.seen # tx.avail_idx
  BY <1>2, TransmitProps DEF Virtio!DeviceTransmits, Virtio!IsAvailable
<1>4. /\ Divided(tx', f) /\ SameChains(tx', tx) /\ tx'.avail_idx = tx.avail_idx
      /\ tx'.seen = tx.seen + 1 /\ tx.next[Virtio!Chain(tx)] = Virtio!BodyAt(tx, tx.seen)
  BY <1>3 DEF TransmitOf
<1>5. SentOf(tx, tx_buf, sent, out)
  BY KeptIs DEF Virtio!VirtioInv
<1>6. tx \in Virtio!Queue /\ Virtio!Indexes(tx) /\ tx' \in Virtio!Queue /\ Virtio!Indexes(tx')
  BY <1>2, <1>4 DEF Divided
<1>7. tx.seen \in Nat /\ tx.avail_idx \in Nat /\ tx.seen < tx.avail_idx
  BY <1>3, <1>6, IndexNumbers
<1>8. tx.seen \in tx.seen..tx.avail_idx - 1
  BY <1>7
<1>9. tx_buf[Virtio!BodyAt(tx, tx.seen)] = tx.seen + 1
  BY <1>5, <1>8 DEF SentOf
<1>10. Counts(out') /\ Len(out') = tx'.seen
  <2>1. Counts(out) /\ out' = Append(out, Len(out) + 1) /\ Len(out) = tx.seen
    BY <1>3, <1>4, <1>5, <1>9 DEF SentOf
  <2> QED
    BY <1>4, <2>1, CountsOn
<1>11. ASSUME NEW i \in tx'.seen..tx'.avail_idx - 1
       PROVE  tx_buf'[Virtio!BodyAt(tx', i)] = i + 1
  <2>1. i \in tx.seen..tx.avail_idx - 1
    BY <1>4, <1>7
  <2>2. Virtio!BodyAt(tx', i) = Virtio!BodyAt(tx, i)
    BY <1>4, <1>6, IndexNumbers DEF SameChains
  <2> QED
    BY <1>3, <1>5, <2>1, <2>2 DEF SentOf
<1>12. SentOf(tx', tx_buf', sent', out')
  BY <1>3, <1>4, <1>5, <1>10, <1>11 DEF SentOf
<1>13. Virtio!Told'
  BY DEF Virtio!VirtioInv, Virtio!Told, Virtio!DeviceTransmits, Virtio!IsUsed
<1> QED
  BY <1>1, <1>4, <1>12, <1>13, SendingIs, KeptIs DEF Virtio!VirtioInv

\* The stack sends a packet, or drops it.
LEMMA SendInv ==
  ASSUME Virtio!VirtioInv, Virtio!send_pkt
  PROVE  Virtio!VirtioInv'
<1>1. Virtio!Receiving' /\ Virtio!ReceivedKept'
  BY RxSame DEF Virtio!VirtioInv, Virtio!send_pkt
<1> DEFINE h == Virtio!virtq_get_desc(tx)
           b == Virtio!virtq_get_desc(Virtio!TakeDesc(tx))
           n == Len(sent) + 1
<1>2. PICK f : Divided(tx, f)
  BY SendingIs DEF Virtio!VirtioInv
<1>3. SentOf(tx, tx_buf, sent, out)
  BY KeptIs DEF Virtio!VirtioInv
<1>4. tx \in Virtio!Queue /\ Virtio!Indexes(tx) /\ f \in Seq(0..Size-1)
  BY <1>2 DEF Divided
<1>5. tx.seen \in Nat /\ tx.avail_idx \in Nat /\ tx.seen <= tx.avail_idx
  BY <1>4, IndexNumbers
<1>6. Len(sent) = tx.avail_idx /\ Len(sent) < MaxPkts /\ UNCHANGED out
  BY <1>3 DEF SentOf, Virtio!send_pkt
<1>7. CASE h = End \/ b = End
  <2>1. tx' = Virtio!TakeDesc(Virtio!TakeDesc(tx)) /\ UNCHANGED <<tx_buf, sent>>
    BY <1>7 DEF Virtio!send_pkt
  <2>2. f = <<>>
    <3> SUFFICES ASSUME f # <<>> PROVE FALSE
      OBVIOUS
    <3>1. tx.avail_idx + 1 < Word16
      BY <1>5, <1>6, HalfIs
    <3>2. h \in 0..Size-1 /\ b \in 0..Size-1
      BY <1>2, <3>1, SendProps DEF SendOf
    <3> QED
      BY <1>7, <3>2, HalfIs
  <2>3. tx' = tx
    BY <1>2, <2>1, <2>2, SendNone
  <2>4. Virtio!Sending' /\ Virtio!SentKept'
    BY <1>6, <2>1, <2>3, TxSame DEF Virtio!VirtioInv
  <2>5. Virtio!Told'
    BY <2>3 DEF Virtio!VirtioInv, Virtio!Told, Virtio!send_pkt, Virtio!irq, Virtio!IsUsed
  <2> QED
    BY <1>1, <2>4, <2>5 DEF Virtio!VirtioInv
<1>8. CASE ~(h = End \/ b = End)
  <2>1. /\ tx' = Virtio!virtq_push([Virtio!TakeDesc(Virtio!TakeDesc(tx)) EXCEPT !.next[h] = b], h)
        /\ tx_buf' = [tx_buf EXCEPT ![b] = n] /\ sent' = Append(sent, n)
    BY <1>8 DEF Virtio!send_pkt, Virtio!Filled
  <2>2. f # <<>>
    BY <1>2, <1>8, SendNone
  <2>3. tx.avail_idx + 1 < Word16 /\ n \in 1..MaxPkts
    BY <1>5, <1>6, HalfIs
  <2>4. SendOf(h, b, tx', tx)
    BY <1>2, <2>1, <2>2, <2>3, SendProps
  <2> HIDE DEF h, b
  <2>5. /\ b \in 0..Size-1 /\ \E g : Divided(tx', g)
        /\ tx'.avail_idx = tx.avail_idx + 1 /\ tx'.seen = tx.seen
        /\ Virtio!BodyAt(tx', tx.avail_idx) = b
        /\ \A i \in Virtio!InFlight(tx) : /\ Virtio!BodyAt(tx', i) = Virtio!BodyAt(tx, i)
                                          /\ Virtio!BodyAt(tx, i) # b
    BY <2>4 DEF SendOf
  <2>6. tx_buf \in [0..Size-1 -> 1..MaxPkts \cup {nil}] /\ Counts(sent) /\ Counts(out)
        /\ Len(out) = tx.seen
    BY <1>3 DEF SentOf
  <2>7. tx_buf' \in [0..Size-1 -> 1..MaxPkts \cup {nil}] /\ tx_buf'[b] = n
    BY <2>1, <2>3, <2>5, <2>6
  <2>8. Counts(sent') /\ Len(sent') = tx'.avail_idx /\ Len(sent') <= MaxPkts
    <3>1. Counts(sent') /\ Len(sent') = Len(sent) + 1
      BY <2>1, <2>6, CountsOn
    <3> QED
      BY <1>6, <2>3, <2>5, <3>1
  <2>9. ASSUME NEW i \in tx'.seen..tx'.avail_idx - 1
        PROVE  tx_buf'[Virtio!BodyAt(tx', i)] = i + 1
    <3>1. i = tx.avail_idx \/ i \in tx.seen..tx.avail_idx - 1
      BY <1>5, <2>5
    <3>2. CASE i = tx.avail_idx
      BY <1>6, <2>5, <2>7, <3>2
    <3>3. CASE i \in tx.seen..tx.avail_idx - 1
      <4>1. i \in Virtio!InFlight(tx)
        BY <1>4, <3>3, IndexNumbers
      <4>2. Virtio!BodyAt(tx, i) \in 0..Size-1
        BY <1>2, <4>1, ChainsAre
      <4>3. tx_buf[Virtio!BodyAt(tx, i)] = i + 1
        BY <1>3, <3>3 DEF SentOf
      <4> QED
        BY <2>1, <2>5, <2>6, <4>1, <4>2, <4>3
    <3> QED
      BY <3>1, <3>2, <3>3
  <2>10. SentOf(tx', tx_buf', sent', out')
    BY <1>6, <2>5, <2>6, <2>7, <2>8, <2>9 DEF SentOf
  <2>11. PICK g : Divided(tx', g)
    BY <2>5
  <2>12. tx' \in Virtio!Queue /\ Virtio!Indexes(tx')
    BY <2>11 DEF Divided
  <2>13. tx'.used_index = tx.used_index
    BY <1>4, <2>5, <2>12, IndexNumbers
  <2>14. tx'.last_seen_used = tx.last_seen_used
    BY <2>1 DEF Virtio!virtq_push, Virtio!TakeDesc
  <2>15. Virtio!Told'
    BY <2>13, <2>14
    DEF Virtio!VirtioInv, Virtio!Told, Virtio!send_pkt, Virtio!irq, Virtio!IsUsed
  <2> QED
    BY <1>1, <2>5, <2>10, <2>15, SendingIs, KeptIs DEF Virtio!VirtioInv
<1> QED
  BY <1>7, <1>8

\* The driver takes a chain that was sent apart.
LEMMA FreesInv ==
  ASSUME Virtio!VirtioInv, Virtio!process_tx
  PROVE  Virtio!VirtioInv'
<1>1. Virtio!Receiving' /\ Virtio!ReceivedKept'
  BY RxSame DEF Virtio!VirtioInv, Virtio!process_tx
<1>2. PICK f : Divided(tx, f)
  BY SendingIs DEF Virtio!VirtioInv
<1>3. SentOf(tx, tx_buf, sent, out)
  BY KeptIs DEF Virtio!VirtioInv
<1>4. FreedOf(tx', tx) /\ UNCHANGED <<tx_buf, sent, out>>
  BY <1>2, FreedProps DEF Virtio!process_tx
<1>5. PICK g : Divided(tx', g)
  BY <1>4 DEF FreedOf
<1>6. tx'.avail_idx = tx.avail_idx /\ tx'.seen = tx.seen /\ SameChains(tx', tx)
  BY <1>4 DEF FreedOf
<1>7. tx' \in Virtio!Queue /\ Virtio!Indexes(tx')
  BY <1>5 DEF Divided
<1>8. ASSUME NEW i \in tx'.seen..tx'.avail_idx - 1
      PROVE  tx_buf'[Virtio!BodyAt(tx', i)] = i + 1
  <2>1. Virtio!BodyAt(tx', i) = Virtio!BodyAt(tx, i)
    BY <1>6, <1>7, IndexNumbers DEF SameChains
  <2> QED
    BY <1>3, <1>4, <1>6, <2>1 DEF SentOf
<1>9. SentOf(tx', tx_buf', sent', out')
  BY <1>3, <1>4, <1>6, <1>8 DEF SentOf
<1>10. Virtio!Told'
  <2>1. /\ Virtio!Told /\ pc = "tx" /\ e' = e /\ pc' = pc /\ interrupt_status' = 0
        /\ UNCHANGED <<rx, masked, signal>>
        /\ missed' = (missed \/ (Virtio!IsUsed(rx) /\ ~signal))
    BY DEF Virtio!VirtioInv, Virtio!process_tx
  <2>2. Virtio!IsUsed(rx)' <=> Virtio!IsUsed(rx)
    BY <2>1 DEF Virtio!IsUsed
  <2>3. missed' \in BOOLEAN /\ (~signal /\ Virtio!IsUsed(rx) => missed')
    BY <2>1 DEF Virtio!Told
  <2> QED
    BY <2>1, <2>2, <2>3 DEF Virtio!Told
<1> QED
  BY <1>1, <1>5, <1>9, <1>10, SendingIs, KeptIs DEF Virtio!VirtioInv

\* The device receives a packet.
LEMMA ReceivesInv ==
  ASSUME Virtio!VirtioInv, Virtio!DeviceReceives
  PROVE  Virtio!VirtioInv'
<1>1. Virtio!Sending' /\ Virtio!SentKept'
  BY TxSame DEF Virtio!VirtioInv, Virtio!DeviceReceives
<1> DEFINE s == rx.seen
           d == Virtio!BodyAt(rx, s)
           n == Len(arrived) + 1
<1>2. Filling(rx, e) /\ ReceivedOf(rx, e, rx_buf, arrived, got)
  BY ReceivingIs, KeptIs DEF Virtio!VirtioInv
<1>3. rx \in Virtio!Queue /\ Virtio!Indexes(rx)
  BY <1>2 DEF Filling
<1>4. Used(rx', rx)
  BY <1>3, UseProps DEF Virtio!DeviceReceives
<1>5. /\ rx' \in Virtio!Queue /\ Virtio!Indexes(rx') /\ rx'.next = rx.next
      /\ rx'.desc_free_index = rx.desc_free_index /\ rx'.avail_idx = rx.avail_idx
      /\ rx'.seen = s + 1 /\ rx'.last_seen_used = rx.last_seen_used
      /\ s \in Virtio!InFlight(rx) /\ Virtio!Chain(rx) = Virtio!HeadAt(rx, s)
      /\ Virtio!InFlight(rx') = Virtio!InFlight(rx)
      /\ \A i \in Virtio!InFlight(rx) : Virtio!HeadAt(rx', i) = Virtio!HeadAt(rx, i)
  BY <1>4 DEF Used
<1>6. /\ rx_buf' = [rx_buf EXCEPT ![d] = n] /\ arrived' = Append(arrived, n)
      /\ Len(arrived) < MaxPkts /\ UNCHANGED <<e, got>>
  BY <1>5 DEF Virtio!DeviceReceives, Virtio!BodyAt
<1>7. Filling(rx', e')
  BY <1>2, <1>5, <1>6 DEF Filling
<1>8. d \in 0..Size-1
  BY <1>2, <1>5, FillingIs
<1> HIDE DEF d
<1>9. /\ Counts(arrived) /\ Counts(got) /\ Len(arrived) = s
      /\ Len(got) = rx.last_seen_used - (IF e = nil THEN 0 ELSE 1)
      /\ rx_buf \in [0..Size-1 -> Nat \cup {nil}]
  BY <1>2 DEF ReceivedOf
<1>10. /\ s \in Nat /\ rx.last_seen_used \in Nat /\ MaxPkts \in Nat /\ rx.avail_idx \in Nat
  BY <1>3, IndexNumbers, HalfIs
<1>11. Counts(arrived') /\ Len(arrived') = s + 1 /\ Len(arrived') <= MaxPkts
  <2>1. Counts(arrived') /\ Len(arrived') = Len(arrived) + 1
    BY <1>6, <1>9, CountsOn
  <2> QED
    BY <1>6, <1>9, <1>10, <2>1
<1>12. rx_buf' \in [0..Size-1 -> Nat \cup {nil}] /\ rx_buf'[d] = s + 1
  <2>1. n = s + 1 /\ n \in Nat
    BY <1>9, <1>10
  <2> QED
    BY <1>6, <1>8, <1>9, <2>1
<1>13. ASSUME NEW i \in rx'.last_seen_used..rx'.seen - 1
       PROVE  rx_buf'[Virtio!BodyAt(rx', i)] = i + 1
  <2>1. i = s \/ i \in rx.last_seen_used..s - 1
    BY <1>5, <1>10
  <2>2. CASE i = s
    <3>1. Virtio!BodyAt(rx', i) = d
      BY <1>5, <2>2 DEF Virtio!BodyAt, d
    <3> QED
      BY <1>12, <2>2, <3>1
  <2>3. CASE i \in rx.last_seen_used..s - 1
    <3>1. i \in Virtio!InFlight(rx) /\ i # s
      BY <1>3, <1>10, <2>3, IndexNumbers
    <3>2. Virtio!BodyAt(rx', i) = Virtio!BodyAt(rx, i)
      BY <1>5, <3>1 DEF Virtio!BodyAt
    <3>3. Virtio!BodyAt(rx, i) \in 0..Size-1 /\ Virtio!BodyAt(rx, i) # d
      BY <1>2, <1>5, <3>1, FillingIs DEF d
    <3>4. rx_buf[Virtio!BodyAt(rx, i)] = i + 1
      BY <1>2, <2>3 DEF ReceivedOf
    <3> QED
      BY <1>6, <1>9, <3>2, <3>3, <3>4
  <2> QED
    BY <2>1, <2>2, <2>3
<1>14. ASSUME e # nil PROVE rx_buf'[rx'.next[e']] = Len(got') + 1
  <2>1. rx.next[e] # d
    BY <1>2, <1>5, <1>14, FillingIs DEF d
  <2>2. rx.next[e] \in 0..Size-1
    <3>1. e \in 0..Size-1 /\ e # Size - 1 /\ rx.next = Virtio!NextInit(Size)
      BY <1>2, <1>14 DEF Filling
    <3>2. e + 1 \in 0..Size-1
      BY <3>1, HalfIs
    <3> QED
      BY <3>1, <3>2 DEF Virtio!NextInit
  <2>3. rx_buf[rx.next[e]] = Len(got) + 1
    BY <1>2, <1>14 DEF ReceivedOf
  <2> QED
    BY <1>5, <1>6, <1>9, <2>1, <2>2, <2>3
<1>15. ReceivedOf(rx', e', rx_buf', arrived', got')
  BY <1>5, <1>6, <1>9, <1>11, <1>12, <1>13, <1>14 DEF ReceivedOf
<1>16. Virtio!Told'
  BY DEF Virtio!VirtioInv, Virtio!Told, Virtio!DeviceReceives, Virtio!IsUsed
<1> QED
  BY <1>1, <1>7, <1>15, <1>16, ReceivingIs, KeptIs DEF Virtio!VirtioInv

\* The driver takes a chain that was received.
LEMMA PopsInv ==
  ASSUME Virtio!VirtioInv, Virtio!PopRx
  PROVE  Virtio!VirtioInv'
<1>1. Virtio!Sending' /\ Virtio!SentKept'
  BY TxSame DEF Virtio!VirtioInv, Virtio!PopRx, Virtio!hist
<1> DEFINE l == rx.last_seen_used
<1>2. Filling(rx, e) /\ ReceivedOf(rx, e, rx_buf, arrived, got)
  BY ReceivingIs, KeptIs DEF Virtio!VirtioInv
<1>3. rx \in Virtio!Queue /\ Virtio!Indexes(rx)
  BY <1>2 DEF Filling
<1>4. PoppedOf(rx', rx)
  BY <1>3, PopProps DEF Virtio!PopRx
<1>5. /\ rx' \in Virtio!Queue /\ Virtio!Indexes(rx') /\ rx'.next = rx.next
      /\ rx'.desc_free_index = rx.desc_free_index /\ rx'.avail_idx = rx.avail_idx
      /\ rx'.seen = rx.seen /\ rx'.last_seen_used = l + 1 /\ l < rx.seen
      /\ l \in Virtio!InFlight(rx) /\ Virtio!virtq_pop(rx) = Virtio!HeadAt(rx, l)
      /\ Virtio!InFlight(rx') = Virtio!InFlight(rx) \ {l}
      /\ \A i \in Virtio!InFlight(rx) : Virtio!HeadAt(rx', i) = Virtio!HeadAt(rx, i)
  BY <1>4 DEF PoppedOf
<1>6. /\ e = nil /\ e' = Virtio!HeadAt(rx, l) /\ UNCHANGED <<rx_buf, arrived, got>>
  BY <1>5 DEF Virtio!PopRx, Virtio!hist
<1>7. /\ l \in Nat /\ rx.avail_idx \in Nat /\ rx.seen \in Nat
      /\ Half \in Nat /\ nil \notin 0..Size-1
  BY <1>3, IndexNumbers, HalfIs
<1>8. e' \in 0..Size-1 /\ e' # nil /\ e' # Size - 1
  <2>1. e' \in 0..Size-1
    BY <1>2, <1>5, <1>6, FillingIs
  <2> QED
    BY <1>2, <1>5, <1>6, <1>7, <2>1 DEF Filling
<1>9. rx'.avail_idx - rx'.last_seen_used + (IF e' = nil THEN 0 ELSE 1) = Half
  <2>1. rx.avail_idx - l + 0 = Half
    BY <1>2, <1>6 DEF Filling
  <2>2. rx.avail_idx - (l + 1) + 1 = Half
    BY ONLY <1>7, <2>1
  <2> QED
    BY <1>5, <1>8, <2>2
<1>10. \A i \in Virtio!InFlight(rx') :
         /\ Virtio!HeadAt(rx', i) # e' /\ Virtio!HeadAt(rx', i) # Size - 1
         /\ \A j \in Virtio!InFlight(rx') : i # j => Virtio!HeadAt(rx', i) # Virtio!HeadAt(rx', j)
  BY <1>2, <1>5, <1>6 DEF Filling
<1>11. Filling(rx', e')
  BY <1>2, <1>5, <1>8, <1>9, <1>10 DEF Filling
<1>12. /\ Counts(arrived) /\ Counts(got) /\ Len(arrived) = rx.seen /\ Len(arrived) <= MaxPkts
       /\ Len(got) = l /\ rx_buf \in [0..Size-1 -> Nat \cup {nil}]
       /\ \A i \in l..rx.seen - 1 : rx_buf[Virtio!BodyAt(rx, i)] = i + 1
  <2>1. Len(got) = l - 0
    BY <1>2, <1>6 DEF ReceivedOf
  <2> QED
    BY <1>2, <1>7, <2>1 DEF ReceivedOf
<1>13. ASSUME NEW i \in rx'.last_seen_used..rx'.seen - 1
       PROVE  rx_buf'[Virtio!BodyAt(rx', i)] = i + 1
  <2>1. i \in l..rx.seen - 1
    BY <1>5, <1>7
  <2>2. Virtio!BodyAt(rx', i) = Virtio!BodyAt(rx, i)
    BY <1>3, <1>5, <2>1, IndexNumbers DEF Virtio!BodyAt
  <2> QED
    BY <1>6, <1>12, <2>1, <2>2
<1>14. rx_buf'[rx'.next[e']] = Len(got') + 1
  <2>1. l \in l..rx.seen - 1
    BY <1>5, <1>7
  <2>2. rx_buf[Virtio!BodyAt(rx, l)] = l + 1
    BY <1>12, <2>1
  <2> QED
    BY <1>5, <1>6, <1>12, <2>2 DEF Virtio!BodyAt
<1>15. Len(got') = rx'.last_seen_used - (IF e' = nil THEN 0 ELSE 1)
  <2>1. (l + 1) - 1 = l
    BY <1>7
  <2> QED
    BY <1>5, <1>6, <1>8, <1>12, <2>1
<1>16. ReceivedOf(rx', e', rx_buf', arrived', got')
  BY <1>5, <1>6, <1>12, <1>13, <1>14, <1>15 DEF ReceivedOf
<1>17. Virtio!Told'
  BY DEF Virtio!VirtioInv, Virtio!Told, Virtio!PopRx, Virtio!IsUsed, Virtio!hist
<1> QED
  BY <1>1, <1>11, <1>16, <1>17, ReceivingIs, KeptIs DEF Virtio!VirtioInv

\* The stack reads the packet, and the chain is the device's again.
LEMMA ProcessInv ==
  ASSUME Virtio!VirtioInv, Virtio!process_rx
  PROVE  Virtio!VirtioInv'
<1>1. Virtio!Sending' /\ Virtio!SentKept'
  BY TxSame DEF Virtio!VirtioInv, Virtio!process_rx
<1> DEFINE l == rx.last_seen_used
           a == rx.avail_idx
<1>2. Filling(rx, e) /\ ReceivedOf(rx, e, rx_buf, arrived, got)
  BY ReceivingIs, KeptIs DEF Virtio!VirtioInv
<1>3. rx \in Virtio!Queue /\ Virtio!Indexes(rx)
  BY <1>2 DEF Filling
<1>4. /\ l \in Nat /\ a \in Nat /\ rx.seen \in Nat /\ l <= rx.seen /\ rx.seen <= a
      /\ Half \in Nat /\ MaxPkts \in Nat /\ Word16 \in Nat /\ MaxPkts + Half < Word16
  BY <1>3, IndexNumbers, HalfIs
<1>5. /\ e # nil /\ e' = nil /\ rx' = Virtio!virtq_push(rx, e)
      /\ got' = Append(got, rx_buf[rx.next[e]]) /\ UNCHANGED <<rx_buf, arrived>>
  BY DEF Virtio!process_rx
<1>6. /\ e \in 0..Size-1 /\ e # Size - 1 /\ a - l + 1 = Half
  BY <1>2, <1>5 DEF Filling
<1>7. /\ Counts(arrived) /\ Counts(got) /\ Len(arrived) = rx.seen /\ Len(arrived) <= MaxPkts
      /\ Len(got) = l - 1 /\ rx_buf \in [0..Size-1 -> Nat \cup {nil}]
      /\ \A i \in l..rx.seen - 1 : rx_buf[Virtio!BodyAt(rx, i)] = i + 1
      /\ rx_buf[rx.next[e]] = Len(got) + 1
  BY <1>2, <1>5 DEF ReceivedOf
<1>8. Pushed(rx', rx, e)
  <2>1. a + 1 < Word16 /\ a - l + 1 <= Half
    <3>1. rx.seen <= MaxPkts
      BY <1>7
    <3> QED
      BY ONLY <1>4, <1>6, <3>1
  <2> QED
    BY <1>3, <1>5, <1>6, <2>1, PushProps
<1>9. /\ rx' \in Virtio!Queue /\ Virtio!Indexes(rx') /\ rx'.next = rx.next
      /\ rx'.desc_free_index = rx.desc_free_index /\ rx'.avail_idx = a + 1
      /\ rx'.seen = rx.seen /\ rx'.last_seen_used = l
      /\ Virtio!HeadAt(rx', a) = e /\ a \notin Virtio!InFlight(rx)
      /\ Virtio!InFlight(rx') = Virtio!InFlight(rx) \cup {a}
      /\ \A i \in Virtio!InFlight(rx) : Virtio!HeadAt(rx', i) = Virtio!HeadAt(rx, i)
  BY <1>8 DEF Pushed
<1>10. \A i \in Virtio!InFlight(rx') : Virtio!HeadAt(rx', i) \in 0..Size-1
  <2>1. \A i \in Virtio!InFlight(rx) : Virtio!HeadAt(rx, i) \in 0..Size-1
    BY <1>2, FillingIs
  <2> QED
    BY <1>6, <1>9, <2>1
<1>11. \A i \in Virtio!InFlight(rx') :
         /\ Virtio!HeadAt(rx', i) # e' /\ Virtio!HeadAt(rx', i) # Size - 1
         /\ \A j \in Virtio!InFlight(rx') : i # j => Virtio!HeadAt(rx', i) # Virtio!HeadAt(rx', j)
  <2>1. \A i \in Virtio!InFlight(rx') : Virtio!HeadAt(rx', i) # e'
    BY <1>5, <1>10, HalfIs
  <2>2. \A i \in Virtio!InFlight(rx) :
          /\ Virtio!HeadAt(rx, i) # e /\ Virtio!HeadAt(rx, i) # Size - 1
          /\ \A j \in Virtio!InFlight(rx) : i # j => Virtio!HeadAt(rx, i) # Virtio!HeadAt(rx, j)
    BY <1>2 DEF Filling
  <2> QED
    BY <1>6, <1>9, <2>1, <2>2
<1>12. rx'.avail_idx - rx'.last_seen_used + (IF e' = nil THEN 0 ELSE 1) = Half
  <2>1. (a + 1) - l + 0 = Half
    BY ONLY <1>4, <1>6
  <2> QED
    BY <1>5, <1>9, <2>1
<1>13. Filling(rx', e')
  BY <1>2, <1>5, <1>9, <1>11, <1>12 DEF Filling
<1>14. Counts(got') /\ Len(got') = l
  <2>1. Counts(got') /\ Len(got') = Len(got) + 1
    BY <1>5, <1>7, CountsOn
  <2> QED
    BY <1>4, <1>7, <2>1
<1>15. Len(got') = rx'.last_seen_used - (IF e' = nil THEN 0 ELSE 1)
  <2>1. l - 0 = l
    BY <1>4
  <2> QED
    BY <1>5, <1>9, <1>14, <2>1
<1>16. ASSUME NEW i \in rx'.last_seen_used..rx'.seen - 1
       PROVE  rx_buf'[Virtio!BodyAt(rx', i)] = i + 1
  <2>1. i \in l..rx.seen - 1
    BY <1>9
  <2>2. Virtio!BodyAt(rx', i) = Virtio!BodyAt(rx, i)
    BY <1>3, <1>9, <2>1, IndexNumbers DEF Virtio!BodyAt
  <2> QED
    BY <1>5, <1>7, <2>1, <2>2
<1>17. ReceivedOf(rx', e', rx_buf', arrived', got')
  BY <1>5, <1>7, <1>9, <1>14, <1>15, <1>16 DEF ReceivedOf
<1>18. Virtio!Told'
  BY <1>9 DEF Virtio!VirtioInv, Virtio!Told, Virtio!process_rx, Virtio!IsUsed, Virtio!irq
<1> QED
  BY <1>1, <1>13, <1>17, <1>18, ReceivingIs, KeptIs DEF Virtio!VirtioInv

\* The rings are empty, or full of the pairs of init_rx.
LEMMA VirtioStart ==
  ASSUME Virtio!Init
  PROVE  Virtio!VirtioInv
<1>0. /\ MaxPkts \in Nat /\ Half \in Nat /\ Size \in Nat
  BY HalfIs
<1>1. /\ rx = Virtio!init_rx /\ tx = Virtio!virtq_init(Size) /\ e = nil
      /\ rx_buf = [i \in 0..Size-1 |-> nil] /\ tx_buf = [i \in 0..Size-1 |-> nil]
      /\ arrived = <<>> /\ got = <<>> /\ sent = <<>> /\ out = <<>>
  BY DEF Virtio!Init, Virtio!init_tx
<1>2. tx.avail_idx = 0 /\ tx.seen = 0 /\ tx.used_index = 0 /\ tx.last_seen_used = 0
  BY <1>1 DEF Virtio!virtq_init
<1>3. Filling(rx, e) /\ rx.seen = 0 /\ rx.last_seen_used = 0
  BY <1>1, FillingStart
<1>4. Counts(<<>>) /\ Len(<<>>) = 0
  BY DEF Counts
<1>5. SentOf(tx, tx_buf, sent, out)
  BY <1>0, <1>1, <1>2, <1>4 DEF SentOf
<1>6. ReceivedOf(rx, e, rx_buf, arrived, got)
  BY <1>0, <1>1, <1>3, <1>4 DEF ReceivedOf
<1>7. rx.used_index = 0
  <2>1. Virtio!Indexes(rx)
    BY <1>3 DEF Filling
  <2> QED
    BY <1>3, <2>1, IndexesAre
<1>8. Virtio!Told
  <2>1. pc = "recv" /\ e = nil /\ interrupt_status = 0 /\ ~masked /\ ~signal
        /\ masked \in BOOLEAN /\ signal \in BOOLEAN /\ missed \in BOOLEAN
    BY DEF Virtio!Init
  <2>2. ~Virtio!IsUsed(rx) /\ ~Virtio!IsUsed(tx)
    BY <1>2, <1>3, <1>7 DEF Virtio!IsUsed
  <2> QED
    BY <2>1, <2>2 DEF Virtio!Told
<1>9. Virtio!Sending
  BY <1>1, DividedStart, SendingIs
<1> QED
  BY <1>3, <1>5, <1>6, <1>8, <1>9, ReceivingIs, KeptIs DEF Virtio!VirtioInv

\* Every step of the driver, the device and the kernel keeps the invariant.
LEMMA VirtioStep ==
  ASSUME Virtio!VirtioInv, [Next]_vars
  PROVE  Virtio!VirtioInv'
<1>1. ASSUME UNCHANGED <<tx, rx, tx_buf, rx_buf, e, arrived, got, sent, out>>
      PROVE  /\ Virtio!Sending' /\ Virtio!SentKept' /\ Virtio!Receiving' /\ Virtio!ReceivedKept'
             /\ (Virtio!IsUsed(tx)' <=> Virtio!IsUsed(tx))
             /\ (Virtio!IsUsed(rx)' <=> Virtio!IsUsed(rx))
  BY <1>1, TxSame, RxSame DEF Virtio!VirtioInv, Virtio!IsUsed
<1>2. CASE UNCHANGED driver
  BY <1>1, <1>2 DEF driver, Virtio!VirtioInv, Virtio!Told, Virtio!hist
<1>3. CASE Virtio!Interrupt
  BY <1>1, <1>3
  DEF Virtio!Interrupt, Virtio!VirtioInv, Virtio!Told, Virtio!hist
<1>4. CASE Virtio!RecvSignal
  <2>1. Virtio!Acked("start").status = 0 /\ Virtio!Acked("start").masked = FALSE
    BY DEF Virtio!Acked
  <2>2. /\ pc' = "rx" /\ interrupt_status' = 0 /\ ~masked' /\ masked' \in BOOLEAN
        /\ signal' \in BOOLEAN /\ missed' \in BOOLEAN
    BY <1>4, <2>1 DEF Virtio!RecvSignal, Virtio!hist, Virtio!VirtioInv, Virtio!Told
  <2>3. Virtio!Told'
    BY <2>2 DEF Virtio!Told
  <2> QED
    BY <1>1, <1>4, <2>3 DEF Virtio!RecvSignal, Virtio!VirtioInv, Virtio!hist
<1>5. CASE Virtio!RxEmpty
  BY <1>1, <1>5 DEF Virtio!RxEmpty, Virtio!VirtioInv, Virtio!Told, Virtio!irq
<1>6. CASE Virtio!TxEmpty
  BY <1>1, <1>6
  DEF Virtio!TxEmpty, Virtio!Acked, Virtio!VirtioInv, Virtio!Told, Virtio!hist
<1>7. CASE Virtio!Next
  BY <1>3, <1>4, <1>5, <1>6, <1>7, ReceivesInv, TransmitsInv, SendInv, PopsInv, ProcessInv,
     FreesInv
  DEF Virtio!Next, Virtio!Handling
<1> QED
  BY <1>2, <1>7 DEF Next, vars

\* Every descriptor for sending is free or in one chain.
LEMMA DividedIs ==
  ASSUME NEW f, Divided(tx, f)
  PROVE  Virtio!DescsDivided
<1>1. /\ tx \in Virtio!Queue /\ Virtio!Indexes(tx) /\ f \in Seq(0..Size-1)
      /\ Virtio!FreeList(tx, f)
      /\ Len(f) + 2 * (tx.avail_idx - tx.last_seen_used) = Size
  BY DEF Divided
<1>2. Len(f) <= Size
  <2>1. /\ tx.avail_idx \in Nat /\ tx.last_seen_used \in Nat /\ tx.seen \in Nat
        /\ tx.last_seen_used <= tx.seen /\ tx.seen <= tx.avail_idx
        /\ Len(f) \in Nat /\ Size \in Nat
    BY <1>1, IndexNumbers, HalfIs
  <2> QED
    BY ONLY <1>1, <2>1
<1>3. Virtio!FreeDescs(tx) = ListOf(f)
  BY <1>1, <1>2, FreeAre
<1>4. \A i \in Virtio!InFlight(tx) :
        /\ Virtio!HeadAt(tx, i) # Virtio!BodyAt(tx, i)
        /\ Virtio!ChainAt(tx, i) \cap Virtio!FreeDescs(tx) = {}
        /\ Virtio!ChainAt(tx, i) \subseteq 0..Size-1
        /\ \A j \in Virtio!InFlight(tx) :
             i # j => Virtio!ChainAt(tx, i) \cap Virtio!ChainAt(tx, j) = {}
  BY <1>3, ChainsAre DEF Virtio!ChainAt
<1>5. ListOf(f) \subseteq 0..Size-1
  BY <1>1, ListIn
<1>6. \A d \in 0..Size-1 :
        d \in ListOf(f) \/ \E i \in Virtio!InFlight(tx) : d \in Virtio!ChainAt(tx, i)
  BY CoveredIs DEF Divided, Virtio!ChainAt
<1>7. Virtio!FreeDescs(tx) \cup UNION {Virtio!ChainAt(tx, i) : i \in Virtio!InFlight(tx)}
        = 0..Size-1
  BY <1>3, <1>4, <1>5, <1>6
<1> QED
  BY <1>4, <1>7 DEF Virtio!DescsDivided

\* The shorter one of two lists of packets numbered from 1 is how the other begins.
LEMMA CountsPrefix ==
  ASSUME NEW s, Counts(s), NEW t, Counts(t), Len(s) <= Len(t)
  PROVE  Virtio!Begins(s, t)
<1>1. s \in Seq(Nat) /\ t \in Seq(Nat) /\ Len(s) \in Nat /\ Len(t) \in Nat
  BY DEF Counts
<1>2. \A i \in 1..Len(s) : i \in 1..Len(t) /\ s[i] = i /\ t[i] = i
  BY <1>1 DEF Counts
<1> QED
  BY <1>2 DEF Virtio!Begins

\* What the inductive invariant says of the packets.
LEMMA VirtioInvKeeps ==
  ASSUME Virtio!VirtioInv
  PROVE  Virtio!PacketsKept
<1>1. PICK f : Divided(tx, f)
  BY SendingIs DEF Virtio!VirtioInv
<1>2. SentOf(tx, tx_buf, sent, out) /\ Filling(rx, e) /\ ReceivedOf(rx, e, rx_buf, arrived, got)
  BY KeptIs, ReceivingIs DEF Virtio!VirtioInv
<1>3. tx \in Virtio!Queue /\ Virtio!Indexes(tx) /\ rx \in Virtio!Queue /\ Virtio!Indexes(rx)
  BY <1>1, <1>2 DEF Divided, Filling
<1>4. Virtio!SentIntact
  BY <1>2, <1>3, IndexNumbers, CountsPrefix DEF SentOf, Virtio!SentIntact
<1>5. Virtio!GotInOrder
  <2>1. /\ Len(got) = rx.last_seen_used - (IF e = nil THEN 0 ELSE 1)
        /\ Len(arrived) = rx.seen /\ Counts(got) /\ Counts(arrived)
    BY <1>2 DEF ReceivedOf
  <2>2. /\ rx.seen \in Nat /\ rx.last_seen_used \in Nat /\ rx.last_seen_used <= rx.seen
    BY <1>3, IndexNumbers
  <2>3. Len(got) <= Len(arrived)
    BY <2>1, <2>2
  <2> QED
    BY <2>1, <2>3, CountsPrefix DEF Virtio!GotInOrder
<1>6. Virtio!NoneForgotten
  BY DEF Virtio!VirtioInv, Virtio!Told, Virtio!NoneForgotten
<1>7. Virtio!TypeOK
  <2>1. \A i \in 0..Size-1 : tx_buf[i] \in 1..MaxPkts \cup {nil}
    BY <1>2 DEF SentOf
  <2>2. e \in 0..Size-1 \cup {nil}
    BY <1>2 DEF Filling
  <2>3. {masked, signal, missed} \subseteq BOOLEAN
    BY DEF Virtio!VirtioInv, Virtio!Told
  <2> QED
    BY <1>3, <2>1, <2>2, <2>3, QueueIs DEF Virtio!VirtioInv, Virtio!Told, Virtio!TypeOK
<1> QED
  BY <1>1, <1>4, <1>5, <1>6, <1>7, DividedIs DEF Virtio!PacketsKept

\* virtio/net/net.c, for queues of any even size and any number of packets that
\* the indexes can count: packets pass both queues intact and in order, none is
\* forgotten, and every descriptor is free or in one chain.
THEOREM PacketsStayKept == Spec => []PacketsKept
<1>1. Init => Virtio!VirtioInv
  BY VirtioStart DEF Init
<1>2. Virtio!VirtioInv /\ [Next]_vars => Virtio!VirtioInv'
  BY VirtioStep
<1>3. Virtio!VirtioInv => PacketsKept
  BY VirtioInvKeeps DEF PacketsKept
<1> QED
  BY <1>1, <1>2, <1>3, PTL DEF Spec

-----------------------------------------------------------------------------
(* The connections of the two hosts.                                       *)

\* There are two hosts.
LEMMA HostsAre ==
  /\ Tcp!Hosts = {A, B} /\ A # B /\ nil \notin Tcp!Connection
  /\ \A h \in Tcp!Hosts : /\ Tcp!Peer(h) \in Tcp!Hosts /\ Tcp!Peer(h) # h
                          /\ Tcp!Peer(Tcp!Peer(h)) = h
                          /\ \A k \in Tcp!Hosts : k # h => k = Tcp!Peer(h)
  BY ConstantsOK DEF Tcp!TcpOK, Tcp!Hosts, Tcp!Peer

\* What the fields of a connection are.
LEMMA ConnectionIs ==
  ASSUME NEW c \in Tcp!Connection
  PROVE  /\ c.state \in Tcp!States /\ c.closing \in BOOLEAN /\ c.ack \in Nat
         /\ c.next_seq \in Nat /\ c.sending \in Seq(Tcp!Packet) /\ c.offset \in Nat
         /\ c.recv_wait \in Seq(Tcp!Data)
         /\ Len(c.sending) \in Nat /\ DOMAIN c.sending = 1..Len(c.sending)
         /\ \A k \in 1..Len(c.sending) : c.sending[k] \in Tcp!Packet
<1>1. /\ c.state \in Tcp!States /\ c.closing \in BOOLEAN /\ c.ack \in Nat
      /\ c.next_seq \in Nat /\ c.sending \in Seq(Tcp!Packet) /\ c.offset \in Nat
      /\ c.recv_wait \in Seq(Tcp!Data)
  BY DEF Tcp!Connection
<1> QED
  BY <1>1

\* A connection, field by field.
Fields(st, cl, ack, next, q, o, r) ==
  [state |-> st, closing |-> cl, ack |-> ack, next_seq |-> next, sending |-> q,
   offset |-> o, recv_wait |-> r]

\* So a connection is made of them.
LEMMA AreFields ==
  ASSUME NEW c \in Tcp!Connection
  PROVE  c = [state |-> c.state, closing |-> c.closing, ack |-> c.ack,
              next_seq |-> c.next_seq, sending |-> c.sending, offset |-> c.offset,
              recv_wait |-> c.recv_wait]
  BY DEF Tcp!Connection

\* What the fields of a packet are.
LEMMA PacketIs ==
  ASSUME NEW p \in Tcp!Packet
  PROVE  p.seq \in Nat /\ p.flags \in SUBSET Tcp!Flags /\ p.from \in Nat /\ p.len \in Nat
  BY DEF Tcp!Packet

\* What the fields of a segment are.
LEMMA SegmentIs ==
  ASSUME NEW m \in Tcp!Segment
  PROVE  /\ m.to \in Tcp!Hosts /\ m.seq \in Nat /\ m.ack \in Nat
         /\ m.flags \in SUBSET Tcp!Flags /\ m.from \in Nat /\ m.len \in Nat
  BY DEF Tcp!Segment

\* The list from its f-th element on.
LEMMA SuffixIs ==
  ASSUME NEW S, NEW q \in Seq(S), NEW f \in 1..(Len(q) + 1)
  PROVE  /\ SubSeq(q, f, Len(q)) \in Seq(S)
         /\ Len(SubSeq(q, f, Len(q))) = Len(q) - f + 1
         /\ \A k \in 1..(Len(q) - f + 1) : SubSeq(q, f, Len(q))[k] = q[k + f - 1]
<1>1. Len(q) \in Nat
  OBVIOUS
<1> QED
  BY <1>1

\* A number that one of the places up to n has is at a first place.
LEMMA FirstPlace ==
  ASSUME NEW n \in Nat, NEW P \in SUBSET (1..n), P # {}
  PROVE  \E k \in P : \A i \in P : k <= i
<1>1. P \in SUBSET Nat
  OBVIOUS
<1> QED
  BY <1>1, NatLeast

\* The packets before the one that is sent are empty.
LEMMA SendableProps ==
  ASSUME NEW q \in Seq(Tcp!Packet), q # <<>>
  PROVE  \E f \in 1..Len(q) :
           /\ Tcp!Sendable(q) = SubSeq(q, f, Len(q))
           /\ \A i \in 1..(f - 1) : q[i].len = 0 /\ q[i].flags \cap {"syn", "fin"} = {}
<1> DEFINE stays(k) == q[k].len > 0 \/ q[k].flags \cap {"syn", "fin"} # {} \/ k = Len(q)
           first(k) == stays(k) /\ \A i \in 1..(k - 1) : ~stays(i)
           P == {k \in 1..Len(q) : stays(k)}
           f == CHOOSE k \in 1..Len(q) : first(k)
<1>1. Len(q) \in Nat /\ Len(q) >= 1
  OBVIOUS
<1>2. P \in SUBSET (1..Len(q)) /\ Len(q) \in P
  BY <1>1
<1>3. PICK k \in P : \A i \in P : k <= i
  BY <1>1, <1>2, FirstPlace
<1>4. k \in 1..Len(q) /\ first(k)
  <2>1. \A i \in 1..(k - 1) : i \in 1..Len(q) /\ ~(k <= i)
    BY <1>1, <1>3
  <2> QED
    BY <1>3, <2>1
<1>5. f \in 1..Len(q) /\ first(f)
  <2> HIDE DEF first
  <2> QED
    BY <1>4
<1>6. Tcp!Sendable(q) = SubSeq(q, f, Len(q))
  BY DEF Tcp!Sendable
<1>7. \A i \in 1..(f - 1) : ~(q[i].len > 0) /\ q[i].flags \cap {"syn", "fin"} = {}
  BY <1>5
<1>8. \A i \in 1..(f - 1) : q[i].len = 0
  <2> SUFFICES ASSUME NEW i \in 1..(f - 1) PROVE q[i].len = 0
    OBVIOUS
  <2> HIDE DEF f
  <2>1. i \in 1..Len(q)
    BY <1>1, <1>5
  <2>2. q[i] \in Tcp!Packet
    BY <2>1
  <2> QED
    BY <1>7, <2>2, PacketIs
<1> HIDE DEF f
<1> QED
  BY <1>5, <1>6, <1>7, <1>8

\* What an acknowledgement drops is acknowledged, and no fin.
LEMMA AckedProps ==
  ASSUME NEW q \in Seq(Tcp!Packet), NEW ack \in Nat
  PROVE  \E f \in 1..(Len(q) + 1) :
           /\ Tcp!Acked(q, ack) = SubSeq(q, f, Len(q))
           /\ \A i \in 1..(f - 1) : q[i].seq + q[i].len <= ack /\ "fin" \notin q[i].flags
<1> DEFINE kept == {k \in 1..Len(q) : Tcp!Unacked(q[k], ack)}
           least(k) == \A i \in kept : k <= i
           f == CHOOSE k \in kept : least(k)
<1>1. Len(q) \in Nat
  OBVIOUS
<1>2. ASSUME NEW i \in 1..Len(q), i \notin kept
      PROVE  q[i].seq + q[i].len <= ack /\ "fin" \notin q[i].flags
  <2>1. q[i] \in Tcp!Packet
    OBVIOUS
  <2>2. ~Tcp!Unacked(q[i], ack)
    BY <1>2
  <2>3. ~(ack < q[i].seq + q[i].len) /\ "fin" \notin q[i].flags
    BY <2>2 DEF Tcp!Unacked
  <2> QED
    BY <2>1, <2>3, PacketIs
<1>3. CASE kept = {}
  <2>1. Tcp!Acked(q, ack) = <<>>
    BY <1>3 DEF Tcp!Acked
  <2>2. SubSeq(q, Len(q) + 1, Len(q)) = <<>>
    BY <1>1
  <2>3. Len(q) + 1 \in 1..(Len(q) + 1) /\ (Len(q) + 1) - 1 = Len(q)
    BY <1>1
  <2> QED
    BY <1>2, <1>3, <2>1, <2>2, <2>3
<1>4. CASE kept # {}
  <2>1. \E k \in kept : least(k)
    BY <1>1, <1>4, FirstPlace
  <2>2. f \in kept /\ least(f)
    <3> HIDE DEF least, kept
    <3> QED
      BY <2>1
  <2>3. Tcp!Acked(q, ack) = SubSeq(q, f, Len(q))
    BY <1>4 DEF Tcp!Acked
  <2> HIDE DEF f
  <2>4. f \in 1..(Len(q) + 1) /\ \A i \in 1..(f - 1) : i \in 1..Len(q) /\ ~(f <= i)
    BY <1>1, <2>2
  <2>5. \A i \in 1..(f - 1) : i \in 1..Len(q) /\ i \notin kept
    BY <2>2, <2>4
  <2> HIDE DEF kept
  <2> QED
    BY <1>2, <2>3, <2>4, <2>5
<1> QED
  BY <1>3, <1>4

\* The data of p is in F.
Carries(p, F) == p.len > 0 => [seq |-> p.seq, from |-> p.from, len |-> p.len] \in F

\* The place of no packet in the list that is dropped matters for what is sent again.
LEMMA DropSending ==
  ASSUME NEW c \in Tcp!Connection, NEW d \in Tcp!Connection, NEW s \in Nat, NEW gp \in Nat,
         Tcp!Sending(c, s, gp), NEW f \in 1..(Len(c.sending) + 1),
         d.sending = SubSeq(c.sending, f, Len(c.sending)), c.closing => d.closing,
         \A i \in 1..(f - 1) : \A b \in gp..s-1 :
           b \notin c.sending[i].from .. c.sending[i].from + c.sending[i].len - 1
  PROVE  /\ Tcp!Sending(d, s, gp)
         /\ Len(d.sending) = Len(c.sending) - f + 1
         /\ \A k \in 1..Len(d.sending) :
              k + f - 1 \in 1..Len(c.sending) /\ d.sending[k] = c.sending[k + f - 1]
<1> DEFINE q == c.sending
           r == d.sending
<1>1. q \in Seq(Tcp!Packet) /\ Len(q) \in Nat /\ f \in Nat
  BY ConnectionIs
<1>2. /\ Len(r) = Len(q) - f + 1
      /\ \A k \in 1..Len(r) : r[k] = q[k + f - 1]
  BY <1>1, SuffixIs
<1>3. \A k \in 1..Len(r) : k + f - 1 \in 1..Len(q)
  BY <1>1, <1>2
<1>4. \A i \in 1..Len(q) : i \notin 1..(f - 1) => i - f + 1 \in 1..Len(r) /\ r[i - f + 1] = q[i]
  <2> SUFFICES ASSUME NEW i \in 1..Len(q), i \notin 1..(f - 1)
               PROVE  i - f + 1 \in 1..Len(r) /\ r[i - f + 1] = q[i]
    OBVIOUS
  <2>1. i - f + 1 \in 1..Len(r) /\ (i - f + 1) + f - 1 = i
    BY <1>1, <1>2
  <2> QED
    BY <1>2, <2>1
<1> HIDE DEF q, r
<1>5. /\ \A k \in 1..Len(q) :
           Tcp!Numbered(q[k], s) /\ ("fin" \in q[k].flags => c.closing)
      /\ \A i, k \in 1..Len(q) : i < k /\ "fin" \in q[i].flags => q[k].len = 0
      /\ \A b \in gp..s-1 : \E k \in 1..Len(q) : b \in q[k].from .. q[k].from + q[k].len - 1
  BY DEF Tcp!Sending, q
<1>6. \A k \in 1..Len(r) : Tcp!Numbered(r[k], s) /\ ("fin" \in r[k].flags => d.closing)
  BY <1>2, <1>3, <1>5
<1>7. \A i, k \in 1..Len(r) : i < k /\ "fin" \in r[i].flags => r[k].len = 0
  <2> SUFFICES ASSUME NEW i \in 1..Len(r), NEW k \in 1..Len(r), i < k, "fin" \in r[i].flags
               PROVE  r[k].len = 0
    OBVIOUS
  <2>1. i + f - 1 < k + f - 1
    BY <1>1, <1>2
  <2> QED
    BY <1>2, <1>3, <1>5, <2>1
<1>8. \A b \in gp..s-1 : \E k \in 1..Len(r) : b \in r[k].from .. r[k].from + r[k].len - 1
  <2> SUFFICES ASSUME NEW b \in gp..s-1
               PROVE  \E k \in 1..Len(r) : b \in r[k].from .. r[k].from + r[k].len - 1
    OBVIOUS
  <2>1. PICK i \in 1..Len(q) : b \in q[i].from .. q[i].from + q[i].len - 1
    BY <1>5
  <2>2. i \notin 1..(f - 1)
    BY <2>1 DEF q
  <2> QED
    BY <1>4, <2>1, <2>2
<1>9. Tcp!Sending(d, s, gp)
  BY <1>6, <1>7, <1>8 DEF Tcp!Sending, r
<1> QED
  BY <1>2, <1>3, <1>9 DEF q, r

\* A packet is appended: an empty one, or the next data.
LEMMA AppendSending ==
  ASSUME NEW c \in Tcp!Connection, NEW d \in Tcp!Connection, NEW s \in Nat, NEW t \in Nat,
         NEW gp \in Nat, Tcp!Sending(c, s, gp), NEW p \in Tcp!Packet,
         d.sending = Append(c.sending, p), c.closing => d.closing, s <= t,
         Tcp!Numbered(p, t), "fin" \in p.flags => d.closing,
         p.len > 0 => ~c.closing, (p.from = s /\ t = s + p.len) \/ s = t
  PROVE  /\ Tcp!Sending(d, t, gp)
         /\ Len(d.sending) = Len(c.sending) + 1 /\ d.sending[Len(c.sending) + 1] = p
         /\ \A k \in 1..Len(c.sending) : d.sending[k] = c.sending[k]
<1> DEFINE q == c.sending
           r == d.sending
<1>1. q \in Seq(Tcp!Packet) /\ Len(q) \in Nat /\ \A k \in 1..Len(q) : q[k] \in Tcp!Packet
  BY ConnectionIs
<1>2. /\ Len(r) = Len(q) + 1 /\ r[Len(q) + 1] = p
      /\ \A k \in 1..Len(q) : r[k] = q[k]
  BY <1>1
<1> HIDE DEF q, r
<1>3. /\ \A k \in 1..Len(q) :
           Tcp!Numbered(q[k], s) /\ ("fin" \in q[k].flags => c.closing)
      /\ \A i, k \in 1..Len(q) : i < k /\ "fin" \in q[i].flags => q[k].len = 0
      /\ \A b \in gp..s-1 : \E k \in 1..Len(q) : b \in q[k].from .. q[k].from + q[k].len - 1
  BY DEF Tcp!Sending, q
<1>4. \A k \in 1..Len(r) : k \in 1..Len(q) \/ k = Len(q) + 1
  BY <1>1, <1>2
<1>5. \A k \in 1..Len(q) : Tcp!Numbered(q[k], t)
  <2> SUFFICES ASSUME NEW k \in 1..Len(q) PROVE Tcp!Numbered(q[k], t)
    OBVIOUS
  <2>1. q[k].from \in Nat /\ q[k].len \in Nat /\ Tcp!Numbered(q[k], s)
    BY <1>1, <1>3, PacketIs
  <2> QED
    BY <2>1 DEF Tcp!Numbered
<1>6. \A k \in 1..Len(r) : Tcp!Numbered(r[k], t) /\ ("fin" \in r[k].flags => d.closing)
  BY <1>2, <1>3, <1>4, <1>5
<1>7. \A i, k \in 1..Len(r) : i < k /\ "fin" \in r[i].flags => r[k].len = 0
  <2> SUFFICES ASSUME NEW i \in 1..Len(r), NEW k \in 1..Len(r), i < k, "fin" \in r[i].flags
               PROVE  r[k].len = 0
    OBVIOUS
  <2>1. i \in 1..Len(q)
    BY <1>1, <1>2, <1>4
  <2>2. CASE k \in 1..Len(q)
    BY <1>2, <1>3, <2>1, <2>2
  <2>3. CASE k = Len(q) + 1
    <3>1. c.closing
      BY <1>2, <1>3, <2>1
    <3> QED
      BY <1>2, <2>3, <3>1, PacketIs
  <2> QED
    BY <1>4, <2>2, <2>3
<1>8. \A b \in gp..t-1 : \E k \in 1..Len(r) : b \in r[k].from .. r[k].from + r[k].len - 1
  <2> SUFFICES ASSUME NEW b \in gp..t-1
               PROVE  \E k \in 1..Len(r) : b \in r[k].from .. r[k].from + r[k].len - 1
    OBVIOUS
  <2>1. CASE b < s
    <3>1. b \in gp..s-1
      BY <2>1
    <3>2. PICK k \in 1..Len(q) : b \in q[k].from .. q[k].from + q[k].len - 1
      BY <1>3, <3>1
    <3>3. k \in 1..Len(r)
      BY <1>1, <1>2
    <3> QED
      BY <1>2, <3>2, <3>3
  <2>2. CASE ~(b < s)
    <3>1. p.from = s /\ t = s + p.len /\ p.len \in Nat
      BY <2>2, PacketIs
    <3>2. b \in p.from .. p.from + p.len - 1
      BY <2>2, <3>1
    <3>3. Len(q) + 1 \in 1..Len(r)
      BY <1>1, <1>2
    <3> QED
      BY <1>2, <3>2, <3>3
  <2> QED
    BY <2>1, <2>2
<1>9. Tcp!Sending(d, t, gp)
  BY <1>6, <1>7, <1>8 DEF Tcp!Sending, r
<1> QED
  BY <1>2, <1>9 DEF q, r

-----------------------------------------------------------------------------
(* A handler works on a connection of h whose surroundings env do not      *)
(* change: env.s bytes were written and env.g read, env.gp by the peer's   *)
(* client, env.fin says whether the peer has finished, env.F is the data   *)
(* on its way to h, env.Q that on its way from h.                          *)

Surroundings(env) ==
  /\ env.s \in Nat /\ env.g \in Nat /\ env.gp \in Nat /\ env.gp <= env.s /\ env.fin \in BOOLEAN

\* What the invariant says of a connection.
ConGood(h, c, w, env) ==
  /\ c \in Tcp!Connection
  /\ Tcp!Starting(h, c, env.s, env.g) /\ Tcp!Asked(c, w) /\ Tcp!Counted(c, env.s)
  /\ Tcp!Sending(c, env.s, env.gp) /\ Tcp!Receiving(c, env.g, env.fin, env.F)
  /\ \A k \in 1..Len(c.sending) : Carries(c.sending[k], env.Q)
  /\ \A k \in 1..Len(c.recv_wait) : Carries(c.recv_wait[k], env.F)

\* What it says of a segment that h sends.
OutGood(h, c, m, env) ==
  /\ m \in Tcp!Segment /\ m.to = Tcp!Peer(h) /\ Carries(m, env.Q)
  /\ Tcp!SentBy(h, c, m, env.s, env.g, env.gp, env.fin)

Jobs == [c : Tcp!Connection, out : SUBSET Tcp!Segment, reply : Tcp!Requests]

Good(h, j, w, env) ==
  j \in Jobs /\ ConGood(h, j.c, w, env) /\ \A m \in j.out : OutGood(h, j.c, m, env)

\* A connection goes on.
Later(c, d) ==
  /\ c.state \in Tcp!Up => d.state \in Tcp!Up
  /\ c.state \in Tcp!FinSent => d.state \in Tcp!FinSent
  /\ d.state \in {"listen", "syn_sent"} => c.state = d.state

\* The segments of before are still good ones.
LEMMA OutLater ==
  ASSUME NEW h, NEW c, NEW d, NEW m, NEW env, OutGood(h, c, m, env), Later(c, d)
  PROVE  OutGood(h, d, m, env)
<1>1. /\ Tcp!Numbered(m, env.s) /\ Tcp!AckOK(m.ack, env.g, env.fin)
      /\ "fin" \in m.flags => c.state \in Tcp!FinSent /\ env.gp = env.s
      /\ h = A /\ c.state = "syn_sent" => m.flags = {"syn"}
      /\ h = B => c.state # "listen"
  BY DEF OutGood, Tcp!SentBy
<1>2. Tcp!SentBy(h, d, m, env.s, env.g, env.gp, env.fin)
  BY <1>1 DEF Later, Tcp!SentBy
<1> QED
  BY <1>2 DEF OutGood

\* What a job consists of.
LEMMA JobIs ==
  ASSUME NEW j \in Jobs
  PROVE  /\ j = [c |-> j.c, out |-> j.out, reply |-> j.reply]
         /\ j.c \in Tcp!Connection /\ j.out \in SUBSET Tcp!Segment /\ j.reply \in Tcp!Requests
         /\ \A d : Tcp!Update(j, d) = [c |-> d, out |-> j.out, reply |-> j.reply]
         /\ \A d, r : Tcp!Answer(j, d, r) = [c |-> d, out |-> j.out, reply |-> r]
<1>1. /\ j = [c |-> j.c, out |-> j.out, reply |-> j.reply]
      /\ j.c \in Tcp!Connection /\ j.out \in SUBSET Tcp!Segment /\ j.reply \in Tcp!Requests
  BY DEF Jobs
<1>2. \A d : Tcp!Update(j, d) = [c |-> d, out |-> j.out, reply |-> j.reply]
  BY DEF Jobs, Tcp!Update
<1>3. ASSUME NEW d, NEW r
      PROVE  Tcp!Answer(j, d, r) = [c |-> d, out |-> j.out, reply |-> r]
  <2> DEFINE x == Tcp!Answer(j, d, r)
  <2>1. x = [j EXCEPT !.c = d, !.reply = r]
    BY DEF Tcp!Answer
  <2>2. j = [c |-> j.c, out |-> j.out, reply |-> j.reply]
    BY <1>1
  <2> HIDE DEF x
  <2>3. x = [c |-> d, out |-> j.out, reply |-> r]
    BY ONLY <2>1, <2>2
  <2> QED
    BY <2>3 DEF x
<1> QED
  BY <1>1, <1>2, <1>3

\* What a host acknowledges.
LEMMA GoodAck ==
  ASSUME NEW h, NEW c, NEW w, NEW env, Surroundings(env), ConGood(h, c, w, env)
  PROVE  c.ack \in Nat /\ Tcp!AckOK(c.ack, env.g, env.fin)
<1>1. c \in Tcp!Connection /\ c.ack \in Nat /\ env.g \in Nat
  BY ConnectionIs DEF ConGood, Surroundings
<1>2. CASE c.state \in Tcp!Up
  BY <1>1, <1>2 DEF ConGood, Tcp!Receiving
<1>3. CASE c.state \notin Tcp!Up
  <2>1. c.ack <= 1
    BY <1>1, <1>3 DEF ConGood, Tcp!Starting
  <2> QED
    BY <1>1, <2>1 DEF Tcp!AckOK
<1> QED
  BY <1>1, <1>2, <1>3

\* A fin is in the list only when the connection is up.
LEMMA FinUp ==
  ASSUME NEW h, NEW c, NEW w, NEW env, ConGood(h, c, w, env), NEW k \in 1..Len(c.sending),
         "fin" \in c.sending[k].flags
  PROVE  c.closing /\ c.state \in Tcp!Up /\ (c.state = "established" => w = "disconnect")
<1>1. c.closing
  BY DEF ConGood, Tcp!Sending
<1>2. c.state \in Tcp!Up
  BY <1>1 DEF ConGood, Tcp!Starting
<1> QED
  BY <1>1, <1>2 DEF ConGood, Tcp!Asked

\* The packet at the head of the list is sent, the empty ones before it dropped.
LEMMA SendGood ==
  ASSUME NEW h \in Tcp!Hosts, NEW j, NEW w, NEW env, Surroundings(env), Good(h, j, w, env)
  PROVE  /\ Good(h, Tcp!send_tcp_pkt(h, j), w, env)
         /\ Tcp!send_tcp_pkt(h, j).reply = j.reply
         /\ Later(j.c, Tcp!send_tcp_pkt(h, j).c)
         /\ Tcp!send_tcp_pkt(h, j).c.state \in Tcp!Up => j.c.state \in Tcp!Up
<1> DEFINE c == j.c
           r == Tcp!send_tcp_pkt(h, j)
<1>1. j \in Jobs /\ ConGood(h, c, w, env) /\ c \in Tcp!Connection
      /\ \A m \in j.out : OutGood(h, c, m, env)
  BY DEF Good, ConGood
<1>2. CASE c.sending = <<>>
  BY <1>2 DEF Tcp!send_tcp_pkt, Later
<1>3. CASE c.sending # <<>>
  <2>1. PICK f \in 1..Len(c.sending) :
          /\ Tcp!Sendable(c.sending) = SubSeq(c.sending, f, Len(c.sending))
          /\ \A i \in 1..(f - 1) : /\ c.sending[i].len = 0
                                   /\ c.sending[i].flags \cap {"syn", "fin"} = {}
    BY <1>1, <1>3, ConnectionIs, SendableProps
  <2> DEFINE q == Tcp!Sendable(c.sending)
             st == Tcp!AfterSending(c.state, q[1].flags)
             d == [c EXCEPT !.sending = q, !.state = st]
             m == Tcp!SegmentOf(h, d, q[1])
  <2>2. r = [c |-> d, out |-> j.out \cup {m}, reply |-> j.reply]
    <3>1. r = [j EXCEPT !.c = d, !.out = @ \cup {m}]
      BY <1>3 DEF Tcp!send_tcp_pkt
    <3>2. j = [c |-> j.c, out |-> j.out, reply |-> j.reply]
      BY <1>1, JobIs
    <3> HIDE DEF d, m, r
    <3> QED
      BY <3>1, <3>2
  <2>3. /\ Len(c.sending) \in Nat /\ f \in Nat /\ f >= 1 /\ f <= Len(c.sending)
        /\ c.sending \in Seq(Tcp!Packet)
    BY <1>1, ConnectionIs
  <2>4. /\ q \in Seq(Tcp!Packet) /\ Len(q) = Len(c.sending) - f + 1 /\ Len(q) >= 1
        /\ f \in 1..(Len(c.sending) + 1)
        /\ \A k \in 1..Len(q) : k + f - 1 \in 1..Len(c.sending) /\ q[k] = c.sending[k + f - 1]
    <3>1. f \in 1..(Len(c.sending) + 1) /\ Len(c.sending) - f + 1 >= 1
      BY <2>3
    <3> QED
      BY <2>1, <2>3, <3>1, SuffixIs
  <2>5. 1 \in 1..Len(q) /\ q[1] \in Tcp!Packet
    BY <2>4
  <2>6. q[1] = c.sending[f] /\ f \in 1..Len(c.sending)
    BY <2>3, <2>4, <2>5
  <2>7. /\ st = (IF "fin" \in q[1].flags /\ c.state = "established" THEN "fin_wait_1"
                 ELSE IF "fin" \in q[1].flags /\ c.state = "close_wait" THEN "last_ack"
                 ELSE c.state)
        /\ st \in Tcp!States
    <3>1. st = (IF "fin" \in q[1].flags /\ c.state = "established" THEN "fin_wait_1"
                ELSE IF "fin" \in q[1].flags /\ c.state = "close_wait" THEN "last_ack"
                ELSE c.state)
      BY DEF Tcp!AfterSending
    <3> QED
      BY <1>1, <3>1, ConnectionIs DEF Tcp!States
  <2> HIDE DEF q, st
  <2>8. /\ d \in Tcp!Connection /\ d.state = st /\ d.sending = q /\ d.closing = c.closing
        /\ d.ack = c.ack /\ d.next_seq = c.next_seq /\ d.offset = c.offset
        /\ d.recv_wait = c.recv_wait
    <3> HIDE DEF c
    <3>1. c = [state |-> c.state, closing |-> c.closing, ack |-> c.ack,
               next_seq |-> c.next_seq, sending |-> c.sending, offset |-> c.offset,
               recv_wait |-> c.recv_wait]
      BY <1>1, AreFields
    <3>2. d = [c EXCEPT !.sending = q, !.state = st]
      OBVIOUS
    <3> HIDE DEF d
    <3>3. d = Fields(st, c.closing, c.ack, c.next_seq, q, c.offset, c.recv_wait)
      BY ONLY <3>1, <3>2 DEF Fields
    <3> QED
      <4>1. /\ c.closing \in BOOLEAN /\ c.ack \in Nat /\ c.next_seq \in Nat /\ c.offset \in Nat
            /\ c.recv_wait \in Seq(Tcp!Data) /\ q \in Seq(Tcp!Packet) /\ st \in Tcp!States
        BY <1>1, <2>4, <2>7, ConnectionIs
      <4> QED
        BY ONLY <3>3, <4>1 DEF Fields, Tcp!Connection
  <2>9. m = [to |-> Tcp!Peer(h), seq |-> q[1].seq, ack |-> c.ack, flags |-> q[1].flags,
             from |-> q[1].from, len |-> q[1].len]
    BY <2>8 DEF Tcp!SegmentOf
  <2>10. m \in Tcp!Segment /\ m.to = Tcp!Peer(h) /\ m.seq = q[1].seq /\ m.ack = c.ack
         /\ m.flags = q[1].flags /\ m.from = q[1].from /\ m.len = q[1].len
    <3>1. Tcp!Peer(h) \in Tcp!Hosts /\ c.ack \in Nat /\ q[1].seq \in Nat
          /\ q[1].flags \in SUBSET Tcp!Flags /\ q[1].from \in Nat /\ q[1].len \in Nat
      BY <1>1, <2>5, HostsAre, ConnectionIs, PacketIs
    <3> HIDE DEF m
    <3> QED
      BY <2>9, <3>1 DEF Tcp!Segment
  <2> HIDE DEF d, m
  <2>11. /\ "fin" \in q[1].flags =>
              c.closing /\ c.state \in Tcp!Up /\ (c.state = "established" => w = "disconnect")
    BY <1>1, <2>6, FinUp
  <2>12. Tcp!Sending(d, env.s, env.gp)
    <3>1. \A i \in 1..(f - 1) : \A b \in env.gp..env.s-1 :
            b \notin c.sending[i].from .. c.sending[i].from + c.sending[i].len - 1
      <4> SUFFICES ASSUME NEW i \in 1..(f - 1)
                   PROVE  c.sending[i].from .. c.sending[i].from + c.sending[i].len - 1 = {}
        OBVIOUS
      <4>1. c.sending[i].from \in Nat /\ c.sending[i].len = 0
        <5>1. i \in 1..Len(c.sending)
          BY <2>3
        <5>2. c.sending[i] \in Tcp!Packet
          BY <2>3, <5>1
        <5> QED
          BY <2>1, <5>2, PacketIs
      <4> QED
        BY <4>1
    <3>2. d.sending = SubSeq(c.sending, f, Len(c.sending))
      BY <2>1, <2>8 DEF q
    <3> QED
      BY <1>1, <2>4, <2>8, <3>1, <3>2, DropSending DEF ConGood, Surroundings
  <2>13. Later(c, d) /\ (d.state \in Tcp!Up => c.state \in Tcp!Up)
    BY <2>7, <2>8 DEF Later, Tcp!Up, Tcp!FinSent
  <2>14. Tcp!Starting(h, d, env.s, env.g)
    <3>1. CASE d.state \in Tcp!Up
      BY <3>1 DEF Tcp!Starting
    <3>2. CASE d.state \notin Tcp!Up
      <4>1. d.state = c.state /\ c.state \notin Tcp!Up /\ c.state # "listen"
        BY <1>1, <1>3, <2>7, <2>8, <3>2 DEF Tcp!Up, ConGood, Tcp!Starting
      <4>2. c.state = "syn_sent" => \A k \in 1..Len(q) : q[k].flags = {"syn"}
        BY <1>1, <2>4, <4>1 DEF ConGood, Tcp!Starting
      <4> QED
        BY <1>1, <2>8, <4>1, <4>2 DEF ConGood, Tcp!Starting
    <3> QED
      BY <3>1, <3>2
  <2>15. Tcp!Asked(d, w)
    BY <1>1, <2>7, <2>8, <2>11 DEF ConGood, Tcp!Asked
  <2>16. Tcp!Counted(d, env.s)
    <3>1. ASSUME NEW k \in 1..Len(c.sending), "fin" \in c.sending[k].flags
          PROVE  \E i \in 1..Len(q) : "fin" \in q[i].flags
      <4>1. k \notin 1..(f - 1)
        BY <2>1, <3>1
      <4>2. k - f + 1 \in 1..Len(q) /\ (k - f + 1) + f - 1 = k
        BY <2>3, <2>4, <4>1
      <4> QED
        BY <2>4, <3>1, <4>2
    <3>2. st = "fin_wait_1" /\ c.state # "fin_wait_1" => "fin" \in q[1].flags
      BY <2>7
    <3>3. d.state = "fin_wait_1" \/ (d.state = "time_wait" /\ d.next_seq = env.s + 1) =>
            \E i \in 1..Len(q) : "fin" \in q[i].flags
      <4>1. CASE c.state = "fin_wait_1" \/ (c.state = "time_wait" /\ c.next_seq = env.s + 1)
        BY <1>1, <3>1, <4>1 DEF ConGood, Tcp!Counted
      <4>2. CASE d.state = "fin_wait_1" /\ c.state # "fin_wait_1"
        BY <2>5, <2>8, <3>2, <4>2
      <4> QED
        BY <2>7, <2>8, <4>1, <4>2
    <3>4. /\ c.state \in Tcp!Up =>
               \/ c.next_seq = env.s + 1
               \/ c.next_seq = env.s + 2 /\ c.state \in {"fin_wait_2", "time_wait"}
          /\ c.state = "fin_wait_2" => c.next_seq = env.s + 2
      BY <1>1 DEF ConGood, Tcp!Counted
    <3>5. /\ d.state \in Tcp!Up =>
               \/ d.next_seq = env.s + 1
               \/ d.next_seq = env.s + 2 /\ d.state \in {"fin_wait_2", "time_wait"}
          /\ d.state = "fin_wait_2" => d.next_seq = env.s + 2
      BY <2>7, <2>8, <2>13, <3>4
    <3> QED
      BY <2>8, <3>3, <3>5 DEF Tcp!Counted
  <2>17. Tcp!Receiving(d, env.g, env.fin, env.F)
    <3>1. /\ c.state \in Tcp!Up => Tcp!AckOK(c.ack, env.g, env.fin)
          /\ c.state \in {"established", "fin_wait_1", "fin_wait_2"} => c.ack <= env.g + 1
          /\ c.state = "established" =>
               Tcp!InStep(c.ack, c.offset, c.recv_wait, env.g, env.F)
      BY <1>1 DEF ConGood, Tcp!Receiving
    <3> QED
      BY <2>7, <2>8, <2>13, <3>1 DEF Tcp!Receiving
  <2>18. ConGood(h, d, w, env)
    <3>1. \A k \in 1..Len(q) : Carries(q[k], env.Q)
      BY <1>1, <2>4 DEF ConGood
    <3>2. \A k \in 1..Len(d.recv_wait) : Carries(d.recv_wait[k], env.F)
      BY <1>1, <2>8 DEF ConGood
    <3> QED
      BY <2>8, <2>12, <2>14, <2>15, <2>16, <2>17, <3>1, <3>2 DEF ConGood
  <2>19. OutGood(h, d, m, env)
    <3>1. Carries(m, env.Q)
      BY <1>1, <2>6, <2>10 DEF ConGood, Carries
    <3>2. Tcp!Numbered(m, env.s)
      BY <1>1, <2>6, <2>10 DEF ConGood, Tcp!Sending, Tcp!Numbered
    <3>3. Tcp!AckOK(m.ack, env.g, env.fin)
      BY <1>1, <2>10, GoodAck
    <3>4. "fin" \in m.flags => d.state \in Tcp!FinSent /\ env.gp = env.s
      <4> SUFFICES ASSUME "fin" \in q[1].flags PROVE d.state \in Tcp!FinSent /\ env.gp = env.s
        BY <2>10
      <4>1. d.state \in Tcp!FinSent
        BY <2>7, <2>8, <2>11 DEF Tcp!Up, Tcp!FinSent
      <4>2. \A k \in 1..Len(q) : q[k].len = 0
        <5>1. q[1].len = 0
          BY <2>5, <2>8, <2>12, PacketIs DEF Tcp!Sending, Tcp!Numbered
        <5>2. \A k \in 1..Len(q) : 1 < k => q[k].len = 0
          BY <2>5, <2>8, <2>12 DEF Tcp!Sending
        <5>3. \A k \in 1..Len(q) : k = 1 \/ 1 < k
          BY <2>4
        <5> QED
          BY <5>1, <5>2, <5>3
      <4>3. \A k \in 1..Len(q) : q[k].from .. q[k].from + q[k].len - 1 = {}
        <5> SUFFICES ASSUME NEW k \in 1..Len(q)
                     PROVE  q[k].from .. q[k].from + q[k].len - 1 = {}
          OBVIOUS
        <5>1. q[k].from \in Nat
          BY <2>4, PacketIs
        <5> QED
          BY <4>2, <5>1
      <4>4. env.gp..env.s-1 = {}
        BY <2>8, <2>12, <4>3 DEF Tcp!Sending
      <4> QED
        BY <4>1, <4>4 DEF Surroundings
    <3>5. h = A /\ d.state = "syn_sent" => m.flags = {"syn"}
      BY <2>5, <2>8, <2>10, <2>14 DEF Tcp!Starting, Tcp!Up
    <3>6. h = B => d.state # "listen"
      BY <1>1, <1>3, <2>13 DEF Later, ConGood, Tcp!Starting, Tcp!Up
    <3>7. Tcp!SentBy(h, d, m, env.s, env.g, env.gp, env.fin)
      BY <3>2, <3>3, <3>4, <3>5, <3>6 DEF Tcp!SentBy
    <3> QED
      BY <2>10, <3>1, <3>7 DEF OutGood
  <2>20. \A n \in j.out : OutGood(h, d, n, env)
    BY <1>1, <2>13, OutLater
  <2>21. r \in Jobs /\ r.c = d /\ r.out = j.out \cup {m} /\ r.reply = j.reply
    BY <1>1, <2>2, <2>8, <2>10, JobIs DEF Jobs
  <2>22. Good(h, r, w, env)
    BY <2>18, <2>19, <2>20, <2>21 DEF Good
  <2> QED
    BY <2>13, <2>21, <2>22
<1> QED
  BY <1>2, <1>3

\* An empty packet is appended.
LEMMA AddGood ==
  ASSUME NEW h \in Tcp!Hosts, NEW j, NEW w, NEW env, Surroundings(env), Good(h, j, w, env),
         NEW fl \in SUBSET Tcp!Flags, j.c.state \in Tcp!Up \/ j.c.state = "syn_received",
         "syn" \in fl => "fin" \notin fl /\ j.c.next_seq = 0, "fin" \in fl => j.c.closing
  PROVE  /\ Good(h, Tcp!add_pkt(j, fl, 0, 0), w, env)
         /\ Tcp!add_pkt(j, fl, 0, 0).reply = j.reply
         /\ Tcp!add_pkt(j, fl, 0, 0).out = j.out
         /\ Tcp!add_pkt(j, fl, 0, 0).c.state = j.c.state
<1> DEFINE c == j.c
           p == Tcp!Pkt(c, fl, 0, 0)
           q == Append(c.sending, p)
           d == [c EXCEPT !.sending = q]
           r == Tcp!add_pkt(j, fl, 0, 0)
<1>1. j \in Jobs /\ ConGood(h, c, w, env) /\ c \in Tcp!Connection
      /\ \A m \in j.out : OutGood(h, c, m, env)
  BY DEF Good, ConGood
<1>2. r = [c |-> d, out |-> j.out, reply |-> j.reply]
  BY <1>1, JobIs DEF Tcp!add_pkt
<1>3. p \in Tcp!Packet /\ p.seq = c.next_seq /\ p.flags = fl /\ p.from = 0 /\ p.len = 0
  BY <1>1, ConnectionIs DEF Tcp!Pkt, Tcp!Packet
<1> HIDE DEF c, p
<1>4. q \in Seq(Tcp!Packet)
  BY <1>1, <1>3, ConnectionIs
<1> HIDE DEF q
<1>5. /\ d \in Tcp!Connection /\ d.state = c.state /\ d.sending = q /\ d.closing = c.closing
      /\ d.ack = c.ack /\ d.next_seq = c.next_seq /\ d.offset = c.offset
      /\ d.recv_wait = c.recv_wait
  <2>1. c = [state |-> c.state, closing |-> c.closing, ack |-> c.ack,
             next_seq |-> c.next_seq, sending |-> c.sending, offset |-> c.offset,
             recv_wait |-> c.recv_wait]
    BY <1>1, AreFields
  <2>2. d = [c EXCEPT !.sending = q]
    OBVIOUS
  <2> HIDE DEF d
  <2>3. d = Fields(c.state, c.closing, c.ack, c.next_seq, q, c.offset, c.recv_wait)
    BY ONLY <2>1, <2>2 DEF Fields
  <2>4. /\ c.closing \in BOOLEAN /\ c.ack \in Nat /\ c.next_seq \in Nat /\ c.offset \in Nat
        /\ c.recv_wait \in Seq(Tcp!Data) /\ q \in Seq(Tcp!Packet) /\ c.state \in Tcp!States
    BY <1>1, <1>4, ConnectionIs
  <2> QED
    BY ONLY <2>3, <2>4 DEF Fields, Tcp!Connection
<1> HIDE DEF d
<1>6. /\ Tcp!Sending(d, env.s, env.gp)
      /\ Len(q) = Len(c.sending) + 1 /\ q[Len(c.sending) + 1] = p
      /\ \A k \in 1..Len(c.sending) : q[k] = c.sending[k]
  <2>1. Tcp!Numbered(p, env.s)
    BY <1>3 DEF Tcp!Numbered, c
  <2>2. /\ Tcp!Sending(c, env.s, env.gp) /\ env.s \in Nat /\ env.gp \in Nat
        /\ d.sending = Append(c.sending, p) /\ (c.closing => d.closing) /\ env.s <= env.s
        /\ ("fin" \in p.flags => d.closing) /\ ~(p.len > 0)
    BY <1>1, <1>3, <1>5 DEF ConGood, Surroundings, q, c
  <2>3. /\ Tcp!Sending(d, env.s, env.gp)
        /\ Len(d.sending) = Len(c.sending) + 1 /\ d.sending[Len(c.sending) + 1] = p
        /\ \A k \in 1..Len(c.sending) : d.sending[k] = c.sending[k]
    BY <1>1, <1>3, <1>5, <2>1, <2>2, AppendSending
  <2> QED
    BY <1>5, <2>3
<1>7. Len(c.sending) \in Nat
  BY <1>1, ConnectionIs
<1>8. \A k \in 1..Len(q) : Carries(q[k], env.Q)
  <2>1. Carries(p, env.Q)
    BY <1>3 DEF Carries
  <2>2. \A k \in 1..Len(q) : k \in 1..Len(c.sending) \/ k = Len(c.sending) + 1
    BY <1>6, <1>7
  <2> QED
    BY <1>1, <1>6, <2>1, <2>2 DEF ConGood
<1>9. Tcp!Starting(h, d, env.s, env.g)
  <2>1. CASE c.state \in Tcp!Up
    BY <1>5, <2>1 DEF Tcp!Starting
  <2>2. CASE c.state = "syn_received"
    BY <1>1, <1>5, <2>2 DEF ConGood, Tcp!Starting, Tcp!Up
  <2> QED
    BY <2>1, <2>2 DEF c
<1>10. Tcp!Counted(d, env.s)
  <2>1. \A k \in 1..Len(c.sending) : k \in 1..Len(q)
    BY <1>6, <1>7
  <2>2. /\ c.state \in Tcp!Up =>
             \/ c.next_seq = env.s + 1
             \/ c.next_seq = env.s + 2 /\ c.state \in {"fin_wait_2", "time_wait"}
        /\ c.state = "fin_wait_2" => c.next_seq = env.s + 2
        /\ c.state = "fin_wait_1" \/ (c.state = "time_wait" /\ c.next_seq = env.s + 1) =>
             \E k \in 1..Len(c.sending) : "fin" \in c.sending[k].flags
    BY <1>1 DEF ConGood, Tcp!Counted
  <2>3. (\E k \in 1..Len(c.sending) : "fin" \in c.sending[k].flags) =>
          \E k \in 1..Len(q) : "fin" \in q[k].flags
    BY <1>6, <2>1
  <2> QED
    BY <1>5, <2>2, <2>3 DEF Tcp!Counted
<1>11. Tcp!Asked(d, w) /\ Tcp!Receiving(d, env.g, env.fin, env.F)
  BY <1>1, <1>5 DEF ConGood, Tcp!Asked, Tcp!Receiving
<1>12. ConGood(h, d, w, env)
  <2>1. \A k \in 1..Len(d.recv_wait) : Carries(d.recv_wait[k], env.F)
    BY <1>1, <1>5 DEF ConGood
  <2> QED
    BY <1>5, <1>6, <1>8, <1>9, <1>10, <1>11, <2>1 DEF ConGood
<1>13. \A m \in j.out : OutGood(h, d, m, env)
  <2>1. Later(c, d)
    BY <1>5 DEF Later
  <2> QED
    BY <1>1, <2>1, OutLater
<1>14. r \in Jobs /\ r.c = d /\ r.out = j.out /\ r.reply = j.reply
  BY <1>1, <1>2, <1>5, JobIs DEF Jobs
<1> QED
  BY <1>5, <1>12, <1>13, <1>14 DEF Good, c

\* An acknowledgement is sent at once.
LEMMA AckNowGood ==
  ASSUME NEW h \in Tcp!Hosts, NEW j, NEW w, NEW env, Surroundings(env), Good(h, j, w, env),
         j.c.state \in Tcp!Up
  PROVE  /\ Good(h, Tcp!AckNow(h, j), w, env) /\ Tcp!AckNow(h, j).reply = j.reply
         /\ Later(j.c, Tcp!AckNow(h, j).c)
<1> DEFINE a == Tcp!add_pkt(j, {"ack"}, 0, 0)
<1>1. Good(h, a, w, env) /\ a.reply = j.reply /\ a.c.state = j.c.state
  <2>1. {"ack"} \in SUBSET Tcp!Flags /\ "syn" \notin {"ack"} /\ "fin" \notin {"ack"}
    BY DEF Tcp!Flags
  <2> QED
    BY <2>1, AddGood
<1>2. Tcp!AckNow(h, j) = Tcp!send_tcp_pkt(h, a)
  BY DEF Tcp!AckNow
<1> HIDE DEF a
<1> QED
  BY <1>1, <1>2, SendGood DEF Later

-----------------------------------------------------------------------------
(* What a segment does.                                                    *)

\* A segment m that arrives for the connection c of h.
Arrived(h, c, m, env) ==
  /\ m \in Tcp!Segment /\ m.to = h /\ Carries(m, env.F)
  /\ "syn" \in m.flags => m.seq = 0
  /\ "fin" \in m.flags => env.fin
  /\ Tcp!AckOK(m.ack, env.gp, c.state \in Tcp!FinSent /\ env.gp = env.s)

\* The request that is open after a reply, if w was.
Left(w, r) == IF r.reply = "none" THEN w ELSE "none"

\* What a handler makes of j.
Handled(h, j, r, m, w, env) ==
  /\ Good(h, r, Left(w, r), env) /\ Later(j.c, r.c)
  /\ r.reply # "none" => r.reply = w
  /\ r.c.state \in Tcp!Up /\ j.c.state \notin Tcp!Up => h = A \/ m.flags # {"syn"}

\* The job of which only the connection and the reply are new.
LEMMA NewJob ==
  ASSUME NEW h, NEW j \in Jobs, NEW d, NEW w, NEW env, NEW rep \in Tcp!Requests,
         ConGood(h, d, w, env), Later(j.c, d), \A m \in j.out : OutGood(h, j.c, m, env)
  PROVE  /\ Good(h, Tcp!Answer(j, d, rep), w, env)
         /\ Tcp!Answer(j, d, rep).c = d /\ Tcp!Answer(j, d, rep).reply = rep
         /\ rep = j.reply => Tcp!Update(j, d) = Tcp!Answer(j, d, rep)
<1> DEFINE r == Tcp!Answer(j, d, rep)
<1>1. d \in Tcp!Connection
  BY DEF ConGood
<1>2. r = [c |-> d, out |-> j.out, reply |-> rep] /\ j.out \in SUBSET Tcp!Segment
  BY JobIs
<1>3. r \in Jobs /\ r.c = d /\ r.out = j.out /\ r.reply = rep
  BY <1>1, <1>2 DEF Jobs
<1>4. rep = j.reply => Tcp!Update(j, d) = r
  BY <1>2, JobIs
<1> HIDE DEF r
<1>5. \A m \in j.out : OutGood(h, d, m, env)
  BY OutLater
<1>6. Good(h, r, w, env)
  BY <1>3, <1>5 DEF Good
<1> QED
  BY <1>3, <1>4, <1>6 DEF r

\* A connection whose lists stay.
LEMMA SameLists ==
  ASSUME NEW h, NEW c, NEW w, NEW env, ConGood(h, c, w, env), NEW d \in Tcp!Connection, NEW v,
         d.sending = c.sending, d.recv_wait = c.recv_wait, c.closing => d.closing,
         d.state \in Tcp!Up \/ Tcp!Starting(h, d, env.s, env.g), Tcp!Asked(d, v),
         Tcp!Counted(d, env.s), Tcp!Receiving(d, env.g, env.fin, env.F)
  PROVE  ConGood(h, d, v, env)
<1>1. Tcp!Sending(d, env.s, env.gp)
  BY DEF ConGood, Tcp!Sending
<1>2. Tcp!Starting(h, d, env.s, env.g)
  BY DEF Tcp!Starting
<1> QED
  BY <1>1, <1>2 DEF ConGood

\* A fin is acknowledged, unless there is data to be read.
LEMMA FinGood ==
  ASSUME NEW h \in Tcp!Hosts, NEW j, NEW w, NEW env, Surroundings(env), Good(h, j, w, env),
         j.reply = "none", NEW m, Arrived(h, j.c, m, env), "fin" \in m.flags
  PROVE  Handled(h, j, Tcp!handle_tcp_fin(h, j), m, w, env)
<1> DEFINE c == j.c
           closed == Tcp!CloseWait(c)
           counted == Tcp!CountFin(closed)
           finished == [Tcp!CountFin(c) EXCEPT !.state = "time_wait"]
           r == Tcp!handle_tcp_fin(h, j)
<1>1. /\ j \in Jobs /\ ConGood(h, c, w, env) /\ c \in Tcp!Connection
      /\ \A n \in j.out : OutGood(h, c, n, env)
  BY DEF Good, ConGood
<1> HIDE DEF c
<1>2. /\ c.state \in Tcp!States /\ c.closing \in BOOLEAN /\ c.ack \in Nat
      /\ c.next_seq \in Nat /\ c.sending \in Seq(Tcp!Packet) /\ c.offset \in Nat
      /\ c.recv_wait \in Seq(Tcp!Data) /\ env.g \in Nat /\ env.s \in Nat
  BY <1>1, ConnectionIs DEF Surroundings
<1>3. c = [state |-> c.state, closing |-> c.closing, ack |-> c.ack,
           next_seq |-> c.next_seq, sending |-> c.sending, offset |-> c.offset,
           recv_wait |-> c.recv_wait]
  BY <1>1, AreFields
<1>4. env.fin /\ env.fin \in BOOLEAN
  BY DEF Arrived, Surroundings
<1>5. \A d : Later(c, d) => \A n \in j.out : OutGood(h, j.c, n, env)
  BY <1>1 DEF c
<1>6. CASE c.state = "established"
  <2>1. /\ c.ack <= env.g + 1 /\ c.next_seq = env.s + 1
        /\ Tcp!AckOK(c.ack, env.g, env.fin)
    BY <1>1, <1>6 DEF ConGood, Tcp!Receiving, Tcp!Counted, Tcp!Up
  <2>2. /\ closed \in Tcp!Connection /\ closed.state = "close_wait" /\ closed.closing
        /\ closed.ack = c.ack /\ closed.next_seq = c.next_seq /\ closed.sending = c.sending
        /\ closed.recv_wait = c.recv_wait
    <3>1. closed = [c EXCEPT !.state = "close_wait", !.closing = TRUE]
      BY DEF Tcp!CloseWait
    <3> HIDE DEF closed
    <3>2. closed = Fields("close_wait", TRUE, c.ack, c.next_seq, c.sending, c.offset, c.recv_wait)
      BY ONLY <1>3, <3>1 DEF Fields
    <3>3. "close_wait" \in Tcp!States
      BY DEF Tcp!States
    <3> QED
      BY ONLY <1>2, <3>2, <3>3 DEF Fields, Tcp!Connection
  <2>3. /\ counted \in Tcp!Connection /\ counted.state = "close_wait" /\ counted.closing
        /\ counted.ack = c.ack + 1 /\ counted.next_seq = c.next_seq
        /\ counted.sending = c.sending /\ counted.recv_wait = c.recv_wait
    <3> HIDE DEF closed
    <3>1. closed.offset \in Nat /\ closed.ack + 1 \in Nat /\ closed.closing \in BOOLEAN
      BY <1>2, <2>2, ConnectionIs
    <3>2. closed = [state |-> closed.state, closing |-> closed.closing, ack |-> closed.ack,
             next_seq |-> closed.next_seq, sending |-> closed.sending,
             offset |-> closed.offset, recv_wait |-> closed.recv_wait]
      BY <2>2, AreFields
    <3>3. counted = [closed EXCEPT !.ack = @ + 1]
      BY DEF Tcp!CountFin
    <3> HIDE DEF counted
    <3>4. counted = Fields(closed.state, closed.closing, closed.ack + 1, closed.next_seq,
                           closed.sending, closed.offset, closed.recv_wait)
      BY ONLY <3>2, <3>3 DEF Fields
    <3>5. "close_wait" \in Tcp!States
      BY DEF Tcp!States
    <3> QED
      BY ONLY <1>2, <2>2, <3>1, <3>4, <3>5 DEF Fields, Tcp!Connection
  <2> HIDE DEF closed, counted
  <2>4. Later(c, closed) /\ Later(c, counted)
    BY <1>6, <2>2, <2>3 DEF Later, Tcp!Up, Tcp!FinSent
  <2>5. "close_wait" \in Tcp!Up
    BY DEF Tcp!Up
  <2>6. ConGood(h, closed, w, env)
    <3>1. Tcp!Asked(closed, w) /\ Tcp!Counted(closed, env.s)
      BY <2>1, <2>2 DEF Tcp!Asked, Tcp!Counted
    <3>2. Tcp!Receiving(closed, env.g, env.fin, env.F)
      BY <2>1, <2>2 DEF Tcp!Receiving
    <3> QED
      BY <1>1, <2>2, <2>5, <3>1, <3>2, SameLists
  <2>7. ConGood(h, counted, w, env)
    <3>1. Tcp!Asked(counted, w) /\ Tcp!Counted(counted, env.s)
      BY <2>1, <2>3 DEF Tcp!Asked, Tcp!Counted
    <3>2. Tcp!AckOK(counted.ack, env.g, env.fin)
      BY <1>2, <1>4, <2>1, <2>3 DEF Tcp!AckOK
    <3>3. Tcp!Receiving(counted, env.g, env.fin, env.F)
      BY <2>3, <3>2 DEF Tcp!Receiving
    <3> QED
      BY <1>1, <2>3, <2>5, <3>1, <3>3, SameLists
  <2>8. "none" \in Tcp!Requests
    BY DEF Tcp!Requests
  <2>9. CASE c.recv_wait # <<>>
    <3>1. r = Tcp!Update(j, closed)
      BY <1>6, <2>9 DEF Tcp!handle_tcp_fin, Tcp!FinWait, c, closed
    <3>2. Good(h, r, w, env) /\ r.c = closed /\ r.reply = "none"
      BY <1>1, <2>4, <2>6, <2>8, <3>1, NewJob DEF c
    <3> QED
      BY <1>6, <2>4, <3>2 DEF Handled, Left, c, Tcp!Up
  <2>10. CASE c.recv_wait = <<>>
    <3> DEFINE a == Tcp!Update(j, counted)
    <3>1. r = Tcp!AckNow(h, a)
      BY <1>6, <2>10 DEF Tcp!handle_tcp_fin, Tcp!FinWait, c, closed, counted
    <3>2. Good(h, a, w, env) /\ a.c = counted /\ a.reply = "none"
      BY <1>1, <2>4, <2>7, <2>8, NewJob DEF c
    <3> HIDE DEF a
    <3>3. Good(h, r, w, env) /\ r.reply = "none" /\ Later(counted, r.c)
      BY <2>3, <2>5, <3>1, <3>2, AckNowGood
    <3> QED
      BY <1>6, <2>4, <3>3 DEF Handled, Left, c, Tcp!Up, Later
  <2> QED
    BY <2>9, <2>10
<1>7. CASE c.state \in {"fin_wait_1", "fin_wait_2"}
  <2>1. /\ c.ack <= env.g + 1 /\ w = "disconnect" /\ c.state \in Tcp!Up
    BY <1>1, <1>7 DEF ConGood, Tcp!Receiving, Tcp!Asked, Tcp!Up
  <2>2. /\ finished \in Tcp!Connection /\ finished.state = "time_wait"
        /\ finished.closing = c.closing /\ finished.ack = c.ack + 1
        /\ finished.next_seq = c.next_seq /\ finished.sending = c.sending
        /\ finished.recv_wait = c.recv_wait
    <3> DEFINE acked == Tcp!CountFin(c)
    <3>0. acked = [c EXCEPT !.ack = @ + 1]
      BY DEF Tcp!CountFin
    <3>1. finished = [acked EXCEPT !.state = "time_wait"]
      OBVIOUS
    <3> HIDE DEF finished, acked
    <3>2. finished = Fields("time_wait", c.closing, c.ack + 1, c.next_seq, c.sending, c.offset,
                            c.recv_wait)
      <4>1. acked = Fields(c.state, c.closing, c.ack + 1, c.next_seq, c.sending, c.offset,
                           c.recv_wait)
        BY ONLY <1>3, <3>0 DEF Fields
      <4> QED
        BY ONLY <3>1, <4>1 DEF Fields
    <3>3. "time_wait" \in Tcp!States /\ c.ack + 1 \in Nat
      BY <1>2 DEF Tcp!States
    <3> QED
      BY ONLY <1>2, <3>2, <3>3 DEF Fields, Tcp!Connection
  <2> HIDE DEF finished
  <2>3. Later(c, finished) /\ "time_wait" \in Tcp!Up
    BY <1>7, <2>2 DEF Later, Tcp!Up, Tcp!FinSent
  <2>4. ConGood(h, finished, "none", env)
    <3>1. Tcp!Asked(finished, "none")
      BY <2>2 DEF Tcp!Asked
    <3>2. Tcp!Counted(finished, env.s)
      <4>1. /\ c.next_seq = env.s + 1 \/ c.next_seq = env.s + 2
            /\ c.state = "fin_wait_2" => c.next_seq = env.s + 2
            /\ c.state = "fin_wait_1" => \E k \in 1..Len(c.sending) : "fin" \in c.sending[k].flags
        BY <1>1, <2>1 DEF ConGood, Tcp!Counted
      <4> QED
        BY <1>2, <1>7, <2>2, <4>1 DEF Tcp!Counted
    <3>3. Tcp!AckOK(finished.ack, env.g, env.fin)
      BY <1>2, <1>4, <2>1, <2>2 DEF Tcp!AckOK
    <3>4. Tcp!Receiving(finished, env.g, env.fin, env.F)
      BY <2>2, <3>3 DEF Tcp!Receiving
    <3> QED
      BY <1>1, <2>2, <2>3, <3>1, <3>2, <3>4, SameLists
  <2> DEFINE a == Tcp!Answer(j, finished, "disconnect")
  <2>5. r = Tcp!AckNow(h, a)
    BY <1>7 DEF Tcp!handle_tcp_fin, c, finished, Tcp!FinWait
  <2>6. Good(h, a, "none", env) /\ a.c = finished /\ a.reply = "disconnect"
    <3>1. "disconnect" \in Tcp!Requests
      BY DEF Tcp!Requests
    <3> QED
      BY <1>1, <2>3, <2>4, <3>1, NewJob DEF c
  <2> HIDE DEF a
  <2>7. Good(h, r, "none", env) /\ r.reply = "disconnect" /\ Later(finished, r.c)
    BY <2>2, <2>3, <2>5, <2>6, AckNowGood
  <2> QED
    BY <2>1, <2>3, <2>7 DEF Handled, Left, c, Later
<1>8. CASE c.state = "time_wait"
  <2>1. r = Tcp!AckNow(h, j)
    BY <1>8 DEF Tcp!handle_tcp_fin, c, Tcp!FinWait, Tcp!FinAgain
  <2>2. c.state \in Tcp!Up
    BY <1>8 DEF Tcp!Up
  <2>3. Good(h, r, w, env) /\ r.reply = "none" /\ Later(c, r.c)
    BY <2>1, <2>2, AckNowGood DEF c
  <2> QED
    BY <2>2, <2>3 DEF Handled, Left, c
<1>9. CASE c.state \notin {"established", "fin_wait_1", "fin_wait_2", "time_wait"}
  <2>1. r = j
    BY <1>9 DEF Tcp!handle_tcp_fin, c, Tcp!FinWait
  <2> QED
    BY <2>1 DEF Handled, Left, Later
<1> QED
  BY <1>6, <1>7, <1>8, <1>9

\* A syn is taken once by either side.
LEMMA SynGood ==
  ASSUME NEW h \in Tcp!Hosts, NEW j, NEW w, NEW env, Surroundings(env), Good(h, j, w, env),
         j.reply = "none", NEW m, Arrived(h, j.c, m, env), "syn" \in m.flags
  PROVE  Handled(h, j, Tcp!handle_tcp_syn(h, j, m), m, w, env)
<1> DEFINE c == j.c
           up == [c EXCEPT !.state = "established", !.ack = m.seq + 1, !.next_seq = @ + 1]
           received == [c EXCEPT !.state = "syn_received", !.ack = m.seq + 1]
           r == Tcp!handle_tcp_syn(h, j, m)
<1>1. /\ j \in Jobs /\ ConGood(h, c, w, env) /\ c \in Tcp!Connection
      /\ \A n \in j.out : OutGood(h, c, n, env)
  BY DEF Good, ConGood
<1>2. m.seq = 0
  BY DEF Arrived
<1> HIDE DEF c
<1>3. /\ c.closing \in BOOLEAN /\ c.next_seq \in Nat /\ c.sending \in Seq(Tcp!Packet)
      /\ c.offset \in Nat /\ c.recv_wait \in Seq(Tcp!Data)
  BY <1>1, ConnectionIs
<1>4. c = [state |-> c.state, closing |-> c.closing, ack |-> c.ack,
           next_seq |-> c.next_seq, sending |-> c.sending, offset |-> c.offset,
           recv_wait |-> c.recv_wait]
  BY <1>1, AreFields
<1>5. c.state \in {"syn_sent", "listen"} =>
        /\ c.next_seq = 0 /\ env.s = 0 /\ env.g = 0 /\ ~c.closing /\ c.offset = 0
        /\ c.recv_wait = <<>> /\ h = (IF c.state = "syn_sent" THEN A ELSE B)
  BY <1>1 DEF ConGood, Tcp!Starting, Tcp!Up
<1>6. \A d : Later(c, d) => \A n \in j.out : OutGood(h, j.c, n, env)
  BY <1>1 DEF c
<1>7. CASE c.state = "syn_sent"
  <2>1. /\ up \in Tcp!Connection /\ up.state = "established" /\ up.closing = c.closing
        /\ up.ack = 1 /\ up.next_seq = 1 /\ up.sending = c.sending
        /\ up.offset = c.offset /\ up.recv_wait = c.recv_wait
    <3>1. up = [c EXCEPT !.state = "established", !.ack = m.seq + 1, !.next_seq = @ + 1]
      OBVIOUS
    <3> HIDE DEF up
    <3>2. up = Fields("established", c.closing, m.seq + 1, c.next_seq + 1, c.sending, c.offset,
                      c.recv_wait)
      BY ONLY <1>4, <3>1 DEF Fields
    <3>3. "established" \in Tcp!States /\ m.seq + 1 = 1 /\ c.next_seq + 1 = 1
      BY <1>2, <1>5, <1>7 DEF Tcp!States
    <3> QED
      BY ONLY <1>3, <3>2, <3>3 DEF Fields, Tcp!Connection
  <2> HIDE DEF up
  <2>2. Later(c, up) /\ "established" \in Tcp!Up
    BY <1>7, <2>1 DEF Later, Tcp!Up, Tcp!FinSent
  <2>3. ConGood(h, up, "none", env)
    <3>1. Tcp!Asked(up, "none")
      BY <1>5, <1>7, <2>1 DEF Tcp!Asked
    <3>2. Tcp!Counted(up, env.s)
      BY <1>5, <1>7, <2>1 DEF Tcp!Counted
    <3>3. Tcp!Receiving(up, env.g, env.fin, env.F)
      BY <1>5, <1>7, <2>1 DEF Tcp!Receiving, Tcp!AckOK, Tcp!InStep
    <3> QED
      BY <1>1, <2>1, <2>2, <3>1, <3>2, <3>3, SameLists
  <2> DEFINE a == Tcp!Answer(j, up, "connect")
  <2>4. r = Tcp!AckNow(h, a)
    BY <1>7 DEF Tcp!handle_tcp_syn, Tcp!AckSyn, c, up
  <2>5. Good(h, a, "none", env) /\ a.c = up /\ a.reply = "connect"
    <3>1. "connect" \in Tcp!Requests
      BY DEF Tcp!Requests
    <3> QED
      BY <1>1, <2>2, <2>3, <3>1, NewJob DEF c
  <2> HIDE DEF a
  <2>6. Good(h, r, "none", env) /\ r.reply = "connect" /\ Later(up, r.c)
    BY <2>1, <2>2, <2>4, <2>5, AckNowGood
  <2>7. w = "connect"
    BY <1>1, <1>7 DEF ConGood, Tcp!Asked
  <2> QED
    BY <1>5, <1>7, <2>2, <2>6, <2>7 DEF Handled, Left, c, Later
<1>8. CASE c.state = "listen"
  <2>1. /\ received \in Tcp!Connection /\ received.state = "syn_received"
        /\ received.closing = c.closing /\ received.ack = 1 /\ received.next_seq = 0
        /\ received.sending = c.sending /\ received.offset = c.offset
        /\ received.recv_wait = c.recv_wait
    <3>1. received = [c EXCEPT !.state = "syn_received", !.ack = m.seq + 1]
      OBVIOUS
    <3> HIDE DEF received
    <3>2. received = Fields("syn_received", c.closing, m.seq + 1, c.next_seq, c.sending,
                            c.offset, c.recv_wait)
      BY ONLY <1>4, <3>1 DEF Fields
    <3>3. "syn_received" \in Tcp!States /\ m.seq + 1 = 1 /\ c.next_seq = 0
      BY <1>2, <1>5, <1>8 DEF Tcp!States
    <3> QED
      BY ONLY <1>3, <3>2, <3>3 DEF Fields, Tcp!Connection
  <2> HIDE DEF received
  <2>2. Later(c, received)
    BY <1>8, <2>1 DEF Later, Tcp!Up, Tcp!FinSent
  <2>3. ConGood(h, received, w, env)
    <3>1. Tcp!Asked(received, w)
      BY <1>1, <1>8, <2>1 DEF ConGood, Tcp!Asked
    <3>2. Tcp!Counted(received, env.s)
      BY <2>1 DEF Tcp!Counted, Tcp!Up
    <3>3. Tcp!Receiving(received, env.g, env.fin, env.F)
      BY <2>1 DEF Tcp!Receiving, Tcp!Up
    <3>4. Tcp!Starting(h, received, env.s, env.g)
      BY <1>5, <1>8, <2>1 DEF Tcp!Starting
    <3> QED
      BY <1>1, <2>1, <3>1, <3>2, <3>3, <3>4, SameLists
  <2> DEFINE a == Tcp!Update(j, received)
             b == Tcp!add_pkt(a, {"syn", "ack"}, 0, 0)
  <2>4. r = Tcp!send_tcp_pkt(h, b)
    BY <1>8 DEF Tcp!handle_tcp_syn, c, received
  <2>5. Good(h, a, w, env) /\ a.c = received /\ a.reply = "none"
    <3>1. "none" \in Tcp!Requests
      BY DEF Tcp!Requests
    <3> QED
      BY <1>1, <2>2, <2>3, <3>1, NewJob DEF c
  <2> HIDE DEF a
  <2>6. Good(h, b, w, env) /\ b.reply = "none" /\ b.c.state = "syn_received"
    <3>1. {"syn", "ack"} \in SUBSET Tcp!Flags /\ "fin" \notin {"syn", "ack"}
      BY DEF Tcp!Flags
    <3> QED
      BY <2>1, <2>5, <3>1, AddGood
  <2> HIDE DEF b
  <2>7. /\ Good(h, r, w, env) /\ r.reply = "none" /\ Later(b.c, r.c)
        /\ r.c.state \notin Tcp!Up
    BY <2>4, <2>6, SendGood DEF Tcp!Up
  <2> QED
    BY <1>8, <2>6, <2>7 DEF Handled, Left, c, Later, Tcp!Up, Tcp!FinSent
<1>9. CASE c.state \notin {"syn_sent", "listen"}
  <2>1. r = j
    BY <1>9 DEF Tcp!handle_tcp_syn, c
  <2> QED
    BY <2>1 DEF Handled, Left, Later
<1> QED
  BY <1>7, <1>8, <1>9

-----------------------------------------------------------------------------
\* One list after another.
LEMMA ConcatIs ==
  ASSUME NEW S, NEW f \in Seq(S), NEW b \in Seq(S)
  PROVE  /\ f \o b \in Seq(S) /\ Len(f \o b) = Len(f) + Len(b)
         /\ \A i \in 1..Len(f) : (f \o b)[i] = f[i]
         /\ \A i \in 1..Len(b) : (f \o b)[Len(f) + i] = b[i]
  OBVIOUS

\* An element is put into a list at the k-th place.
LEMMA InsertProps ==
  ASSUME NEW S, NEW q \in Seq(S), NEW x \in S, NEW k \in 1..(Len(q) + 1)
  PROVE  /\ Tcp!InsertAt(q, k, x) \in Seq(S) /\ Len(Tcp!InsertAt(q, k, x)) = Len(q) + 1
         /\ \A i \in 1..(Len(q) + 1) :
              Tcp!InsertAt(q, k, x)[i] = IF i < k THEN q[i] ELSE IF i = k THEN x ELSE q[i - 1]
<1> DEFINE a == SubSeq(q, 1, k - 1)
           b == SubSeq(q, k, Len(q))
<1>1. Len(q) \in Nat /\ k \in Nat /\ k >= 1 /\ k <= Len(q) + 1
  OBVIOUS
<1>2. a \in Seq(S) /\ Len(a) = k - 1 /\ \A i \in 1..(k - 1) : a[i] = q[i]
  BY <1>1
<1>3. /\ b \in Seq(S) /\ Len(b) = Len(q) - k + 1
      /\ \A i \in 1..(Len(q) - k + 1) : b[i] = q[i + k - 1]
  BY <1>1, SuffixIs
<1>4. Tcp!InsertAt(q, k, x) = (a \o <<x>>) \o b
  BY DEF Tcp!InsertAt
<1> HIDE DEF a, b
<1> DEFINE f == a \o <<x>>
<1>5. f \in Seq(S) /\ Len(f) = k /\ f[k] = x /\ \A i \in 1..(k - 1) : f[i] = q[i]
  BY <1>1, <1>2
<1> HIDE DEF f
<1> DEFINE g == f \o b
<1>6. g \in Seq(S) /\ Len(g) = Len(q) + 1
  <2>1. g \in Seq(S) /\ Len(g) = Len(f) + Len(b)
    BY ONLY <1>3, <1>5, ConcatIs
  <2>2. Len(f) = k /\ Len(b) = Len(q) - k + 1
    BY <1>3, <1>5
  <2> QED
    BY ONLY <1>1, <2>1, <2>2
<1>7. ASSUME NEW i \in 1..(Len(q) + 1)
      PROVE  g[i] = IF i < k THEN q[i] ELSE IF i = k THEN x ELSE q[i - 1]
  <2>1. CASE i <= k
    <3>1. g[i] = f[i]
      BY <1>1, <1>3, <1>5, <2>1
    <3> QED
      BY <1>1, <1>5, <2>1, <3>1
  <2>2. CASE ~(i <= k)
    <3>1. g[i] = b[i - k]
      BY <1>1, <1>3, <1>5, <2>2
    <3>2. i - k \in 1..(Len(q) - k + 1) /\ (i - k) + k - 1 = i - 1
      BY <1>1, <2>2
    <3> QED
      BY <1>1, <1>3, <2>2, <3>1, <3>2
  <2> QED
    BY <1>1, <2>1, <2>2
<1> QED
  BY <1>4, <1>6, <1>7 DEF f

\* Where a received packet is put: never before the one that is being read.
LEMMA SpotProps ==
  ASSUME NEW c \in Tcp!Connection, NEW seq \in Nat
  PROVE  /\ Tcp!Spot(c, seq) \in 1..(Len(c.recv_wait) + 1)
         /\ c.recv_wait # <<>> /\ c.recv_wait[1].seq = c.ack => Tcp!Spot(c, seq) # 1
<1> DEFINE q == c.recv_wait
           stops == {k \in 1..Len(q) : q[k].seq > c.ack /\ q[k].seq >= seq}
           least(k) == \A i \in stops : k <= i
           f == CHOOSE k \in stops : least(k)
<1>1. q \in Seq(Tcp!Data) /\ Len(q) \in Nat /\ c.ack \in Nat
  BY ConnectionIs
<1>2. CASE stops = {}
  <2>1. Tcp!Spot(c, seq) = Len(q) + 1
    BY <1>2 DEF Tcp!Spot
  <2>2. q # <<>> => Len(q) >= 1
    BY <1>1
  <2> QED
    BY <1>1, <2>1, <2>2
<1>3. CASE stops # {}
  <2>1. \E k \in stops : least(k)
    BY <1>1, <1>3, FirstPlace
  <2>2. f \in stops
    <3> HIDE DEF least, stops
    <3> QED
      BY <2>1
  <2>3. Tcp!Spot(c, seq) = f
    BY <1>3 DEF Tcp!Spot
  <2> HIDE DEF f
  <2>4. f \in 1..(Len(q) + 1) /\ q[f].seq > c.ack
    BY <1>1, <2>2
  <2>5. q[f].seq # c.ack
    BY <1>1, <2>4
  <2> QED
    BY <2>3, <2>4, <2>5
<1> QED
  BY <1>2, <1>3

\* A packet with new data, or an empty one, is kept to be read.
LEMMA InsertGood ==
  ASSUME NEW h \in Tcp!Hosts, NEW c, NEW w, NEW env, Surroundings(env), ConGood(h, c, w, env),
         c.state = "established", NEW m \in Tcp!Segment, Carries(m, env.F)
  PROVE  /\ ConGood(h, Tcp!insert_received(c, m), w, env)
         /\ Tcp!insert_received(c, m).state = c.state
<1> DEFINE k == Tcp!Spot(c, m.seq)
           x == [seq |-> m.seq, from |-> m.from, len |-> m.len]
           q == Tcp!InsertAt(c.recv_wait, k, x)
           d == [c EXCEPT !.recv_wait = q]
           r == Tcp!insert_received(c, m)
<1>1. c \in Tcp!Connection
  BY DEF ConGood
<1>2. r = d \/ r = c
  BY DEF Tcp!insert_received
<1>3. /\ c.state \in Tcp!States /\ c.closing \in BOOLEAN /\ c.ack \in Nat
      /\ c.next_seq \in Nat /\ c.sending \in Seq(Tcp!Packet) /\ c.offset \in Nat
      /\ c.recv_wait \in Seq(Tcp!Data)
  BY <1>1, ConnectionIs
<1>4. x \in Tcp!Data /\ x.seq = m.seq /\ x.from = m.from /\ x.len = m.len
  BY SegmentIs DEF Tcp!Data
<1>5. Len(c.recv_wait) \in Nat
  BY <1>3
<1>6. /\ k \in 1..(Len(c.recv_wait) + 1)
      /\ c.recv_wait # <<>> /\ c.recv_wait[1].seq = c.ack => k # 1
  BY <1>1, SegmentIs, SpotProps
<1> HIDE DEF k, x
<1>7. /\ q \in Seq(Tcp!Data) /\ Len(q) = Len(c.recv_wait) + 1
      /\ \A i \in 1..(Len(c.recv_wait) + 1) :
           q[i] = IF i < k THEN c.recv_wait[i] ELSE IF i = k THEN x ELSE c.recv_wait[i - 1]
  <2> DEFINE l == c.recv_wait
  <2>1. l \in Seq(Tcp!Data) /\ x \in Tcp!Data /\ k \in 1..(Len(l) + 1)
    BY <1>3, <1>4, <1>6
  <2> HIDE DEF l
  <2>2. /\ Tcp!InsertAt(l, k, x) \in Seq(Tcp!Data) /\ Len(Tcp!InsertAt(l, k, x)) = Len(l) + 1
        /\ \A i \in 1..(Len(l) + 1) : Tcp!InsertAt(l, k, x)[i] =
             IF i < k THEN l[i] ELSE IF i = k THEN x ELSE l[i - 1]
    <3> DEFINE D == Tcp!Data
    <3>1. l \in Seq(D) /\ x \in D /\ k \in 1..(Len(l) + 1)
      BY <2>1
    <3> HIDE DEF D
    <3>2. /\ Tcp!InsertAt(l, k, x) \in Seq(D) /\ Len(Tcp!InsertAt(l, k, x)) = Len(l) + 1
          /\ \A i \in 1..(Len(l) + 1) : Tcp!InsertAt(l, k, x)[i] =
               IF i < k THEN l[i] ELSE IF i = k THEN x ELSE l[i - 1]
      BY ONLY <3>1, InsertProps
    <3> QED
      BY <3>2 DEF D
  <2> QED
    BY <2>2 DEF l
<1> HIDE DEF q
<1>8. /\ d \in Tcp!Connection /\ d.state = c.state /\ d.closing = c.closing /\ d.ack = c.ack
      /\ d.next_seq = c.next_seq /\ d.sending = c.sending /\ d.offset = c.offset
      /\ d.recv_wait = q
  <2>1. c = [state |-> c.state, closing |-> c.closing, ack |-> c.ack,
             next_seq |-> c.next_seq, sending |-> c.sending, offset |-> c.offset,
             recv_wait |-> c.recv_wait]
    BY <1>1, AreFields
  <2>2. d = [c EXCEPT !.recv_wait = q]
    OBVIOUS
  <2> HIDE DEF d
  <2>3. d = Fields(c.state, c.closing, c.ack, c.next_seq, c.sending, c.offset, q)
    BY ONLY <2>1, <2>2 DEF Fields
  <2> QED
    BY ONLY <1>3, <1>7, <2>3 DEF Fields, Tcp!Connection
<1> HIDE DEF d
<1>9. ConGood(h, d, w, env)
  <2>1. Tcp!InStep(c.ack, c.offset, c.recv_wait, env.g, env.F)
    BY DEF ConGood, Tcp!Receiving
  <2>2. Tcp!InStep(d.ack, d.offset, d.recv_wait, env.g, env.F)
    <3>1. CASE c.offset > 0
      <4>1. /\ c.ack + c.offset = env.g + 1 /\ c.recv_wait # <<>> /\ c.recv_wait[1].seq = c.ack
            /\ c.offset < c.recv_wait[1].len
        BY <2>1, <3>1 DEF Tcp!InStep
      <4>2. 1 < k /\ 1 \in 1..(Len(c.recv_wait) + 1)
        BY <1>5, <1>6, <4>1
      <4>3. q[1] = c.recv_wait[1] /\ q # <<>>
        BY <1>5, <1>7, <4>2
      <4> QED
        BY <1>8, <3>1, <4>1, <4>3 DEF Tcp!InStep
    <3>2. CASE ~(c.offset > 0)
      BY <1>8, <2>1, <3>2 DEF Tcp!InStep
    <3> QED
      BY <3>1, <3>2
  <2>3. Tcp!Receiving(d, env.g, env.fin, env.F)
    BY <1>8, <2>2 DEF ConGood, Tcp!Receiving
  <2>4. Tcp!Sending(d, env.s, env.gp) /\ Tcp!Asked(d, w) /\ Tcp!Counted(d, env.s)
    BY <1>8 DEF ConGood, Tcp!Sending, Tcp!Asked, Tcp!Counted
  <2>5. Tcp!Starting(h, d, env.s, env.g)
    BY <1>8 DEF Tcp!Starting, Tcp!Up
  <2>6. \A i \in 1..Len(d.sending) : Carries(d.sending[i], env.Q)
    BY <1>8 DEF ConGood
  <2>7. \A i \in 1..Len(d.recv_wait) : Carries(d.recv_wait[i], env.F)
    <3> SUFFICES ASSUME NEW i \in 1..(Len(c.recv_wait) + 1) PROVE Carries(q[i], env.F)
      BY <1>7, <1>8
    <3>1. Carries(x, env.F)
      BY <1>4 DEF Carries
    <3>2. \A n \in 1..Len(c.recv_wait) : Carries(c.recv_wait[n], env.F)
      BY DEF ConGood
    <3>3. i < k => i \in 1..Len(c.recv_wait)
      BY <1>5, <1>6
    <3>4. i > k => i - 1 \in 1..Len(c.recv_wait)
      BY <1>5, <1>6
    <3>5. i < k \/ i = k \/ i > k
      BY <1>6
    <3>6. i > k => ~(i < k) /\ i # k
      BY <1>6
    <3>7. CASE i < k
      BY <1>7, <3>2, <3>3, <3>7
    <3>8. CASE i = k
      <4>1. ~(i < k)
        BY <1>6, <3>8
      <4> QED
        BY <1>7, <3>1, <3>8, <4>1
    <3>9. CASE i > k
      BY <1>7, <3>2, <3>4, <3>6, <3>9
    <3> QED
      BY <3>5, <3>7, <3>8, <3>9
  <2> QED
    BY <1>8, <2>3, <2>4, <2>5, <2>6, <2>7 DEF ConGood
<1> QED
  BY <1>2, <1>8, <1>9

\* When the fin is acknowledged, everything before it was read.
LEMMA FinAcked ==
  ASSUME NEW h, NEW c, NEW w, NEW env, Surroundings(env), ConGood(h, c, w, env),
         NEW m, Arrived(h, c, m, env), c.state \in {"last_ack", "fin_wait_1"},
         m.ack = c.next_seq + 1
  PROVE  env.gp = env.s /\ c.next_seq = env.s + 1
<1>1. c.next_seq = env.s + 1
  BY DEF ConGood, Tcp!Counted, Tcp!Up
<1>2. env.gp \in Nat /\ env.s \in Nat /\ env.gp <= env.s
  BY DEF Surroundings
<1>3. m.ack <= env.gp + 1 \/ env.gp = env.s
  BY DEF Arrived, Tcp!AckOK
<1> QED
  BY <1>1, <1>2, <1>3

\* The head of the list is dropped when nothing has to be sent again.
LEMMA HeadGood ==
  ASSUME NEW h \in Tcp!Hosts, NEW c, NEW w, NEW env, Surroundings(env), ConGood(h, c, w, env),
         c.state \in Tcp!Up, env.gp = env.s
  PROVE  LET d == Tcp!DropHead(c)
         IN  /\ d \in Tcp!Connection /\ d.state = c.state /\ d.closing = c.closing
             /\ d.ack = c.ack /\ d.next_seq = c.next_seq /\ d.offset = c.offset
             /\ d.recv_wait = c.recv_wait /\ Tcp!Sending(d, env.s, env.gp)
             /\ \A k \in 1..Len(d.sending) : Carries(d.sending[k], env.Q)
<1> DEFINE d == Tcp!DropHead(c)
           q == Tail(c.sending)
<1>1. c \in Tcp!Connection /\ Tcp!Sending(c, env.s, env.gp)
  BY DEF ConGood
<1>2. CASE c.sending = <<>>
  <2>1. d = c
    BY <1>2 DEF Tcp!DropHead
  <2> QED
    BY <1>1, <2>1 DEF ConGood
<1>3. CASE c.sending # <<>>
  <2>1. d = [c EXCEPT !.sending = q]
    BY <1>3 DEF Tcp!DropHead
  <2>2. /\ c.state \in Tcp!States /\ c.closing \in BOOLEAN /\ c.ack \in Nat
        /\ c.next_seq \in Nat /\ c.sending \in Seq(Tcp!Packet) /\ c.offset \in Nat
        /\ c.recv_wait \in Seq(Tcp!Data) /\ Len(c.sending) \in Nat
    BY <1>1, ConnectionIs
  <2>3. q \in Seq(Tcp!Packet) /\ q = SubSeq(c.sending, 2, Len(c.sending))
        /\ 2 \in 1..(Len(c.sending) + 1)
    BY <1>3, <2>2
  <2> HIDE DEF d, q
  <2>4. /\ d \in Tcp!Connection /\ d.state = c.state /\ d.closing = c.closing
        /\ d.ack = c.ack /\ d.next_seq = c.next_seq /\ d.offset = c.offset
        /\ d.recv_wait = c.recv_wait /\ d.sending = q
    <3>1. c = [state |-> c.state, closing |-> c.closing, ack |-> c.ack,
               next_seq |-> c.next_seq, sending |-> c.sending, offset |-> c.offset,
               recv_wait |-> c.recv_wait]
      BY <1>1, AreFields
    <3>2. d = Fields(c.state, c.closing, c.ack, c.next_seq, q, c.offset, c.recv_wait)
      BY ONLY <2>1, <3>1 DEF Fields
    <3> QED
      BY ONLY <2>2, <2>3, <3>2 DEF Fields, Tcp!Connection
  <2>5. env.gp..env.s-1 = {} /\ env.s \in Nat /\ env.gp \in Nat
    BY DEF Surroundings
  <2>6. /\ Tcp!Sending(d, env.s, env.gp)
        /\ \A k \in 1..Len(d.sending) :
             k + 2 - 1 \in 1..Len(c.sending) /\ d.sending[k] = c.sending[k + 2 - 1]
    BY <1>1, <2>3, <2>4, <2>5, DropSending
  <2>7. \A k \in 1..Len(d.sending) : Carries(d.sending[k], env.Q)
    BY <2>6 DEF ConGood
  <2> QED
    BY <2>4, <2>6, <2>7 DEF d
<1> QED
  BY <1>2, <1>3

\* A segment without syn and fin acknowledges, and may bring data.
LEMMA AckGood ==
  ASSUME NEW h \in Tcp!Hosts, NEW j, NEW w, NEW env, Surroundings(env), Good(h, j, w, env),
         j.reply = "none", NEW m, Arrived(h, j.c, m, env), "syn" \notin m.flags
  PROVE  Handled(h, j, Tcp!handle_tcp_ack(h, j, m), m, w, env)
<1> DEFINE c == j.c
           head == Tcp!DropHead(c)
           r == Tcp!handle_tcp_ack(h, j, m)
<1>1. /\ j \in Jobs /\ ConGood(h, c, w, env) /\ c \in Tcp!Connection
      /\ \A n \in j.out : OutGood(h, j.c, n, env)
  BY DEF Good, ConGood
<1>2. /\ env.s \in Nat /\ env.g \in Nat /\ m \in Tcp!Segment /\ Carries(m, env.F)
      /\ "none" \in Tcp!Requests /\ "listen" \in Tcp!Requests
  BY DEF Surroundings, Arrived, Tcp!Requests
<1>3. m.flags # {"syn"}
  OBVIOUS
<1>4. ASSUME NEW d, ConGood(h, d, w, env), Later(c, d), r = Tcp!Update(j, d)
      PROVE  Handled(h, j, r, m, w, env)
  <2>1. Good(h, r, w, env) /\ r.c = d /\ r.reply = "none"
    BY <1>1, <1>2, <1>4, NewJob
  <2> HIDE DEF r
  <2> QED
    BY <1>3, <1>4, <2>1 DEF Handled, Left
<1>5. ASSUME r = j PROVE Handled(h, j, r, m, w, env)
  BY <1>3, <1>5 DEF Handled, Left, Later
<1>6. Arrived(h, c, m, env)
  OBVIOUS
<1>7. c = [state |-> c.state, closing |-> c.closing, ack |-> c.ack,
           next_seq |-> c.next_seq, sending |-> c.sending, offset |-> c.offset,
           recv_wait |-> c.recv_wait]
  BY <1>1, AreFields
<1>8. /\ c.state \in Tcp!States /\ c.closing \in BOOLEAN /\ c.ack \in Nat
      /\ c.next_seq \in Nat /\ c.sending \in Seq(Tcp!Packet) /\ c.offset \in Nat
      /\ c.recv_wait \in Seq(Tcp!Data)
  BY <1>1, ConnectionIs
<1>9. CASE c.state = "last_ack"
  <2>1. CASE m.ack = c.next_seq + 1
    <3>1. r = Tcp!Update(j, head)
      BY <1>9, <2>1 DEF Tcp!handle_tcp_ack
    <3> HIDE DEF c
    <3>2. env.gp = env.s /\ c.state \in Tcp!Up
      BY <1>1, <1>6, <1>9, <2>1, FinAcked DEF Tcp!Up
    <3>3. /\ head \in Tcp!Connection /\ head.state = c.state /\ head.closing = c.closing
          /\ head.ack = c.ack /\ head.next_seq = c.next_seq /\ head.offset = c.offset
          /\ head.recv_wait = c.recv_wait /\ Tcp!Sending(head, env.s, env.gp)
          /\ \A k \in 1..Len(head.sending) : Carries(head.sending[k], env.Q)
      BY <1>1, <3>2, HeadGood
    <3> HIDE DEF head
    <3>4. Tcp!Counted(head, env.s)
      BY <1>1, <1>9, <3>3 DEF ConGood, Tcp!Counted
    <3>5. Tcp!Starting(h, head, env.s, env.g) /\ Tcp!Asked(head, w)
      BY <1>9, <3>2, <3>3 DEF Tcp!Starting, Tcp!Asked
    <3>6. Tcp!Receiving(head, env.g, env.fin, env.F)
      BY <1>1, <3>3 DEF ConGood, Tcp!Receiving
    <3>7. \A k \in 1..Len(head.recv_wait) : Carries(head.recv_wait[k], env.F)
      BY <1>1, <3>3 DEF ConGood
    <3>8. ConGood(h, head, w, env) /\ Later(c, head)
      BY <3>3, <3>4, <3>5, <3>6, <3>7 DEF ConGood, Later
    <3> QED
      BY <1>4, <3>1, <3>8 DEF c
  <2>2. CASE m.ack # c.next_seq + 1
    BY <1>5, <1>9, <2>2 DEF Tcp!handle_tcp_ack
  <2> QED
    BY <2>1, <2>2
<1>10. CASE c.state = "fin_wait_1"
  <2>1. CASE m.ack = c.next_seq + 1
    <3> DEFINE d == [head EXCEPT !.state = "fin_wait_2", !.next_seq = @ + 1]
    <3>1. r = Tcp!Update(j, d)
      BY <1>10, <2>1 DEF Tcp!handle_tcp_ack
    <3> HIDE DEF c
    <3>2. env.gp = env.s /\ c.next_seq = env.s + 1 /\ c.state \in Tcp!Up
      BY <1>1, <1>6, <1>10, <2>1, FinAcked DEF Tcp!Up
    <3>3. /\ head \in Tcp!Connection /\ head.state = c.state /\ head.closing = c.closing
          /\ head.ack = c.ack /\ head.next_seq = c.next_seq /\ head.offset = c.offset
          /\ head.recv_wait = c.recv_wait /\ Tcp!Sending(head, env.s, env.gp)
          /\ \A k \in 1..Len(head.sending) : Carries(head.sending[k], env.Q)
      BY <1>1, <3>2, HeadGood
    <3> HIDE DEF head
    <3>4. /\ d \in Tcp!Connection /\ d.state = "fin_wait_2" /\ d.closing = c.closing
          /\ d.ack = c.ack /\ d.next_seq = env.s + 2 /\ d.sending = head.sending
          /\ d.recv_wait = c.recv_wait
      <4>1. head = [state |-> head.state, closing |-> head.closing, ack |-> head.ack,
             next_seq |-> head.next_seq, sending |-> head.sending, offset |-> head.offset,
             recv_wait |-> head.recv_wait]
        BY <3>3, AreFields
      <4>2. d = [head EXCEPT !.state = "fin_wait_2", !.next_seq = @ + 1]
        OBVIOUS
      <4> HIDE DEF d
      <4>3. d = Fields("fin_wait_2", head.closing, head.ack, head.next_seq + 1, head.sending,
                       head.offset, head.recv_wait)
        BY ONLY <4>1, <4>2 DEF Fields
      <4>4. /\ head.next_seq + 1 = env.s + 2 /\ env.s + 2 \in Nat /\ "fin_wait_2" \in Tcp!States
            /\ head.sending \in Seq(Tcp!Packet)
        BY <1>2, <3>2, <3>3, ConnectionIs DEF Tcp!States
      <4> QED
        BY ONLY <1>8, <3>3, <4>3, <4>4 DEF Fields, Tcp!Connection
    <3> HIDE DEF d
    <3>5. Later(c, d) /\ "fin_wait_2" \in Tcp!Up
      BY <1>10, <3>4 DEF Later, Tcp!Up, Tcp!FinSent
    <3>6. Tcp!Counted(d, env.s)
      BY <3>4 DEF Tcp!Counted
    <3>7. w = "disconnect"
      BY <1>1, <1>10 DEF ConGood, Tcp!Asked
    <3>8. Tcp!Starting(h, d, env.s, env.g) /\ Tcp!Asked(d, w)
      BY <3>4, <3>5, <3>7 DEF Tcp!Starting, Tcp!Asked
    <3>9. Tcp!Receiving(d, env.g, env.fin, env.F)
      BY <1>1, <1>10, <3>2, <3>4 DEF ConGood, Tcp!Receiving
    <3>10. Tcp!Sending(d, env.s, env.gp)
      BY <3>3, <3>4 DEF Tcp!Sending
    <3>11. /\ \A k \in 1..Len(d.recv_wait) : Carries(d.recv_wait[k], env.F)
           /\ \A k \in 1..Len(d.sending) : Carries(d.sending[k], env.Q)
      BY <1>1, <3>3, <3>4 DEF ConGood
    <3>12. ConGood(h, d, w, env)
      BY <3>4, <3>6, <3>8, <3>9, <3>10, <3>11 DEF ConGood
    <3> QED
      BY <1>4, <3>1, <3>5, <3>12 DEF c
  <2>2. CASE m.ack # c.next_seq + 1
    <3>1. r = Tcp!send_tcp_pkt(h, j)
      BY <1>10, <2>2 DEF Tcp!handle_tcp_ack
    <3>2. Good(h, r, w, env) /\ r.reply = "none" /\ Later(j.c, r.c)
      BY <3>1, SendGood
    <3> QED
      BY <1>3, <3>2 DEF Handled, Left
  <2> QED
    BY <2>1, <2>2
<1>11. CASE c.state = "syn_received"
  <2> DEFINE d == [c EXCEPT !.state = "established", !.next_seq = @ + 1]
  <2>1. r = Tcp!Answer(j, d, "listen")
    BY <1>11 DEF Tcp!handle_tcp_ack
  <2> HIDE DEF c
  <2>2. /\ c.next_seq = 0 /\ env.s = 0 /\ env.g = 0 /\ ~c.closing /\ c.offset = 0
        /\ c.ack = 1 /\ w = "listen"
    BY <1>1, <1>11 DEF ConGood, Tcp!Starting, Tcp!Asked, Tcp!Up
  <2>3. /\ d \in Tcp!Connection /\ d.state = "established" /\ d.closing = c.closing
        /\ d.ack = 1 /\ d.next_seq = 1 /\ d.sending = c.sending /\ d.offset = 0
        /\ d.recv_wait = c.recv_wait
    <3>1. d = [c EXCEPT !.state = "established", !.next_seq = @ + 1]
      OBVIOUS
    <3> HIDE DEF d
    <3>2. d = Fields("established", c.closing, c.ack, c.next_seq + 1, c.sending, c.offset,
                     c.recv_wait)
      BY ONLY <1>7, <3>1 DEF Fields
    <3>3. "established" \in Tcp!States /\ c.next_seq + 1 = 1
      BY <2>2 DEF Tcp!States
    <3> QED
      BY ONLY <1>8, <2>2, <3>2, <3>3 DEF Fields, Tcp!Connection
  <2> HIDE DEF d
  <2>4. Later(c, d) /\ "established" \in Tcp!Up
    BY <1>11, <2>3 DEF Later, Tcp!Up, Tcp!FinSent
  <2>5. ConGood(h, d, "none", env)
    <3>1. Tcp!Asked(d, "none") /\ Tcp!Counted(d, env.s)
      BY <2>2, <2>3 DEF Tcp!Asked, Tcp!Counted
    <3>2. Tcp!Receiving(d, env.g, env.fin, env.F)
      BY <2>2, <2>3 DEF Tcp!Receiving, Tcp!AckOK, Tcp!InStep
    <3> QED
      BY <1>1, <2>3, <2>4, <3>1, <3>2, SameLists
  <2>6. Good(h, r, "none", env) /\ r.c = d /\ r.reply = "listen"
    BY <1>1, <1>2, <2>1, <2>4, <2>5, NewJob DEF c
  <2> HIDE DEF r
  <2>7. Handled(h, j, r, m, w, env)
    BY <1>3, <2>2, <2>4, <2>6 DEF Handled, Left, c
  <2> QED
    BY <2>7 DEF r
<1>12. CASE c.state = "established"
  <2> DEFINE d == Tcp!insert_received(c, m)
  <2>1. r = Tcp!Update(j, d) \/ r = Tcp!AckNow(h, j) \/ r = j
    BY <1>12 DEF Tcp!handle_tcp_ack
  <2>2. CASE r = Tcp!Update(j, d)
    <3> HIDE DEF c
    <3>1. ConGood(h, d, w, env) /\ d.state = c.state
      BY <1>1, <1>2, <1>12, InsertGood
    <3>2. Later(c, d)
      BY <3>1 DEF Later
    <3> QED
      BY <1>4, <2>2, <3>1, <3>2 DEF c
  <2>3. CASE r = Tcp!AckNow(h, j)
    <3>1. j.c.state \in Tcp!Up
      BY <1>12 DEF Tcp!Up
    <3>2. Good(h, r, w, env) /\ r.reply = "none" /\ Later(j.c, r.c)
      BY <2>3, <3>1, AckNowGood
    <3> QED
      BY <1>3, <3>2 DEF Handled, Left
  <2> QED
    BY <1>5, <2>1, <2>2, <2>3
<1>13. CASE c.state \notin {"last_ack", "fin_wait_1", "syn_received", "established"}
  <2>1. r = j
    BY <1>13 DEF Tcp!handle_tcp_ack
  <2> QED
    BY <1>5, <2>1
<1> QED
  BY <1>9, <1>10, <1>11, <1>12, <1>13

-----------------------------------------------------------------------------
\* An acknowledgement drops packets that were read, and never a fin.
LEMMA AckedGood ==
  ASSUME NEW h \in Tcp!Hosts, NEW c, NEW w, NEW env, Surroundings(env), ConGood(h, c, w, env),
         NEW m, Arrived(h, c, m, env), NEW d, d = [c EXCEPT !.sending = Tcp!Acked(@, m.ack)]
  PROVE  ConGood(h, d, w, env) /\ d.state = c.state
<1> DEFINE q == c.sending
           r == Tcp!Acked(q, m.ack)
<1>1. c \in Tcp!Connection
  BY DEF ConGood
<1>2. /\ c.state \in Tcp!States /\ c.closing \in BOOLEAN /\ c.ack \in Nat
      /\ c.next_seq \in Nat /\ c.sending \in Seq(Tcp!Packet) /\ c.offset \in Nat
      /\ c.recv_wait \in Seq(Tcp!Data)
  BY <1>1, ConnectionIs
<1>3. m.ack \in Nat
  BY SegmentIs DEF Arrived
<1>4. PICK f \in 1..(Len(q) + 1) :
        /\ r = SubSeq(q, f, Len(q))
        /\ \A i \in 1..(f - 1) : q[i].seq + q[i].len <= m.ack /\ "fin" \notin q[i].flags
  BY <1>2, <1>3, AckedProps
<1>5. /\ r \in Seq(Tcp!Packet) /\ Len(q) \in Nat
      /\ \A i \in 1..(f - 1) : i \in 1..Len(q)
  <2>1. q \in Seq(Tcp!Packet)
    BY <1>2
  <2>2. r \in Seq(Tcp!Packet)
    BY <1>4, <2>1, SuffixIs
  <2>3. Len(q) \in Nat /\ f \in Nat /\ f - 1 <= Len(q)
    BY <2>1
  <2>4. \A i \in 1..(f - 1) : i \in 1..Len(q)
    BY <2>3
  <2> QED
    BY <2>2, <2>3, <2>4
<1> HIDE DEF r
<1>6. /\ d \in Tcp!Connection /\ d.state = c.state /\ d.closing = c.closing /\ d.ack = c.ack
      /\ d.next_seq = c.next_seq /\ d.sending = r /\ d.offset = c.offset
      /\ d.recv_wait = c.recv_wait
  <2>1. c = [state |-> c.state, closing |-> c.closing, ack |-> c.ack,
             next_seq |-> c.next_seq, sending |-> c.sending, offset |-> c.offset,
             recv_wait |-> c.recv_wait]
    BY <1>1, AreFields
  <2>2. d = [c EXCEPT !.sending = r]
    BY DEF r
  <2>3. d = Fields(c.state, c.closing, c.ack, c.next_seq, r, c.offset, c.recv_wait)
    BY ONLY <2>1, <2>2 DEF Fields
  <2> QED
    BY ONLY <1>2, <1>5, <2>3 DEF Fields, Tcp!Connection
<1>7. /\ env.s \in Nat /\ env.gp \in Nat /\ env.gp <= env.s
  BY DEF Surroundings
<1>8. Tcp!Sending(c, env.s, env.gp)
  BY DEF ConGood
<1>9. \A i \in 1..(f - 1) : \A b \in env.gp..env.s-1 :
        b \notin c.sending[i].from .. c.sending[i].from + c.sending[i].len - 1
  <2> SUFFICES ASSUME NEW i \in 1..(f - 1), NEW b \in env.gp..env.s-1,
                      b \in c.sending[i].from .. c.sending[i].from + c.sending[i].len - 1
               PROVE  FALSE
    OBVIOUS
  <2>1. c.sending[i] \in Tcp!Packet /\ Tcp!Numbered(c.sending[i], env.s)
    BY <1>1, <1>5, <1>8, ConnectionIs DEF Tcp!Sending
  <2>2. /\ c.sending[i].seq \in Nat /\ c.sending[i].from \in Nat /\ c.sending[i].len \in Nat
        /\ c.sending[i].seq + c.sending[i].len <= m.ack
    BY <1>4, <2>1, PacketIs
  <2>3. c.sending[i].len > 0
    BY <2>2
  <2>4. c.sending[i].seq = c.sending[i].from + 1
    BY <2>1, <2>3 DEF Tcp!Numbered
  <2>5. m.ack <= env.gp + 1
    <3>1. m.ack <= env.gp + 1 \/ env.gp = env.s
      BY DEF Arrived, Tcp!AckOK
    <3> QED
      BY <1>7, <3>1
  <2>6. b >= env.gp /\ b <= c.sending[i].from + c.sending[i].len - 1 /\ b \in Int
    BY <1>7, <2>2
  <2> DEFINE sq == c.sending[i].seq
             fr == c.sending[i].from
             ln == c.sending[i].len
  <2>7. /\ sq \in Nat /\ fr \in Nat /\ ln \in Nat /\ sq + ln <= m.ack /\ sq = fr + 1
        /\ b <= fr + ln - 1
    BY <2>2, <2>4, <2>6
  <2> DEFINE gp == env.gp
             a == m.ack
  <2>8. gp \in Nat /\ a \in Nat /\ a <= gp + 1 /\ b >= gp /\ b \in Int /\ sq + ln <= a
    BY <1>3, <1>7, <2>5, <2>6, <2>7
  <2> HIDE DEF sq, fr, ln, gp, a
  <2> QED
    BY ONLY <2>7, <2>8
<1>10. /\ Tcp!Sending(d, env.s, env.gp) /\ Len(r) = Len(q) - f + 1
       /\ \A k \in 1..Len(r) : k + f - 1 \in 1..Len(q) /\ r[k] = q[k + f - 1]
  <2>1. /\ d.sending = SubSeq(c.sending, f, Len(c.sending)) /\ (c.closing => d.closing)
        /\ f \in 1..(Len(c.sending) + 1) /\ d \in Tcp!Connection
    BY <1>4, <1>6
  <2>2. /\ Tcp!Sending(d, env.s, env.gp) /\ Len(d.sending) = Len(c.sending) - f + 1
        /\ \A k \in 1..Len(d.sending) :
             k + f - 1 \in 1..Len(c.sending) /\ d.sending[k] = c.sending[k + f - 1]
    <3> HIDE DEF q
    <3> QED
      BY ONLY <1>1, <1>6, <1>7, <1>8, <1>9, <2>1, DropSending, SMTT(60)
  <2> QED
    BY <1>6, <2>2
<1>11. (\E k \in 1..Len(q) : "fin" \in q[k].flags) => \E k \in 1..Len(r) : "fin" \in r[k].flags
  <2> SUFFICES ASSUME NEW k \in 1..Len(q), "fin" \in q[k].flags
               PROVE  \E i \in 1..Len(r) : "fin" \in r[i].flags
    OBVIOUS
  <2>1. k \notin 1..(f - 1)
    BY <1>4
  <2>2. k - f + 1 \in 1..Len(r) /\ (k - f + 1) + f - 1 = k
    BY <1>5, <1>10, <2>1
  <2> QED
    BY <1>10, <2>2
<1>12. Tcp!Counted(d, env.s)
  BY <1>6, <1>11 DEF ConGood, Tcp!Counted
<1>13. Tcp!Starting(h, d, env.s, env.g)
  <2>1. Tcp!Starting(h, c, env.s, env.g)
    BY DEF ConGood
  <2>2. c.sending = <<>> => r = <<>>
    BY <1>5, <1>10
  <2>3. c.state \notin Tcp!Up /\ c.state = "syn_sent" => \A k \in 1..Len(r) : r[k].flags = {"syn"}
    BY <1>10, <2>1 DEF Tcp!Starting
  <2> HIDE DEF q
  <2> QED
    BY <1>6, <2>1, <2>2, <2>3 DEF Tcp!Starting
<1>14. Tcp!Asked(d, w) /\ Tcp!Receiving(d, env.g, env.fin, env.F)
  BY <1>6 DEF ConGood, Tcp!Asked, Tcp!Receiving
<1>15. /\ \A k \in 1..Len(d.recv_wait) : Carries(d.recv_wait[k], env.F)
       /\ \A k \in 1..Len(d.sending) : Carries(d.sending[k], env.Q)
  BY <1>6, <1>10 DEF ConGood
<1> QED
  BY <1>6, <1>10, <1>12, <1>13, <1>14, <1>15 DEF ConGood

\* A segment is handled, and what waits is sent.
LEMMA DispatchGood ==
  ASSUME NEW h \in Tcp!Hosts, NEW j, NEW w, NEW env, Surroundings(env), Good(h, j, w, env),
         j.reply = "none", NEW m, Arrived(h, j.c, m, env)
  PROVE  Handled(h, j, Tcp!send_tcp_pkt(h, Tcp!Dispatch(h, j, m)), m, w, env)
<1> DEFINE d == Tcp!Dispatch(h, j, m)
           r == Tcp!send_tcp_pkt(h, d)
<1>1. Handled(h, j, d, m, w, env)
  <2>1. CASE "fin" \in m.flags
    BY <2>1, FinGood DEF Tcp!Dispatch
  <2>2. CASE "fin" \notin m.flags /\ "syn" \in m.flags
    BY <2>2, SynGood DEF Tcp!Dispatch
  <2>3. CASE "fin" \notin m.flags /\ "syn" \notin m.flags
    BY <2>3, AckGood DEF Tcp!Dispatch
  <2> QED
    BY <2>1, <2>2, <2>3
<1> HIDE DEF d
<1>2. /\ Good(h, d, Left(w, d), env) /\ Later(j.c, d.c) /\ (d.reply # "none" => d.reply = w)
      /\ d.c.state \in Tcp!Up /\ j.c.state \notin Tcp!Up => h = A \/ m.flags # {"syn"}
  BY <1>1 DEF Handled
<1>3. /\ Good(h, r, Left(w, d), env) /\ r.reply = d.reply /\ Later(d.c, r.c)
      /\ r.c.state \in Tcp!Up => d.c.state \in Tcp!Up
  BY <1>2, SendGood
<1> HIDE DEF r
<1>4. Handled(h, j, r, m, w, env)
  BY <1>2, <1>3 DEF Handled, Left, Later
<1> QED
  BY <1>4 DEF r, d

-----------------------------------------------------------------------------
(* What a client reads.                                                    *)

\* How far the loop that copies is.
Walk == [room : Nat, ack : Nat, offset : Nat, bytes : Seq(Nat), left : Seq(Tcp!Data),
         stop : BOOLEAN]

WalkOf(room, ack, o, by, left, stop) ==
  [room |-> room, ack |-> ack, offset |-> o, bytes |-> by, left |-> left, stop |-> stop]

\* The data of a stream of which S bytes were written.
WholeOf(F, S) == \A x, y \in F :
  /\ x \in Tcp!Data /\ x.seq = x.from + 1 /\ x.from + x.len <= S
  /\ x = y \/ x.from + x.len <= y.from \/ y.from + y.len <= x.from

\* What holds of the loop after the k-th of the packets q, g bytes being read before.
Copying(k, r, q, ack, g, F, S) ==
  /\ r \in Walk /\ g + Len(r.bytes) <= S /\ ack <= r.ack
  /\ \A i \in 1..Len(r.bytes) : r.bytes[i] = g + i - 1
  /\ \A i \in 1..Len(r.left) : Carries(r.left[i], F)
  /\ Tcp!InStep(r.ack, r.offset, IF r.stop THEN r.left ELSE q, g + Len(r.bytes), F)
  /\ ~r.stop => r.left = <<>> /\ (r.offset > 0 => k = 0)

\* What the loop's fields are.
LEMMA WalkIs ==
  ASSUME NEW r \in Walk
  PROVE  /\ r.room \in Nat /\ r.ack \in Nat /\ r.offset \in Nat /\ r.bytes \in Seq(Nat)
         /\ r.left \in Seq(Tcp!Data) /\ r.stop \in BOOLEAN /\ Len(r.bytes) \in Nat
         /\ r = [room |-> r.room, ack |-> r.ack, offset |-> r.offset, bytes |-> r.bytes,
                 left |-> r.left, stop |-> r.stop]
<1>1. /\ r.room \in Nat /\ r.ack \in Nat /\ r.offset \in Nat /\ r.bytes \in Seq(Nat)
      /\ r.left \in Seq(Tcp!Data) /\ r.stop \in BOOLEAN
      /\ r = [room |-> r.room, ack |-> r.ack, offset |-> r.offset, bytes |-> r.bytes,
              left |-> r.left, stop |-> r.stop]
  BY DEF Walk
<1> QED
  BY <1>1

\* The packet that is not copied is left.
LEMMA LeaveStep ==
  ASSUME NEW q \in Seq(Tcp!Data), NEW k \in 1..Len(q), NEW r, NEW ack \in Nat, NEW g \in Nat,
         NEW F, NEW S \in Nat, Copying(k - 1, r, q, ack, g, F, S), Carries(q[k], F),
         Tcp!CopyEnds(r, q[k])
  PROVE  Copying(k, Tcp!Copy(r, q[k]), q, ack, g, F, S)
<1> DEFINE p == q[k]
           l == Append(r.left, p)
           d == Tcp!Copy(r, p)
<1>1. r \in Walk /\ p \in Tcp!Data /\ k \in Nat /\ k >= 1
  BY DEF Copying
<1>2. /\ r.room \in Nat /\ r.ack \in Nat /\ r.offset \in Nat /\ r.bytes \in Seq(Nat)
      /\ r.left \in Seq(Tcp!Data) /\ r.stop \in BOOLEAN /\ Len(r.left) \in Nat
  BY <1>1, WalkIs
<1>3. d = [r EXCEPT !.stop = TRUE, !.left = Append(@, p)]
  BY DEF Tcp!Copy
<1>4. /\ l \in Seq(Tcp!Data) /\ Len(l) = Len(r.left) + 1 /\ l[Len(r.left) + 1] = p
      /\ \A i \in 1..Len(r.left) : l[i] = r.left[i]
  BY <1>1, <1>2
<1> HIDE DEF p, d
<1>5. d = WalkOf(r.room, r.ack, r.offset, r.bytes, l, TRUE)
  <2>1. r = [room |-> r.room, ack |-> r.ack, offset |-> r.offset, bytes |-> r.bytes,
             left |-> r.left, stop |-> r.stop]
    BY <1>1, WalkIs
  <2>2. d = [r EXCEPT !.stop = TRUE, !.left = l]
    BY <1>3
  <2> HIDE DEF l
  <2> QED
    BY ONLY <2>1, <2>2 DEF WalkOf
<1> HIDE DEF l
<1>6. /\ d \in Walk /\ d.room = r.room /\ d.ack = r.ack /\ d.offset = r.offset
      /\ d.bytes = r.bytes /\ d.left = l /\ d.stop = TRUE
  BY ONLY <1>2, <1>4, <1>5 DEF WalkOf, Walk
<1>7. \A i \in 1..Len(l) : Carries(l[i], F)
  <2>1. \A i \in 1..Len(l) : i \in 1..Len(r.left) \/ i = Len(r.left) + 1
    BY <1>2, <1>4
  <2>2. \A i \in 1..Len(r.left) : Carries(r.left[i], F)
    BY DEF Copying
  <2>3. Carries(p, F)
    BY DEF p
  <2> QED
    BY <1>4, <2>1, <2>2, <2>3
<1>8. Tcp!InStep(r.ack, r.offset, l, g + Len(r.bytes), F)
  <2>1. Tcp!InStep(r.ack, r.offset, IF r.stop THEN r.left ELSE q, g + Len(r.bytes), F)
    BY DEF Copying
  <2>2. CASE ~(r.offset > 0)
    BY <2>1, <2>2 DEF Tcp!InStep
  <2>3. CASE r.offset > 0 /\ r.stop
    <3>1. r.left # <<>> /\ r.ack + r.offset = (g + Len(r.bytes)) + 1 /\ r.left[1].seq = r.ack
          /\ r.offset < r.left[1].len
      BY <2>1, <2>3 DEF Tcp!InStep
    <3>2. 1 \in 1..Len(r.left) /\ l # <<>>
      BY <1>2, <1>4, <3>1
    <3>3. l[1] = r.left[1]
      BY <1>4, <3>2
    <3> QED
      BY <2>3, <3>1, <3>2, <3>3 DEF Tcp!InStep
  <2>4. CASE r.offset > 0 /\ ~r.stop
    <3>1. q # <<>> /\ r.ack + r.offset = (g + Len(r.bytes)) + 1 /\ q[1].seq = r.ack
          /\ r.offset < q[1].len
      BY <2>1, <2>4 DEF Tcp!InStep
    <3>2. r.left = <<>> /\ k - 1 = 0
      BY <2>4 DEF Copying
    <3>3. k = 1 /\ Len(r.left) = 0
      BY <1>1, <3>2
    <3>4. l # <<>> /\ l[1] = p /\ p = q[1]
      <4>1. Len(l) = 1 /\ l[1] = p
        BY <1>4, <3>3
      <4>2. p = q[1]
        BY <3>3 DEF p
      <4>3. l # <<>>
        <5>1. Len(<<>>) = 0
          OBVIOUS
        <5>2. l = <<>> => Len(l) = 0
          BY ONLY <5>1, Zenon
        <5> QED
          BY ONLY <4>1, <5>2
      <4> QED
        BY ONLY <4>1, <4>2, <4>3
    <3> QED
      BY <2>4, <3>1, <3>4 DEF Tcp!InStep
  <2> QED
    BY <2>2, <2>3, <2>4
<1>9. Copying(k, d, q, ack, g, F, S)
  BY <1>6, <1>7, <1>8 DEF Copying
<1> QED
  BY <1>9 DEF d, p

\* How much of a packet is copied, and where that is in the stream.
LEMMA CopyNumbers ==
  ASSUME NEW room \in Nat, NEW ac \in Nat, NEW o \in Nat, NEW fr \in Nat, NEW ln \in Nat,
         NEW here \in Nat, NEW S \in Nat, here <= S, room # 0,
         o > 0 => ac + o = here + 1 /\ o < ln, ~(o > 0) => ac <= here + 1,
         ln > 0 => ac = fr + 1 /\ fr + ln <= S, ln > 0 /\ ~(o > 0) => ac = here + 1,
         NEW l, l = IF room > ln - o THEN ln - o ELSE room
  PROVE  /\ l \in Nat /\ o + l <= ln /\ l <= room /\ (ln > 0 => l > 0) /\ (ln = 0 => l = 0)
         /\ (~(o + l < ln) => l = ln - o) /\ (ln > 0 => fr + o = here)
         /\ here + l <= S /\ here + l \in Nat
         /\ room - l \in Nat /\ ac + l \in Nat /\ o + l \in Nat
         /\ o + l < ln => ln > 0 /\ o + l > 0 /\ ac + (o + l) = (here + l) + 1
         /\ ac + l <= (here + l) + 1 /\ ac <= ac + l
<1>1. ln > 0 => fr + o = here
  OBVIOUS
<1>2. /\ l \in Nat /\ o + l <= ln /\ l <= room /\ (ln > 0 => l > 0) /\ (ln = 0 => l = 0)
      /\ (~(o + l < ln) => l = ln - o)
  OBVIOUS
<1>3. here + l <= S
  <2>1. CASE ln > 0
    BY <1>1, <1>2, <2>1
  <2>2. CASE ~(ln > 0)
    BY <1>2, <2>2
  <2> QED
    BY <2>1, <2>2
<1>4. o + l < ln => ln > 0 /\ o + l > 0 /\ ac + (o + l) = (here + l) + 1
  BY <1>1, <1>2
<1>5. ac + l <= (here + l) + 1
  BY <1>2
<1> QED
  BY <1>1, <1>2, <1>3, <1>4, <1>5

\* What a packet brings that is copied, in whole or in part.
LEMMA CopyStep ==
  ASSUME NEW q \in Seq(Tcp!Data), NEW k \in 1..Len(q), NEW r, NEW ack \in Nat, NEW g \in Nat,
         NEW F, NEW S \in Nat, Copying(k - 1, r, q, ack, g, F, S), Carries(q[k], F),
         WholeOf(F, S), ~Tcp!CopyEnds(r, q[k])
  PROVE  Copying(k, Tcp!Copy(r, q[k]), q, ack, g, F, S)
<1> DEFINE p == q[k]
           room == r.room
           ac == r.ack
           o == r.offset
           by == r.bytes
           fr == p.from
           ln == p.len
           n == Len(by)
           here == g + n
           l == IF room > ln - o THEN ln - o ELSE room
           b == [i \in 1..l |-> fr + o + i - 1]
           all == by \o b
           d == Tcp!Copy(r, p)
<1>1. r \in Walk /\ p \in Tcp!Data /\ k \in Nat /\ k >= 1
  BY DEF Copying
<1>2. /\ room \in Nat /\ ac \in Nat /\ o \in Nat /\ by \in Seq(Nat)
      /\ r.left \in Seq(Tcp!Data) /\ r.stop \in BOOLEAN /\ n \in Nat
  BY <1>1, WalkIs
<1>3. /\ p.seq \in Nat /\ fr \in Nat /\ ln \in Nat
      /\ p = [seq |-> p.seq, from |-> fr, len |-> ln]
  BY <1>1 DEF Tcp!Data
<1>4. ~r.stop /\ room # 0 /\ p.seq = ac
  BY DEF Tcp!CopyEnds
<1>5. /\ Tcp!InStep(ac, o, q, here, F) /\ r.left = <<>>
      /\ (o > 0 => k - 1 = 0) /\ here <= S /\ ack <= ac
      /\ \A i \in 1..n : by[i] = g + i - 1
  BY <1>4 DEF Copying
<1>6. ln > 0 => /\ p \in F /\ p.seq = fr + 1 /\ fr + ln <= S
                /\ \A x \in F : /\ x \in Tcp!Data /\ x.seq = x.from + 1
                                /\ x = p \/ x.from + x.len <= fr \/ fr + ln <= x.from
  <2>1. ln > 0 => p \in F
    BY <1>3 DEF Carries
  <2> QED
    BY <2>1 DEF WholeOf
<1>7. r = [room |-> room, ack |-> ac, offset |-> o, bytes |-> by,
           left |-> r.left, stop |-> r.stop]
  BY <1>1, WalkIs
<1>21. r.room = room /\ r.ack = ac /\ r.offset = o /\ r.bytes = by
  OBVIOUS
<1>8. d = IF o + l < ln
          THEN [r EXCEPT !.room = @ - l, !.bytes = @ \o b, !.stop = TRUE,
                         !.offset = @ + l, !.left = Append(@, p)]
          ELSE [r EXCEPT !.room = @ - l, !.bytes = @ \o b, !.ack = @ + l, !.offset = 0]
  BY DEF Tcp!Copy
<1>9. Carries(p, F)
  OBVIOUS
<1>10. o > 0 => p = q[1]
  BY <1>1, <1>5
<1> HIDE DEF p, d, room, ac, o, by
<1>11. /\ o > 0 => ac + o = here + 1 /\ o < ln
       /\ ~(o > 0) => ac <= here + 1 /\ (ac < here + 1 => \A x \in F : x.seq # ac)
  BY <1>5, <1>10 DEF Tcp!InStep
<1> HIDE DEF n
<1>12. /\ here \in Nat /\ room \in Nat /\ ac \in Nat /\ o \in Nat /\ n \in Nat
       /\ fr \in Nat /\ ln \in Nat /\ g \in Nat /\ ack \in Nat /\ S \in Nat
  BY <1>2, <1>3
<1> HIDE DEF here, fr, ln
<1>13. ln > 0 => ac = fr + 1 /\ fr + ln <= S
  BY <1>4, <1>6
<1>14. ln > 0 /\ ~(o > 0) => ac = here + 1
  <2>1. ln > 0 /\ ~(o > 0) => ac <= here + 1 /\ ~(ac < here + 1)
    BY <1>4, <1>6, <1>11
  <2> QED
    BY ONLY <1>12, <2>1
<1>15. l = IF room > ln - o THEN ln - o ELSE room
  OBVIOUS
<1> HIDE DEF l
<1>16. /\ l \in Nat /\ o + l <= ln /\ l <= room /\ (ln > 0 => l > 0) /\ (ln = 0 => l = 0)
       /\ (~(o + l < ln) => l = ln - o) /\ (ln > 0 => fr + o = here)
       /\ here + l <= S /\ here + l \in Nat
       /\ room - l \in Nat /\ ac + l \in Nat /\ o + l \in Nat
       /\ o + l < ln => ln > 0 /\ o + l > 0 /\ ac + (o + l) = (here + l) + 1
       /\ ac + l <= (here + l) + 1 /\ ac <= ac + l
  <2>1. /\ here <= S /\ room # 0 /\ (o > 0 => ac + o = here + 1 /\ o < ln)
        /\ (~(o > 0) => ac <= here + 1) /\ S \in Nat
    BY <1>4, <1>5, <1>11
  <2> QED
    BY ONLY <1>12, <1>13, <1>14, <1>15, <2>1, CopyNumbers
<1>17. /\ all \in Seq(Nat) /\ Len(all) = n + l
       /\ \A i \in 1..Len(all) : all[i] = g + i - 1
  <2> DEFINE start == fr + o
  <2>1. start \in Nat /\ (l > 0 => start = g + Len(by))
    <3>1. start \in Nat /\ (l > 0 => start = here)
      BY ONLY <1>12, <1>16 DEF start
    <3> QED
      BY <3>1 DEF here, n
  <2>2. b \in Seq(Nat) /\ Len(b) = l /\ \A i \in 1..l : b[i] = start + i - 1
    <3>1. b = [i \in 1..l |-> start + i - 1]
      OBVIOUS
    <3> HIDE DEF start, b
    <3>2. l \in Nat /\ \A i \in 1..l : start + i - 1 \in Nat
      BY ONLY <1>16, <2>1
    <3> QED
      BY ONLY <3>1, <3>2
  <2>3. \A i \in 1..Len(by) : by[i] = g + i - 1
    BY <1>5 DEF n
  <2> HIDE DEF start, b
  <2>4. by \in Seq(Nat) /\ b \in Seq(Nat)
    BY <1>2, <2>2
  <2>5. /\ by \o b \in Seq(Nat) /\ Len(by \o b) = Len(by) + Len(b)
        /\ \A i \in 1..Len(by) : (by \o b)[i] = by[i]
        /\ \A i \in 1..Len(b) : (by \o b)[Len(by) + i] = b[i]
    BY ONLY <2>4
  <2>6. /\ all \in Seq(Nat) /\ Len(all) = Len(by) + Len(b)
        /\ \A i \in 1..Len(by) : all[i] = by[i]
        /\ \A i \in 1..Len(b) : all[Len(by) + i] = b[i]
    BY ONLY <2>5, Zenon DEF all
  <2> HIDE DEF all
  <2>7. /\ Len(all) = n + l /\ l \in Nat /\ g \in Nat /\ n \in Nat
        /\ (l > 0 => start = g + n) /\ start \in Nat
        /\ \A i \in 1..n : all[i] = by[i] /\ by[i] = g + i - 1
        /\ \A i \in 1..l : all[n + i] = b[i]
    BY <1>12, <1>16, <2>1, <2>2, <2>3, <2>6 DEF n
  <2>8. \A i \in 1..Len(all) : all[i] = g + i - 1
    <3>1. ASSUME NEW i \in 1..(n + l) PROVE all[i] = g + i - 1
      <4>1. CASE i <= n
        <5>1. i \in 1..n
          BY <2>7, <4>1
        <5> QED
          BY <2>7, <5>1
      <4>2. CASE ~(i <= n)
        <5>1. i - n \in 1..l /\ n + (i - n) = i /\ l > 0
          BY ONLY <2>7, <4>2, i \in 1..(n + l)
        <5>2. all[i] = start + (i - n) - 1
          BY <2>2, <2>7, <5>1
        <5> QED
          BY ONLY <2>7, <5>1, <5>2
      <4> QED
        BY <4>1, <4>2
    <3>2. 1..Len(all) = 1..(n + l)
      BY <2>7
    <3> QED
      BY ONLY <3>1, <3>2, Zenon
  <2> QED
    BY <2>6, <2>7, <2>8
<1> HIDE DEF b, all
<1>18. g + Len(all) = here + l
  BY ONLY <1>12, <1>16, <1>17 DEF here
<1>19. CASE o + l < ln
  <2>1. d = [r EXCEPT !.room = @ - l, !.bytes = @ \o b, !.stop = TRUE,
                      !.offset = @ + l, !.left = Append(@, p)]
    BY <1>8, <1>19
  <2>2. Append(r.left, p) = <<p>> /\ <<p>> \in Seq(Tcp!Data) /\ Len(<<p>>) = 1
        /\ <<p>>[1] = p /\ <<p>> # <<>>
    BY <1>1, <1>5
  <2>3. d = WalkOf(room - l, ac, o + l, all, Append(r.left, p), TRUE)
    BY ONLY <1>7, <1>21, <2>1 DEF WalkOf, all
  <2>4. /\ d \in Walk /\ d.ack = ac /\ d.offset = o + l /\ d.bytes = all
        /\ d.left = <<p>> /\ d.stop = TRUE
    BY ONLY <1>2, <1>16, <1>17, <2>2, <2>3 DEF WalkOf, Walk
  <2>5. \A i \in 1..Len(d.left) : Carries(d.left[i], F)
    BY <1>9, <2>2, <2>4
  <2>6. Tcp!InStep(d.ack, d.offset, d.left, here + l, F)
    <3>1. d.left[1] = p /\ p.seq = d.ack /\ d.offset < p.len /\ d.left # <<>>
      BY <1>4, <1>19, <2>2, <2>4 DEF ln
    <3> QED
      BY <1>16, <1>19, <2>4, <3>1 DEF Tcp!InStep
  <2>7. Copying(k, d, q, ack, g, F, S)
    BY <1>5, <1>16, <1>17, <1>18, <2>4, <2>5, <2>6 DEF Copying
  <2> QED
    BY <2>7 DEF d, p
<1>20. CASE ~(o + l < ln)
  <2>1. d = [r EXCEPT !.room = @ - l, !.bytes = @ \o b, !.ack = @ + l, !.offset = 0]
    BY <1>8, <1>20
  <2>2. d = WalkOf(room - l, ac + l, 0, all, r.left, r.stop)
    BY ONLY <1>7, <1>21, <2>1 DEF WalkOf, all
  <2>3. /\ d \in Walk /\ d.ack = ac + l /\ d.offset = 0 /\ d.bytes = all
        /\ d.left = r.left /\ d.stop = r.stop
    BY ONLY <1>2, <1>16, <1>17, <2>2 DEF WalkOf, Walk
  <2>4. d.left = <<>> /\ Len(d.left) = 0
    BY <1>5, <2>3
  <2>5. l = ln - o
    BY <1>16, <1>20
  <2>6. ASSUME ac + l < (here + l) + 1, NEW x \in F PROVE x.seq # ac + l
    <3>1. CASE ~(o > 0)
      <4>1. ac < here + 1
        BY ONLY <1>12, <1>16, <2>6
      <4>2. \A y \in F : y.seq # ac
        BY <1>11, <3>1, <4>1
      <4>3. ~(ln > 0)
        BY <1>4, <1>6, <4>2
      <4>4. ac + l = ac
        BY ONLY <1>12, <1>16, <4>3
      <4> QED
        BY <4>2, <4>4
    <3>2. CASE o > 0
      <4>1. ln > 0 /\ o < ln
        BY ONLY <1>12, <1>11, <3>2
      <4> DEFINE xf == x.from
                 xl == x.len
                 xs == x.seq
      <4>2. /\ x \in Tcp!Data /\ xs = xf + 1 /\ ac = fr + 1
            /\ x = p \/ xf + xl <= fr \/ fr + ln <= xf
        BY <1>4, <1>6, <4>1
      <4>3. xf \in Nat /\ xl \in Nat /\ xs \in Nat /\ (x = p => xf = fr)
        BY <4>2 DEF Tcp!Data, fr
      <4>4. xf = fr \/ xf + xl <= fr \/ fr + ln <= xf
        BY <4>2, <4>3
      <4> HIDE DEF xf, xl, xs
      <4>5. xs # ac + l
        BY ONLY <1>12, <2>5, <3>2, <4>1, <4>2, <4>3, <4>4
      <4> QED
        BY <4>5 DEF xs
    <3> QED
      BY <3>1, <3>2
  <2>7. Tcp!InStep(d.ack, d.offset, q, here + l, F)
    BY <1>16, <2>3, <2>6 DEF Tcp!InStep
  <2>8. d.stop = FALSE /\ ack <= d.ack
    <3>1. r.stop = FALSE
      BY <1>2, <1>4
    <3>2. ack <= ac + l
      BY ONLY <1>5, <1>12, <1>16
    <3> QED
      BY <2>3, <3>1, <3>2
  <2>9. Copying(k, d, q, ack, g, F, S)
    <3>1. \A i \in 1..Len(d.left) : Carries(d.left[i], F)
      BY <2>4
    <3>2. Tcp!InStep(d.ack, d.offset, IF d.stop THEN d.left ELSE q, g + Len(d.bytes), F)
      BY <1>18, <2>3, <2>7, <2>8
    <3>3. g + Len(d.bytes) <= S /\ \A i \in 1..Len(d.bytes) : d.bytes[i] = g + i - 1
      BY <1>16, <1>17, <1>18, <2>3
    <3>4. d.left = <<>> /\ ~(d.offset > 0) /\ d \in Walk
      BY <2>3, <2>4
    <3> QED
      BY <2>8, <3>1, <3>2, <3>3, <3>4 DEF Copying
  <2> QED
    BY <2>9 DEF d, p
<1> QED
  BY <1>19, <1>20

\* The loop can be continued from every packet.
LEMMA CopyWalk ==
  ASSUME NEW c \in Tcp!Connection, NEW len
  PROVE  \E W : /\ \A i \in 0..Len(c.recv_wait) :
                     W[i] = IF i = 0 THEN WalkOf(len, c.ack, c.offset, <<>>, <<>>, FALSE)
                            ELSE Tcp!Copy(W[i - 1], c.recv_wait[i])
                /\ Tcp!Copied(c, len) = W[Len(c.recv_wait)]
<1> DEFINE q == c.recv_wait
           start == [room |-> len, ack |-> c.ack, offset |-> c.offset, bytes |-> <<>>,
                     left |-> <<>>, stop |-> FALSE]
           body(G, i) == IF i = 0 THEN start ELSE Tcp!Copy(G[i - 1], q[i])
           walk(G, m) == G = [i \in 0..m |-> body(G, i)]
           T == {m \in 0..Len(q) : \E G : walk(G, m)}
<1>1. q \in Seq(Tcp!Data) /\ Len(q) \in Nat
  BY ConnectionIs
<1>2. start = WalkOf(len, c.ack, c.offset, <<>>, <<>>, FALSE)
  BY DEF WalkOf
<1>3. Tcp!Copied(c, len) = (CHOOSE G : walk(G, Len(q)))[Len(q)]
  BY DEF Tcp!Copied
<1> HIDE DEF q, start
<1>4. 0 \in T
  <2> DEFINE G == [i \in 0..0 |-> start]
  <2>1. walk(G, 0)
    OBVIOUS
  <2> HIDE DEF G, walk
  <2>2. \E X : walk(X, 0)
    BY <2>1
  <2> QED
    BY <1>1, <2>2
<1>5. ASSUME NEW m \in 0..(Len(q) - 1), m \in T PROVE m + 1 \in T
  <2>1. PICK G : walk(G, m)
    BY <1>5
  <2> DEFINE next == Tcp!Copy(G[m], q[m + 1])
             H == [i \in 0..(m + 1) |-> IF i = m + 1 THEN next ELSE G[i]]
  <2>2. ASSUME NEW i \in 0..(m + 1) PROVE H[i] = body(H, i)
    <3>1. CASE i = 0
      <4>1. 0 \in 0..m /\ i # m + 1
        BY <3>1
      <4>2. G[0] = body(G, 0)
        BY <2>1, <4>1
      <4> QED
        BY <3>1, <4>1, <4>2
    <3>2. CASE i = m + 1
      <4>1. i - 1 = m /\ H[m] = G[m] /\ H[i] = next /\ i # 0
        BY <3>2
      <4> QED
        BY <3>2, <4>1
    <3>3. CASE i # 0 /\ i # m + 1
      <4>1. i \in 0..m /\ i - 1 \in 0..(m + 1) /\ i - 1 # m + 1
        BY <3>3
      <4>2. H[i] = G[i] /\ H[i - 1] = G[i - 1]
        BY <3>3, <4>1
      <4>3. G[i] = body(G, i)
        BY <2>1, <4>1
      <4> HIDE DEF H
      <4> QED
        BY <3>3, <4>2, <4>3
    <3> QED
      BY <3>1, <3>2, <3>3
  <2>3. walk(H, m + 1)
    <3>1. H = [i \in 0..(m + 1) |-> H[i]]
      OBVIOUS
    <3> HIDE DEF H, body
    <3> QED
      BY <2>2, <3>1
  <2>4. m + 1 \in 0..Len(q)
    BY <1>1
  <2> HIDE DEF walk, H
  <2> QED
    BY <2>3, <2>4
<1>6. Len(q) \in T
  <2> HIDE DEF T
  <2>1. 0..Len(q) \subseteq T
    BY <1>1, <1>4, <1>5, UpTo
  <2> QED
    BY <1>1, <2>1
<1>7. PICK V : walk(V, Len(q))
  BY <1>6
<1> DEFINE W == CHOOSE G : walk(G, Len(q))
<1>8. walk(W, Len(q))
  <2> HIDE DEF walk
  <2> QED
    BY <1>7
<1>9. Tcp!Copied(c, len) = W[Len(q)]
  BY <1>3
<1>10. \A i \in 0..Len(q) : W[i] = body(W, i)
  <2> HIDE DEF W, body
  <2> QED
    BY <1>8
<1> HIDE DEF W
<1> QED
  BY <1>2, <1>9, <1>10 DEF q

\* What a read takes from the packets that were received.
LEMMA CopiedProps ==
  ASSUME NEW c \in Tcp!Connection, NEW len \in Nat, NEW g \in Nat, NEW F, NEW S \in Nat,
         g <= S, Tcp!InStep(c.ack, c.offset, c.recv_wait, g, F), WholeOf(F, S),
         \A k \in 1..Len(c.recv_wait) : Carries(c.recv_wait[k], F)
  PROVE  LET r == Tcp!Copied(c, len)
         IN  /\ r \in Walk /\ g + Len(r.bytes) <= S /\ c.ack <= r.ack
             /\ \A i \in 1..Len(r.bytes) : r.bytes[i] = g + i - 1
             /\ \A i \in 1..Len(r.left) : Carries(r.left[i], F)
             /\ Tcp!InStep(r.ack, r.offset, r.left, g + Len(r.bytes), F)
<1> DEFINE q == c.recv_wait
           start == WalkOf(len, c.ack, c.offset, <<>>, <<>>, FALSE)
<1>1. q \in Seq(Tcp!Data) /\ Len(q) \in Nat /\ c.ack \in Nat /\ c.offset \in Nat
  BY ConnectionIs
<1>2. PICK W : /\ \A i \in 0..Len(q) : W[i] = IF i = 0 THEN start ELSE Tcp!Copy(W[i - 1], q[i])
               /\ Tcp!Copied(c, len) = W[Len(q)]
  BY CopyWalk
<1> HIDE DEF q
<1> DEFINE T == {k \in 0..Len(q) : Copying(k, W[k], q, c.ack, g, F, S)}
<1>3. 0 \in T
  <2>1. W[0] = start
    <3>1. 0 \in 0..Len(q)
      BY <1>1
    <3> HIDE DEF start
    <3> QED
      BY <1>2, <3>1
  <2> DEFINE s == W[0]
  <2>2. <<>> \in Seq(Nat) /\ <<>> \in Seq(Tcp!Data) /\ Len(<<>>) = 0 /\ FALSE \in BOOLEAN
    OBVIOUS
  <2> HIDE DEF s
  <2>3. /\ s \in Walk /\ s.room = len /\ s.ack = c.ack /\ s.offset = c.offset
        /\ s.bytes = <<>> /\ s.left = <<>> /\ s.stop = FALSE
    <3>1. s = WalkOf(len, c.ack, c.offset, <<>>, <<>>, FALSE)
      BY <2>1 DEF s
    <3>2. len \in Nat
      OBVIOUS
    <3> QED
      BY ONLY <1>1, <2>2, <3>1, <3>2 DEF WalkOf, Walk
  <2>4. g + Len(s.bytes) = g /\ Len(s.bytes) = 0 /\ Len(s.left) = 0
    BY <2>3
  <2>5. Tcp!InStep(s.ack, s.offset, IF s.stop THEN s.left ELSE q, g + Len(s.bytes), F)
    BY <2>3, <2>4 DEF q
  <2>6. c.ack <= s.ack
    BY <1>1, <2>3
  <2>7. /\ \A i \in 1..Len(s.bytes) : s.bytes[i] = g + i - 1
        /\ \A i \in 1..Len(s.left) : Carries(s.left[i], F)
    BY <2>4
  <2>8. g + Len(s.bytes) <= S /\ (~s.stop => s.left = <<>> /\ (s.offset > 0 => 0 = 0))
    BY <2>3, <2>4
  <2>9. Copying(0, s, q, c.ack, g, F, S)
    BY ONLY <2>3, <2>5, <2>6, <2>7, <2>8 DEF Copying
  <2> QED
    BY <1>1, <2>9 DEF s
<1>4. ASSUME NEW k \in 0..(Len(q) - 1), k \in T PROVE k + 1 \in T
  <2> DEFINE n == k + 1
  <2>1. n \in 1..Len(q) /\ n - 1 = k /\ n # 0 /\ n \in 0..Len(q)
    BY <1>1
  <2>2. W[n] = Tcp!Copy(W[n - 1], q[n])
    BY <1>2, <2>1
  <2>3. Copying(n - 1, W[n - 1], q, c.ack, g, F, S)
    BY <1>4, <2>1
  <2>4. Carries(q[n], F)
    BY <2>1 DEF q
  <2> HIDE DEF n
  <2>5. Copying(n, W[n], q, c.ack, g, F, S)
    <3>1. CASE Tcp!CopyEnds(W[n - 1], q[n])
      BY <1>1, <2>1, <2>2, <2>3, <2>4, <3>1, LeaveStep
    <3>2. CASE ~Tcp!CopyEnds(W[n - 1], q[n])
      BY <1>1, <2>1, <2>2, <2>3, <2>4, <3>2, CopyStep
    <3> QED
      BY <3>1, <3>2
  <2> QED
    BY <2>1, <2>5 DEF n
<1>5. Len(q) \in T
  <2> HIDE DEF T
  <2>1. 0..Len(q) \subseteq T
    BY <1>1, <1>3, <1>4, UpTo
  <2> QED
    BY <1>1, <2>1
<1> DEFINE r == W[Len(q)]
<1>6. Copying(Len(q), r, q, c.ack, g, F, S) /\ r = Tcp!Copied(c, len)
  BY <1>2, <1>5
<1> HIDE DEF r, T
<1>7. /\ r \in Walk /\ g + Len(r.bytes) <= S /\ c.ack <= r.ack
      /\ \A i \in 1..Len(r.bytes) : r.bytes[i] = g + i - 1
      /\ \A i \in 1..Len(r.left) : Carries(r.left[i], F)
      /\ Tcp!InStep(r.ack, r.offset, IF r.stop THEN r.left ELSE q, g + Len(r.bytes), F)
      /\ ~r.stop => r.left = <<>> /\ (r.offset > 0 => Len(q) = 0)
  BY <1>6 DEF Copying
<1>8. Tcp!InStep(r.ack, r.offset, r.left, g + Len(r.bytes), F)
  <2>1. CASE r.stop
    BY <1>7, <2>1
  <2>2. CASE ~r.stop
    <3>1. Tcp!InStep(r.ack, r.offset, q, g + Len(r.bytes), F)
      BY <1>7, <2>2
    <3>2. ~(r.offset > 0)
      <4> SUFFICES ASSUME r.offset > 0 PROVE FALSE
        OBVIOUS
      <4>1. q # <<>> /\ Len(q) = 0
        BY <1>7, <2>2, <3>1 DEF Tcp!InStep
      <4> QED
        BY <1>1, <4>1
    <3> QED
      BY <3>1, <3>2 DEF Tcp!InStep
  <2> QED
    BY <2>1, <2>2
<1> QED
  BY <1>6, <1>7, <1>8

\* The job a handler begins with.
LEMMA BeginGood ==
  ASSUME NEW h, NEW c, NEW w, NEW env, ConGood(h, c, w, env)
  PROVE  /\ Good(h, Tcp!Job(c), w, env) /\ Tcp!Job(c).c = c /\ Tcp!Job(c).reply = "none"
         /\ Tcp!Job(c).out = {}
<1> DEFINE j == Tcp!Job(c)
<1>1. j = [c |-> c, out |-> {}, reply |-> "none"]
  BY DEF Tcp!Job
<1>2. c \in Tcp!Connection /\ "none" \in Tcp!Requests
  BY DEF ConGood, Tcp!Requests
<1> HIDE DEF j
<1>3. j \in Jobs /\ j.c = c /\ j.out = {} /\ j.reply = "none"
  BY ONLY <1>1, <1>2 DEF Jobs
<1>4. Good(h, j, w, env)
  BY <1>3 DEF Good
<1> QED
  BY <1>3, <1>4 DEF j

\* What is read may be acknowledged.  A connection whose client is not blocked is not
\* closing, so that no fin is waiting for the last packet to be read.
LEMMA ReadGood ==
  ASSUME NEW h \in Tcp!Hosts, NEW c, NEW env, Surroundings(env), ConGood(h, c, "none", env),
         c.state = "established", NEW new, Surroundings(new), new.s = env.s, new.gp = env.gp,
         new.F = env.F, new.Q = env.Q, NEW r \in Walk,
         Tcp!InStep(r.ack, r.offset, r.left, new.g, env.F),
         \A i \in 1..Len(r.left) : Carries(r.left[i], env.F),
         NEW d \in Tcp!Connection, d.state = c.state, d.closing = c.closing, d.ack = r.ack,
         d.next_seq = c.next_seq, d.sending = c.sending, d.offset = r.offset,
         d.recv_wait = r.left,
         NEW j, j = IF c.ack < r.ack THEN Tcp!AckNow(h, Tcp!Job(d)) ELSE Tcp!Job(d)
  PROVE  Good(h, j, "none", new) /\ j.reply = "none" /\ Later(c, j.c)
<1>1. r.ack \in Nat /\ r.offset \in Nat
  BY WalkIs
<1>2. /\ d.state = c.state /\ d.closing = c.closing /\ d.ack = r.ack
      /\ d.next_seq = c.next_seq /\ d.sending = c.sending /\ d.offset = r.offset
      /\ d.recv_wait = r.left
  OBVIOUS
<1>3. ConGood(h, d, "none", new)
  <2>1. Tcp!InStep(d.ack, d.offset, d.recv_wait, new.g, new.F)
    BY <1>2
  <2>2. d.ack <= new.g + 1
    <3>1. new.g \in Nat
      BY DEF Surroundings
    <3> QED
      BY <1>1, <1>2, <2>1, <3>1 DEF Tcp!InStep
  <2>3. Tcp!Receiving(d, new.g, new.fin, new.F)
    BY <1>2, <2>1, <2>2 DEF Tcp!Receiving, Tcp!AckOK
  <2>4. Tcp!Sending(d, new.s, new.gp) /\ Tcp!Asked(d, "none") /\ Tcp!Counted(d, new.s)
    BY <1>2 DEF ConGood, Tcp!Sending, Tcp!Asked, Tcp!Counted
  <2>5. Tcp!Starting(h, d, new.s, new.g)
    BY <1>2 DEF Tcp!Starting, Tcp!Up
  <2>6. \A i \in 1..Len(d.sending) : Carries(d.sending[i], new.Q)
    BY <1>2 DEF ConGood
  <2>7. \A i \in 1..Len(d.recv_wait) : Carries(d.recv_wait[i], new.F)
    BY <1>2
  <2> QED
    BY <1>2, <2>3, <2>4, <2>5, <2>6, <2>7 DEF ConGood
<1> DEFINE a == Tcp!Job(d)
<1>4. Good(h, a, "none", new) /\ a.c = d /\ a.reply = "none"
  BY <1>3, BeginGood
<1> HIDE DEF a
<1>5. /\ Good(h, Tcp!AckNow(h, a), "none", new) /\ Tcp!AckNow(h, a).reply = "none"
       /\ Later(d, Tcp!AckNow(h, a).c)
  <2>1. a.c.state \in Tcp!Up
    BY <1>2, <1>4 DEF Tcp!Up
  <2>2. h \in Tcp!Hosts /\ Surroundings(new)
    OBVIOUS
  <2>3. /\ Good(h, Tcp!AckNow(h, a), "none", new) /\ Tcp!AckNow(h, a).reply = a.reply
        /\ Later(a.c, Tcp!AckNow(h, a).c)
    BY ONLY <1>4, <2>1, <2>2, AckNowGood
  <2> QED
    BY ONLY <1>4, <2>3
<1>6. Good(h, j, "none", new) /\ j.reply = "none" /\ Later(c, j.c)
  <2>1. Later(c, d)
    BY <1>2 DEF Later
  <2>2. CASE c.ack < r.ack
    <3>1. j = Tcp!AckNow(h, a)
      BY <2>2 DEF a
    <3> QED
      BY <1>2, <1>5, <2>1, <3>1 DEF Later
  <2>3. CASE ~(c.ack < r.ack)
    <3>1. j = a
      BY <2>3 DEF a
    <3> QED
      BY <1>4, <2>1, <3>1
  <2> QED
    BY <2>2, <2>3
<1> QED
  BY <1>6

\* What is written is sent at once, unless something else waits to be.
LEMMA WriteGood ==
  ASSUME NEW h \in Tcp!Hosts, NEW c, NEW env, Surroundings(env), ConGood(h, c, "none", env),
         c.state = "established", ~c.closing, NEW len \in Nat, NEW new, Surroundings(new),
         new.s = env.s + len, new.g = env.g, new.gp = env.gp, new.fin = env.fin,
         new.F = env.F, \A p : Carries(p, env.Q) => Carries(p, new.Q),
         len > 0 => [seq |-> env.s + 1, from |-> env.s, len |-> len] \in new.Q
  PROVE  LET added == Tcp!add_pkt(Tcp!Job(c), {"ack", "psh"}, env.s, len)
             j == Tcp!send_tcp_pkt(h, Tcp!Update(added, [added.c EXCEPT !.next_seq = @ + len]))
         IN  Good(h, j, "none", new) /\ j.reply = "none" /\ Later(c, j.c)
<1> DEFINE fl == {"ack", "psh"}
           p == Tcp!Pkt(c, fl, env.s, len)
           q == Append(c.sending, p)
           x == [c EXCEPT !.sending = q]
           d == [x EXCEPT !.next_seq = @ + len]
           added == Tcp!add_pkt(Tcp!Job(c), fl, env.s, len)
           a == Tcp!Update(added, [added.c EXCEPT !.next_seq = @ + len])
           j == Tcp!send_tcp_pkt(h, a)
<1>1. c \in Tcp!Connection
  BY DEF ConGood
<1>2. /\ c.state \in Tcp!States /\ c.closing \in BOOLEAN /\ c.ack \in Nat
      /\ c.next_seq \in Nat /\ c.sending \in Seq(Tcp!Packet) /\ c.offset \in Nat
      /\ c.recv_wait \in Seq(Tcp!Data) /\ Len(c.sending) \in Nat
  BY <1>1, ConnectionIs
<1>3. /\ env.s \in Nat /\ env.gp \in Nat /\ c.next_seq = env.s + 1
  BY DEF Surroundings, ConGood, Tcp!Counted, Tcp!Up
<1>4. /\ p \in Tcp!Packet /\ p.seq = env.s + 1 /\ p.flags = fl /\ p.from = env.s
      /\ p.len = len
  <2>1. p = [seq |-> c.next_seq, flags |-> fl, from |-> env.s, len |-> len]
    BY DEF Tcp!Pkt
  <2>2. fl \in SUBSET Tcp!Flags
    BY DEF Tcp!Flags
  <2> HIDE DEF p, fl
  <2> QED
    BY <1>2, <1>3, <2>1, <2>2 DEF Tcp!Packet
<1>5. added = [c |-> x, out |-> {}, reply |-> "none"]
  <2>1. Tcp!Job(c) \in Jobs /\ Tcp!Job(c).c = c /\ Tcp!Job(c).out = {}
        /\ Tcp!Job(c).reply = "none"
    BY BeginGood DEF Good
  <2> QED
    BY <2>1, JobIs DEF Tcp!add_pkt
<1> HIDE DEF p
<1>6. q \in Seq(Tcp!Packet)
  BY <1>2, <1>4
<1> HIDE DEF q
<1>7. /\ x \in Tcp!Connection
      /\ x = Fields(c.state, c.closing, c.ack, c.next_seq, q, c.offset, c.recv_wait)
  <2>1. c = [state |-> c.state, closing |-> c.closing, ack |-> c.ack,
             next_seq |-> c.next_seq, sending |-> c.sending, offset |-> c.offset,
             recv_wait |-> c.recv_wait]
    BY <1>1, AreFields
  <2>2. x = [c EXCEPT !.sending = q]
    OBVIOUS
  <2> HIDE DEF x
  <2>3. x = Fields(c.state, c.closing, c.ack, c.next_seq, q, c.offset, c.recv_wait)
    BY ONLY <2>1, <2>2 DEF Fields
  <2> QED
    BY ONLY <1>2, <1>6, <2>3 DEF Fields, Tcp!Connection
<1>8. /\ d \in Tcp!Connection /\ d.state = c.state /\ d.sending = q /\ d.closing = c.closing
      /\ d.ack = c.ack /\ d.next_seq = c.next_seq + len /\ d.offset = c.offset
      /\ d.recv_wait = c.recv_wait
  <2>1. d = [x EXCEPT !.next_seq = @ + len]
    OBVIOUS
  <2> HIDE DEF x, d
  <2>2. d = Fields(c.state, c.closing, c.ack, c.next_seq + len, q, c.offset, c.recv_wait)
    BY ONLY <1>7, <2>1 DEF Fields
  <2>3. c.next_seq + len \in Nat
    BY <1>2
  <2> QED
    BY ONLY <1>2, <1>6, <2>2, <2>3 DEF Fields, Tcp!Connection
<1>9. a = [c |-> d, out |-> {}, reply |-> "none"]
  <2>1. added.c = x
    BY <1>5
  <2>2. a = [added EXCEPT !.c = d]
    BY <2>1 DEF Tcp!Update
  <2> HIDE DEF added, a, d, x
  <2> QED
    BY ONLY <1>5, <2>2
<1> HIDE DEF d, added, a
<1>10. /\ Tcp!Sending(d, new.s, new.gp)
       /\ Len(q) = Len(c.sending) + 1 /\ q[Len(c.sending) + 1] = p
       /\ \A k \in 1..Len(c.sending) : q[k] = c.sending[k]
  <2>1. Tcp!Numbered(p, new.s)
    BY <1>3, <1>4 DEF Tcp!Numbered
  <2>2. /\ Tcp!Sending(c, env.s, env.gp) /\ new.s \in Nat /\ new.gp = env.gp
        /\ d.sending = Append(c.sending, p) /\ (c.closing => d.closing) /\ env.s <= new.s
        /\ ("fin" \in p.flags => d.closing) /\ (p.len > 0 => ~c.closing)
        /\ p.from = env.s /\ new.s = env.s + p.len
    BY <1>3, <1>4, <1>8 DEF ConGood, Surroundings, q
  <2>3. /\ Tcp!Sending(d, new.s, env.gp)
        /\ Len(d.sending) = Len(c.sending) + 1 /\ d.sending[Len(c.sending) + 1] = p
        /\ \A k \in 1..Len(c.sending) : d.sending[k] = c.sending[k]
    BY <1>1, <1>3, <1>4, <1>8, <2>1, <2>2, AppendSending
  <2> QED
    BY <1>8, <2>2, <2>3
<1>11. \A k \in 1..Len(q) : Carries(q[k], new.Q)
  <2>1. Carries(p, new.Q)
    BY <1>4 DEF Carries
  <2>2. \A k \in 1..Len(q) : k \in 1..Len(c.sending) \/ k = Len(c.sending) + 1
    BY <1>2, <1>10
  <2> QED
    BY <1>10, <2>1, <2>2 DEF ConGood
<1>12. ConGood(h, d, "none", new)
  <2>1. Tcp!Receiving(d, new.g, new.fin, new.F)
    BY <1>8 DEF ConGood, Tcp!Receiving
  <2>2. Tcp!Asked(d, "none")
    BY <1>8 DEF ConGood, Tcp!Asked
  <2>3. Tcp!Counted(d, new.s)
    <3>1. d.next_seq = new.s + 1
      BY <1>3, <1>8
    <3> QED
      BY <1>8, <3>1 DEF Tcp!Counted
  <2>4. Tcp!Starting(h, d, new.s, new.g)
    BY <1>8 DEF Tcp!Starting, Tcp!Up
  <2>5. \A i \in 1..Len(d.recv_wait) : Carries(d.recv_wait[i], new.F)
    BY <1>8 DEF ConGood
  <2> QED
    BY <1>8, <1>10, <1>11, <2>1, <2>2, <2>3, <2>4, <2>5 DEF ConGood
<1>13. Good(h, a, "none", new) /\ a.reply = "none" /\ a.c = d
  <2>1. a = Tcp!Job(d)
    BY <1>9 DEF Tcp!Job
  <2> QED
    BY <1>12, <2>1, BeginGood
<1>14. Good(h, j, "none", new) /\ j.reply = "none" /\ Later(d, j.c)
  BY <1>13, SendGood
<1>15. Later(c, d)
  BY <1>8 DEF Later
<1> HIDE DEF j
<1>16. Good(h, j, "none", new) /\ j.reply = "none" /\ Later(c, j.c)
  BY <1>8, <1>14 DEF Later
<1> QED
  BY <1>16 DEF j, a, added

\* A disconnect puts a fin behind what is still to be sent.
LEMMA DisconnectGood ==
  ASSUME NEW h \in Tcp!Hosts, NEW c, NEW env, Surroundings(env), ConGood(h, c, "none", env),
         NEW d, d = [c EXCEPT !.closing = TRUE]
  PROVE  /\ ConGood(h, c, "disconnect", env) /\ Later(c, c)
         /\ LET fin == Tcp!add_pkt(Tcp!Job(d), {"ack", "fin"}, 0, 0)
                j == Tcp!send_tcp_pkt(h, IF d.state \in {"established", "close_wait"}
                                         THEN fin ELSE Tcp!Job(d))
            IN  Good(h, j, "disconnect", env) /\ j.reply = "none" /\ Later(c, j.c)
<1>1. c \in Tcp!Connection
  BY DEF ConGood
<1>2. /\ c.state \in Tcp!States /\ c.closing \in BOOLEAN /\ c.ack \in Nat
      /\ c.next_seq \in Nat /\ c.sending \in Seq(Tcp!Packet) /\ c.offset \in Nat
      /\ c.recv_wait \in Seq(Tcp!Data)
  BY <1>1, ConnectionIs
<1>3. c.state \notin {"listen", "syn_received", "syn_sent"} /\ c.state \in Tcp!Up
  BY <1>2 DEF ConGood, Tcp!Asked, Tcp!States, Tcp!Up
<1>4. ConGood(h, c, "disconnect", env)
  <2>1. Tcp!Asked(c, "disconnect")
    BY <1>3 DEF Tcp!Asked
  <2> QED
    BY <2>1 DEF ConGood
<1>5. /\ d \in Tcp!Connection /\ d.state = c.state /\ d.closing = TRUE /\ d.ack = c.ack
      /\ d.next_seq = c.next_seq /\ d.sending = c.sending /\ d.offset = c.offset
      /\ d.recv_wait = c.recv_wait
  <2>1. c = [state |-> c.state, closing |-> c.closing, ack |-> c.ack,
             next_seq |-> c.next_seq, sending |-> c.sending, offset |-> c.offset,
             recv_wait |-> c.recv_wait]
    BY <1>1, AreFields
  <2>2. d = [c EXCEPT !.closing = TRUE]
    OBVIOUS
  <2>3. d = Fields(c.state, TRUE, c.ack, c.next_seq, c.sending, c.offset, c.recv_wait)
    BY ONLY <2>1, <2>2 DEF Fields
  <2> QED
    BY ONLY <1>2, <2>3 DEF Fields, Tcp!Connection
<1>6. ConGood(h, d, "disconnect", env)
  <2>1. Tcp!Asked(d, "disconnect") /\ Tcp!Counted(d, env.s)
    BY <1>3, <1>5 DEF ConGood, Tcp!Asked, Tcp!Counted
  <2>2. Tcp!Receiving(d, env.g, env.fin, env.F)
    BY <1>5 DEF ConGood, Tcp!Receiving
  <2> QED
    BY <1>3, <1>5, <2>1, <2>2, SameLists
<1>7. Later(c, c) /\ Later(c, d)
  BY <1>5 DEF Later
<1> DEFINE b == Tcp!Job(d)
           fin == Tcp!add_pkt(b, {"ack", "fin"}, 0, 0)
           a == IF d.state \in {"established", "close_wait"} THEN fin ELSE b
           j == Tcp!send_tcp_pkt(h, a)
<1>8. Good(h, b, "disconnect", env) /\ b.c = d /\ b.reply = "none"
  BY <1>6, BeginGood
<1> HIDE DEF b
<1>9. Good(h, fin, "disconnect", env) /\ fin.reply = "none" /\ fin.c.state = d.state
  <2>1. /\ {"ack", "fin"} \in SUBSET Tcp!Flags /\ "syn" \notin {"ack", "fin"}
        /\ b.c.closing /\ b.c.state \in Tcp!Up
    BY <1>3, <1>5, <1>8 DEF Tcp!Flags
  <2> DEFINE fl == {"ack", "fin"}
  <2>2. /\ fl \in SUBSET Tcp!Flags /\ (b.c.state \in Tcp!Up \/ b.c.state = "syn_received")
        /\ ("syn" \in fl => "fin" \notin fl /\ b.c.next_seq = 0) /\ ("fin" \in fl => b.c.closing)
        /\ h \in Tcp!Hosts /\ Surroundings(env)
    BY <2>1
  <2> HIDE DEF fl
  <2>3. /\ Good(h, Tcp!add_pkt(b, fl, 0, 0), "disconnect", env)
        /\ Tcp!add_pkt(b, fl, 0, 0).reply = b.reply
        /\ Tcp!add_pkt(b, fl, 0, 0).c.state = b.c.state
    BY ONLY <1>8, <2>2, AddGood
  <2> QED
    BY <1>8, <2>3 DEF fl, fin
<1> HIDE DEF fin
<1>10. Good(h, a, "disconnect", env) /\ a.reply = "none" /\ a.c.state = d.state
  BY <1>8, <1>9
<1> HIDE DEF a
<1>11. Good(h, j, "disconnect", env) /\ j.reply = "none" /\ Later(a.c, j.c)
  BY <1>10, SendGood
<1> HIDE DEF j
<1>12. Later(c, j.c)
  BY <1>5, <1>10, <1>11 DEF Later
<1> QED
  BY <1>4, <1>7, <1>11, <1>12 DEF j, a, fin, b

\* A connection that waits for a syn.
LEMMA ListenGood ==
  ASSUME NEW env, Surroundings(env), env.s = 0, env.g = 0
  PROVE  ConGood(B, Tcp!NewCon("listen"), "listen", env)
<1> DEFINE c == Tcp!NewCon("listen")
<1>1. /\ c \in Tcp!Connection /\ c.state = "listen" /\ c.closing = FALSE /\ c.ack = 0
      /\ c.next_seq = 0 /\ c.sending = <<>> /\ c.offset = 0 /\ c.recv_wait = <<>>
  <2>1. c = Fields("listen", FALSE, 0, 0, <<>>, 0, <<>>)
    BY DEF Tcp!NewCon, Fields
  <2>2. /\ <<>> \in Seq(Tcp!Packet) /\ <<>> \in Seq(Tcp!Data) /\ FALSE \in BOOLEAN
        /\ "listen" \in Tcp!States /\ 0 \in Nat
    BY DEF Tcp!States
  <2> HIDE DEF c
  <2> QED
    BY ONLY <2>1, <2>2 DEF Fields, Tcp!Connection
<1> HIDE DEF c
<1>2. Len(c.sending) = 0 /\ Len(c.recv_wait) = 0
  BY <1>1
<1>3. env.gp \in Nat /\ env.gp..env.s-1 = {}
  BY DEF Surroundings
<1>4. Tcp!Sending(c, env.s, env.gp)
  BY <1>2, <1>3 DEF Tcp!Sending
<1>5. Tcp!Starting(B, c, env.s, env.g)
  BY <1>1 DEF Tcp!Starting
<1>6. Tcp!Asked(c, "listen") /\ Tcp!Counted(c, env.s) /\ Tcp!Receiving(c, env.g, env.fin, env.F)
  BY <1>1 DEF Tcp!Asked, Tcp!Counted, Tcp!Receiving, Tcp!Up
<1> QED
  BY <1>1, <1>2, <1>4, <1>5, <1>6 DEF ConGood, c

\* A connection with a syn to send.
LEMMA ConnectGood ==
  ASSUME NEW env, Surroundings(env), env.s = 0, env.g = 0
  PROVE  LET c == Tcp!add_pkt(Tcp!Job(Tcp!NewCon("syn_sent")), {"syn"}, 0, 0).c
         IN  ConGood(A, c, "connect", env) /\ Len(c.sending) = 1 /\ Len(c.recv_wait) = 0
             /\ c.state = "syn_sent"
<1> DEFINE new == Tcp!NewCon("syn_sent")
           p == Tcp!Pkt(new, {"syn"}, 0, 0)
           j == Tcp!add_pkt(Tcp!Job(new), {"syn"}, 0, 0)
           c == j.c
<1>1. /\ new \in Tcp!Connection /\ new.sending = <<>> /\ new.next_seq = 0
      /\ new = Fields("syn_sent", FALSE, 0, 0, <<>>, 0, <<>>)
  <2>1. new = Fields("syn_sent", FALSE, 0, 0, <<>>, 0, <<>>)
    BY DEF Tcp!NewCon, Fields
  <2>2. /\ <<>> \in Seq(Tcp!Packet) /\ <<>> \in Seq(Tcp!Data) /\ FALSE \in BOOLEAN
        /\ "syn_sent" \in Tcp!States /\ 0 \in Nat
    BY DEF Tcp!States
  <2> HIDE DEF new
  <2> QED
    BY ONLY <2>1, <2>2 DEF Fields, Tcp!Connection
<1> HIDE DEF new
<1>2. /\ p \in Tcp!Packet /\ p.seq = 0 /\ p.flags = {"syn"} /\ p.from = 0 /\ p.len = 0
  <2>1. p = [seq |-> 0, flags |-> {"syn"}, from |-> 0, len |-> 0]
    BY <1>1 DEF Tcp!Pkt
  <2>2. {"syn"} \in SUBSET Tcp!Flags
    BY DEF Tcp!Flags
  <2> HIDE DEF p
  <2> QED
    BY <2>1, <2>2 DEF Tcp!Packet
<1>3. c = [new EXCEPT !.sending = <<p>>]
  <2>1. Append(new.sending, p) = <<p>>
    BY <1>1
  <2>2. Tcp!Job(new) = [c |-> new, out |-> {}, reply |-> "none"]
    BY DEF Tcp!Job
  <2> DEFINE b == Tcp!Job(new)
             x == [new EXCEPT !.sending = Append(@, p)]
  <2>3. j = Tcp!Update(b, x) /\ b.c = new
    BY <2>2 DEF Tcp!add_pkt
  <2>4. Tcp!Update(b, x) = [c |-> x, out |-> {}, reply |-> "none"]
    <3> HIDE DEF x
    <3> QED
      BY <2>2 DEF Tcp!Update
  <2>5. c = x
    <3> HIDE DEF x, b
    <3> QED
      BY <2>3, <2>4
  <2> QED
    BY <2>1, <2>5
<1> HIDE DEF c, p
<1>4. /\ c \in Tcp!Connection /\ c.state = "syn_sent" /\ c.closing = FALSE /\ c.ack = 0
      /\ c.next_seq = 0 /\ c.sending = <<p>> /\ c.offset = 0 /\ c.recv_wait = <<>>
  <2>1. c = Fields("syn_sent", FALSE, 0, 0, <<p>>, 0, <<>>)
    <3>1. new = Fields("syn_sent", FALSE, 0, 0, <<>>, 0, <<>>)
      BY <1>1
    <3> QED
      BY ONLY <1>3, <3>1 DEF Fields
  <2>2. /\ <<p>> \in Seq(Tcp!Packet) /\ <<>> \in Seq(Tcp!Data) /\ FALSE \in BOOLEAN
        /\ "syn_sent" \in Tcp!States /\ 0 \in Nat
    BY <1>2 DEF Tcp!States
  <2> QED
    BY ONLY <2>1, <2>2 DEF Fields, Tcp!Connection
<1>5. Len(c.sending) = 1 /\ Len(c.recv_wait) = 0 /\ \A k \in 1..1 : c.sending[k] = p
  BY <1>4
<1>6. env.gp \in Nat /\ env.gp..env.s-1 = {}
  BY DEF Surroundings
<1>7. Tcp!Sending(c, env.s, env.gp)
  <2>1. Tcp!Numbered(p, env.s)
    BY <1>2 DEF Tcp!Numbered
  <2>2. \A i, k \in 1..1 : ~(i < k)
    OBVIOUS
  <2>3. "fin" \notin p.flags
    BY <1>2
  <2> QED
    BY <1>5, <1>6, <2>1, <2>2, <2>3 DEF Tcp!Sending
<1>8. Tcp!Starting(A, c, env.s, env.g)
  BY <1>2, <1>4, <1>5 DEF Tcp!Starting
<1>9. Tcp!Asked(c, "connect") /\ Tcp!Counted(c, env.s) /\ Tcp!Receiving(c, env.g, env.fin, env.F)
  BY <1>4 DEF Tcp!Asked, Tcp!Counted, Tcp!Receiving, Tcp!Up
<1>10. Carries(p, env.Q)
  BY <1>2 DEF Carries
<1>11. ConGood(A, c, "connect", env)
  BY <1>4, <1>5, <1>7, <1>8, <1>9, <1>10 DEF ConGood
<1> QED
  BY <1>4, <1>5, <1>11 DEF c, new

-----------------------------------------------------------------------------
(* The two hosts.                                                          *)

\* The surroundings of h if it has written s bytes, of which those in D are on
\* their way for the first time, and its client has read t.
Around(h, s, t, D) ==
  LET k == Tcp!Peer(h)
  IN  [s |-> s, g |-> Len(t), gp |-> Len(taken[k]),
       fin |-> con[k] # nil /\ con[k].state \in Tcp!FinSent /\ Len(t) = written[k],
       F |-> Tcp!Flow(h), Q |-> Tcp!Flow(k) \cup D]

AroundNow(h) == Around(h, written[h], taken[h], {})

\* How much a host may write.
Room(h) == [x \in {A, B} |-> IF x = A THEN BytesA ELSE BytesB][h]

\* What the surroundings are.
LEMMA AroundIs ==
  ASSUME Tcp!TcpInv, NEW h \in Tcp!Hosts, NEW s \in Nat, NEW t \in Seq(Nat), NEW D,
         written[h] <= s
  PROVE  /\ Surroundings(Around(h, s, t, D))
         /\ Around(h, s, t, D).s = s /\ Around(h, s, t, D).g = Len(t)
         /\ Around(h, s, t, D).gp = Len(taken[Tcp!Peer(h)])
         /\ Around(h, s, t, D).fin <=> /\ con[Tcp!Peer(h)] # nil
                                       /\ con[Tcp!Peer(h)].state \in Tcp!FinSent
                                       /\ Len(t) = written[Tcp!Peer(h)]
         /\ Around(h, s, t, D).F = Tcp!Flow(h)
         /\ Around(h, s, t, D).Q = Tcp!Flow(Tcp!Peer(h)) \cup D
<1> DEFINE k == Tcp!Peer(h)
           r == Around(h, s, t, D)
           fin == con[k] # nil /\ con[k].state \in Tcp!FinSent /\ Len(t) = written[k]
<1>1. r = [s |-> s, g |-> Len(t), gp |-> Len(taken[k]), fin |-> fin, F |-> Tcp!Flow(h),
           Q |-> Tcp!Flow(k) \cup D]
  BY DEF Around
<1> HIDE DEF r, fin
<1>2. /\ r.s = s /\ r.g = Len(t) /\ r.gp = Len(taken[k]) /\ r.fin = fin /\ r.F = Tcp!Flow(h)
      /\ r.Q = Tcp!Flow(k) \cup D
  BY <1>1
<1>3. fin \in BOOLEAN
  BY DEF fin
<1>4. /\ k \in Tcp!Hosts /\ taken[k] \in Seq(Nat) /\ written[h] \in Nat
      /\ Len(taken[k]) <= written[h]
  BY HostsAre DEF Tcp!TcpInv, Tcp!TypeOK, Tcp!StreamIntact
<1>5. Surroundings(r)
  BY <1>2, <1>3, <1>4 DEF Surroundings
<1> QED
  BY <1>2, <1>3, <1>5 DEF r, fin

\* All that is on its way is data.
LEMMA FlowIs ==
  ASSUME Tcp!TcpInv, NEW h \in Tcp!Hosts
  PROVE  WholeOf(Tcp!Flow(h), written[Tcp!Peer(h)])
<1>1. Tcp!Peer(h) \in Tcp!Hosts
  BY HostsAre
<1>2. /\ net \subseteq Tcp!Segment
      /\ \A k \in Tcp!Hosts : con[k] # nil => con[k] \in Tcp!Connection
  BY DEF Tcp!TcpInv, Tcp!TypeOK
<1>3. Tcp!DataOf({m \in net : m.to = h}) \subseteq Tcp!Data
  BY <1>2, SegmentIs DEF Tcp!DataOf, Tcp!Data
<1>4. Tcp!DataOf(Tcp!SendingOf(con[Tcp!Peer(h)])) \subseteq Tcp!Data
  <2> DEFINE c == con[Tcp!Peer(h)]
  <2>1. CASE c = nil
    BY <2>1 DEF Tcp!SendingOf, Tcp!DataOf
  <2>2. CASE c # nil
    <3>1. c.sending \in Seq(Tcp!Packet)
      BY <1>1, <1>2, <2>2, ConnectionIs
    <3>2. Tcp!SendingOf(c) \subseteq Tcp!Packet
      BY <2>2, <3>1 DEF Tcp!SendingOf, Tcp!Range
    <3> QED
      BY <3>2, PacketIs DEF Tcp!DataOf, Tcp!Data
  <2> QED
    BY <2>1, <2>2
<1>5. Tcp!DataOf(Tcp!ReceivedOf(con[h])) \subseteq Tcp!Data
  <2> DEFINE c == con[h]
  <2>1. CASE c = nil
    BY <2>1 DEF Tcp!ReceivedOf, Tcp!DataOf
  <2>2. CASE c # nil
    <3>1. c.recv_wait \in Seq(Tcp!Data)
      BY <1>1, <1>2, <2>2, ConnectionIs
    <3>2. Tcp!ReceivedOf(c) \subseteq Tcp!Data
      BY <2>2, <3>1 DEF Tcp!ReceivedOf, Tcp!Range
    <3> QED
      BY <3>2 DEF Tcp!DataOf, Tcp!Data
  <2> QED
    BY <2>1, <2>2
<1>6. Tcp!Flow(h) \subseteq Tcp!Data
  BY <1>3, <1>4, <1>5 DEF Tcp!Flow
<1>7. Tcp!Whole
  BY DEF Tcp!TcpInv
<1> QED
  BY <1>6, <1>7 DEF WholeOf, Tcp!Whole

\* A data packet of a host, or a segment, is on its way.
LEMMA FlowHas ==
  ASSUME NEW h \in Tcp!Hosts
  PROVE  /\ \A m \in net : m.to = h => Carries(m, Tcp!Flow(h))
         /\ con[h] # nil => \A p \in Tcp!Range(con[h].recv_wait) : Carries(p, Tcp!Flow(h))
         /\ con[h] # nil =>
              \A p \in Tcp!Range(con[h].sending) : Carries(p, Tcp!Flow(Tcp!Peer(h)))
<1>1. Tcp!Peer(Tcp!Peer(h)) = h
  BY HostsAre
<1> QED
  BY <1>1 DEF Carries, Tcp!Flow, Tcp!DataOf, Tcp!SendingOf, Tcp!ReceivedOf

\* The connection of h is a good one.
LEMMA NowGood ==
  ASSUME Tcp!TcpInv, NEW h \in Tcp!Hosts, con[h] # nil
  PROVE  ConGood(h, con[h], blocked[h], AroundNow(h))
<1> DEFINE c == con[h]
           env == AroundNow(h)
<1>1. c \in Tcp!Connection /\ written[h] \in Nat /\ taken[h] \in Seq(Nat) /\ written[h] <= written[h]
  BY DEF Tcp!TcpInv, Tcp!TypeOK
<1>2. /\ env.s = written[h] /\ env.g = Len(taken[h]) /\ env.gp = Len(taken[Tcp!Peer(h)])
      /\ env.fin <=> /\ con[Tcp!Peer(h)] # nil /\ con[Tcp!Peer(h)].state \in Tcp!FinSent
                     /\ Len(taken[h]) = written[Tcp!Peer(h)]
      /\ env.F = Tcp!Flow(h)
  BY <1>1, AroundIs DEF AroundNow
<1>7. env.Q = Tcp!Flow(Tcp!Peer(h))
  BY DEF AroundNow, Around
<1>8. Surroundings(env)
  BY <1>1, AroundIs DEF AroundNow
<1>3. env.fin <=> Tcp!Finished(Tcp!Peer(h))
  <2>1. Tcp!Peer(Tcp!Peer(h)) = h
    BY HostsAre
  <2> QED
    BY <1>2, <2>1 DEF Tcp!Finished
<1> HIDE DEF env
<1>4. /\ Tcp!Starting(h, c, env.s, env.g) /\ Tcp!Asked(c, blocked[h])
      /\ Tcp!Counted(c, env.s) /\ Tcp!Sending(c, env.s, env.gp)
      /\ Tcp!Receiving(c, env.g, Tcp!Finished(Tcp!Peer(h)), env.F)
  BY <1>2 DEF Tcp!TcpInv, Tcp!Connections
<1>5. Tcp!Receiving(c, env.g, env.fin, env.F)
  <2> HIDE DEF c
  <2> QED
    BY <1>3, <1>4 DEF Tcp!Receiving, Tcp!AckOK
<1>6. /\ \A k \in 1..Len(c.sending) : Carries(c.sending[k], env.Q)
      /\ \A k \in 1..Len(c.recv_wait) : Carries(c.recv_wait[k], env.F)
  <2>1. c.sending \in Seq(Tcp!Packet) /\ c.recv_wait \in Seq(Tcp!Data)
    BY <1>1, ConnectionIs
  <2>2. /\ \A k \in 1..Len(c.sending) : c.sending[k] \in Tcp!Range(c.sending)
        /\ \A k \in 1..Len(c.recv_wait) : c.recv_wait[k] \in Tcp!Range(c.recv_wait)
    BY <2>1 DEF Tcp!Range
  <2> QED
    BY <1>2, <1>7, <2>2, FlowHas
<1> QED
  BY <1>1, <1>4, <1>5, <1>6 DEF ConGood, env

\* What a segment that arrives tells of the other host.
LEMMA NowArrived ==
  ASSUME Tcp!TcpInv, NEW h \in Tcp!Hosts, con[h] # nil, NEW m \in net, m.to = h
  PROVE  Arrived(h, con[h], m, AroundNow(h))
<1> DEFINE c == con[h]
           k == Tcp!Peer(h)
           env == AroundNow(h)
<1>1. written[h] \in Nat /\ taken[h] \in Seq(Nat) /\ written[h] <= written[h] /\ m \in Tcp!Segment
  BY DEF Tcp!TcpInv, Tcp!TypeOK
<1>2. /\ env.s = written[h] /\ env.g = Len(taken[h]) /\ env.gp = Len(taken[k])
      /\ env.fin <=> con[k] # nil /\ con[k].state \in Tcp!FinSent /\ Len(taken[h]) = written[k]
      /\ env.F = Tcp!Flow(h)
  BY <1>1, AroundIs DEF AroundNow
<1>3. k \in Tcp!Hosts /\ Tcp!Peer(k) = h
  BY HostsAre
<1>4. /\ con[k] # nil
      /\ Tcp!SentBy(k, con[k], m, written[k], Len(taken[k]), Len(taken[h]), Tcp!Finished(h))
  BY <1>3 DEF Tcp!TcpInv, Tcp!Segments
<1>5. Tcp!Finished(h) <=> c.state \in Tcp!FinSent /\ env.gp = env.s
  BY <1>2 DEF Tcp!Finished
<1> HIDE DEF env, k
<1>6. Carries(m, env.F)
  BY <1>2, FlowHas
<1>7. /\ "syn" \in m.flags => m.seq = 0
      /\ "fin" \in m.flags => env.fin
  BY <1>2, <1>4 DEF Tcp!SentBy, Tcp!Numbered
<1>8. Tcp!AckOK(m.ack, env.gp, c.state \in Tcp!FinSent /\ env.gp = env.s)
  BY <1>2, <1>4, <1>5 DEF Tcp!SentBy, Tcp!AckOK
<1> QED
  BY <1>1, <1>6, <1>7, <1>8 DEF Arrived, env

-----------------------------------------------------------------------------
(* A step of h.  It leaves the connection d, the request w and the         *)
(* segments in outs; h has then written s bytes, those in D just now, and  *)
(* its client has read t.                                                  *)

Moves(h, d, w, s, t, outs) ==
  /\ con' = [con EXCEPT ![h] = d] /\ blocked' = [blocked EXCEPT ![h] = w]
  /\ written' = [written EXCEPT ![h] = s] /\ taken' = [taken EXCEPT ![h] = t]
  /\ stray' = FALSE /\ net' \subseteq net \cup outs /\ arp' \subseteq arp \cup {h}

Fits(h, d, w, s, t, D, outs) ==
  /\ s \in Nat /\ t \in Seq(Nat) /\ w \in Tcp!Requests
  /\ ConGood(h, d, w, Around(h, s, t, D)) /\ Len(d.sending) <= MaxQueue
  /\ \A m \in outs : OutGood(h, d, m, Around(h, s, t, D))
  /\ con[h] # nil => Later(con[h], d)
  /\ written[h] <= s /\ s <= Room(h)
  /\ written[h] < s => con[h] # nil /\ con[h].state = "established"
  /\ \A x \in D : written[h] < s /\ x = [seq |-> written[h] + 1, from |-> written[h],
                                         len |-> s - written[h]]
  /\ Len(taken[h]) <= Len(t) /\ Len(t) <= written[Tcp!Peer(h)]
  /\ \A i \in 1..Len(t) : t[i] = i - 1
  /\ h = A /\ d.state \in Tcp!Up => con[B] # nil /\ con[B].state # "listen"
  /\ h = B /\ d.state # "listen" =>
       con[A] # nil /\ (d.state \in Tcp!Up => con[A].state \in Tcp!Up)

\* What has changed.
LEMMA MovesTo ==
  ASSUME Tcp!TcpInv, NEW h \in Tcp!Hosts, NEW d, NEW w, NEW s, NEW t, NEW D, NEW outs,
         Moves(h, d, w, s, t, outs), Fits(h, d, w, s, t, D, outs)
  PROVE  LET k == Tcp!Peer(h) IN
         /\ k \in Tcp!Hosts /\ k # h /\ Tcp!Peer(k) = h /\ \A o \in Tcp!Hosts : o = h \/ o = k
         /\ con'[h] = d /\ con'[k] = con[k] /\ d \in Tcp!Connection /\ d # nil
         /\ blocked'[h] = w /\ blocked'[k] = blocked[k]
         /\ written'[h] = s /\ written'[k] = written[k]
         /\ taken'[h] = t /\ taken'[k] = taken[k]
         /\ s \in Nat /\ written[h] \in Nat /\ written[k] \in Nat
         /\ Len(t) \in Nat /\ Len(taken[h]) \in Nat /\ Len(taken[k]) \in Nat
         /\ Len(taken[k]) <= written[h]
<1>1. /\ Tcp!Peer(h) \in Tcp!Hosts /\ Tcp!Peer(h) # h /\ Tcp!Peer(Tcp!Peer(h)) = h
      /\ \A o \in Tcp!Hosts : o = h \/ o = Tcp!Peer(h)
  BY HostsAre
<1>2. /\ DOMAIN con = Tcp!Hosts /\ DOMAIN blocked = Tcp!Hosts /\ DOMAIN written = Tcp!Hosts
      /\ DOMAIN taken = Tcp!Hosts
      /\ \A o \in Tcp!Hosts : written[o] \in Nat /\ taken[o] \in Seq(Nat)
  BY DEF Tcp!TcpInv, Tcp!TypeOK
<1>3. d \in Tcp!Connection /\ d # nil
  BY HostsAre DEF Fits, ConGood
<1>4. /\ con'[h] = d /\ con'[Tcp!Peer(h)] = con[Tcp!Peer(h)]
      /\ blocked'[h] = w /\ blocked'[Tcp!Peer(h)] = blocked[Tcp!Peer(h)]
      /\ written'[h] = s /\ written'[Tcp!Peer(h)] = written[Tcp!Peer(h)]
      /\ taken'[h] = t /\ taken'[Tcp!Peer(h)] = taken[Tcp!Peer(h)]
  BY <1>1, <1>2 DEF Moves
<1>5. s \in Nat /\ t \in Seq(Nat)
  BY DEF Fits
<1>6. Len(taken[Tcp!Peer(h)]) <= written[h]
  BY DEF Tcp!TcpInv, Tcp!StreamIntact
<1>7. Len(t) \in Nat /\ Len(taken[h]) \in Nat /\ Len(taken[Tcp!Peer(h)]) \in Nat
  BY <1>1, <1>2, <1>5
<1> QED
  BY <1>1, <1>2, <1>3, <1>4, <1>5, <1>6, <1>7

\* The types, and the stream.
LEMMA MovesTypes ==
  ASSUME Tcp!TcpInv, NEW h \in Tcp!Hosts, NEW d, NEW w, NEW s, NEW t, NEW D, NEW outs,
         Moves(h, d, w, s, t, outs), Fits(h, d, w, s, t, D, outs)
  PROVE  Tcp!TypeOK' /\ Tcp!RepliesAwaited' /\ Tcp!StreamIntact'
<1> DEFINE k == Tcp!Peer(h)
<1>1. /\ k \in Tcp!Hosts /\ k # h /\ Tcp!Peer(k) = h /\ \A o \in Tcp!Hosts : o = h \/ o = k
      /\ con'[h] = d /\ con'[k] = con[k] /\ d \in Tcp!Connection
      /\ written'[h] = s /\ written'[k] = written[k]
      /\ taken'[h] = t /\ taken'[k] = taken[k]
  BY MovesTo
<1>2. Tcp!TypeOK /\ Tcp!StreamIntact
  BY DEF Tcp!TcpInv
<1>3. /\ w \in Tcp!Requests /\ s \in Nat /\ t \in Seq(Nat) /\ s <= Room(h)
      /\ Len(d.sending) <= MaxQueue /\ outs \subseteq Tcp!Segment
      /\ written[h] <= s /\ Len(t) <= written[k] /\ \A i \in 1..Len(t) : t[i] = i - 1
  BY DEF Fits, OutGood
<1>4. /\ con' \in [Tcp!Hosts -> Tcp!Connection \cup {nil}]
      /\ blocked' \in [Tcp!Hosts -> Tcp!Requests]
      /\ written' \in [Tcp!Hosts -> Nat] /\ taken' \in [Tcp!Hosts -> Seq(Nat)]
  BY <1>1, <1>2, <1>3 DEF Moves, Tcp!TypeOK
<1>5. arp' \subseteq Tcp!Hosts /\ net' \subseteq Tcp!Segment /\ stray' \in BOOLEAN /\ ~stray'
  BY <1>2, <1>3 DEF Moves, Tcp!TypeOK
<1> HIDE DEF k
<1>6. \A o \in Tcp!Hosts : con'[o] # nil => Len(con'[o].sending) <= MaxQueue
  BY <1>1, <1>2, <1>3 DEF Tcp!TypeOK
<1>7. \A o \in Tcp!Hosts : written'[o] <= Room(o)
  BY <1>1, <1>2, <1>3 DEF Tcp!TypeOK, Room
<1>8. Tcp!TypeOK'
  BY <1>4, <1>5, <1>6, <1>7 DEF Tcp!TypeOK, Room
<1>9. \A o \in Tcp!Hosts : Len(taken[Tcp!Peer(o)]) <= written[o]
  BY <1>2 DEF Tcp!StreamIntact
<1>10. \A o \in Tcp!Hosts : /\ Len(taken'[o]) <= written'[Tcp!Peer(o)]
                            /\ \A i \in 1..Len(taken'[o]) : taken'[o][i] = i - 1
  <2>1. Len(taken'[h]) <= written'[k] /\ \A i \in 1..Len(taken'[h]) : taken'[h][i] = i - 1
    BY <1>1, <1>3
  <2>2. /\ Len(taken'[k]) <= written'[h]
        /\ \A i \in 1..Len(taken'[k]) : taken'[k][i] = i - 1
    <3>1. /\ Len(taken[k]) \in Nat /\ Len(taken[k]) <= written[h] /\ written[h] \in Nat
          /\ \A i \in 1..Len(taken[k]) : taken[k][i] = i - 1
      BY <1>2, <1>1 DEF Tcp!StreamIntact, Tcp!TypeOK, k
    <3> QED
      BY <1>1, <1>3, <3>1
  <2> QED
    BY <1>1, <2>1, <2>2 DEF k
<1>11. Tcp!StreamIntact'
  BY <1>1, <1>10, HostsAre DEF Tcp!StreamIntact
<1> QED
  BY <1>5, <1>8, <1>11 DEF Tcp!RepliesAwaited

\* No data is on its way to h that was not before, and none from h but D.
LEMMA MovesFlow ==
  ASSUME Tcp!TcpInv, NEW h \in Tcp!Hosts, NEW d, NEW w, NEW s, NEW t, NEW D, NEW outs,
         Moves(h, d, w, s, t, outs), Fits(h, d, w, s, t, D, outs)
  PROVE  /\ Tcp!Flow(h)' \subseteq Tcp!Flow(h)
         /\ Tcp!Flow(Tcp!Peer(h))' \subseteq Tcp!Flow(Tcp!Peer(h)) \cup D
<1> DEFINE k == Tcp!Peer(h)
           F == Tcp!Flow(h)
           Q == Tcp!Flow(k) \cup D
<1>1. /\ k \in Tcp!Hosts /\ k # h /\ Tcp!Peer(k) = h
      /\ con'[h] = d /\ con'[k] = con[k] /\ d \in Tcp!Connection /\ d # nil
  BY MovesTo
<1>2. /\ Around(h, s, t, D).F = F /\ Around(h, s, t, D).Q = Q
  BY DEF Around
<1>3. /\ \A m \in outs : m.to = k /\ Carries(m, Q)
      /\ \A i \in 1..Len(d.sending) : Carries(d.sending[i], Q)
      /\ \A i \in 1..Len(d.recv_wait) : Carries(d.recv_wait[i], F)
  BY <1>2 DEF Fits, OutGood, ConGood
<1>4. /\ \A p \in Tcp!Range(d.sending) : Carries(p, Q)
      /\ \A p \in Tcp!Range(d.recv_wait) : Carries(p, F)
  <2>1. d.sending \in Seq(Tcp!Packet) /\ d.recv_wait \in Seq(Tcp!Data)
    BY <1>1, ConnectionIs
  <2>2. /\ \A p \in Tcp!Range(d.sending) : \E i \in 1..Len(d.sending) : p = d.sending[i]
        /\ \A p \in Tcp!Range(d.recv_wait) : \E i \in 1..Len(d.recv_wait) : p = d.recv_wait[i]
    BY <2>1 DEF Tcp!Range
  <2> HIDE DEF Q, F
  <2> QED
    BY <1>3, <2>2
<1>5. \A m \in net' : m \in net \/ m \in outs
  BY DEF Moves
<1>6. /\ \A m \in net : m.to = h => Carries(m, F)
      /\ \A m \in net : m.to = k => Carries(m, Q)
      /\ con[k] # nil => \A p \in Tcp!Range(con[k].sending) : Carries(p, F)
      /\ con[k] # nil => \A p \in Tcp!Range(con[k].recv_wait) : Carries(p, Q)
  BY <1>1, FlowHas DEF Carries
<1> HIDE DEF F, Q, k
<1>7. \A m \in net' : (m.to = h => Carries(m, F)) /\ (m.to = k => Carries(m, Q))
  BY <1>1, <1>3, <1>5, <1>6
<1>8. \A x \in Tcp!Flow(h)' : x \in F
  <2>1. \A p \in Tcp!SendingOf(con'[k]) : Carries(p, F)
    BY <1>1, <1>6 DEF Tcp!SendingOf
  <2>2. \A p \in Tcp!ReceivedOf(con'[h]) : Carries(p, F)
    BY <1>1, <1>4 DEF Tcp!ReceivedOf
  <2>3. Tcp!Flow(h)' = Tcp!DataOf({m \in net' : m.to = h})
                         \cup Tcp!DataOf(Tcp!SendingOf(con'[k]))
                         \cup Tcp!DataOf(Tcp!ReceivedOf(con'[h]))
    BY DEF Tcp!Flow, k
  <2> QED
    BY <1>7, <2>1, <2>2, <2>3 DEF Carries, Tcp!DataOf
<1>9. \A x \in Tcp!Flow(k)' : x \in Q
  <2>1. \A p \in Tcp!SendingOf(con'[h]) : Carries(p, Q)
    BY <1>1, <1>4 DEF Tcp!SendingOf
  <2>2. \A p \in Tcp!ReceivedOf(con'[k]) : Carries(p, Q)
    BY <1>1, <1>6 DEF Tcp!ReceivedOf
  <2>3. Tcp!Flow(k)' = Tcp!DataOf({m \in net' : m.to = k})
                         \cup Tcp!DataOf(Tcp!SendingOf(con'[h]))
                         \cup Tcp!DataOf(Tcp!ReceivedOf(con'[k]))
    BY <1>1 DEF Tcp!Flow, k
  <2> QED
    BY <1>7, <2>1, <2>2, <2>3 DEF Carries, Tcp!DataOf
<1> QED
  BY <1>8, <1>9 DEF F, Q, k

\* No two packets of data overlap.
LEMMA MovesWhole ==
  ASSUME Tcp!TcpInv, NEW h \in Tcp!Hosts, NEW d, NEW w, NEW s, NEW t, NEW D, NEW outs,
         Moves(h, d, w, s, t, outs), Fits(h, d, w, s, t, D, outs)
  PROVE  Tcp!Whole'
<1> DEFINE k == Tcp!Peer(h)
           F == Tcp!Flow(h)
           Q == Tcp!Flow(k)
<1>1. /\ k \in Tcp!Hosts /\ Tcp!Peer(k) = h /\ \A o \in Tcp!Hosts : o = h \/ o = k
      /\ written'[h] = s /\ written'[k] = written[k] /\ written[h] \in Nat /\ s \in Nat
      /\ written[k] \in Nat
  BY MovesTo
<1>2. Tcp!Flow(h)' \subseteq F /\ Tcp!Flow(k)' \subseteq Q \cup D
  BY MovesFlow
<1>3. WholeOf(F, written[k]) /\ WholeOf(Q, written[h])
  BY <1>1, FlowIs
<1>4. written[h] <= s /\ \A x \in D : /\ written[h] < s /\ x.seq = written[h] + 1
                                       /\ x.from = written[h] /\ x.len = s - written[h]
  BY DEF Fits
<1>8. \A x, y \in D : x = y
  BY DEF Fits
<1> HIDE DEF F, Q
<1>5. \A x, y \in Tcp!Flow(h)' :
        /\ x.seq = x.from + 1 /\ x.from + x.len <= written'[k]
        /\ x = y \/ x.from + x.len <= y.from \/ y.from + y.len <= x.from
  BY <1>1, <1>2, <1>3 DEF WholeOf
<1>6. \A x, y \in Q \cup D :
        /\ x.seq = x.from + 1 /\ x.from + x.len <= s
        /\ x = y \/ x.from + x.len <= y.from \/ y.from + y.len <= x.from
  <2> SUFFICES ASSUME NEW x \in Q \cup D, NEW y \in Q \cup D
               PROVE  /\ x.seq = x.from + 1 /\ x.from + x.len <= s
                      /\ x = y \/ x.from + x.len <= y.from \/ y.from + y.len <= x.from
    OBVIOUS
  <2>1. \A z \in Q : /\ z.from \in Nat /\ z.len \in Nat /\ z.seq = z.from + 1
                     /\ z.from + z.len <= written[h]
    BY <1>3 DEF WholeOf, Tcp!Data
  <2>2. CASE x \in Q /\ y \in Q
    BY <1>1, <1>3, <1>4, <2>1, <2>2 DEF WholeOf
  <2>3. CASE x \in D /\ y \in Q
    BY <1>1, <1>4, <2>1, <2>3
  <2>4. CASE x \in Q /\ y \in D
    BY <1>1, <1>4, <2>1, <2>4
  <2>5. CASE x \in D /\ y \in D
    BY <1>1, <1>4, <1>8, <2>5
  <2> QED
    BY <2>2, <2>3, <2>4, <2>5
<1>7. \A o \in Tcp!Hosts : \A x, y \in Tcp!Flow(o)' :
        /\ x.seq = x.from + 1 /\ x.from + x.len <= written'[Tcp!Peer(o)]
        /\ x = y \/ x.from + x.len <= y.from \/ y.from + y.len <= x.from
  <2> SUFFICES ASSUME NEW o \in Tcp!Hosts, NEW x \in Tcp!Flow(o)', NEW y \in Tcp!Flow(o)'
               PROVE  /\ x.seq = x.from + 1 /\ x.from + x.len <= written'[Tcp!Peer(o)]
                      /\ x = y \/ x.from + x.len <= y.from \/ y.from + y.len <= x.from
    OBVIOUS
  <2>1. CASE o = h
    BY <1>5, <2>1
  <2>2. CASE o = k
    BY <1>1, <1>2, <1>6, <2>2
  <2> QED
    BY <1>1, <2>1, <2>2
<1> QED
  BY <1>7 DEF Tcp!Whole

\* Whether a host has finished: what was so stays so, and the peer is as Around says.
LEMMA MovesFinished ==
  ASSUME Tcp!TcpInv, NEW h \in Tcp!Hosts, NEW d, NEW w, NEW s, NEW t, NEW D, NEW outs,
         Moves(h, d, w, s, t, outs), Fits(h, d, w, s, t, D, outs)
  PROVE  /\ Tcp!Finished(h) => Tcp!Finished(h)' /\ s = written[h]
         /\ Tcp!Finished(Tcp!Peer(h)) => Tcp!Finished(Tcp!Peer(h))'
         /\ Tcp!Finished(Tcp!Peer(h))' <=> Around(h, s, t, D).fin
         /\ Around(h, s, t, D).fin \in BOOLEAN
<1> DEFINE k == Tcp!Peer(h)
<1>1. /\ k \in Tcp!Hosts /\ k # h /\ Tcp!Peer(k) = h
      /\ con'[h] = d /\ con'[k] = con[k] /\ d # nil
      /\ written'[h] = s /\ written'[k] = written[k]
      /\ taken'[h] = t /\ taken'[k] = taken[k]
      /\ s \in Nat /\ written[h] \in Nat /\ written[k] \in Nat
      /\ Len(t) \in Nat /\ Len(taken[h]) \in Nat
  BY MovesTo
<1>2. /\ con[h] # nil => Later(con[h], d)
      /\ written[h] <= s /\ (written[h] < s => con[h] # nil /\ con[h].state = "established")
      /\ Len(taken[h]) <= Len(t) /\ Len(t) <= written[k]
  BY DEF Fits
<1> HIDE DEF k
<1>3. Tcp!Finished(h) => Tcp!Finished(h)' /\ s = written[h]
  <2> SUFFICES ASSUME Tcp!Finished(h) PROVE Tcp!Finished(h)' /\ s = written[h]
    OBVIOUS
  <2>1. con[h] # nil /\ con[h].state \in Tcp!FinSent /\ Len(taken[k]) = written[h]
    BY DEF Tcp!Finished, k
  <2>2. s = written[h]
    BY <1>1, <1>2, <2>1 DEF Tcp!FinSent
  <2>3. d.state \in Tcp!FinSent
    BY <1>2, <2>1 DEF Later
  <2> QED
    BY <1>1, <2>1, <2>2, <2>3 DEF Tcp!Finished, k
<1>4. Tcp!Finished(k)' <=> con[k] # nil /\ con[k].state \in Tcp!FinSent /\ Len(t) = written[k]
  BY <1>1 DEF Tcp!Finished
<1>5. Tcp!Finished(k) => con[k] # nil /\ con[k].state \in Tcp!FinSent /\ Len(taken[h]) = written[k]
  BY <1>1 DEF Tcp!Finished
<1>6. Around(h, s, t, D).fin <=> con[k] # nil /\ con[k].state \in Tcp!FinSent /\ Len(t) = written[k]
  BY DEF Around, k
<1>9. Around(h, s, t, D).fin \in BOOLEAN
  <2> DEFINE fin == con[k] # nil /\ con[k].state \in Tcp!FinSent /\ Len(t) = written[k]
  <2>1. Around(h, s, t, D).fin = fin
    BY DEF Around, k
  <2>2. fin \in BOOLEAN
    OBVIOUS
  <2> QED
    BY ONLY <2>1, <2>2
<1>7. Tcp!Finished(k) => Tcp!Finished(k)'
  BY <1>1, <1>2, <1>4, <1>5
<1> QED
  BY <1>3, <1>4, <1>6, <1>7, <1>9 DEF k

\* The connections.
LEMMA MovesConnections ==
  ASSUME Tcp!TcpInv, NEW h \in Tcp!Hosts, NEW d, NEW w, NEW s, NEW t, NEW D, NEW outs,
         Moves(h, d, w, s, t, outs), Fits(h, d, w, s, t, D, outs)
  PROVE  Tcp!Connections'
<1> DEFINE k == Tcp!Peer(h)
           new == Around(h, s, t, D)
           g == Len(t)
           e_ == con[k]
           gk == Len(taken[k])
<1>1. /\ k \in Tcp!Hosts /\ k # h /\ Tcp!Peer(k) = h /\ \A o \in Tcp!Hosts : o = h \/ o = k
      /\ con'[h] = d /\ con'[k] = e_ /\ blocked'[h] = w /\ blocked'[k] = blocked[k]
      /\ written'[h] = s /\ written'[k] = written[k]
      /\ taken'[h] = t /\ taken'[k] = taken[k]
      /\ s \in Nat /\ written[h] \in Nat /\ written[k] \in Nat
      /\ g \in Nat /\ Len(taken[h]) \in Nat /\ gk \in Nat /\ gk <= written[h]
      /\ d \in Tcp!Connection
  BY MovesTo
<1>2. /\ Tcp!Flow(h)' \subseteq Tcp!Flow(h) /\ Tcp!Flow(k)' \subseteq Tcp!Flow(k) \cup D
  BY MovesFlow
<1>3. /\ Tcp!Finished(h) => Tcp!Finished(h)'
      /\ Tcp!Finished(k)' <=> new.fin
  BY MovesFinished
<1>4. new.s = s /\ new.g = g /\ new.gp = gk /\ new.F = Tcp!Flow(h)
  BY DEF Around
<1>5. /\ Tcp!Starting(h, d, s, g) /\ Tcp!Asked(d, w) /\ Tcp!Counted(d, s)
      /\ Tcp!Sending(d, s, gk) /\ Tcp!Receiving(d, g, new.fin, Tcp!Flow(h))
  BY <1>4 DEF Fits, ConGood
<1>6. /\ Len(taken[h]) <= g /\ \A x \in D : x.seq = written[h] + 1
  BY DEF Fits
<1>7. e_ # nil => /\ Tcp!Starting(k, e_, written[k], gk) /\ Tcp!Asked(e_, blocked[k])
                  /\ Tcp!Counted(e_, written[k]) /\ Tcp!Sending(e_, written[k], Len(taken[h]))
                  /\ Tcp!Receiving(e_, gk, Tcp!Finished(h), Tcp!Flow(k))
                  /\ e_ \in Tcp!Connection
  BY <1>1 DEF Tcp!TcpInv, Tcp!TypeOK, Tcp!Connections
<1> HIDE DEF k, new, g, e_, gk
<1>8. Tcp!Receiving(d, g, Tcp!Finished(k)', Tcp!Flow(h)')
  BY <1>2, <1>3, <1>5 DEF Tcp!Receiving, Tcp!AckOK, Tcp!InStep
<1>9. ASSUME e_ # nil
      PROVE  Tcp!Receiving(e_, gk, Tcp!Finished(h)', Tcp!Flow(k)')
  <2>1. /\ e_.state \in Tcp!Up => Tcp!AckOK(e_.ack, gk, Tcp!Finished(h)')
        /\ e_.state \in {"established", "fin_wait_1", "fin_wait_2"} => e_.ack <= gk + 1
    BY <1>3, <1>7, <1>9 DEF Tcp!Receiving, Tcp!AckOK
  <2>2. ASSUME e_.state = "established"
        PROVE  Tcp!InStep(e_.ack, e_.offset, e_.recv_wait, gk, Tcp!Flow(k)')
    <3>1. Tcp!InStep(e_.ack, e_.offset, e_.recv_wait, gk, Tcp!Flow(k)) /\ e_.ack \in Nat
      BY <1>7, <1>9, <2>2, ConnectionIs DEF Tcp!Receiving
    <3>2. ASSUME e_.ack < gk + 1, \A x \in Tcp!Flow(k) : x.seq # e_.ack,
                 NEW x \in Tcp!Flow(k)'
          PROVE  x.seq # e_.ack
      BY <1>1, <1>2, <1>6, <3>1, <3>2
    <3> QED
      BY <3>1, <3>2 DEF Tcp!InStep
  <2> QED
    BY <2>1, <2>2 DEF Tcp!Receiving
<1>10. ASSUME e_ # nil PROVE Tcp!Sending(e_, written[k], g)
  <2>1. \A b \in g..written[k]-1 : b \in Len(taken[h])..written[k]-1
    BY <1>1, <1>6
  <2> QED
    BY <1>7, <1>10, <2>1 DEF Tcp!Sending
<1>11. ASSUME NEW o \in Tcp!Hosts, con'[o] # nil
       PROVE  /\ Tcp!Starting(o, con'[o], written'[o], Len(taken'[o]))
              /\ Tcp!Asked(con'[o], blocked'[o])
              /\ Tcp!Counted(con'[o], written'[o])
              /\ Tcp!Sending(con'[o], written'[o], Len(taken'[Tcp!Peer(o)]))
              /\ Tcp!Receiving(con'[o], Len(taken'[o]), Tcp!Finished(Tcp!Peer(o))',
                               Tcp!Flow(o)')
  <2>1. CASE o = h
    BY <1>1, <1>5, <1>8, <2>1 DEF k, g, gk
  <2>2. CASE o = k
    BY <1>1, <1>7, <1>9, <1>10, <1>11, <2>2 DEF gk, g
  <2> QED
    BY <1>1, <2>1, <2>2
<1> QED
  BY <1>11 DEF Tcp!Connections

\* The segments in flight.
LEMMA MovesSegments ==
  ASSUME Tcp!TcpInv, NEW h \in Tcp!Hosts, NEW d, NEW w, NEW s, NEW t, NEW D, NEW outs,
         Moves(h, d, w, s, t, outs), Fits(h, d, w, s, t, D, outs)
  PROVE  Tcp!Segments'
<1> DEFINE k == Tcp!Peer(h)
           new == Around(h, s, t, D)
           g == Len(t)
           old == con[h]
           peer == con[k]
           gk == Len(taken[k])
           go == Len(taken[h])
<1>1. /\ k \in Tcp!Hosts /\ k # h /\ Tcp!Peer(k) = h /\ \A o \in Tcp!Hosts : o = h \/ o = k
      /\ con'[h] = d /\ con'[k] = peer
      /\ written'[h] = s /\ written'[k] = written[k]
      /\ taken'[h] = t /\ taken'[k] = taken[k]
      /\ s \in Nat /\ written[h] \in Nat /\ written[k] \in Nat
      /\ g \in Nat /\ go \in Nat /\ gk \in Nat /\ gk <= written[h]
      /\ d # nil
  BY MovesTo
<1>2. /\ Tcp!Finished(h) => Tcp!Finished(h)'
      /\ Tcp!Finished(k) => Tcp!Finished(k)'
      /\ Tcp!Finished(k)' <=> new.fin
  BY MovesFinished
<1>3. new.s = s /\ new.g = g /\ new.gp = gk
  BY DEF Around
<1>4. /\ \A m \in outs : m.to = k /\ Tcp!SentBy(h, d, m, s, g, gk, new.fin)
      /\ go <= g /\ g <= written[k] /\ written[h] <= s
      /\ old # nil => Later(old, d)
      /\ written[h] < s => old # nil /\ old.state = "established"
  BY <1>3 DEF Fits, OutGood
<1>5. /\ \A m \in net : m \in Tcp!Segment
      /\ \A m \in net : m.to = k =>
           old # nil /\ Tcp!SentBy(h, old, m, written[h], go, gk, Tcp!Finished(k))
      /\ \A m \in net : m.to = h =>
           peer # nil /\ Tcp!SentBy(k, peer, m, written[k], gk, go, Tcp!Finished(h))
      /\ \A m \in net' : m \in net \/ m \in outs
  BY <1>1 DEF Moves, Tcp!TcpInv, Tcp!TypeOK, Tcp!Segments
<1>6. Tcp!Finished(k) => go = written[k]
  BY <1>1 DEF Tcp!Finished
<1> HIDE DEF k, new, g, old, peer, gk, go
<1>7. ASSUME NEW m \in outs PROVE Tcp!SentBy(h, d, m, s, g, gk, Tcp!Finished(k)')
  BY <1>2, <1>4 DEF Tcp!SentBy, Tcp!AckOK
<1>8. ASSUME NEW m \in net, m.to = k
      PROVE  Tcp!SentBy(h, d, m, s, g, gk, Tcp!Finished(k)')
  <2>1. /\ old # nil /\ Tcp!Numbered(m, written[h]) /\ Tcp!AckOK(m.ack, go, Tcp!Finished(k))
        /\ "fin" \in m.flags => old.state \in Tcp!FinSent /\ gk = written[h]
        /\ h = A /\ old.state = "syn_sent" => m.flags = {"syn"}
        /\ h = B => old.state # "listen"
    BY <1>5, <1>8 DEF Tcp!SentBy
  <2>2. m.from \in Nat /\ m.len \in Nat /\ m.ack \in Nat
    BY <1>5, SegmentIs
  <2>3. Tcp!Numbered(m, s)
    BY <1>1, <1>4, <2>1, <2>2 DEF Tcp!Numbered
  <2>4. Tcp!AckOK(m.ack, g, Tcp!Finished(k)')
    <3>1. CASE m.ack <= go + 1
      BY <1>1, <1>4, <2>2, <3>1 DEF Tcp!AckOK
    <3>2. CASE Tcp!Finished(k) /\ m.ack <= go + 2
      BY <1>1, <1>2, <1>4, <2>2, <3>2 DEF Tcp!AckOK
    <3> QED
      BY <2>1, <3>1, <3>2 DEF Tcp!AckOK
  <2>5. "fin" \in m.flags => d.state \in Tcp!FinSent /\ gk = s
    BY <1>1, <1>4, <2>1 DEF Later, Tcp!FinSent
  <2>6. /\ h = A /\ d.state = "syn_sent" => m.flags = {"syn"}
        /\ h = B => d.state # "listen"
    BY <1>4, <2>1 DEF Later
  <2> QED
    BY <2>3, <2>4, <2>5, <2>6 DEF Tcp!SentBy
<1>9. ASSUME NEW m \in net, m.to = h
      PROVE  peer # nil /\ Tcp!SentBy(k, peer, m, written[k], gk, g, Tcp!Finished(h)')
  <2>1. /\ peer # nil /\ Tcp!Numbered(m, written[k]) /\ Tcp!AckOK(m.ack, gk, Tcp!Finished(h))
        /\ "fin" \in m.flags => peer.state \in Tcp!FinSent /\ go = written[k]
        /\ k = A /\ peer.state = "syn_sent" => m.flags = {"syn"}
        /\ k = B => peer.state # "listen"
    BY <1>5, <1>9 DEF Tcp!SentBy
  <2>2. Tcp!AckOK(m.ack, gk, Tcp!Finished(h)')
    BY <1>2, <2>1 DEF Tcp!AckOK
  <2>3. go = written[k] => g = written[k]
    BY <1>1, <1>4
  <2> QED
    BY <2>1, <2>2, <2>3 DEF Tcp!SentBy
<1>10. ASSUME NEW m \in net'
       PROVE  LET o == Tcp!Peer(m.to) IN
              /\ con'[o] # nil
              /\ Tcp!SentBy(o, con'[o], m, written'[o], Len(taken'[o]), Len(taken'[m.to]),
                            Tcp!Finished(m.to)')
  <2>1. m.to = k \/ (m \in net /\ m.to = h)
    <3>1. m \in net => m.to \in Tcp!Hosts
      BY <1>5, SegmentIs
    <3> QED
      BY <1>1, <1>4, <1>5, <3>1
  <2>2. CASE m.to = k
    <3>1. Tcp!SentBy(h, d, m, s, g, gk, Tcp!Finished(k)')
      BY <1>5, <1>7, <1>8, <2>2
    <3>2. Tcp!Peer(m.to) = h /\ con'[h] = d /\ written'[h] = s /\ Len(taken'[h]) = g
          /\ Len(taken'[m.to]) = gk
      BY <1>1, <2>2 DEF g, gk
    <3> QED
      BY <1>1, <2>2, <3>1, <3>2
  <2>3. CASE m \in net /\ m.to = h
    <3>1. peer # nil /\ Tcp!SentBy(k, peer, m, written[k], gk, g, Tcp!Finished(h)')
      BY <1>9, <2>3
    <3>2. Tcp!Peer(m.to) = k /\ con'[k] = peer /\ written'[k] = written[k]
          /\ Len(taken'[k]) = gk /\ Len(taken'[m.to]) = g
      BY <1>1, <2>3 DEF g, gk, k
    <3> QED
      BY <2>3, <3>1, <3>2
  <2> QED
    BY <2>1, <2>2, <2>3
<1> QED
  BY <1>10 DEF Tcp!Segments

\* How far one host is when the other one is.
LEMMA MovesPaired ==
  ASSUME Tcp!TcpInv, NEW h \in Tcp!Hosts, NEW d, NEW w, NEW s, NEW t, NEW D, NEW outs,
         Moves(h, d, w, s, t, outs), Fits(h, d, w, s, t, D, outs)
  PROVE  Tcp!Paired'
<1> DEFINE k == Tcp!Peer(h)
<1>1. /\ k \in Tcp!Hosts /\ k # h /\ \A o \in Tcp!Hosts : o = h \/ o = k
      /\ con'[h] = d /\ con'[k] = con[k] /\ d # nil
      /\ written'[k] = written[k] /\ taken'[k] = taken[k]
  BY MovesTo
<1>2. Tcp!Hosts = {A, B} /\ A # B
  BY HostsAre
<1>3. /\ con[A] # nil /\ con[A].state \in Tcp!Up => con[B] # nil /\ con[B].state # "listen"
      /\ con[B] # nil /\ con[B].state # "listen" =>
           con[A] # nil /\ (con[B].state \in Tcp!Up => con[A].state \in Tcp!Up)
      /\ \A o \in Tcp!Hosts : con[o] = nil => written[o] = 0 /\ taken[o] = <<>> /\ o \notin arp
  BY DEF Tcp!TcpInv, Tcp!Paired
<1>4. /\ con[h] # nil => Later(con[h], d)
      /\ h = A /\ d.state \in Tcp!Up => con[B] # nil /\ con[B].state # "listen"
      /\ h = B /\ d.state # "listen" =>
           con[A] # nil /\ (d.state \in Tcp!Up => con[A].state \in Tcp!Up)
      /\ arp' \subseteq arp \cup {h}
  BY DEF Fits, Moves
<1> HIDE DEF k
<1>5. /\ con'[A] # nil /\ con'[A].state \in Tcp!Up => con'[B] # nil /\ con'[B].state # "listen"
      /\ con'[B] # nil /\ con'[B].state # "listen" =>
           con'[A] # nil /\ (con'[B].state \in Tcp!Up => con'[A].state \in Tcp!Up)
  <2>1. CASE h = A
    <3>1. k = B
      BY <1>1, <1>2, <2>1
    <3>2. con'[A] = d /\ con'[B] = con[B]
      BY <1>1, <2>1, <3>1
    <3> QED
      BY <1>1, <1>3, <1>4, <2>1, <3>2 DEF Later
  <2>2. CASE h = B
    <3>1. k = A
      BY <1>1, <1>2, <2>2
    <3>2. con'[B] = d /\ con'[A] = con[A]
      BY <1>1, <2>2, <3>1
    <3>3. d.state = "listen" => con[B] = nil \/ con[B].state = "listen"
      BY <1>4, <2>2 DEF Later
    <3>4. ASSUME con[A] # nil, con[A].state \in Tcp!Up
          PROVE  d.state # "listen"
      BY <1>3, <3>3, <3>4
    <3> QED
      BY <1>1, <1>4, <2>2, <3>2, <3>4
  <2> QED
    BY <1>2, <2>1, <2>2
<1>6. \A o \in Tcp!Hosts : con'[o] = nil => written'[o] = 0 /\ taken'[o] = <<>> /\ o \notin arp'
  BY <1>1, <1>3, <1>4
<1> QED
  BY <1>5, <1>6 DEF Tcp!Paired

\* So a step that fits keeps the invariant.
LEMMA MovesKeep ==
  ASSUME Tcp!TcpInv, NEW h \in Tcp!Hosts, NEW d, NEW w, NEW s, NEW t, NEW D, NEW outs,
         Moves(h, d, w, s, t, outs), Fits(h, d, w, s, t, D, outs)
  PROVE  Tcp!TcpInv'
  BY MovesTypes, MovesWhole, MovesConnections, MovesSegments, MovesPaired DEF Tcp!TcpInv

\* And so does the loss of segments.
LEMMA LosesKeep ==
  ASSUME Tcp!TcpInv, net' \subseteq net,
         UNCHANGED <<con, arp, blocked, stray, written, taken>>
  PROVE  Tcp!TcpInv'
<1>1. \A h \in Tcp!Hosts : Tcp!Flow(h)' \subseteq Tcp!Flow(h)
  BY DEF Tcp!Flow, Tcp!DataOf
<1>2. \A h : Tcp!Finished(h)' <=> Tcp!Finished(h)
  BY DEF Tcp!Finished
<1>3. Tcp!TypeOK' /\ Tcp!StreamIntact' /\ Tcp!RepliesAwaited' /\ Tcp!Paired'
  BY DEF Tcp!TcpInv, Tcp!TypeOK, Tcp!StreamIntact, Tcp!RepliesAwaited, Tcp!Paired
<1>4. Tcp!Whole'
  BY <1>1 DEF Tcp!TcpInv, Tcp!Whole
<1>5. Tcp!Segments'
  <2>1. \A m \in net' : LET h == Tcp!Peer(m.to) IN
          /\ con[h] # nil
          /\ Tcp!SentBy(h, con[h], m, written[h], Len(taken[h]), Len(taken[m.to]),
                        Tcp!Finished(m.to))
    BY DEF Tcp!TcpInv, Tcp!Segments
  <2>2. \A m \in net' : LET h == Tcp!Peer(m.to) IN
          Tcp!SentBy(h, con[h], m, written[h], Len(taken[h]), Len(taken[m.to]),
                     Tcp!Finished(m.to)')
    BY <1>2, <2>1 DEF Tcp!SentBy, Tcp!AckOK
  <2> QED
    BY <2>1, <2>2 DEF Tcp!Segments
<1>6. Tcp!Connections'
  <2> SUFFICES ASSUME NEW h \in Tcp!Hosts, con[h] # nil
               PROVE  /\ Tcp!Starting(h, con[h], written[h], Len(taken[h]))
                      /\ Tcp!Asked(con[h], blocked[h]) /\ Tcp!Counted(con[h], written[h])
                      /\ Tcp!Sending(con[h], written[h], Len(taken[Tcp!Peer(h)]))
                      /\ Tcp!Receiving(con[h], Len(taken[h]), Tcp!Finished(Tcp!Peer(h))',
                                       Tcp!Flow(h)')
    BY DEF Tcp!Connections
  <2>1. /\ Tcp!Starting(h, con[h], written[h], Len(taken[h]))
        /\ Tcp!Asked(con[h], blocked[h]) /\ Tcp!Counted(con[h], written[h])
        /\ Tcp!Sending(con[h], written[h], Len(taken[Tcp!Peer(h)]))
        /\ Tcp!Receiving(con[h], Len(taken[h]), Tcp!Finished(Tcp!Peer(h)), Tcp!Flow(h))
    BY DEF Tcp!TcpInv, Tcp!Connections
  <2>2. Tcp!Receiving(con[h], Len(taken[h]), Tcp!Finished(Tcp!Peer(h))', Tcp!Flow(h)')
    BY <1>1, <1>2, <2>1 DEF Tcp!Receiving, Tcp!AckOK, Tcp!InStep
  <2> QED
    BY <2>1, <2>2
<1> QED
  BY <1>3, <1>4, <1>5, <1>6 DEF Tcp!TcpInv

\* A step of h that changes neither what is written nor what is read.
LEMMA JobKeeps ==
  ASSUME Tcp!TcpInv, NEW h \in Tcp!Hosts, NEW d, NEW outs, NEW w \in Tcp!Requests,
         ConGood(h, d, w, AroundNow(h)), \A m \in outs : OutGood(h, d, m, AroundNow(h)),
         con[h] # nil => Later(con[h], d), Len(d.sending) <= MaxQueue,
         h = A /\ d.state \in Tcp!Up => con[B] # nil /\ con[B].state # "listen",
         h = B /\ d.state # "listen" =>
           con[A] # nil /\ (d.state \in Tcp!Up => con[A].state \in Tcp!Up),
         con' = [con EXCEPT ![h] = d], blocked' = [blocked EXCEPT ![h] = w],
         written' = written, taken' = taken, stray' = FALSE, net' \subseteq net \cup outs,
         arp' \subseteq arp \cup {h}
  PROVE  Tcp!TcpInv'
<1> DEFINE s == written[h]
           t == taken[h]
<1>1. s \in Nat /\ t \in Seq(Nat) /\ s <= Room(h)
  BY DEF Tcp!TcpInv, Tcp!TypeOK, Room
<1>2. Len(t) <= written[Tcp!Peer(h)] /\ \A i \in 1..Len(t) : t[i] = i - 1
  <2>1. Tcp!Peer(h) \in Tcp!Hosts /\ Tcp!Peer(Tcp!Peer(h)) = h
    BY HostsAre
  <2>2. \A o \in Tcp!Hosts :
          /\ Len(taken[Tcp!Peer(o)]) <= written[o]
          /\ \A i \in 1..Len(taken[Tcp!Peer(o)]) : taken[Tcp!Peer(o)][i] = i - 1
    BY DEF Tcp!TcpInv, Tcp!StreamIntact
  <2> QED
    BY <2>1, <2>2
<1>3. Around(h, s, t, {}) = AroundNow(h)
  BY DEF AroundNow
<1>4. Len(t) \in Nat
  BY <1>1
<1>5. written' = [written EXCEPT ![h] = s] /\ taken' = [taken EXCEPT ![h] = t]
  BY DEF Tcp!TcpInv, Tcp!TypeOK
<1>6. Moves(h, d, w, s, t, outs)
  BY <1>5 DEF Moves
<1>7. Fits(h, d, w, s, t, {}, outs)
  BY <1>1, <1>2, <1>3, <1>4 DEF Fits
<1> QED
  BY <1>6, <1>7, MovesKeep

\* handle_tcp.
LEMMA DeliverKeeps ==
  ASSUME Tcp!TcpInv, NEW h \in Tcp!Hosts, NEW m, Tcp!handle_tcp(h, m)
  PROVE  Tcp!TcpInv'
<1> DEFINE env == AroundNow(h)
           w == blocked[h]
           left == IF Duplicates THEN net ELSE net \ {m}
<1>1. m \in net /\ m.to = h /\ UNCHANGED <<arp, written, taken>>
  BY DEF Tcp!handle_tcp
<1>2. CASE con[h] = nil
  <2>1. net' = left /\ UNCHANGED <<con, blocked, stray>>
    BY <1>2 DEF Tcp!handle_tcp
  <2> QED
    BY <1>1, <2>1, LosesKeep
<1>3. CASE con[h] # nil
  <2> DEFINE c == Tcp!Acknowledged(h, m)
             j == Tcp!send_tcp_pkt(h, Tcp!Dispatch(h, Tcp!Job(c), m))
  <2>1. Tcp!Finish(h, j) /\ net' = left \cup j.out /\ blocked' = Tcp!Replied(h, j.reply)
    BY <1>3 DEF Tcp!handle_tcp
  <2>2. /\ ConGood(h, con[h], w, env) /\ Arrived(h, con[h], m, env) /\ Surroundings(env)
    <3>1. written[h] \in Nat /\ taken[h] \in Seq(Nat) /\ written[h] <= written[h]
      BY DEF Tcp!TcpInv, Tcp!TypeOK
    <3>2. Surroundings(env)
      BY <3>1, AroundIs DEF AroundNow
    <3> QED
      BY <1>1, <1>3, <3>2, NowGood, NowArrived
  <2>3. ConGood(h, c, w, env) /\ c.state = con[h].state
    <3>1. CASE "ack" \in m.flags
      <4> DEFINE d == [con[h] EXCEPT !.sending = Tcp!Acked(@, m.ack)]
      <4>1. c = d
        BY <3>1 DEF Tcp!Acknowledged
      <4> HIDE DEF c
      <4>2. c = [con[h] EXCEPT !.sending = Tcp!Acked(@, m.ack)]
        BY <4>1
      <4> QED
        BY <2>2, <4>2, AckedGood
    <3>2. CASE "ack" \notin m.flags
      BY <2>2, <3>2 DEF Tcp!Acknowledged
    <3> QED
      BY <3>1, <3>2
  <2> HIDE DEF env, left, c
  <2>4. Arrived(h, c, m, env)
    BY <2>2, <2>3 DEF Arrived
  <2>5. Good(h, Tcp!Job(c), w, env) /\ Tcp!Job(c).c = c /\ Tcp!Job(c).reply = "none"
    BY <2>3, BeginGood
  <2>6. Handled(h, Tcp!Job(c), j, m, w, env)
    <3> DEFINE b == Tcp!Job(c)
    <3> HIDE DEF b
    <3>1. Good(h, b, w, env) /\ b.c = c /\ b.reply = "none"
      BY <2>5 DEF b
    <3>2. Handled(h, b, Tcp!send_tcp_pkt(h, Tcp!Dispatch(h, b, m)), m, w, env)
      BY <2>2, <2>4, <3>1, DispatchGood
    <3> QED
      BY <3>2 DEF b
  <2> HIDE DEF j
  <2>7. /\ Good(h, j, Left(w, j), env) /\ Later(c, j.c)
        /\ j.reply # "none" => j.reply = w
        /\ j.c.state \in Tcp!Up /\ c.state \notin Tcp!Up => h = A \/ m.flags # {"syn"}
    BY <2>5, <2>6 DEF Handled
  <2>8. Later(con[h], j.c)
    BY <2>3, <2>7 DEF Later
  <2>9. ConGood(h, j.c, Left(w, j), env) /\ \A x \in j.out : OutGood(h, j.c, x, env)
    BY <2>7 DEF Good
  <2>10. /\ Len(j.c.sending) <= MaxQueue /\ con' = [con EXCEPT ![h] = j.c]
         /\ stray' = (stray \/ (j.reply # "none" /\ blocked[h] # j.reply))
    BY <2>1 DEF Tcp!Finish
  <2>11. stray' = FALSE
    BY <2>7, <2>10 DEF Tcp!TcpInv, Tcp!RepliesAwaited
  <2>12. blocked' = [blocked EXCEPT ![h] = Left(w, j)] /\ Left(w, j) \in Tcp!Requests
    BY <2>1 DEF Tcp!Replied, Left, Tcp!TcpInv, Tcp!TypeOK, Tcp!Requests
  <2>13. net' \subseteq net \cup j.out /\ arp' \subseteq arp \cup {h}
    BY <1>1, <2>1 DEF left
  <2>14. /\ con[Tcp!Peer(h)] # nil
         /\ Tcp!Peer(h) = A /\ con[A].state = "syn_sent" => m.flags = {"syn"}
         /\ Tcp!Peer(h) = B => con[B].state # "listen"
    BY <1>1 DEF Tcp!TcpInv, Tcp!Segments, Tcp!SentBy
  <2>15. h = A => Tcp!Peer(h) = B
    BY HostsAre
  <2>16. h = B => Tcp!Peer(h) = A /\ A # B
    BY HostsAre
  <2>17. ASSUME h = B, j.c.state \in Tcp!Up
         PROVE  con[A].state \in Tcp!Up
    <3>1. CASE con[h].state \in Tcp!Up
      <4>1. con[B].state \in Tcp!Up /\ con[B].state # "listen" /\ con[B] # nil
        BY <1>3, <2>17, <3>1 DEF Tcp!Up
      <4> QED
        BY <4>1 DEF Tcp!TcpInv, Tcp!Paired
    <3>2. CASE con[h].state \notin Tcp!Up
      <4>1. con[A] # nil /\ con[A].state # "syn_sent" /\ A \in Tcp!Hosts
        BY <2>3, <2>7, <2>14, <2>16, <2>17, <3>2, HostsAre
      <4>2. Tcp!Starting(A, con[A], written[A], Len(taken[A]))
        BY <4>1 DEF Tcp!TcpInv, Tcp!Connections
      <4> QED
        BY <2>16, <2>17, <4>1, <4>2 DEF Tcp!Starting
    <3> QED
      BY <3>1, <3>2
  <2>18. /\ h = A /\ j.c.state \in Tcp!Up => con[B] # nil /\ con[B].state # "listen"
         /\ h = B /\ j.c.state # "listen" =>
              con[A] # nil /\ (j.c.state \in Tcp!Up => con[A].state \in Tcp!Up)
    BY <2>14, <2>15, <2>16, <2>17
  <2> QED
    BY <1>1, <2>8, <2>9, <2>10, <2>11, <2>12, <2>13, <2>18, JobKeeps DEF env
<1> QED
  BY <1>2, <1>3

\* The surroundings of a host that has a connection, or none yet.
LEMMA NowAround ==
  ASSUME Tcp!TcpInv, NEW h \in Tcp!Hosts
  PROVE  /\ Surroundings(AroundNow(h)) /\ AroundNow(h).s = written[h]
         /\ AroundNow(h).g = Len(taken[h]) /\ AroundNow(h).gp = Len(taken[Tcp!Peer(h)])
         /\ written[h] \in Nat /\ taken[h] \in Seq(Nat) /\ stray = FALSE
         /\ con[h] = nil => written[h] = 0 /\ Len(taken[h]) = 0 /\ h \notin arp
<1>1. written[h] \in Nat /\ taken[h] \in Seq(Nat) /\ written[h] <= written[h] /\ stray = FALSE
  BY DEF Tcp!TcpInv, Tcp!TypeOK, Tcp!RepliesAwaited
<1>2. con[h] = nil => written[h] = 0 /\ taken[h] = <<>> /\ h \notin arp
  BY DEF Tcp!TcpInv, Tcp!Paired
<1>3. /\ Surroundings(AroundNow(h)) /\ AroundNow(h).s = written[h]
      /\ AroundNow(h).g = Len(taken[h]) /\ AroundNow(h).gp = Len(taken[Tcp!Peer(h)])
  BY <1>1, AroundIs DEF AroundNow
<1> QED
  BY <1>1, <1>2, <1>3

\* ip_tcp_listen.
LEMMA ListenKeeps ==
  ASSUME Tcp!TcpInv, NEW h \in Tcp!Hosts, Tcp!ip_tcp_listen(h)
  PROVE  Tcp!TcpInv'
<1> DEFINE d == Tcp!NewCon("listen")
<1>1. /\ h = B /\ con[h] = nil /\ con' = [con EXCEPT ![h] = d]
      /\ blocked' = [blocked EXCEPT ![h] = "listen"]
      /\ UNCHANGED <<arp, net, stray, written, taken>>
  BY DEF Tcp!ip_tcp_listen
<1>2. ConGood(h, d, "listen", AroundNow(h))
  BY <1>1, NowAround, ListenGood
<1>3. d.state = "listen" /\ d.sending = <<>>
  BY DEF Tcp!NewCon
<1> HIDE DEF d
<1>4. Len(d.sending) <= MaxQueue /\ d.state \notin Tcp!Up
  <2>1. Len(<<>>) = 0 /\ MaxQueue \in Nat
    BY ConstantsOK DEF Tcp!TcpOK
  <2> QED
    BY <1>3, <2>1 DEF Tcp!Up
<1>5. "listen" \in Tcp!Requests
  BY DEF Tcp!Requests
<1>6. stray = FALSE
  BY NowAround
<1> QED
  <2> DEFINE none == {}
  <2>1. h # A
    BY <1>1, HostsAre
  <2>2. net' \subseteq net \cup none /\ arp' \subseteq arp \cup {h} /\ stray' = FALSE
    BY <1>1, <1>6
  <2>3. written' = written /\ taken' = taken
    BY <1>1
  <2>4. \A m \in none : OutGood(h, d, m, AroundNow(h))
    OBVIOUS
  <2> HIDE DEF none
  <2> QED
    BY <1>1, <1>2, <1>3, <1>4, <1>5, <2>1, <2>2, <2>3, <2>4, JobKeeps

\* ip_tcp_connect.
LEMMA ConnectKeeps ==
  ASSUME Tcp!TcpInv, NEW h \in Tcp!Hosts, Tcp!ip_tcp_connect(h)
  PROVE  Tcp!TcpInv'
<1> DEFINE d == Tcp!add_pkt(Tcp!Job(Tcp!NewCon("syn_sent")), {"syn"}, 0, 0).c
<1>1. /\ h = A /\ con[h] = nil /\ con' = [con EXCEPT ![h] = d]
      /\ blocked' = [blocked EXCEPT ![h] = "connect"]
      /\ arp' = arp \cup {h} /\ UNCHANGED <<net, stray, written, taken>>
  BY DEF Tcp!ip_tcp_connect
<1>2. ConGood(h, d, "connect", AroundNow(h)) /\ Len(d.sending) = 1 /\ d.state = "syn_sent"
  <2>1. ConGood(A, d, "connect", AroundNow(h)) /\ Len(d.sending) = 1 /\ d.state = "syn_sent"
    <3> DEFINE env == AroundNow(h)
    <3>1. Surroundings(env) /\ env.s = 0 /\ env.g = 0
      BY <1>1, NowAround
    <3> HIDE DEF env
    <3>2. ConGood(A, d, "connect", env) /\ Len(d.sending) = 1 /\ d.state = "syn_sent"
      BY <3>1, ConnectGood
    <3> QED
      BY <3>2 DEF env
  <2> QED
    BY <1>1, <2>1
<1> HIDE DEF d
<1>3. Len(d.sending) <= MaxQueue /\ d.state \notin Tcp!Up
  <2>1. MaxQueue \in Nat \ {0}
    BY ConstantsOK DEF Tcp!TcpOK
  <2> QED
    BY <1>2, <2>1 DEF Tcp!Up
<1>4. "connect" \in Tcp!Requests
  BY DEF Tcp!Requests
<1>5. stray = FALSE
  BY NowAround
<1> QED
  <2> DEFINE none == {}
  <2>1. h # B
    BY <1>1, HostsAre
  <2>2. net' \subseteq net \cup none /\ arp' \subseteq arp \cup {h} /\ stray' = FALSE
    BY <1>1, <1>5
  <2>3. written' = written /\ taken' = taken
    BY <1>1
  <2>4. \A m \in none : OutGood(h, d, m, AroundNow(h))
    OBVIOUS
  <2> HIDE DEF none
  <2> QED
    BY <1>1, <1>2, <1>3, <1>4, <2>1, <2>2, <2>3, <2>4, JobKeeps

\* A connection that listens has nothing to send.
LEMMA ListenSends ==
  ASSUME Tcp!TcpInv, NEW h \in Tcp!Hosts, con[h] # nil, con[h].state = "listen"
  PROVE  Tcp!send_tcp_pkt(h, Tcp!Job(con[h])) = Tcp!Job(con[h])
<1>1. Tcp!Starting(h, con[h], written[h], Len(taken[h]))
  BY DEF Tcp!TcpInv, Tcp!Connections
<1>2. con[h].sending = <<>>
  BY <1>1 DEF Tcp!Starting, Tcp!Up
<1> QED
  BY <1>2 DEF Tcp!send_tcp_pkt, Tcp!Job

\* A host that only sends is as far as it was, and so is its peer.
LEMMA StillPaired ==
  ASSUME Tcp!TcpInv, NEW h \in Tcp!Hosts, con[h] # nil, NEW d, Later(con[h], d),
         d.state \in Tcp!Up => con[h].state \in Tcp!Up,
         con[h].state = "listen" => d.state = "listen"
  PROVE  /\ h = A /\ d.state \in Tcp!Up => con[B] # nil /\ con[B].state # "listen"
         /\ h = B /\ d.state # "listen" =>
              con[A] # nil /\ (d.state \in Tcp!Up => con[A].state \in Tcp!Up)
  BY DEF Tcp!TcpInv, Tcp!Paired

\* connect_tcp_arp.
LEMMA ArpKeeps ==
  ASSUME Tcp!TcpInv, NEW h \in Tcp!Hosts, Tcp!connect_tcp_arp(h)
  PROVE  Tcp!TcpInv'
<1> DEFINE j == Tcp!send_tcp_pkt(h, Tcp!Job(con[h]))
           w == blocked[h]
           env == AroundNow(h)
<1>1. /\ h \in arp /\ arp' = arp \ {h} /\ Tcp!Finish(h, j) /\ net' = net \cup j.out
      /\ UNCHANGED <<blocked, written, taken>>
  BY DEF Tcp!connect_tcp_arp
<1>2. con[h] # nil
  BY <1>1 DEF Tcp!TcpInv, Tcp!Paired
<1>3. ConGood(h, con[h], w, env) /\ Surroundings(env) /\ stray = FALSE
  BY <1>2, NowGood, NowAround
<1> HIDE DEF env
<1>4. /\ Good(h, j, w, env) /\ j.reply = "none" /\ Later(con[h], j.c)
      /\ j.c.state \in Tcp!Up => con[h].state \in Tcp!Up
  <2> DEFINE b == Tcp!Job(con[h])
  <2>1. Good(h, b, w, env) /\ b.c = con[h] /\ b.reply = "none"
    BY <1>3, BeginGood
  <2> HIDE DEF b
  <2>2. LET r == Tcp!send_tcp_pkt(h, b)
        IN  /\ Good(h, r, w, env) /\ r.reply = "none" /\ Later(con[h], r.c)
            /\ r.c.state \in Tcp!Up => con[h].state \in Tcp!Up
    BY <1>3, <2>1, SendGood
  <2> QED
    BY <2>2 DEF b
<1>5. con[h].state = "listen" => j.c.state = "listen"
  BY <1>2, ListenSends DEF Tcp!Job
<1> HIDE DEF j
<1>6. ConGood(h, j.c, w, env) /\ \A m \in j.out : OutGood(h, j.c, m, env)
  BY <1>4 DEF Good
<1>7. /\ Len(j.c.sending) <= MaxQueue /\ con' = [con EXCEPT ![h] = j.c] /\ stray' = FALSE
  BY <1>1, <1>3, <1>4 DEF Tcp!Finish
<1>8. /\ h = A /\ j.c.state \in Tcp!Up => con[B] # nil /\ con[B].state # "listen"
      /\ h = B /\ j.c.state # "listen" =>
           con[A] # nil /\ (j.c.state \in Tcp!Up => con[A].state \in Tcp!Up)
  BY <1>2, <1>4, <1>5, StillPaired
<1>9. blocked' = [blocked EXCEPT ![h] = w] /\ w \in Tcp!Requests
  BY <1>1 DEF Tcp!TcpInv, Tcp!TypeOK
<1>10. /\ net' \subseteq net \cup j.out /\ arp' \subseteq arp \cup {h}
       /\ written' = written /\ taken' = taken
  BY <1>1
<1> QED
  BY <1>4, <1>6, <1>7, <1>8, <1>9, <1>10, JobKeeps DEF env

\* ip_tcp_disconnect.
LEMMA DisconnectKeeps ==
  ASSUME Tcp!TcpInv, NEW h \in Tcp!Hosts, Tcp!ip_tcp_disconnect(h)
  PROVE  Tcp!TcpInv'
<1> DEFINE c == con[h]
           d == [c EXCEPT !.closing = TRUE]
           fin == Tcp!add_pkt(Tcp!Job(d), {"ack", "fin"}, 0, 0)
           j == Tcp!send_tcp_pkt(h, IF d.state \in {"established", "close_wait"}
                                    THEN fin ELSE Tcp!Job(d))
           env == AroundNow(h)
<1>1. /\ c # nil /\ blocked[h] = "none" /\ blocked' = [blocked EXCEPT ![h] = "disconnect"]
      /\ UNCHANGED <<arp, written, taken>>
      /\ \/ UNCHANGED <<con, net, stray>>
         \/ Tcp!Finish(h, j) /\ net' = net \cup j.out
  BY DEF Tcp!ip_tcp_disconnect, Tcp!Connected
<1>2. ConGood(h, c, "none", env) /\ Surroundings(env) /\ stray = FALSE
  BY <1>1, NowGood, NowAround
<1>3. c.state \in Tcp!Up
  BY <1>2 DEF ConGood, Tcp!Asked, Tcp!Connection, Tcp!States, Tcp!Up
<1> HIDE DEF env, c
<1>4. ConGood(h, c, "disconnect", env) /\ Later(c, c)
  <2> HIDE DEF d
  <2>1. d = [c EXCEPT !.closing = TRUE]
    BY DEF d
  <2> QED
    BY <1>2, <2>1, DisconnectGood
<1>5. Good(h, j, "disconnect", env) /\ j.reply = "none" /\ Later(c, j.c)
  <2>1. d = [c EXCEPT !.closing = TRUE]
    OBVIOUS
  <2> HIDE DEF d
  <2> QED
    BY <1>2, <2>1, DisconnectGood
<1> HIDE DEF j
<1>6. "disconnect" \in Tcp!Requests
  BY DEF Tcp!Requests
<1>7. /\ h = A => con[B] # nil /\ con[B].state # "listen"
      /\ h = B => con[A] # nil /\ con[A].state \in Tcp!Up
  BY <1>1, <1>3 DEF Tcp!TcpInv, Tcp!Paired, Tcp!Up, c
<1>8. CASE UNCHANGED <<con, net, stray>>
  <2> DEFINE none == {}
  <2>1. Len(c.sending) <= MaxQueue
    BY <1>1 DEF Tcp!TcpInv, Tcp!TypeOK, c
  <2>2. con' = [con EXCEPT ![h] = c]
    BY <1>8 DEF Tcp!TcpInv, Tcp!TypeOK, c
  <2>3. /\ net' \subseteq net \cup none /\ arp' \subseteq arp \cup {h} /\ stray' = FALSE
        /\ written' = written /\ taken' = taken
    BY <1>1, <1>2, <1>8
  <2>4. \A m \in none : OutGood(h, c, m, AroundNow(h))
    OBVIOUS
  <2> HIDE DEF none
  <2>5. ConGood(h, c, "disconnect", AroundNow(h)) /\ (con[h] # nil => Later(con[h], c))
    BY <1>4 DEF env, c
  <2> QED
    BY <1>1, <1>6, <1>7, <2>1, <2>2, <2>3, <2>4, <2>5, JobKeeps
<1>9. CASE Tcp!Finish(h, j) /\ net' = net \cup j.out
  <2>1. ConGood(h, j.c, "disconnect", env) /\ \A m \in j.out : OutGood(h, j.c, m, env)
    BY <1>5 DEF Good
  <2>2. /\ Len(j.c.sending) <= MaxQueue /\ con' = [con EXCEPT ![h] = j.c] /\ stray' = FALSE
    BY <1>2, <1>5, <1>9 DEF Tcp!Finish
  <2>3. /\ net' \subseteq net \cup j.out /\ arp' \subseteq arp \cup {h}
        /\ written' = written /\ taken' = taken
    BY <1>1, <1>9
  <2> QED
    BY <1>1, <1>5, <1>6, <1>7, <2>1, <2>2, <2>3, JobKeeps DEF env, c
<1> QED
  BY <1>1, <1>8, <1>9

\* ip_write_tcp.
LEMMA WriteKeeps ==
  ASSUME Tcp!TcpInv, NEW h \in Tcp!Hosts, NEW len \in Nat, Tcp!ip_write_tcp(h, len)
  PROVE  Tcp!TcpInv'
<1> DEFINE c == con[h]
           from == written[h]
           s == from + len
           t == taken[h]
           datum == [seq |-> from + 1, from |-> from, len |-> len]
           D == IF len > 0 THEN {datum} ELSE {}
           env == AroundNow(h)
           new == Around(h, s, t, D)
           added == Tcp!add_pkt(Tcp!Job(c), {"ack", "psh"}, from, len)
           j == Tcp!send_tcp_pkt(h, Tcp!Update(added, [added.c EXCEPT !.next_seq = @ + len]))
<1>1. /\ c # nil /\ blocked[h] = "none" /\ c.state = "established" /\ ~c.closing
      /\ s <= Room(h) /\ Tcp!Finish(h, j) /\ net' = net \cup j.out
      /\ written' = [written EXCEPT ![h] = @ + len] /\ UNCHANGED <<arp, blocked, taken>>
  BY DEF Tcp!ip_write_tcp, Tcp!Connected, Room
<1>2. /\ ConGood(h, c, "none", env) /\ Surroundings(env) /\ from \in Nat /\ t \in Seq(Nat)
      /\ env.s = from /\ env.g = Len(t) /\ env.gp = Len(taken[Tcp!Peer(h)]) /\ stray = FALSE
  BY <1>1, NowGood, NowAround
<1>3. s \in Nat /\ from <= s
  BY <1>2
<1>4. Surroundings(new) /\ new.s = s
  BY <1>2, <1>3, AroundIs
<1>5. /\ new.g = env.g /\ new.gp = env.gp /\ new.fin = env.fin /\ new.F = env.F
      /\ env.Q = Tcp!Flow(Tcp!Peer(h)) /\ new.Q = Tcp!Flow(Tcp!Peer(h)) \cup D
  BY DEF AroundNow, Around
<1>6. /\ \A p : Carries(p, env.Q) => Carries(p, new.Q)
      /\ len > 0 => [seq |-> env.s + 1, from |-> env.s, len |-> len] \in new.Q
  <2>1. \A p : Carries(p, env.Q) => Carries(p, new.Q)
    <3> HIDE DEF env, new, D
    <3> QED
      BY <1>5 DEF Carries
  <2>2. len > 0 => datum \in D
    OBVIOUS
  <2>3. datum = [seq |-> env.s + 1, from |-> env.s, len |-> len]
    BY <1>2
  <2> HIDE DEF env, new, D, datum
  <2> QED
    BY <1>5, <2>1, <2>2, <2>3
<1>7. \A x \in D : from < s /\ x = [seq |-> from + 1, from |-> from, len |-> s - from]
  <2> SUFFICES ASSUME NEW x \in D
               PROVE  from < s /\ x = [seq |-> from + 1, from |-> from, len |-> s - from]
    OBVIOUS
  <2>1. len > 0 /\ x = datum
    OBVIOUS
  <2>2. from < s /\ len = s - from
    BY <1>2, <2>1
  <2> QED
    BY <2>1, <2>2
<1> HIDE DEF env, new, D, datum
<1>8. Good(h, j, "none", new) /\ j.reply = "none" /\ Later(c, j.c)
  <2> DEFINE b == Tcp!add_pkt(Tcp!Job(c), {"ack", "psh"}, env.s, len)
             r == Tcp!send_tcp_pkt(h, Tcp!Update(b, [b.c EXCEPT !.next_seq = @ + len]))
  <2>1. Good(h, r, "none", new) /\ r.reply = "none" /\ Later(c, r.c)
    <3>1. new.s = env.s + len
      BY <1>2, <1>4
    <3> HIDE DEF c
    <3> QED
      BY <1>1, <1>2, <1>4, <1>5, <1>6, <3>1, WriteGood
  <2>2. env.s = from
    BY <1>2
  <2> QED
    BY <2>1, <2>2
<1> HIDE DEF j
<1>9. ConGood(h, j.c, "none", new) /\ \A m \in j.out : OutGood(h, j.c, m, new)
  BY <1>8 DEF Good
<1>10. /\ Len(j.c.sending) <= MaxQueue /\ con' = [con EXCEPT ![h] = j.c] /\ stray' = FALSE
  BY <1>1, <1>2, <1>8 DEF Tcp!Finish
<1>11. Moves(h, j.c, "none", s, t, j.out)
  <2>1. blocked' = [blocked EXCEPT ![h] = "none"] /\ taken' = [taken EXCEPT ![h] = t]
    BY <1>1 DEF Tcp!TcpInv, Tcp!TypeOK
  <2>2. written' = [written EXCEPT ![h] = s]
    BY <1>1
  <2> QED
    BY <1>1, <1>10, <2>1, <2>2 DEF Moves
<1>12. Len(t) <= written[Tcp!Peer(h)] /\ \A i \in 1..Len(t) : t[i] = i - 1
  <2>1. Tcp!Peer(h) \in Tcp!Hosts /\ Tcp!Peer(Tcp!Peer(h)) = h
    BY HostsAre
  <2>2. \A o \in Tcp!Hosts :
          /\ Len(taken[Tcp!Peer(o)]) <= written[o]
          /\ \A i \in 1..Len(taken[Tcp!Peer(o)]) : taken[Tcp!Peer(o)][i] = i - 1
    BY DEF Tcp!TcpInv, Tcp!StreamIntact
  <2> QED
    BY <2>1, <2>2
<1>13. /\ h = A => con[B] # nil /\ con[B].state # "listen"
       /\ h = B => con[A] # nil /\ con[A].state \in Tcp!Up
  BY <1>1 DEF Tcp!TcpInv, Tcp!Paired, Tcp!Up
<1>14. Fits(h, j.c, "none", s, t, D, j.out)
  <2>1. "none" \in Tcp!Requests /\ Len(t) \in Nat
    BY <1>2 DEF Tcp!Requests
  <2>2. con[h] # nil /\ con[h].state = "established" /\ Later(con[h], j.c)
    BY <1>1, <1>8
  <2> QED
    BY <1>1, <1>2, <1>3, <1>7, <1>9, <1>10, <1>12, <1>13, <2>1, <2>2 DEF Fits, new
<1> QED
  BY <1>11, <1>14, MovesKeep

\* The numbers go on.
LEMMA NumbersGoOn ==
  ASSUME NEW t \in Seq(Nat), NEW b \in Seq(Nat), \A i \in 1..Len(t) : t[i] = i - 1,
         \A i \in 1..Len(b) : b[i] = Len(t) + i - 1
  PROVE  /\ t \o b \in Seq(Nat) /\ Len(t \o b) = Len(t) + Len(b)
         /\ \A i \in 1..Len(t \o b) : (t \o b)[i] = i - 1
<1>1. /\ Len(t) \in Nat /\ Len(b) \in Nat /\ t \o b \in Seq(Nat)
      /\ Len(t \o b) = Len(t) + Len(b)
      /\ \A i \in 1..Len(t) : (t \o b)[i] = t[i]
      /\ \A i \in Len(t)+1..Len(t)+Len(b) : (t \o b)[i] = b[i - Len(t)]
  OBVIOUS
<1>2. ASSUME NEW i \in 1..Len(t \o b) PROVE (t \o b)[i] = i - 1
  <2> DEFINE all == t \o b
             n == Len(t)
             l == Len(b)
  <2>1. /\ n \in Nat /\ l \in Nat /\ i \in 1..n+l
        /\ \A x \in 1..n : all[x] = t[x] /\ t[x] = x - 1
        /\ \A x \in n+1..n+l : all[x] = b[x - n]
        /\ \A x \in 1..l : b[x] = n + x - 1
    BY <1>1
  <2> HIDE DEF all, n, l
  <2>2. CASE i <= n
    BY <2>1, <2>2
  <2>3. CASE i > n
    <3>1. i - n \in 1..l /\ i \in n+1..n+l
      BY <2>1, <2>3
    <3>2. all[i] = n + (i - n) - 1
      BY <2>1, <3>1
    <3> QED
      BY <2>1, <3>2
  <2>4. all[i] = i - 1
    BY <2>1, <2>2, <2>3
  <2> QED
    BY <2>4 DEF all
<1> QED
  BY <1>1, <1>2

\* What ip_read_tcp copies is what comes next.
LEMMA CopiedNext ==
  ASSUME Tcp!TcpInv, NEW h \in Tcp!Hosts, con[h] # nil, con[h].state = "established",
         NEW len \in Nat
  PROVE  LET r == Tcp!Copied(con[h], len)
             b == r.bytes
             t == taken[h]
         IN  /\ r \in Walk /\ \A i \in 1..Len(r.left) : Carries(r.left[i], Tcp!Flow(h))
             /\ Tcp!InStep(r.ack, r.offset, r.left, Len(t) + Len(b), Tcp!Flow(h))
             /\ b \in Seq(Nat) /\ t \o b \in Seq(Nat) /\ Len(t \o b) = Len(t) + Len(b)
             /\ Len(t) \in Nat /\ Len(b) \in Nat
             /\ Len(t \o b) <= written[Tcp!Peer(h)] /\ written[Tcp!Peer(h)] \in Nat
             /\ Len(t) <= written[Tcp!Peer(h)]
             /\ \A i \in 1..Len(t \o b) : (t \o b)[i] = i - 1
<1> DEFINE c == con[h]
           k == Tcp!Peer(h)
           r == Tcp!Copied(c, len)
           F == Tcp!Flow(h)
           t == taken[h]
           g == Len(t)
           S == written[k]
<1>1. /\ S \in Nat /\ t \in Seq(Nat) /\ c \in Tcp!Connection
      /\ g <= S /\ \A i \in 1..g : t[i] = i - 1
  <2>1. k \in Tcp!Hosts /\ Tcp!Peer(k) = h
    BY HostsAre
  <2> QED
    BY <2>1 DEF Tcp!TcpInv, Tcp!TypeOK, Tcp!StreamIntact
<1>2. g \in Nat
  BY <1>1
<1>3. WholeOf(F, S)
  BY FlowIs
<1>4. /\ Tcp!InStep(c.ack, c.offset, c.recv_wait, g, F)
      /\ \A i \in 1..Len(c.recv_wait) : Carries(c.recv_wait[i], F)
  <2>1. ConGood(h, c, blocked[h], AroundNow(h))
    BY NowGood
  <2>2. AroundNow(h).F = F /\ AroundNow(h).g = g
    BY DEF AroundNow, Around
  <2> HIDE DEF F, g
  <2> QED
    BY <2>1, <2>2 DEF ConGood, Tcp!Receiving
<1>5. /\ r \in Walk /\ g + Len(r.bytes) <= S
      /\ \A i \in 1..Len(r.bytes) : r.bytes[i] = g + i - 1
      /\ \A i \in 1..Len(r.left) : Carries(r.left[i], F)
      /\ Tcp!InStep(r.ack, r.offset, r.left, g + Len(r.bytes), F)
  <2> HIDE DEF F, g, c, S
  <2> QED
    BY <1>1, <1>2, <1>3, <1>4, CopiedProps
<1>6. r.bytes \in Seq(Nat) /\ Len(r.bytes) \in Nat
  BY <1>5, WalkIs
<1> DEFINE b == r.bytes
<1> HIDE DEF r, S, t
<1>7. /\ t \o b \in Seq(Nat) /\ Len(t \o b) = Len(t) + Len(b)
      /\ \A i \in 1..Len(t \o b) : (t \o b)[i] = i - 1
  BY <1>1, <1>5, <1>6, NumbersGoOn
<1>8. Len(t \o b) <= S
  BY <1>2, <1>5, <1>6, <1>7
<1> QED
  BY <1>1, <1>2, <1>5, <1>6, <1>7, <1>8 DEF r, S, t

\* ip_read_tcp.
LEMMA ReadKeeps ==
  ASSUME Tcp!TcpInv, NEW h \in Tcp!Hosts, NEW len \in Nat, Tcp!ip_read_tcp(h, len)
  PROVE  Tcp!TcpInv'
<1> DEFINE c == con[h]
           k == Tcp!Peer(h)
           r == Tcp!Copied(c, len)
           d == [c EXCEPT !.recv_wait = r.left, !.offset = r.offset, !.ack = r.ack]
           acked == IF c.ack < r.ack THEN Tcp!AckNow(h, Tcp!Job(d)) ELSE Tcp!Job(d)
           j == IF c.closing /\ r.left = <<>>
                THEN Tcp!AckNow(h, Tcp!Update(acked, Tcp!CountFin(Tcp!CloseWait(acked.c))))
                ELSE acked
           s == written[h]
           t == taken[h] \o r.bytes
           env == AroundNow(h)
           none == {}
           new == Around(h, s, t, none)
<1>1. /\ c # nil /\ blocked[h] = "none" /\ c.state = "established"
      /\ Tcp!Finish(h, j) /\ net' = net \cup j.out
      /\ taken' = [taken EXCEPT ![h] = @ \o r.bytes] /\ UNCHANGED <<arp, blocked, written>>
  BY DEF Tcp!ip_read_tcp, Tcp!Connected
<1>2. /\ ConGood(h, c, "none", env) /\ Surroundings(env) /\ s \in Nat /\ stray = FALSE
      /\ env.s = s /\ env.g = Len(taken[h])
  BY <1>1, NowGood, NowAround
<1>3. /\ t \in Seq(Nat) /\ Len(t) = Len(taken[h]) + Len(r.bytes)
      /\ Len(taken[h]) \in Nat /\ Len(r.bytes) \in Nat
      /\ Len(t) <= written[k] /\ written[k] \in Nat /\ Len(taken[h]) <= written[k]
      /\ \A i \in 1..Len(t) : t[i] = i - 1
  BY <1>1, CopiedNext
<1>4. /\ r \in Walk /\ \A i \in 1..Len(r.left) : Carries(r.left[i], Tcp!Flow(h))
      /\ Tcp!InStep(r.ack, r.offset, r.left, Len(taken[h]) + Len(r.bytes), Tcp!Flow(h))
  BY <1>1, CopiedNext
<1> DEFINE F == Tcp!Flow(h)
<1>5. env.F = F
  BY DEF AroundNow, Around
<1> HIDE DEF t
<1>6. Surroundings(new) /\ new.s = s /\ new.g = Len(t)
  <2>1. written[h] <= s /\ s \in Nat /\ t \in Seq(Nat)
    BY <1>2, <1>3
  <2> HIDE DEF none, s, c, k, r, j, acked
  <2> QED
    BY <2>1, AroundIs
<1>7. new.gp = env.gp /\ new.F = env.F /\ new.Q = env.Q
  BY DEF AroundNow, Around
<1> HIDE DEF env, new, F, c, k
<1>8. ~c.closing /\ Good(h, acked, "none", new) /\ acked.reply = "none" /\ Later(c, acked.c)
  <2>1. c \in Tcp!Connection /\ ~c.closing
    BY <1>1, <1>2 DEF ConGood, Tcp!Asked
  <2>2. /\ c.state \in Tcp!States /\ c.closing \in BOOLEAN /\ c.next_seq \in Nat
        /\ c.sending \in Seq(Tcp!Packet)
    BY <2>1, ConnectionIs
  <2> HIDE DEF r, s, none, j
  <2>3. r.ack \in Nat /\ r.offset \in Nat /\ r.left \in Seq(Tcp!Data)
    BY <1>4, WalkIs
  <2>4. /\ d \in Tcp!Connection /\ d.state = c.state /\ d.closing = c.closing /\ d.ack = r.ack
        /\ d.next_seq = c.next_seq /\ d.sending = c.sending /\ d.offset = r.offset
        /\ d.recv_wait = r.left
    <3>1. c = [state |-> c.state, closing |-> c.closing, ack |-> c.ack,
               next_seq |-> c.next_seq, sending |-> c.sending, offset |-> c.offset,
               recv_wait |-> c.recv_wait]
      BY <2>1, AreFields
    <3>2. d = [c EXCEPT !.recv_wait = r.left, !.offset = r.offset, !.ack = r.ack]
      OBVIOUS
    <3> HIDE DEF d
    <3>3. d = Fields(c.state, c.closing, r.ack, c.next_seq, c.sending, r.offset, r.left)
      BY ONLY <3>1, <3>2 DEF Fields
    <3> QED
      BY ONLY <2>2, <2>3, <3>3 DEF Fields, Tcp!Connection
  <2>5. /\ Tcp!InStep(r.ack, r.offset, r.left, new.g, env.F)
        /\ \A i \in 1..Len(r.left) : Carries(r.left[i], env.F) /\ new.s = env.s
    BY <1>2, <1>3, <1>4, <1>5, <1>6 DEF F
  <2> HIDE DEF d
  <2>6. acked = IF c.ack < r.ack THEN Tcp!AckNow(h, Tcp!Job(d)) ELSE Tcp!Job(d)
    OBVIOUS
  <2> HIDE DEF acked
  <2>7. Good(h, acked, "none", new) /\ acked.reply = "none" /\ Later(c, acked.c)
    BY <1>1, <1>2, <1>4, <1>6, <1>7, <2>4, <2>5, <2>6, ReadGood
  <2> QED
    BY <2>1, <2>7
<1>9. j = acked
  BY <1>8
<1> HIDE DEF j, acked
<1>10. ConGood(h, j.c, "none", new) /\ \A m \in j.out : OutGood(h, j.c, m, new)
  BY <1>8, <1>9 DEF Good
<1>11. /\ Len(j.c.sending) <= MaxQueue /\ con' = [con EXCEPT ![h] = j.c] /\ stray' = FALSE
  BY <1>1, <1>2, <1>8, <1>9 DEF Tcp!Finish
<1>12. Moves(h, j.c, "none", s, t, j.out)
  <2>1. blocked' = [blocked EXCEPT ![h] = "none"] /\ written' = [written EXCEPT ![h] = s]
    BY <1>1 DEF Tcp!TcpInv, Tcp!TypeOK
  <2>2. taken' = [taken EXCEPT ![h] = t]
    BY <1>1 DEF t
  <2> QED
    BY <1>1, <1>11, <2>1, <2>2 DEF Moves
<1>13. /\ h = A => con[B] # nil /\ con[B].state # "listen"
       /\ h = B => con[A] # nil /\ con[A].state \in Tcp!Up
  BY <1>1 DEF Tcp!TcpInv, Tcp!Paired, Tcp!Up, c
<1>14. Fits(h, j.c, "none", s, t, {}, j.out)
  <2>1. "none" \in Tcp!Requests /\ s <= Room(h)
    BY DEF Tcp!Requests, Tcp!TcpInv, Tcp!TypeOK, Room
  <2>2. con[h] # nil /\ Later(con[h], j.c)
    BY <1>1, <1>8, <1>9 DEF c
  <2>3. Len(taken[h]) <= Len(t)
    <3> DEFINE old == Len(taken[h])
               more == Len(r.bytes)
               all == Len(t)
    <3>1. old \in Nat /\ more \in Nat /\ all = old + more
      BY <1>3
    <3> HIDE DEF old, more, all
    <3>2. old <= all
      BY ONLY <3>1
    <3> QED
      BY <3>2 DEF old, all
  <2>4. written[h] <= s /\ ~(written[h] < s)
    BY <1>2
  <2> QED
    BY <1>2, <1>3, <1>10, <1>11, <1>13, <2>1, <2>2, <2>3, <2>4 DEF Fits, new, k
<1> QED
  BY <1>12, <1>14, MovesKeep

\* There are no connections and no segments at first.
LEMMA TcpBegins == Tcp!Init => Tcp!TcpInv
<1> SUFFICES ASSUME Tcp!Init PROVE Tcp!TcpInv
  OBVIOUS
<1>1. /\ \A h \in Tcp!Hosts : con[h] = nil /\ blocked[h] = "none" /\ written[h] = 0
                             /\ taken[h] = <<>>
      /\ con \in [Tcp!Hosts -> {nil}] /\ blocked \in [Tcp!Hosts -> {"none"}]
      /\ written \in [Tcp!Hosts -> {0}] /\ taken \in [Tcp!Hosts -> {<<>>}]
      /\ net = {} /\ arp = {} /\ stray = FALSE
  BY DEF Tcp!Init
<1>2. \A h \in Tcp!Hosts : Tcp!Peer(h) \in Tcp!Hosts
  BY HostsAre
<1>3. \A h \in Tcp!Hosts : Room(h) \in Nat /\ 0 <= Room(h)
  BY ConstantsOK DEF Tcp!TcpOK, Room
<1>4. Tcp!TypeOK
  <2>1. con \in [Tcp!Hosts -> Tcp!Connection \cup {nil}]
    BY <1>1
  <2>2. blocked \in [Tcp!Hosts -> Tcp!Requests]
    BY <1>1 DEF Tcp!Requests
  <2>3. written \in [Tcp!Hosts -> Nat]
    BY <1>1
  <2>4. taken \in [Tcp!Hosts -> Seq(Nat)]
    <3>1. <<>> \in Seq(Nat)
      OBVIOUS
    <3> QED
      BY <1>1, <3>1
  <2>5. \A h \in Tcp!Hosts : written[h] <= Room(h)
    BY <1>1, <1>3
  <2> QED
    BY <1>1, <2>1, <2>2, <2>3, <2>4, <2>5 DEF Tcp!TypeOK, Room
<1>5. Tcp!StreamIntact /\ Tcp!RepliesAwaited
  BY <1>1, <1>2 DEF Tcp!StreamIntact, Tcp!RepliesAwaited
<1>6. Tcp!Connections /\ Tcp!Segments
  BY <1>1 DEF Tcp!Connections, Tcp!Segments
<1>7. Tcp!Whole
  <2>1. \A h \in Tcp!Hosts : Tcp!Flow(h) = {}
    BY <1>1, <1>2 DEF Tcp!Flow, Tcp!DataOf, Tcp!SendingOf, Tcp!ReceivedOf
  <2> QED
    BY <2>1 DEF Tcp!Whole
<1>8. Tcp!Paired
  BY <1>1, HostsAre DEF Tcp!Paired
<1> QED
  BY <1>4, <1>5, <1>6, <1>7, <1>8 DEF Tcp!TcpInv

\* Every step of the two hosts, and of the other components.
LEMMA TcpKeeps == Tcp!TcpInv /\ [Next]_vars => Tcp!TcpInv'
<1> SUFFICES ASSUME Tcp!TcpInv, [Next]_vars PROVE Tcp!TcpInv'
  OBVIOUS
<1>1. CASE UNCHANGED tcp
  BY <1>1, LosesKeep DEF tcp
<1>2. CASE Tcp!Next
  <2>1. WriteLens \subseteq Nat /\ ReadLens \subseteq Nat
    BY ConstantsOK DEF Tcp!TcpOK
  <2> SUFFICES ASSUME NEW h \in Tcp!Hosts,
                      \/ Tcp!Deliver(h) \/ Tcp!ip_tcp_listen(h) \/ Tcp!ip_tcp_connect(h)
                      \/ Tcp!connect_tcp_arp(h) \/ Tcp!ip_tcp_disconnect(h)
                      \/ Tcp!Write(h) \/ Tcp!Read(h)
               PROVE  Tcp!TcpInv'
    BY <1>2 DEF Tcp!Next
  <2>2. CASE Tcp!Deliver(h)
    BY <2>2, DeliverKeeps DEF Tcp!Deliver
  <2>3. CASE Tcp!ip_tcp_listen(h)
    BY <2>3, ListenKeeps
  <2>4. CASE Tcp!ip_tcp_connect(h)
    BY <2>4, ConnectKeeps
  <2>5. CASE Tcp!connect_tcp_arp(h)
    BY <2>5, ArpKeeps
  <2>6. CASE Tcp!ip_tcp_disconnect(h)
    BY <2>6, DisconnectKeeps
  <2>7. CASE Tcp!Write(h)
    BY <2>1, <2>7, WriteKeeps DEF Tcp!Write
  <2>8. CASE Tcp!Read(h)
    BY <2>1, <2>8, ReadKeeps DEF Tcp!Read
  <2> QED
    BY <2>2, <2>3, <2>4, <2>5, <2>6, <2>7, <2>8
<1> QED
  BY <1>1, <1>2 DEF Next, vars

\* What is not read is in the sending list.
LEMMA UnreadKept == Tcp!TcpInv => Tcp!UnreadIsKept
<1> SUFFICES ASSUME Tcp!TcpInv, NEW h \in Tcp!Hosts, con[h] # nil,
                    NEW b \in Len(taken[Tcp!Peer(h)])..written[h]-1
             PROVE  \E p \in Tcp!Range(con[h].sending) : b \in p.from .. p.from + p.len - 1
  BY DEF Tcp!UnreadIsKept
<1> DEFINE q == con[h].sending
<1>1. con[h] \in Tcp!Connection
  BY DEF Tcp!TcpInv, Tcp!TypeOK
<1>2. \E i \in 1..Len(q) : b \in q[i].from .. q[i].from + q[i].len - 1
  BY DEF Tcp!TcpInv, Tcp!Connections, Tcp!Sending
<1>3. \A i \in 1..Len(q) : q[i] \in Tcp!Range(q)
  BY <1>1, ConnectionIs DEF Tcp!Range
<1> HIDE DEF q
<1>4. \E p \in Tcp!Range(q) : b \in p.from .. p.from + p.len - 1
  BY <1>2, <1>3
<1> QED
  BY <1>4 DEF q

\* Nothing is acknowledged that was not sent.
LEMMA AcksSound == Tcp!TcpInv => Tcp!AckSound
<1> SUFFICES ASSUME Tcp!TcpInv, NEW h \in Tcp!Hosts, con[h] # nil,
                    con[h].state \notin {"listen", "syn_sent"}
             PROVE  LET c == con[h]
                        p == con[Tcp!Peer(h)]
                        fin == \/ p.state \in {"fin_wait_1", "last_ack"}
                               \/ /\ p.state = "time_wait"
                                  /\ \E q \in Tcp!Range(p.sending) : "fin" \in q.flags
                        syn == p.state \in {"syn_sent", "syn_received"}
                    IN  p # nil /\ c.ack <= p.next_seq + (IF fin \/ syn THEN 1 ELSE 0)
  BY DEF Tcp!AckSound
<1> DEFINE c == con[h]
           k == Tcp!Peer(h)
           p == con[k]
           hasFin == \E q \in Tcp!Range(p.sending) : "fin" \in q.flags
           g == Len(taken[h])
           s == written[k]
<1>1. /\ k \in Tcp!Hosts /\ Tcp!Peer(k) = h /\ h \in {A, B} /\ A # B
      /\ (h = A => k = B) /\ (h = B => k = A)
  BY HostsAre
<1>2. /\ c \in Tcp!Connection /\ Tcp!Starting(h, c, written[h], g)
      /\ Tcp!Receiving(c, g, Tcp!Finished(k), Tcp!Flow(h))
  BY DEF Tcp!TcpInv, Tcp!TypeOK, Tcp!Connections
<1>3. g \in Nat /\ s \in Nat /\ g <= s /\ c.ack \in Nat
  <2>1. taken[h] \in Seq(Nat) /\ s \in Nat /\ g <= s
    BY <1>1 DEF Tcp!TcpInv, Tcp!TypeOK, Tcp!StreamIntact
  <2> QED
    BY <1>2, <2>1, ConnectionIs
<1>4. c.state \in Tcp!Up \/ (c.state = "syn_received" /\ h = B /\ c.ack = 1)
  BY <1>1, <1>2 DEF Tcp!Starting, Tcp!Connection, Tcp!States, Tcp!Up
<1>5. /\ p # nil /\ p.state # "listen"
      /\ h = B /\ c.state \in Tcp!Up => p.state \in Tcp!Up
  <2>1. CASE h = A
    BY <1>1, <1>4, <2>1 DEF Tcp!TcpInv, Tcp!Paired
  <2>2. CASE h = B
    <3>1. con[A] # nil /\ (c.state \in Tcp!Up => con[A].state \in Tcp!Up)
      BY <2>2 DEF Tcp!TcpInv, Tcp!Paired
    <3>2. con[A].state # "listen"
      <4>1. Tcp!Starting(A, con[A], written[A], Len(taken[A]))
        BY <3>1, HostsAre DEF Tcp!TcpInv, Tcp!Connections
      <4> QED
        BY <1>1, <4>1, ConstantsOK DEF Tcp!Starting, Tcp!Up, Tcp!TcpOK
    <3> QED
      BY <1>1, <2>2, <3>1, <3>2
  <2> QED
    BY <1>1, <2>1, <2>2
<1>6. /\ p \in Tcp!Connection /\ Tcp!Starting(k, p, s, Len(taken[k])) /\ Tcp!Counted(p, s)
  BY <1>1, <1>5 DEF Tcp!TcpInv, Tcp!TypeOK, Tcp!Connections
<1>7. p.next_seq \in Nat /\ p.state \in Tcp!States
  BY <1>6, ConnectionIs
<1>8. (\E i \in 1..Len(p.sending) : "fin" \in p.sending[i].flags) => hasFin
  <2>1. \A i \in 1..Len(p.sending) : p.sending[i] \in Tcp!Range(p.sending)
    BY <1>6, ConnectionIs DEF Tcp!Range
  <2> QED
    BY <2>1
<1>9. Tcp!Finished(k) => p.state \in Tcp!FinSent /\ g = s
  BY <1>1 DEF Tcp!Finished
<1> HIDE DEF hasFin, g, s, p, c, k
<1>10. CASE p.state \notin Tcp!Up
  <2>1. p.state \in {"syn_sent", "syn_received"} /\ p.next_seq = 0 /\ s = 0
    BY <1>5, <1>6, <1>7, <1>10 DEF Tcp!Starting, Tcp!States, Tcp!Up
  <2>2. c.ack <= 1
    <3>1. CASE c.state \in Tcp!Up
      <4>1. ~Tcp!Finished(k)
        BY <1>9, <1>10 DEF Tcp!Up, Tcp!FinSent
      <4> QED
        BY <1>2, <1>3, <2>1, <3>1, <4>1 DEF Tcp!Receiving, Tcp!AckOK
    <3>2. CASE c.state \notin Tcp!Up
      BY <1>4, <3>2
    <3> QED
      BY <3>1, <3>2
  <2> QED
    BY <1>3, <1>5, <2>1, <2>2 DEF c, p, k
<1>11. CASE p.state \in Tcp!Up
  <2>1. /\ p.next_seq = s + 1 \/ (p.next_seq = s + 2 /\ p.state \in {"fin_wait_2", "time_wait"})
        /\ p.state = "fin_wait_2" => p.next_seq = s + 2
        /\ p.state = "time_wait" /\ p.next_seq = s + 1 => hasFin
    BY <1>6, <1>8, <1>11 DEF Tcp!Counted
  <2>2. c.ack <= s + 1 \/ (Tcp!Finished(k) /\ c.ack <= s + 2)
    <3>1. CASE c.state \in Tcp!Up
      BY <1>2, <1>3, <1>9, <3>1 DEF Tcp!Receiving, Tcp!AckOK
    <3>2. CASE c.state \notin Tcp!Up
      BY <1>3, <1>4, <3>2
    <3> QED
      BY <3>1, <3>2
  <2>3. CASE c.ack <= s + 1
    <3>1. c.ack <= p.next_seq
      BY <1>3, <2>1, <2>3
    <3> QED
      BY <1>3, <1>5, <1>7, <3>1 DEF c, p, k
  <2>4. CASE Tcp!Finished(k) /\ c.ack <= s + 2
    <3>1. p.state \in Tcp!FinSent
      BY <1>9, <2>4
    <3>2. CASE p.next_seq = s + 2
      <4>1. c.ack <= p.next_seq
        BY <1>3, <2>4, <3>2
      <4> QED
        BY <1>3, <1>5, <1>7, <4>1 DEF c, p, k
    <3>3. CASE p.next_seq = s + 1
      <4>1. p.state \in {"fin_wait_1", "last_ack"} \/ (p.state = "time_wait" /\ hasFin)
        BY <1>3, <2>1, <3>1, <3>3 DEF Tcp!FinSent
      <4>2. c.ack <= p.next_seq + 1
        BY <1>3, <2>4, <3>3
      <4> QED
        BY <1>5, <4>1, <4>2 DEF c, p, k, hasFin
    <3> QED
      BY <2>1, <3>2, <3>3
  <2> QED
    BY <2>2, <2>3, <2>4
<1> QED
  BY <1>10, <1>11

\* The connections of tcp.c: whatever the network does with the segments, a
\* client reads what the other one wrote, in order and once (ip_read_tcp); what
\* it has not read can be sent again (handle_tcp, send_tcp_pkt), nothing is
\* acknowledged that was not sent, and no reply goes to a client that does not
\* wait for it.
THEOREM StreamStaysSound == Spec => []StreamSound
<1>1. Init => Tcp!TcpInv
  BY TcpBegins DEF Init
<1>2. Tcp!TcpInv /\ [Next]_vars => Tcp!TcpInv'
  BY TcpKeeps
<1>3. Tcp!TcpInv => StreamSound
  BY UnreadKept, AcksSound DEF StreamSound, Tcp!StreamSound
<1> QED
  BY <1>1, <1>2, <1>3, PTL DEF Spec
=============================================================================
