----------------------------- MODULE RaceProofs -----------------------------
(***************************************************************************)
(* What holds of a router that is read while it is written, for every      *)
(* size of it, any peers and any number of calls.  The bytes of an address *)
(* in the table are zeros or bytes that its slot allows (TornRouter); the  *)
(* states that the assignments of a call lead to are sound, and bring no   *)
(* slot back to zeros (Leads).  Addresses of one slot are those with the   *)
(* same first digits, so that a mix of them is one of them (MixOfSlot).    *)
(* The last state of a plan is the one that sn_net_router_add or           *)
(* sn_net_router_remove reaches at once.                                   *)
(* QuietInv follows a read that nobody disturbs through its scans: what it *)
(* has copied so far are the results of the scans that are done.           *)
(***************************************************************************)
EXTENDS RouterRace, RoutingProofs

\* A table entry that was written, if only its address, is in its slot.
SoundRouter(r) ==
  /\ r \in RouterState
  /\ r.self = Set(Self, Net)
  /\ \A s \in Slot : r.table[s].addr = Zero \/ SlotOf(r, r.table[s].addr) = s

\* The slot that an address belongs to, and the bytes of such addresses.
Home(addr) == <<Level(Self, addr), Column(Self, addr)>>

BytesOf(slot, i) == {addr[i] : addr \in {a \in Address : Home(a) = slot}}

\* An address of the slot, as far as it was written.
PartOf(addr, slot) == \A i \in 1 .. AddrLen : addr[i] = 0 \/ addr[i] \in BytesOf(slot, i)

TornRouter(r) ==
  /\ r \in RouterState
  /\ r.self = Set(Self, Net)
  /\ \A s \in Slot : PartOf(r.table[s].addr, s)

\* Where one table has something the other has an address of the slot.
Leads(r, q) == \A s \in Slot : r.table[s].addr # Zero => Home(q.table[s].addr) = s

PlanInv ==
  /\ TornRouter(snr)
  /\ plan \in Seq(RouterState) /\ writes \in 0 .. MaxWrites
  /\ \A k \in 1 .. Len(plan) :
       /\ SoundRouter(plan[k]) /\ Leads(snr, plan[k])
       /\ \A j \in 1 .. Len(plan) : Leads(plan[j], plan[k])
  /\ plan = <<>> => SoundRouter(snr) /\ Consistent(snr, Self)
  /\ plan # <<>> => Consistent(plan[Len(plan)], Self)

Scans == [in : Seq(Places), min : Nat]

\* The candidates, the node itself the first.
Bests == {bests \in Seq(Entry) : bests # <<>> /\ bests[1] = Set(Self, Net)}

\* The record that a read keeps while it copies an entry.
Copies == [at : {"copy"}, dst : Address, scans : Seq(Scans), bests : Bests \cup {<<>>},
           from : Places, left : SUBSET Compared, copy : Entry, placed : BOOLEAN]

\* What has been copied of an address that was whole when the read began.
CopiedMix(r, read, slot) ==
  /\ Home(r.table[slot].addr) = slot
  /\ \A i \in 1 .. AddrLen :
       <<"addr", i>> \notin read.left => read.copy.addr[i] \in BytesOf(slot, i)

ReaderInv ==
  /\ reader.at \in {"idle", "scan", "copy", "answered"} /\ dirty \in BOOLEAN
  /\ reader.at = "scan" =>
       reader.dst \in Address /\ reader.scans \in Seq(Scans) /\ reader.bests \in Bests
  /\ reader.at = "copy" =>
       /\ reader \in Copies
       /\ reader.bests = <<>> =>
            /\ Home(reader.dst) \in Slot
            /\ reader.from = <<"table", Home(reader.dst)>>
            /\ PartOf(reader.copy.addr, Home(reader.dst))
            /\ reader.placed => CopiedMix(snr, reader, Home(reader.dst))
  /\ reader.at = "answered" =>
       /\ reader.hop \in Entry
       /\ reader.direct \in BOOLEAN
       /\ ~reader.direct /\ reader.hop.is_set =>
            Before(Dist(reader.hop.addr, reader.dst), Dist(Self, reader.dst))
       /\ reader.direct =>
            /\ PartOf(reader.hop.addr, Home(reader.dst))
            /\ reader.placed => Home(reader.hop.addr) = Home(reader.dst)

RaceInv == PlanInv /\ ReaderInv

-----------------------------------------------------------------------------
(* Entries of different times                                              *)

LEMMA CellFacts ==
  ASSUME NEW e \in Entry
  PROVE  /\ CellOf(e, <<"is_set", 0>>) = e.is_set
         /\ CellOf(e, NetCell) = e.net_addr
         /\ \A i \in 1 .. AddrLen : CellOf(e, <<"addr", i>>) = e.addr[i]
<1>1. CellOf(e, <<"is_set", 0>>) = e.is_set
  BY DEF CellOf, Entry
<1>2. CellOf(e, NetCell) = e.net_addr
  BY DEF CellOf, Entry, NetCell
<1>3. \A i \in 1 .. AddrLen : CellOf(e, <<"addr", i>>) = e.addr[i]
  BY DEF CellOf
<1> QED BY <1>1, <1>2, <1>3

\* w is e but for the cell c, which is that of g.
Mixed(w, e, g, c) ==
  /\ \A i \in 1 .. AddrLen : w.addr[i] = IF c = <<"addr", i>> THEN g.addr[i] ELSE e.addr[i]
  /\ w.is_set = IF c = <<"is_set", 0>> THEN g.is_set ELSE e.is_set

LEMMA CellStored ==
  ASSUME NEW e \in Entry, NEW g \in Entry, NEW c \in Cells
  PROVE  /\ WithCell(e, c, CellOf(g, c)) \in Entry
         /\ Mixed(WithCell(e, c, CellOf(g, c)), e, g, c)
<1> DEFINE w == WithCell(e, c, CellOf(g, c))
<1>1. ASSUME c \in {"addr"} \X (1 .. AddrLen) PROVE w \in Entry /\ Mixed(w, e, g, c)
  <2>1. PICK j \in 1 .. AddrLen : c = <<"addr", j>>
    BY <1>1
  <2> DEFINE a == [e.addr EXCEPT ![j] = g.addr[j]]
  <2>2. w = [e EXCEPT !.addr = a]
    BY <2>1 DEF WithCell, CellOf
  <2>3. e.addr \in Address /\ g.addr[j] \in Byte
    BY <2>1 DEF Entry, Address
  <2>4. a \in Address /\ \A i \in 1 .. AddrLen : a[i] = IF i = j THEN g.addr[i] ELSE e.addr[i]
    BY <2>3 DEF Address
  <2> HIDE DEF a, w
  <2>5. w \in Entry /\ w.addr = a /\ w.is_set = e.is_set
    BY <2>2, <2>4 DEF Entry
  <2>6. c # <<"is_set", 0>> /\ \A i \in 1 .. AddrLen : c = <<"addr", i>> <=> i = j
    BY <2>1
  <2> QED BY <2>4, <2>5, <2>6 DEF Mixed
<1>2. ASSUME c = <<"is_set", 0>> PROVE w \in Entry /\ Mixed(w, e, g, c)
  <2>1. w = [e EXCEPT !.is_set = g.is_set]
    BY <1>2 DEF WithCell, CellOf
  <2> HIDE DEF w
  <2>2. w \in Entry /\ w.addr = e.addr /\ w.is_set = g.is_set
    BY <2>1 DEF Entry
  <2> QED BY <1>2, <2>2 DEF Mixed
<1>3. ASSUME c = NetCell PROVE w \in Entry /\ Mixed(w, e, g, c)
  <2>1. w = [e EXCEPT !.net_addr = g.net_addr]
    BY <1>3 DEF WithCell, CellOf, NetCell
  <2> HIDE DEF w
  <2>2. w \in Entry /\ w.addr = e.addr /\ w.is_set = e.is_set
    BY <2>1 DEF Entry
  <2> QED BY <1>3, <2>2 DEF Mixed, NetCell
<1>4. w \in Entry /\ Mixed(w, e, g, c)
  BY <1>1, <1>2, <1>3 DEF Cells, Compared
<1> QED BY <1>4

(***************************************************************************)
(* The digits that put an address into a slot are each of one byte, so     *)
(* bytes of addresses of the slot make an address of the slot.             *)
(***************************************************************************)
LEMMA MixOfSlot ==
  ASSUME NEW s \in Slot, NEW a \in Address,
         \A i \in 1 .. AddrLen : a[i] \in BytesOf(s, i)
  PROVE  Home(a) = s
<1> DEFINE level == s[1]
<1>1. Self \in Address /\ level \in 0 .. HexLen - 1 /\ HexLen \in Nat /\ HexLen = 2 * AddrLen
      /\ level + 1 \in 1 .. HexLen
  BY RaceAssumption, ByteBaseFacts DEF Slot, HexLen
<1>2. ASSUME NEW k \in 1 .. HexLen
      PROVE  \E b \in Address : Home(b) = s /\ Hex(a)[k] = Hex(b)[k]
  <2> DEFINE i == IF k % 2 = 1 THEN (k + 1) \div 2 ELSE k \div 2
  <2>1. i \in 1 .. AddrLen
    BY <1>1, <1>2, AddrLenAssumption
  <2>2. PICK b \in Address : Home(b) = s /\ a[i] = b[i]
    BY <2>1 DEF BytesOf
  <2>3. Hex(a)[k] = Hex(b)[k]
    BY <1>2, <2>2 DEF Hex
  <2> QED BY <2>2, <2>3
<1>3. \A b \in Address : Home(b) = s =>
        /\ \A k \in 1 .. level : Hex(Self)[k] = Hex(b)[k]
        /\ Hex(Self)[level + 1] # Hex(b)[level + 1]
        /\ Hex(b)[level + 1] = s[2]
  <2> SUFFICES ASSUME NEW b \in Address, Home(b) = s
               PROVE  /\ \A k \in 1 .. level : Hex(Self)[k] = Hex(b)[k]
                      /\ Hex(Self)[level + 1] # Hex(b)[level + 1]
                      /\ Hex(b)[level + 1] = s[2]
    OBVIOUS
  <2>1. Level(Self, b) = level /\ Column(Self, b) = s[2]
    BY DEF Home
  <2> HIDE DEF level
  <2>2. level # HexLen
    BY <1>1
  <2> QED BY <1>1, <2>1, <2>2, LevelFacts DEF Column
<1> HIDE DEF level
<1>4. \A k \in 1 .. level : k \in 1 .. HexLen
  BY <1>1
<1>5. /\ \A k \in 1 .. level : Hex(Self)[k] = Hex(a)[k]
      /\ Hex(Self)[level + 1] # Hex(a)[level + 1]
      /\ Hex(a)[level + 1] = s[2]
  BY <1>1, <1>2, <1>3, <1>4
<1>6. Level(Self, a) = level
  BY <1>1, <1>5, LevelUnique
<1>7. Column(Self, a) = s[2]
  <2>1. level # HexLen
    BY <1>1
  <2> QED BY <1>5, <1>6, <2>1 DEF Column
<1>8. s = <<s[1], s[2]>>
  BY DEF Slot
<1> QED BY <1>6, <1>7, <1>8 DEF Home, level

\* An address of a slot has its bytes.
LEMMA BytesOfOwn ==
  ASSUME NEW s, NEW a \in Address, Home(a) = s, NEW i \in 1 .. AddrLen
  PROVE  a[i] \in BytesOf(s, i)
BY DEF BytesOf

LEMMA WholePart ==
  ASSUME NEW s, NEW a \in Address, a = Zero \/ Home(a) = s
  PROVE  PartOf(a, s)
BY BytesOfOwn DEF PartOf, Zero

\* SlotOf asks for nothing but the address of the node.
LEMMA HomeIsSlot ==
  ASSUME NEW r, r.self = Set(Self, Net), NEW addr
  PROVE  SlotOf(r, addr) = Home(addr)
BY DEF SlotOf, Home, Set

LEMMA EntryAtType ==
  ASSUME NEW r \in RouterState, NEW p \in Places
  PROVE  EntryAt(r, p) \in Entry
<1>1. CASE p \in {"left"} \X (1 .. LeafsetSize)
  BY <1>1 DEF EntryAt, RouterState, Leafset
<1>2. CASE p \in {"right"} \X (1 .. LeafsetSize)
  BY <1>2 DEF EntryAt, RouterState, Leafset
<1>3. CASE p \in {"table"} \X Slot
  BY <1>3 DEF EntryAt, RouterState
<1> QED BY <1>1, <1>2, <1>3 DEF Places

\* What one store changes of a router.
LEMMA EntryStored ==
  ASSUME NEW r \in RouterState, NEW p \in Places, NEW e \in Entry
  PROVE  LET t == WithEntry(r, p, e)
         IN  /\ t \in RouterState /\ t.self = r.self
             /\ \A s \in Slot : t.table[s] = IF p = <<"table", s>> THEN e ELSE r.table[s]
<1> DEFINE t == WithEntry(r, p, e)
<1>1. CASE p \in {"left"} \X (1 .. LeafsetSize)
  <2> DEFINE l == [r.left EXCEPT ![p[2]] = e]
  <2>1. t = [r EXCEPT !.left = l] /\ \A s \in Slot : p # <<"table", s>>
    BY <1>1 DEF WithEntry
  <2>2. l \in Leafset
    BY <1>1 DEF RouterState, Leafset
  <2> HIDE DEF l, t
  <2>3. t \in RouterState /\ t.self = r.self /\ t.table = r.table
    BY <2>1, <2>2 DEF RouterState
  <2> QED BY <2>1, <2>3 DEF t
<1>2. CASE p \in {"right"} \X (1 .. LeafsetSize)
  <2> DEFINE l == [r.right EXCEPT ![p[2]] = e]
  <2>1. t = [r EXCEPT !.right = l] /\ \A s \in Slot : p # <<"table", s>>
    BY <1>2 DEF WithEntry
  <2>2. l \in Leafset
    BY <1>2 DEF RouterState, Leafset
  <2> HIDE DEF l, t
  <2>3. t \in RouterState /\ t.self = r.self /\ t.table = r.table
    BY <2>1, <2>2 DEF RouterState
  <2> QED BY <2>1, <2>3 DEF t
<1>3. CASE p \in {"table"} \X Slot
  <2>1. t = [r EXCEPT !.table = [r.table EXCEPT ![p[2]] = e]] /\ p = <<"table", p[2]>>
    BY <1>3 DEF WithEntry
  <2>2. r.table \in [Slot -> Entry] /\ p[2] \in Slot
    BY <1>3 DEF RouterState
  <2> HIDE DEF t
  <2>3. t \in RouterState /\ t.self = r.self /\ t.table = [r.table EXCEPT ![p[2]] = e]
    BY <2>1, <2>2 DEF RouterState
  <2>4. \A s \in Slot : p = <<"table", s>> <=> s = p[2]
    BY <2>1
  <2> QED BY <2>2, <2>3, <2>4 DEF t
<1> QED BY <1>1, <1>2, <1>3 DEF Places

(***************************************************************************)
(* A store on the way to a sound state leaves bytes of the slots, an       *)
(* address of a slot where there was one, and writes no slot that is not   *)
(* written in the end.                                                     *)
(***************************************************************************)
LEMMA StoreTorn ==
  ASSUME NEW r, NEW q, TornRouter(r), SoundRouter(q), Leads(r, q),
         NEW p \in Places, NEW c \in Cells
  PROVE  LET t == WithEntry(r, p, WithCell(EntryAt(r, p), c, CellOf(EntryAt(q, p), c)))
         IN  /\ TornRouter(t)
             /\ \A s \in Slot :
                  /\ Home(r.table[s].addr) = s => Home(t.table[s].addr) = s
                  /\ t.table[s].addr # Zero =>
                       r.table[s].addr # Zero \/ q.table[s].addr # Zero
<1> DEFINE e == WithCell(EntryAt(r, p), c, CellOf(EntryAt(q, p), c))
           t == WithEntry(r, p, e)
<1>1. r \in RouterState /\ q \in RouterState /\ r.self = Set(Self, Net) /\ q.self = Set(Self, Net)
  BY DEF TornRouter, SoundRouter
<1>2. /\ e \in Entry
      /\ \A i \in 1 .. AddrLen : e.addr[i] \in {EntryAt(r, p).addr[i], EntryAt(q, p).addr[i]}
  <2> DEFINE old == EntryAt(r, p)
             new == EntryAt(q, p)
  <2>1. old \in Entry /\ new \in Entry
    BY <1>1, EntryAtType
  <2>2. e = WithCell(old, c, CellOf(new, c))
    OBVIOUS
  <2> HIDE DEF e, old, new
  <2>3. e \in Entry /\ Mixed(e, old, new, c)
    BY <2>1, <2>2, CellStored
  <2> QED BY <2>3 DEF old, new, Mixed
<1> HIDE DEF e
<1>3. /\ t \in RouterState /\ t.self = r.self
      /\ \A s \in Slot : t.table[s] = IF p = <<"table", s>> THEN e ELSE r.table[s]
  BY <1>1, <1>2, EntryStored
<1> HIDE DEF t
<1>4. ASSUME NEW s \in Slot
      PROVE  /\ PartOf(t.table[s].addr, s)
             /\ Home(r.table[s].addr) = s => Home(t.table[s].addr) = s
             /\ t.table[s].addr # Zero => r.table[s].addr # Zero \/ q.table[s].addr # Zero
  <2> DEFINE a == r.table[s].addr
             b == q.table[s].addr
             m == t.table[s].addr
  <2>1. r.table[s] \in Entry /\ q.table[s] \in Entry /\ t.table[s] \in Entry
    BY <1>1, <1>3 DEF RouterState
  <2>2. a \in Address /\ b \in Address /\ m \in Address
    BY <2>1 DEF Entry
  <2>3. \A i \in 1 .. AddrLen : m[i] = a[i] \/ m[i] = b[i]
    <3>1. CASE p = <<"table", s>>
      <4>1. EntryAt(r, p) = r.table[s] /\ EntryAt(q, p) = q.table[s]
        BY <3>1 DEF EntryAt
      <4> QED BY <1>2, <1>3, <3>1, <4>1
    <3>2. CASE p # <<"table", s>>
      BY <1>3, <3>2
    <3> QED BY <3>1, <3>2
  <2>4. PartOf(a, s) /\ (b = Zero \/ Home(b) = s) /\ (a # Zero => Home(b) = s)
    BY <1>1, HomeIsSlot DEF TornRouter, SoundRouter, Leads
  <2> HIDE DEF a, b, m
  <2>5. PartOf(b, s)
    BY <2>2, <2>4, WholePart
  <2>6. PartOf(m, s)
    BY <2>3, <2>4, <2>5 DEF PartOf
  <2>7. ASSUME Home(a) = s PROVE Home(m) = s
    <3>1. Home(b) = s
      BY <2>4, <2>7
    <3>2. \A i \in 1 .. AddrLen : m[i] \in BytesOf(s, i)
      BY <2>2, <2>3, <2>7, <3>1, BytesOfOwn
    <3> QED BY <2>2, <3>2, MixOfSlot
  <2>8. ASSUME a = Zero, b = Zero PROVE m = Zero
    <3>1. \A i \in 1 .. AddrLen : m[i] = Zero[i]
      BY <2>3, <2>8
    <3> QED BY <2>2, <3>1, SameAddress, ZeroType
  <2> QED BY <2>6, <2>7, <2>8 DEF a, b, m
<1>5. TornRouter(t)
  BY <1>1, <1>3, <1>4 DEF TornRouter
<1> QED BY <1>4, <1>5 DEF t, e

-----------------------------------------------------------------------------
(* The states that the writer goes through                                 *)

LEMMA SortingsType ==
  ASSUME NEW leafset \in Leafset, NEW right, NEW l \in Sortings(leafset, right)
  PROVE  l \in Leafset
<1>1. ArrayLen(leafset) \in 0 .. LeafsetSize
  BY ArrayLenFacts
<1>2. PICK p \in Permutation(ArrayLen(leafset)) :
         l = [i \in 1 .. LeafsetSize |-> IF i <= ArrayLen(leafset) THEN leafset[p[i]] ELSE leafset[i]]
  BY DEF Sortings
<1>3. \A i \in 1 .. LeafsetSize : i <= ArrayLen(leafset) => p[i] \in 1 .. LeafsetSize
  BY <1>1, LeafsetSizeAssumption DEF Permutation
<1> QED BY <1>2, <1>3 DEF Leafset

LEMMA WithSideSound ==
  ASSUME NEW r, SoundRouter(r), NEW right \in BOOLEAN, NEW l \in Leafset
  PROVE  /\ SoundRouter(WithSide(r, right, l)) /\ Side(r, right) \in Leafset
         /\ Side(WithSide(r, right, l), right) = l
<1> DEFINE w == WithSide(r, right, l)
<1>1. r \in RouterState
  BY DEF SoundRouter
<1>2. w \in RouterState /\ w.self = r.self /\ w.table = r.table
  BY <1>1 DEF WithSide, RouterState
<1>3. Side(r, right) \in Leafset /\ Side(w, right) = l
  BY <1>1 DEF WithSide, Side, RouterState
<1> HIDE DEF w
<1>4. SoundRouter(w)
  BY <1>2 DEF SoundRouter, SlotOf
<1> QED BY <1>3, <1>4 DEF w

LEMMA AssignedSound ==
  ASSUME SoundRouter(snr), NEW e \in Entry
  PROVE  SoundRouter(Assigned(e))
<1> DEFINE a    == Assigned(e)
           slot == SlotOf(snr, e.addr)
<1>1. snr \in RouterState
  BY DEF SoundRouter
<1>2. a = [snr EXCEPT !.table[slot] = e]
  BY DEF Assigned
<1>3. slot = SlotOf(snr, e.addr)
  OBVIOUS
<1> HIDE DEF a, slot
<1>4. a \in RouterState /\ a.self = snr.self /\ a.table = [snr.table EXCEPT ![slot] = e]
  BY <1>1, <1>2 DEF RouterState
<1>5. snr.table \in [Slot -> Entry]
  BY <1>1 DEF RouterState
<1>6. ASSUME NEW s \in Slot
      PROVE  a.table[s].addr = Zero \/ SlotOf(a, a.table[s].addr) = s
  <2>1. SlotOf(a, a.table[s].addr) = SlotOf(snr, a.table[s].addr)
    BY <1>4 DEF SlotOf
  <2>2. CASE s = slot
    BY <1>3, <1>4, <1>5, <2>1, <2>2
  <2>3. CASE s # slot
    BY <1>4, <1>5, <2>1, <2>3 DEF SoundRouter
  <2> QED BY <2>2, <2>3
<1>7. SoundRouter(a)
  BY <1>4, <1>6 DEF SoundRouter
<1> QED BY <1>7 DEF a

\* A leafset that is assigned twice has been assigned once.
LEMMA SideAgain ==
  ASSUME NEW r \in RouterState, NEW right \in BOOLEAN,
         NEW k \in Leafset, NEW l \in Leafset
  PROVE  WithSide(WithSide(r, right, k), right, l) = WithSide(r, right, l)
BY DEF WithSide, Side, RouterState

LEMMA SideSame ==
  ASSUME NEW r \in RouterState, NEW right \in BOOLEAN
  PROVE  WithSide(r, right, Side(r, right)) = r
BY DEF WithSide, Side, RouterState

\* A leafset that is assigned leaves the table alone.
LEMMA SideTable ==
  ASSUME NEW r \in RouterState, NEW right, NEW l
  PROVE  WithSide(r, right, l).table = r.table
BY DEF WithSide, RouterState

\* What a plan is good for: the table is written first.
PlanTo(p, results, table) ==
  /\ p \in Seq(RouterState) /\ p # <<>> /\ p[Len(p)] \in results
  /\ \A k \in 1 .. Len(p) : SoundRouter(p[k]) /\ p[k].table = table

LEMMA OneState ==
  ASSUME NEW r \in RouterState, SoundRouter(r), NEW results, r \in results
  PROVE  PlanTo(<<r>>, results, r.table)
<1>1. <<r>> \in Seq(RouterState) /\ <<r>> # <<>> /\ Len(<<r>>) = 1 /\ <<r>>[1] = r
  OBVIOUS
<1> HIDE DEF SoundRouter
<1> QED BY <1>1 DEF PlanTo

LEMMA AddPlansSound ==
  ASSUME SoundRouter(snr), NEW e \in Entry, NEW p \in AddPlans(e)
  PROVE  PlanTo(p, AddEntry(snr, e), Assigned(e).table)
<1> DEFINE a       == Assigned(e)
           right   == OnRight(e.addr)
           leafset == Side(snr, right)
           len     == ArrayLen(leafset)
           at      == IF len < LeafsetSize THEN len + 1 ELSE LeafsetSize
           new     == [leafset EXCEPT ![at] = e]
           placed  == WithSide(a, right, new)
           far     == len = LeafsetSize /\ Before(e.addr, leafset[at].addr) # right
<1>1. right \in BOOLEAN /\ right = ~Before(e.addr, snr.self.addr)
  BY EntryTypes DEF OnRight, SoundRouter, Set
<1>2. SoundRouter(a) /\ a \in RouterState
  BY AssignedSound DEF SoundRouter
<1>3. leafset \in Leafset /\ Side(a, right) = leafset
  <2>1. snr \in RouterState
    BY DEF SoundRouter
  <2> QED BY <1>1, <2>1 DEF Side, Assigned, RouterState
<1>4. new \in Leafset
  BY <1>3 DEF Leafset
<1>5. AddEntry(snr, e) = {WithSide(a, right, l) : l \in Insert(leafset, e, right)}
  <2>1. CASE right
    BY <1>1, <2>1 DEF AddEntry, Assigned, WithSide, Side
  <2>2. CASE ~right
    BY <1>1, <2>2 DEF AddEntry, Assigned, WithSide, Side
  <2> QED BY <1>1, <2>1, <2>2
<1>6. far => p = <<a>>
  BY DEF AddPlans
<1>7. ~far => \E l \in Sortings(Side(placed, right), right) :
                p = <<a, placed, WithSide(placed, right, l)>>
  BY DEF AddPlans
<1>8. far => leafset \in Insert(leafset, e, right)
  BY LeafsetSizeAssumption DEF Insert
<1>9. ~far => Sortings(new, right) = Insert(leafset, e, right)
  <2>1. len \in 0 .. LeafsetSize
    BY <1>3, ArrayLenFacts
  <2>2. CASE len < LeafsetSize
    BY <2>2 DEF Insert
  <2>3. CASE len = LeafsetSize
    BY <2>3, LeafsetSizeAssumption DEF Insert
  <2> QED BY <2>1, <2>2, <2>3, LeafsetSizeAssumption
<1>10. placed = WithSide(a, right, new)
  OBVIOUS
<1> HIDE DEF a, right, leafset, len, at, new, placed, far
<1>11. SoundRouter(placed) /\ Side(placed, right) = new
  BY <1>1, <1>2, <1>4, <1>10, WithSideSound
<1>12. CASE far
  <2>1. WithSide(a, right, leafset) = a
    BY <1>1, <1>2, <1>3, SideSame
  <2>2. a \in AddEntry(snr, e)
    BY <1>5, <1>8, <1>12, <2>1
  <2>3. PlanTo(p, AddEntry(snr, e), a.table)
    BY <1>2, <1>6, <1>12, <2>2, OneState
  <2> QED BY <2>3 DEF a
<1>13. CASE ~far
  <2>1. PICK l \in Sortings(new, right) : p = <<a, placed, WithSide(placed, right, l)>>
    BY <1>7, <1>11, <1>13
  <2> DEFINE last == WithSide(placed, right, l)
  <2>2. l \in Leafset
    BY <1>4, <2>1, SortingsType
  <2>3. SoundRouter(last)
    BY <1>1, <1>11, <2>2, WithSideSound
  <2>4. last = WithSide(a, right, l)
    <3>1. WithSide(WithSide(a, right, new), right, l) = WithSide(a, right, l)
      BY <1>1, <1>2, <1>4, <2>2, SideAgain
    <3> QED BY <1>10, <3>1
  <2>5. last \in AddEntry(snr, e)
    BY <1>5, <1>9, <1>13, <2>1, <2>4
  <2>6. p = <<a, placed, last>>
    BY <2>1
  <2>7. placed \in RouterState /\ last \in RouterState
    BY <1>11, <2>3 DEF SoundRouter
  <2>8. placed.table = a.table /\ last.table = a.table
    BY <1>2, <1>10, <2>4, SideTable
  <2> HIDE DEF last
  <2>9. PlanTo(p, AddEntry(snr, e), a.table)
    BY <1>2, <1>11, <2>3, <2>5, <2>6, <2>7, <2>8 DEF PlanTo
  <2> QED BY <2>9 DEF a
<1> QED BY <1>12, <1>13

\* What is left in the slot of a peer that was removed.
Gone(addr) == [is_set |-> FALSE, addr |-> addr, net_addr |-> NoNet]

LEMMA RemovePlansSound ==
  ASSUME SoundRouter(snr), NEW addr \in Address, NEW p \in RemovePlans(addr)
  PROVE  PlanTo(p, RemoveEntry(snr, addr), Assigned(Gone(addr)).table)
<1> DEFINE e       == Gone(addr)
           a       == Assigned(e)
           right   == OnRight(addr)
           leafset == Side(snr, right)
           len     == ArrayLen(leafset)
           found   == {i \in 1 .. len : leafset[i].addr = addr}
           first   == CHOOSE i \in found : \A j \in found : i <= j
           filled  == [leafset EXCEPT ![first] = leafset[len]]
           shorter == [filled EXCEPT ![len].is_set = FALSE]
           moved   == WithSide(a, right, filled)
           cut     == WithSide(moved, right, [Side(moved, right) EXCEPT ![len].is_set = FALSE])
<1>1. right \in BOOLEAN /\ right = ~Before(addr, snr.self.addr)
  BY EntryTypes DEF OnRight, SoundRouter, Set
<1>2. SoundRouter(a) /\ a \in RouterState
  <2>1. e \in Entry
    BY NoNetAssumption DEF Entry, Gone
  <2> HIDE DEF e
  <2> QED BY <2>1, AssignedSound DEF SoundRouter
<1>3. leafset \in Leafset /\ Side(a, right) = leafset
  <2>1. snr \in RouterState
    BY DEF SoundRouter
  <2> QED BY <1>1, <2>1 DEF Side, Assigned, RouterState
<1>4. found # {} => filled \in Leafset /\ shorter \in Leafset
  <2>1. len \in 0 .. LeafsetSize
    BY <1>3, ArrayLenFacts
  <2> SUFFICES ASSUME found # {} PROVE filled \in Leafset /\ shorter \in Leafset
    OBVIOUS
  <2>2. len \in 1 .. LeafsetSize
    BY <2>1, LeafsetSizeAssumption
  <2> HIDE DEF leafset, len, found, first
  <2>3. leafset \in [1 .. LeafsetSize -> Entry] /\ leafset[len] \in Entry
    BY <1>3, <2>2 DEF Leafset
  <2>4. filled \in [1 .. LeafsetSize -> Entry]
    BY <2>3
  <2> HIDE DEF filled
  <2>5. [filled[len] EXCEPT !.is_set = FALSE] \in Entry
    BY <2>2, <2>4 DEF Entry
  <2>6. shorter \in [1 .. LeafsetSize -> Entry]
    BY <2>4, <2>5
  <2> QED BY <2>4, <2>6 DEF Leafset
<1>5. SlotOf(snr, e.addr) = SlotOf(snr, addr)
  BY DEF Gone
<1>6. RemoveEntry(snr, addr) = {WithSide(a, right, l) : l \in Extract(leafset, addr, right)}
  <2>1. CASE right
    BY <1>1, <1>5, <2>1 DEF RemoveEntry, Assigned, WithSide, Side, Gone
  <2>2. CASE ~right
    BY <1>1, <1>5, <2>2 DEF RemoveEntry, Assigned, WithSide, Side, Gone
  <2> QED BY <1>1, <2>1, <2>2
<1>7. found = {} => p = <<a>> /\ leafset \in Extract(leafset, addr, right)
  BY DEF RemovePlans, Extract, Gone
<1>8. found # {} => \E l \in Sortings(Side(cut, right), right) :
                      p = <<a, moved, cut, WithSide(cut, right, l)>>
  BY DEF RemovePlans, Gone
<1>9. found # {} => Sortings(shorter, right) = Extract(leafset, addr, right)
  BY DEF Extract
<1>10. /\ moved = WithSide(a, right, filled)
       /\ cut = WithSide(moved, right, [Side(moved, right) EXCEPT ![len].is_set = FALSE])
       /\ shorter = [filled EXCEPT ![len].is_set = FALSE]
  OBVIOUS
<1> HIDE DEF e, a, right, leafset, len, found, first, filled, shorter, moved, cut
<1>11. CASE found = {}
  <2>1. WithSide(a, right, leafset) = a
    BY <1>1, <1>2, <1>3, SideSame
  <2>2. a \in RemoveEntry(snr, addr)
    BY <1>6, <1>7, <1>11, <2>1
  <2>3. PlanTo(p, RemoveEntry(snr, addr), a.table)
    BY <1>2, <1>7, <1>11, <2>2, OneState
  <2> QED BY <2>3 DEF a, e
<1>12. CASE found # {}
  <2>1. SoundRouter(moved) /\ Side(moved, right) = filled
    BY <1>1, <1>2, <1>4, <1>10, <1>12, WithSideSound
  <2>2. cut = WithSide(moved, right, shorter)
    BY <1>10, <2>1
  <2>3. SoundRouter(cut) /\ Side(cut, right) = shorter
    BY <1>1, <1>4, <1>12, <2>1, <2>2, WithSideSound
  <2>4. PICK l \in Sortings(shorter, right) : p = <<a, moved, cut, WithSide(cut, right, l)>>
    BY <1>8, <1>12, <2>3
  <2> DEFINE last == WithSide(cut, right, l)
  <2>5. l \in Leafset
    BY <1>4, <1>12, <2>4, SortingsType
  <2>6. SoundRouter(last)
    BY <1>1, <2>3, <2>5, WithSideSound
  <2>7. moved \in RouterState /\ cut \in RouterState /\ last \in RouterState
    BY <2>1, <2>3, <2>6 DEF SoundRouter
  <2>8. last = WithSide(a, right, l)
    <3>1. moved \in RouterState /\ shorter \in Leafset /\ filled \in Leafset
      BY <1>4, <1>12, <2>7
    <3>2. WithSide(WithSide(moved, right, shorter), right, l) = WithSide(moved, right, l)
      <4>1. right \in BOOLEAN
        BY <1>1
      <4> QED BY <2>5, <3>1, <4>1, SideAgain
    <3>3. WithSide(WithSide(a, right, filled), right, l) = WithSide(a, right, l)
      <4>1. a \in RouterState /\ right \in BOOLEAN
        BY <1>1, <1>2
      <4> QED BY <2>5, <3>1, <4>1, SideAgain
    <3> QED BY <1>10, <2>2, <3>2, <3>3
  <2>9. last \in RemoveEntry(snr, addr)
    BY <1>6, <1>9, <1>12, <2>4, <2>8
  <2>10. p = <<a, moved, cut, last>>
    BY <2>4
  <2>11. moved.table = a.table /\ cut.table = a.table /\ last.table = a.table
    BY <1>2, <1>10, <2>2, <2>7, <2>8, SideTable
  <2> HIDE DEF last
  <2>12. PlanTo(p, RemoveEntry(snr, addr), a.table)
    BY <1>2, <2>1, <2>3, <2>6, <2>7, <2>9, <2>10, <2>11 DEF PlanTo
  <2> QED BY <2>12 DEF a, e
<1> QED BY <1>11, <1>12

-----------------------------------------------------------------------------
(* The writer                                                              *)

\* A peer has a place in the table.
LEMMA PeerInTable ==
  ASSUME SoundRouter(snr), NEW addr \in Peers
  PROVE  addr \in Address /\ SlotOf(snr, addr) \in Slot
<1>1. addr \in Address /\ addr # Self /\ snr.self.addr = Self
  BY RaceAssumption, EntryTypes DEF SoundRouter, Set
<1> QED BY <1>1, RaceAssumption, LevelOfDifferent, HexFacts, ByteBaseFacts DEF SlotOf, Slot

\* A table that is written to leads to one with an address of the slot.
LEMMA TableLeads ==
  ASSUME SoundRouter(snr), NEW e \in Entry, SlotOf(snr, e.addr) \in Slot,
         NEW q, q.table = Assigned(e).table
  PROVE  Leads(snr, q)
<1> DEFINE slot == SlotOf(snr, e.addr)
<1>1. snr \in RouterState /\ snr.self = Set(Self, Net)
  BY DEF SoundRouter
<1>2. q.table = [snr.table EXCEPT ![slot] = e] /\ snr.table \in [Slot -> Entry]
  BY <1>1 DEF Assigned, RouterState
<1>3. slot = Home(e.addr)
  BY <1>1, HomeIsSlot
<1> HIDE DEF slot
<1>4. \A s \in Slot : snr.table[s].addr = Zero \/ Home(snr.table[s].addr) = s
  BY <1>1, HomeIsSlot DEF SoundRouter
<1> QED BY <1>2, <1>3, <1>4 DEF Leads

LEMMA SameTableLeads ==
  ASSUME NEW r, NEW q, SoundRouter(q), r.table = q.table
  PROVE  Leads(r, q)
BY HomeIsSlot DEF SoundRouter, Leads

LEMMA SoundIsTorn ==
  ASSUME NEW r, SoundRouter(r)
  PROVE  TornRouter(r)
<1>1. ASSUME NEW s \in Slot PROVE PartOf(r.table[s].addr, s)
  <2>1. r.table[s].addr \in Address
    BY DEF SoundRouter, RouterState, Entry
  <2>2. r.table[s].addr = Zero \/ Home(r.table[s].addr) = s
    BY HomeIsSlot DEF SoundRouter
  <2> QED BY <2>1, <2>2, WholePart
<1> QED BY <1>1 DEF SoundRouter, TornRouter

\* What a writer keeps of the table: an address of its slot.
WholeStay ==
  \A s \in Slot : Home(snr.table[s].addr) = s => Home(snr'.table[s].addr) = s

LEMMA CallKeepsPlan ==
  ASSUME PlanInv, NEW plans, Call(plans), NEW results,
         NEW e \in Entry, SlotOf(snr, e.addr) \in Slot,
         \A p \in plans : PlanTo(p, results, Assigned(e).table),
         \A q \in results : Consistent(q, Self)
  PROVE  PlanInv' /\ snr' = snr
<1>1. /\ PlanTo(plan', results, Assigned(e).table) /\ plan = <<>>
      /\ snr' = snr /\ writes' = writes + 1 /\ writes < MaxWrites
  BY DEF Call
<1>2. SoundRouter(snr)
  BY <1>1 DEF PlanInv
<1>3. /\ plan' \in Seq(RouterState) /\ plan' # <<>> /\ Consistent(plan'[Len(plan')], Self)
      /\ \A k \in 1 .. Len(plan') : SoundRouter(plan'[k]) /\ plan'[k].table = Assigned(e).table
  BY <1>1 DEF PlanTo
<1>4. \A k \in 1 .. Len(plan') : Leads(snr, plan'[k])
  BY <1>2, <1>3, TableLeads
<1>5. \A k \in 1 .. Len(plan'), j \in 1 .. Len(plan') : Leads(plan'[j], plan'[k])
  BY <1>3, SameTableLeads
<1>6. writes' \in 0 .. MaxWrites
  BY <1>1, RaceAssumption DEF PlanInv
<1>7. TornRouter(snr)
  BY DEF PlanInv
<1> HIDE DEF SoundRouter, TornRouter, Leads, Consistent
<1>8. TornRouter(snr)' /\ (\A k \in 1 .. Len(plan') : Leads(snr', plan'[k]))
  BY <1>1, <1>4, <1>7 DEF TornRouter
<1> QED BY <1>1, <1>3, <1>5, <1>6, <1>8 DEF PlanInv

LEMMA StoreKeepsPlan ==
  ASSUME PlanInv, Store
  PROVE  PlanInv' /\ snr'.self = snr.self /\ WholeStay
<1>1. PICK p \in Places, c \in Cells :
         snr' = WithEntry(snr, p, WithCell(EntryAt(snr, p), c, CellOf(EntryAt(Head(plan), p), c)))
  BY DEF Store
<1>2. plan # <<>> /\ plan' = plan /\ writes' = writes
  BY DEF Store
<1>3. /\ TornRouter(snr) /\ plan \in Seq(RouterState) /\ writes \in 0 .. MaxWrites
      /\ \A k \in 1 .. Len(plan) :
           /\ SoundRouter(plan[k]) /\ Leads(snr, plan[k])
           /\ \A j \in 1 .. Len(plan) : Leads(plan[j], plan[k])
      /\ Consistent(plan[Len(plan)], Self)
  BY <1>2 DEF PlanInv
<1>4. Head(plan) = plan[1] /\ 1 \in 1 .. Len(plan)
  BY <1>2, <1>3
<1> HIDE DEF SoundRouter, TornRouter, Leads, Consistent
<1>5. SoundRouter(Head(plan)) /\ Leads(snr, Head(plan))
      /\ \A k \in 1 .. Len(plan) : Leads(Head(plan), plan[k])
  BY <1>3, <1>4
<1>6. /\ TornRouter(snr')
      /\ \A s \in Slot :
           /\ Home(snr.table[s].addr) = s => Home(snr'.table[s].addr) = s
           /\ snr'.table[s].addr # Zero =>
                snr.table[s].addr # Zero \/ Head(plan).table[s].addr # Zero
  BY <1>1, <1>3, <1>5, StoreTorn
<1>7. \A k \in 1 .. Len(plan) : Leads(snr', plan[k])
  BY <1>3, <1>5, <1>6 DEF Leads
<1>8. snr'.self = snr.self
  BY <1>3, <1>6 DEF TornRouter
<1>9. TornRouter(snr)'
  BY <1>6 DEF TornRouter
<1>10. PlanInv'
  BY <1>2, <1>3, <1>7, <1>9 DEF PlanInv
<1> QED BY <1>6, <1>8, <1>10 DEF WholeStay

LEMMA StoredAllKeepsPlan ==
  ASSUME PlanInv, StoredAll
  PROVE  PlanInv' /\ snr' = snr
<1>1. /\ plan # <<>> /\ snr = Head(plan) /\ plan' = Tail(plan)
      /\ snr' = snr /\ writes' = writes
  BY DEF StoredAll
<1>2. /\ TornRouter(snr) /\ plan \in Seq(RouterState) /\ writes \in 0 .. MaxWrites
      /\ \A k \in 1 .. Len(plan) :
           /\ SoundRouter(plan[k])
           /\ \A j \in 1 .. Len(plan) : Leads(plan[j], plan[k])
      /\ Consistent(plan[Len(plan)], Self)
  BY <1>1 DEF PlanInv
<1>3. Len(plan) \in Nat \ {0} /\ Head(plan) = plan[1]
  BY <1>1, <1>2
<1>4. /\ plan' \in Seq(RouterState) /\ Len(plan') = Len(plan) - 1
      /\ \A k \in 1 .. Len(plan') : plan'[k] = plan[k + 1]
  BY <1>1, <1>2
<1> HIDE DEF SoundRouter, TornRouter, Leads, Consistent
<1>5. 1 \in 1 .. Len(plan) /\ \A k \in 1 .. Len(plan') : k + 1 \in 1 .. Len(plan)
  BY <1>3, <1>4
<1>6. \A k \in 1 .. Len(plan') :
        /\ SoundRouter(plan'[k]) /\ Leads(snr, plan'[k])
        /\ \A j \in 1 .. Len(plan') : Leads(plan'[j], plan'[k])
  BY <1>1, <1>2, <1>3, <1>4, <1>5
<1>7. plan' = <<>> => SoundRouter(snr) /\ Consistent(snr, Self)
  <2> SUFFICES ASSUME plan' = <<>> PROVE SoundRouter(snr) /\ Consistent(snr, Self)
    OBVIOUS
  <2>1. Len(plan') = 0
    OBVIOUS
  <2>2. Len(plan) = 1
    BY <1>3, <1>4, <2>1
  <2> QED BY <1>1, <1>2, <1>3, <1>5, <2>2
<1>8. plan' # <<>> => Consistent(plan'[Len(plan')], Self)
  <2> SUFFICES ASSUME plan' # <<>> PROVE Consistent(plan'[Len(plan')], Self)
    OBVIOUS
  <2>1. Len(plan') \in 1 .. Len(plan') /\ Len(plan') + 1 = Len(plan)
    BY <1>3, <1>4
  <2> QED BY <1>2, <1>4, <2>1
<1> QED BY <1>1, <1>2, <1>4, <1>6, <1>7, <1>8 DEF PlanInv

LEMMA WriterKeepsPlan ==
  ASSUME PlanInv, Writer
  PROVE  PlanInv' /\ snr'.self = snr.self /\ WholeStay
<1>1. snr' = snr => snr'.self = snr.self /\ WholeStay
  BY DEF WholeStay
<1>2. CASE Store
  BY <1>2, StoreKeepsPlan
<1>3. CASE StoredAll
  BY <1>1, <1>3, StoredAllKeepsPlan
<1>4. ASSUME NEW addr \in Peers, NEW net \in Nets, Add(addr, net)
      PROVE  PlanInv' /\ snr' = snr
  <2> DEFINE e == Set(addr, net)
  <2>1. plan = <<>> /\ Call(AddPlans(e)) /\ Self \in Address
    BY <1>4, RaceAssumption DEF Add, Call
  <2>2. SoundRouter(snr) /\ Consistent(snr, Self)
    BY <2>1 DEF PlanInv
  <2>3. e \in Entry /\ e.is_set /\ e.addr = addr /\ SlotOf(snr, addr) \in Slot
    BY <2>2, PeerInTable, EntryTypes, RaceAssumption
  <2> HIDE DEF e
  <2>4. \A p \in AddPlans(e) : PlanTo(p, AddEntry(snr, e), Assigned(e).table)
    BY <2>2, <2>3, AddPlansSound
  <2>5. \A q \in AddEntry(snr, e) : Consistent(q, Self)
    BY <2>1, <2>2, <2>3, AddConsistent
  <2> QED BY <2>1, <2>3, <2>4, <2>5, CallKeepsPlan
<1>5. ASSUME NEW addr \in Peers, Remove(addr) PROVE PlanInv' /\ snr' = snr
  <2> DEFINE e == Gone(addr)
  <2>1. plan = <<>> /\ Call(RemovePlans(addr)) /\ Self \in Address
    BY <1>5, RaceAssumption DEF Remove, Call
  <2>2. SoundRouter(snr) /\ Consistent(snr, Self)
    BY <2>1 DEF PlanInv
  <2>3. addr \in Address /\ SlotOf(snr, addr) \in Slot
    BY <2>2, PeerInTable
  <2>4. e \in Entry /\ e.addr = addr
    BY <2>3, NoNetAssumption DEF Entry, Gone
  <2>5. \A p \in RemovePlans(addr) : PlanTo(p, RemoveEntry(snr, addr), Assigned(e).table)
    BY <2>2, <2>3, RemovePlansSound
  <2> HIDE DEF e
  <2>6. \A q \in RemoveEntry(snr, addr) : Consistent(q, Self)
    BY <2>1, <2>2, <2>3, RemoveConsistent
  <2> QED BY <2>1, <2>3, <2>4, <2>5, <2>6, CallKeepsPlan
<1> QED BY <1>1, <1>2, <1>3, <1>4, <1>5 DEF Writer

-----------------------------------------------------------------------------
(* The reader                                                              *)

LEMMA WriterKeepsReader ==
  ASSUME ReaderInv, UNCHANGED reader, WholeStay, dirty' \in BOOLEAN
  PROVE  ReaderInv'
<1>1. ASSUME NEW slot \in Slot, CopiedMix(snr, reader, slot)
      PROVE  CopiedMix(snr', reader, slot)
  BY <1>1 DEF CopiedMix, WholeStay
<1>2. CASE reader.at = "copy"
  <2>1. reader' \in Copies /\ reader' = reader
    BY <1>2 DEF ReaderInv
  <2>2. reader.bests = <<>> =>
           /\ Home(reader.dst) \in Slot
           /\ reader.from = <<"table", Home(reader.dst)>>
           /\ PartOf(reader.copy.addr, Home(reader.dst))
           /\ reader.placed => CopiedMix(snr, reader, Home(reader.dst))
    BY <1>2 DEF ReaderInv
  <2>3. reader.bests = <<>> /\ reader.placed => CopiedMix(snr', reader', Home(reader.dst))
    BY <1>1, <2>1, <2>2 DEF CopiedMix, WholeStay
  <2> QED BY <1>2, <2>1, <2>2, <2>3 DEF ReaderInv
<1>3. CASE reader.at # "copy"
  BY <1>3 DEF ReaderInv
<1> QED BY <1>2, <1>3

LEMMA ScansType ==
  /\ LeafsetScans \in Seq(Scans)
  /\ \A level \in 0 .. HexLen - 1 : TableScans(level) \in Seq(Scans)
<1>1. ASSUME NEW side \in {"left", "right"} PROVE LeafPlaces(side) \in Seq(Places)
  <2>1. LeafPlaces(side) \in [1 .. LeafsetSize -> Places]
    BY DEF LeafPlaces, Places
  <2> QED BY <2>1, LeafsetSizeAssumption
<1>2. ASSUME NEW level \in 0 .. HexLen - 1 PROVE RowPlaces(level) \in Seq(Places)
  <2>1. RowPlaces(level) \in [1 .. HexBase -> Places]
    BY HexBaseAssumption DEF RowPlaces, Places, Slot
  <2> QED BY <2>1, HexBaseAssumption
<1>3. ASSUME NEW level \in 0 .. HexLen - 1 PROVE level \in Nat
  BY ByteBaseFacts
<1>4. LeafsetScans \in Seq(Scans)
  BY <1>1 DEF LeafsetScans, Scans
<1>5. ASSUME NEW level \in 0 .. HexLen - 1 PROVE TableScans(level) \in Seq(Scans)
  BY <1>1, <1>2, <1>3 DEF TableScans, Scans
<1> QED BY <1>4, <1>5

\* One more candidate.
LEMMA OneMore ==
  ASSUME NEW bests \in Bests, NEW e \in Entry
  PROVE  Append(bests, e) \in Bests
<1>1. bests \in Seq(Entry) /\ Len(bests) \in Nat \ {0}
  BY DEF Bests
<1>2. Append(bests, e) \in Seq(Entry) /\ Append(bests, e)[1] = bests[1]
      /\ Len(Append(bests, e)) = Len(bests) + 1
  BY <1>1
<1>3. \A t \in Seq(Entry) : Len(t) # 0 => t # <<>>
  OBVIOUS
<1>4. Append(bests, e) # <<>> /\ Append(bests, e)[1] = Set(Self, Net)
  BY <1>1, <1>2, <1>3 DEF Bests
<1> QED BY <1>2, <1>4 DEF Bests

\* Nothing is copied yet.
LEMMA UnsetCopy ==
  /\ Unset \in Entry /\ Compared \in SUBSET Compared
  /\ \A slot : PartOf(Unset.addr, slot)
  /\ \A i \in 1 .. AddrLen : <<"addr", i>> \in Compared
<1>1. Unset \in Entry /\ Unset.addr = Zero
  BY EntryTypes DEF Unset
<1> QED BY <1>1 DEF PartOf, Zero, Compared

LEMMA BeginKeepsReader ==
  ASSUME PlanInv, ReaderInv, NEW dst \in Wanted, Begin(dst)
  PROVE  ReaderInv'
<1> DEFINE slot  == SlotOf(snr, dst)
           whole == SlotOf(snr, snr.table[slot].addr) = slot
<1>1. dst \in Address /\ snr.self \in Entry /\ snr' = snr /\ <<snr.self>> \in Bests
      /\ snr.self = Set(Self, Net) /\ dirty' \in BOOLEAN
  BY RaceAssumption, EntryTypes DEF PlanInv, TornRouter, Begin, Bests
<1>2. \/ reader' = Scanning(dst, LeafsetScans, <<snr.self>>)
      \/ reader' = Answered([snr.self EXCEPT !.is_set = FALSE], dst, FALSE, FALSE)
      \/ slot \in Slot /\ reader' = Copying(dst, <<>>, <<>>, <<"table", slot>>, Compared, Unset, whole)
      \/ slot \in Slot /\ reader' = Scanning(dst, TableScans(slot[1]), <<snr.self>>)
  <2>1. PICK on \in IF plan # <<>> THEN BOOLEAN ELSE OnRange(snr, dst) :
           reader' =
             CASE on -> Scanning(dst, LeafsetScans, <<snr.self>>)
               [] ~on /\ slot \notin Slot ->
                    Answered([snr.self EXCEPT !.is_set = FALSE], dst, FALSE, FALSE)
               [] ~on /\ slot \in Slot /\ snr.table[slot].is_set ->
                    Copying(dst, <<>>, <<>>, <<"table", slot>>, Compared, Unset, whole)
               [] OTHER -> Scanning(dst, TableScans(slot[1]), <<snr.self>>)
    BY DEF Begin
  <2>2. on \in BOOLEAN
    BY DEF OnRange
  <2> HIDE DEF slot, whole
  <2> QED BY <2>1, <2>2
<1>3. CASE reader' = Scanning(dst, LeafsetScans, <<snr.self>>)
  BY <1>1, <1>3, ScansType DEF ReaderInv, Scanning
<1>4. CASE reader' = Answered([snr.self EXCEPT !.is_set = FALSE], dst, FALSE, FALSE)
  <2> DEFINE hop == [snr.self EXCEPT !.is_set = FALSE]
  <2>1. hop \in Entry /\ ~hop.is_set
    BY <1>1 DEF Entry
  <2> HIDE DEF hop
  <2>2. reader' = Answered(hop, dst, FALSE, FALSE)
    BY <1>4 DEF hop
  <2> QED BY <1>1, <2>1, <2>2 DEF ReaderInv, Answered
<1>5. CASE /\ slot \in Slot
           /\ reader' = Copying(dst, <<>>, <<>>, <<"table", slot>>, Compared, Unset, whole)
  <2>1. slot = Home(dst) /\ whole = (Home(snr.table[slot].addr) = slot)
    BY <1>1, HomeIsSlot
  <2>2. <<"table", slot>> \in Places /\ whole \in BOOLEAN /\ <<>> \in Seq(Scans)
    BY <1>5 DEF Places
  <2>3. slot \in Slot
    BY <1>5
  <2> HIDE DEF slot, whole
  <2>4. /\ reader'.at = "copy" /\ reader'.bests = <<>> /\ reader'.dst = dst
        /\ reader'.from = <<"table", slot>> /\ reader'.copy = Unset
        /\ reader'.left = Compared /\ reader'.placed = whole
    BY <1>5 DEF Copying
  <2>5. reader' \in Copies
    BY <1>1, <1>5, <2>2, UnsetCopy DEF Copying, Copies
  <2>6. whole => CopiedMix(snr', reader', slot)
    BY <1>1, <2>1, <2>4, UnsetCopy DEF CopiedMix
  <2> QED BY <1>1, <2>1, <2>3, <2>4, <2>5, <2>6, UnsetCopy DEF ReaderInv
<1>6. CASE slot \in Slot /\ reader' = Scanning(dst, TableScans(slot[1]), <<snr.self>>)
  <2>1. slot[1] \in 0 .. HexLen - 1
    BY <1>6 DEF Slot
  <2>2. TableScans(slot[1]) \in Seq(Scans)
    BY <2>1, ScansType
  <2> HIDE DEF slot
  <2> QED BY <1>1, <1>6, <2>2 DEF ReaderInv, Scanning
<1> QED BY <1>2, <1>3, <1>4, <1>5, <1>6

LEMMA ScanKeepsReader ==
  ASSUME ReaderInv, Scan
  PROVE  ReaderInv'
<1> DEFINE scan == Head(reader.scans)
           rest == Tail(reader.scans)
<1>1. /\ reader.dst \in Address /\ reader.bests \in Bests
      /\ reader.scans \in Seq(Scans) /\ reader.scans # <<>>
      /\ dirty' \in BOOLEAN
  BY DEF Scan, ReaderInv
<1>2. scan \in Scans /\ rest \in Seq(Scans)
  BY <1>1
<1>3. scan.in \in Seq(Places) /\ \A i \in DOMAIN scan.in : scan.in[i] \in Places
  BY <1>2 DEF Scans
<1>4. CASE reader' = Scanning(reader.dst, rest, Append(reader.bests, Unset))
  <2>1. Append(reader.bests, Unset) \in Bests
    BY <1>1, OneMore, EntryTypes
  <2> HIDE DEF rest
  <2> QED BY <1>1, <1>2, <1>4, <2>1 DEF ReaderInv, Scanning
<1>5. ASSUME NEW p \in Places,
             reader' = Copying(reader.dst, rest, reader.bests, p, Compared, Unset, FALSE)
      PROVE  ReaderInv'
  <2>1. reader.bests # <<>>
    BY <1>1 DEF Bests
  <2> HIDE DEF rest
  <2>2. reader' \in Copies /\ reader'.at = "copy" /\ reader'.bests = reader.bests
    BY <1>1, <1>2, <1>5, UnsetCopy DEF Copying, Copies
  <2> QED BY <1>1, <2>1, <2>2 DEF ReaderInv
<1>6. PICK p \in Finds(scan, reader.dst) :
        reader' = IF p = Nowhere
                  THEN Scanning(reader.dst, rest, Append(reader.bests, Unset))
                  ELSE Copying(reader.dst, rest, reader.bests, p, Compared, Unset, FALSE)
  BY DEF Scan
<1>7. p = Nowhere \/ p \in Places
  BY <1>3 DEF Finds, Found
<1> HIDE DEF scan, rest
<1> QED BY <1>4, <1>5, <1>6, <1>7

LEMMA CopyKeepsReader ==
  ASSUME PlanInv, ReaderInv, Copy
  PROVE  ReaderInv'
<1> DEFINE from == EntryAt(snr, reader.from)
           slot == Home(reader.dst)
<1>1. /\ reader \in Copies /\ reader.at = "copy"
      /\ reader.bests = <<>> =>
           /\ slot \in Slot /\ reader.from = <<"table", slot>>
           /\ PartOf(reader.copy.addr, slot)
           /\ reader.placed => CopiedMix(snr, reader, slot)
      /\ snr' = snr /\ dirty' \in BOOLEAN
  BY DEF Copy, ReaderInv
<1>2. PICK c \in reader.left :
         reader' = [reader EXCEPT !.left = @ \ {c}, !.copy = WithCell(@, c, CellOf(from, c))]
  BY DEF Copy
<1> DEFINE copy == WithCell(reader.copy, c, CellOf(from, c))
<1>3. from \in Entry /\ reader.copy \in Entry /\ c \in Cells /\ reader.left \subseteq Compared
  BY <1>1, EntryAtType DEF PlanInv, TornRouter, Copies, Cells
<1>4. /\ copy \in Entry
      /\ \A i \in 1 .. AddrLen :
           copy.addr[i] = IF c = <<"addr", i>> THEN from.addr[i] ELSE reader.copy.addr[i]
  <2> HIDE DEF from
  <2>1. copy \in Entry /\ Mixed(copy, reader.copy, from, c)
    BY <1>3, CellStored
  <2> QED BY <2>1 DEF Mixed
<1>5. reader' = [reader EXCEPT !.left = reader.left \ {c}, !.copy = copy]
  BY <1>1, <1>2 DEF Copies
<1> HIDE DEF copy
<1>6. /\ reader' \in Copies
      /\ reader'.at = "copy" /\ reader'.copy = copy /\ reader'.left = reader.left \ {c}
      /\ reader'.bests = reader.bests /\ reader'.dst = reader.dst
      /\ reader'.from = reader.from /\ reader'.placed = reader.placed
  BY <1>1, <1>3, <1>4, <1>5 DEF Copies
<1>7. ASSUME reader.bests = <<>>
      PROVE  PartOf(copy.addr, slot) /\ (reader.placed => CopiedMix(snr', reader', slot))
  <2>1. from = snr.table[slot] /\ slot \in Slot
    BY <1>1, <1>7 DEF EntryAt
  <2>2. PartOf(from.addr, slot)
    BY <2>1 DEF PlanInv, TornRouter
  <2> HIDE DEF from, slot
  <2>3. PartOf(copy.addr, slot)
    BY <1>1, <1>4, <1>7, <2>2 DEF PartOf
  <2>4. ASSUME reader.placed PROVE CopiedMix(snr', reader', slot)
    <3>1. Home(from.addr) = slot /\ from.addr \in Address
      BY <1>1, <1>3, <1>7, <2>1, <2>4 DEF CopiedMix, Entry
    <3>2. \A i \in 1 .. AddrLen : from.addr[i] \in BytesOf(slot, i)
      BY <3>1, BytesOfOwn
    <3>3. \A i \in 1 .. AddrLen :
            <<"addr", i>> \notin reader.left \ {c} => copy.addr[i] \in BytesOf(slot, i)
      BY <1>1, <1>4, <1>7, <2>4, <3>2 DEF CopiedMix
    <3> QED BY <1>1, <1>6, <2>1, <3>1, <3>3 DEF CopiedMix
  <2> QED BY <2>3, <2>4
<1>8. Home(reader.dst)' = slot
  BY <1>6
<1> HIDE DEF slot, from
<1> QED BY <1>1, <1>6, <1>7, <1>8 DEF ReaderInv

LEMMA NetAddressReadType ==
  ASSUME PlanInv, ReaderInv, reader.at = "copy"
  PROVE  NetAddressRead \subseteq NetAddress
<1>1. EntryAt(snr, reader.from) \in Entry
  BY EntryAtType DEF PlanInv, TornRouter, ReaderInv, Copies
<1> QED BY <1>1 DEF NetAddressRead, Entry

\* What the whole copy of an entry of a slot is made of.
LEMMA CopiedKeepsReader ==
  ASSUME PlanInv, ReaderInv, Copied
  PROVE  ReaderInv'
<1>1. /\ reader \in Copies /\ reader.at = "copy" /\ reader.left = {}
      /\ reader.bests = <<>> =>
           /\ Home(reader.dst) \in Slot /\ PartOf(reader.copy.addr, Home(reader.dst))
           /\ reader.placed => CopiedMix(snr, reader, Home(reader.dst))
      /\ snr' = snr /\ dirty' \in BOOLEAN
  BY DEF Copied, ReaderInv
<1>2. PICK net \in NetAddressRead :
        LET copy == [reader.copy EXCEPT !.net_addr = net]
        IN  reader' = IF reader.bests = <<>>
                      THEN Answered(copy, reader.dst, TRUE, reader.placed)
                      ELSE Scanning(reader.dst, reader.scans, Append(reader.bests, copy))
  BY DEF Copied
<1> DEFINE copy == [reader.copy EXCEPT !.net_addr = net]
<1>3. net \in NetAddress
  BY <1>1, NetAddressReadType
<1>4. reader.copy \in Entry /\ reader.dst \in Address /\ reader.scans \in Seq(Scans)
      /\ reader.bests \in Bests \cup {<<>>}
  BY <1>1 DEF Copies
<1>5. copy \in Entry /\ copy.addr = reader.copy.addr
  BY <1>3, <1>4 DEF Entry
<1>6. reader' = IF reader.bests = <<>>
                THEN Answered(copy, reader.dst, TRUE, reader.placed)
                ELSE Scanning(reader.dst, reader.scans, Append(reader.bests, copy))
  BY <1>2
<1> HIDE DEF copy
<1>7. CASE reader.bests = <<>>
  <2>1. /\ reader'.at = "answered" /\ reader'.hop = copy /\ reader'.dst = reader.dst
        /\ reader'.direct = TRUE /\ reader'.placed = reader.placed
    BY <1>6, <1>7 DEF Answered
  <2>2. reader.placed => Home(copy.addr) = Home(reader.dst)
    <3> SUFFICES ASSUME reader.placed PROVE Home(copy.addr) = Home(reader.dst)
      OBVIOUS
    <3>1. \A i \in 1 .. AddrLen : copy.addr[i] \in BytesOf(Home(reader.dst), i)
      BY <1>1, <1>5, <1>7 DEF CopiedMix
    <3>2. copy.addr \in Address
      BY <1>5 DEF Entry
    <3> QED BY <1>1, <1>7, <3>1, <3>2, MixOfSlot
  <2> QED BY <1>1, <1>5, <1>7, <2>1, <2>2 DEF ReaderInv
<1>8. CASE reader.bests # <<>>
  <2>1. reader' = Scanning(reader.dst, reader.scans, Append(reader.bests, copy))
    BY <1>6, <1>8
  <2>2. Append(reader.bests, copy) \in Bests
    BY <1>4, <1>5, <1>8, OneMore
  <2> QED BY <1>1, <1>4, <2>1, <2>2 DEF ReaderInv, Scanning
<1> QED BY <1>7, <1>8

\* The decision is made among copies, the first of which is the node itself.
LEMMA DecideKeepsReader ==
  ASSUME PlanInv, ReaderInv, Decide
  PROVE  ReaderInv'
<1> DEFINE hop == Best(snr, reader.dst, reader.bests)
           n   == Len(reader.bests)
<1>1. /\ reader.dst \in Address /\ reader.bests \in Bests
      /\ reader' = Answered(hop, reader.dst, FALSE, FALSE)
      /\ snr' = snr /\ dirty' \in BOOLEAN
  BY DEF Decide, ReaderInv
<1>2. /\ snr.self \in Entry /\ snr.self.is_set /\ snr.self.addr = Self /\ Self \in Address
      /\ snr.self = Set(Self, Net)
  BY RaceAssumption, EntryTypes DEF PlanInv, TornRouter
<1>3. n \in Nat /\ n >= 1 /\ reader.bests \in [1 .. n -> Entry] /\ reader.bests[1] = snr.self
  BY <1>1, <1>2 DEF Bests
<1>4. hop \in Entry
  <2> DEFINE best == Closest(reader.dst, reader.bests, Self, 0)
  <2>1. best \in Entry
    BY <1>1, <1>2, <1>3, ClosestIsFit
  <2> HIDE DEF best
  <2>2. hop = IF best.addr = Self THEN [best EXCEPT !.is_set = FALSE] ELSE best
    BY <1>2 DEF Best, best
  <2> QED BY <2>1, <2>2 DEF Entry
<1>5. ASSUME hop.is_set PROVE Before(Dist(hop.addr, reader.dst), Dist(Self, reader.dst))
  <2> HIDE DEF n
  <2>1. \E i \in 1 .. n :
          /\ hop = reader.bests[i]
          /\ Before(Dist(reader.bests[i].addr, reader.dst), Dist(Self, reader.dst))
    BY <1>1, <1>2, <1>3, <1>5, BestIsNearer
  <2> QED BY <2>1
<1> HIDE DEF hop
<1> QED BY <1>1, <1>4, <1>5 DEF ReaderInv, Answered

LEMMA RaceInductive ==
  /\ Init => RaceInv
  /\ RaceInv /\ [Next]_vars => RaceInv'
<1>1. ASSUME Init PROVE RaceInv
  <2>1. snr = RouterInit(Self, Net) /\ plan = <<>> /\ writes = 0 /\ reader = Idle /\ dirty = FALSE
    BY <1>1 DEF Init
  <2>2. Consistent(snr, Self)
    BY <2>1, RouterInitConsistent, RaceAssumption
  <2>3. SoundRouter(snr)
    <3>1. snr.self = Set(Self, Net) /\ \A s \in Slot : snr.table[s].addr = Zero
      BY <2>1 DEF RouterInit, Unset
    <3> QED BY <2>2, <3>1 DEF SoundRouter, Consistent
  <2>4. PlanInv
    BY <2>1, <2>2, <2>3, SoundIsTorn, RaceAssumption DEF PlanInv
  <2>5. ReaderInv
    BY <2>1 DEF ReaderInv, Idle
  <2> QED BY <2>4, <2>5 DEF RaceInv
<1>2. ASSUME RaceInv, [Next]_vars PROVE RaceInv'
  <2>1. CASE Writer
    <3>1. reader' = reader /\ dirty' \in BOOLEAN
      BY <1>2, <2>1
         DEF RaceInv, ReaderInv, Writer, Add, Remove, Call, Store, StoredAll, Reading
    <3>2. PlanInv' /\ WholeStay
      BY <1>2, <2>1, WriterKeepsPlan DEF RaceInv
    <3>3. ReaderInv'
      BY <1>2, <3>1, <3>2, WriterKeepsReader DEF RaceInv
    <3> QED BY <3>2, <3>3 DEF RaceInv
  <2>2. ASSUME UNCHANGED <<snr, plan, writes>> PROVE PlanInv'
    BY <1>2, <2>2 DEF RaceInv, PlanInv
  <2>3. CASE Reader
    <3>1. UNCHANGED <<snr, plan, writes>>
      BY <2>3 DEF Reader, Begin, Scan, Copy, Copied, Decide
    <3>2. ReaderInv'
      BY <1>2, <2>3, BeginKeepsReader, ScanKeepsReader, CopyKeepsReader,
         CopiedKeepsReader, DecideKeepsReader DEF RaceInv, Reader
    <3> QED BY <2>2, <3>1, <3>2 DEF RaceInv
  <2>4. CASE UNCHANGED vars
    <3>1. ReaderInv'
      BY <1>2, <2>4, WriterKeepsReader DEF vars, RaceInv, ReaderInv, WholeStay
    <3> QED BY <2>2, <2>4, <3>1 DEF vars, RaceInv
  <2> QED BY <1>2, <2>1, <2>3, <2>4 DEF Next
<1> QED BY <1>1, <1>2

-----------------------------------------------------------------------------
\* What the bytes of addresses in the table and in copies of its entries can
\* be, whoever reads and writes them when.
THEOREM RaceInvariant == Spec => []RaceInv
BY RaceInductive, PTL DEF Spec

\* The types of the router, the plan and the answers.
THEOREM RaceTypes == Spec => []RaceTypeOK
<1>1. RaceInv => RaceTypeOK
  BY DEF RaceInv, PlanInv, TornRouter, ReaderInv, RaceTypeOK
<1> QED BY <1>1, RaceInvariant, PTL

\* No interleaving makes a chosen next hop one that is not nearer.
THEOREM RaceTornHopsNearer == Spec => []TornHopsNearer
<1>1. RaceInv => TornHopsNearer
  BY DEF RaceInv, ReaderInv, TornHopsNearer
<1> QED BY <1>1, RaceInvariant, PTL

\* The bytes that a slot allows, by the address of the node or of the router.
LEMMA BytesOfSlot ==
  ASSUME snr.self = Set(Self, Net), NEW slot, NEW i
  PROVE  SlotBytes(slot, i) = BytesOf(slot, i)
BY HomeIsSlot DEF SlotBytes, BytesOf

\* No interleaving brings bytes of another slot out of the table, nor, from a
\* slot that was once written, an address of another slot.
THEOREM RaceTornHopsOfSlot == Spec => []TornHopsOfSlot
<1>1. RaceInv => TornHopsOfSlot
  <2> SUFFICES ASSUME RaceInv, reader.at = "answered", reader.direct, reader.hop.is_set
               PROVE  LET slot == SlotOf(snr, reader.dst)
                      IN  /\ \A i \in 1 .. AddrLen :
                               \/ reader.hop.addr[i] = 0
                               \/ reader.hop.addr[i] \in SlotBytes(slot, i)
                          /\ reader.placed => SlotOf(snr, reader.hop.addr) = slot
    BY DEF TornHopsOfSlot
  <2>1. snr.self = Set(Self, Net)
    BY DEF RaceInv, PlanInv, TornRouter
  <2>2. /\ PartOf(reader.hop.addr, Home(reader.dst))
        /\ reader.placed => Home(reader.hop.addr) = Home(reader.dst)
    BY DEF RaceInv, ReaderInv
  <2> QED BY <2>1, <2>2, HomeIsSlot, BytesOfSlot DEF PartOf
<1> QED BY <1>1, RaceInvariant, PTL

-----------------------------------------------------------------------------
(* The calls as Router has them, at once.  Its operators are those of this  *)
(* module once more, so each is shown to be the same.                       *)

LEMMA SameBefore ==
  ASSUME NEW a, NEW b
  PROVE  Atomic!Before(a, b) <=> Before(a, b)
BY DEF Before, Atomic!Before

LEMMA SameSortings ==
  ASSUME NEW l, NEW right
  PROVE  Atomic!ArrayLen(l) = ArrayLen(l) /\ Atomic!Sortings(l, right) = Sortings(l, right)
<1>1. Atomic!ArrayLen(l) = ArrayLen(l)
  BY DEF Atomic!ArrayLen, ArrayLen
<1>2. \A n : Atomic!Permutation(n) = Permutation(n)
  BY DEF Atomic!Permutation, Permutation
<1>3. \A e, f : Atomic!Precedes(e, f, right) <=> Precedes(e, f, right)
  BY SameBefore DEF Atomic!Precedes, Precedes
<1>4. Atomic!Sortings(l, right) = Sortings(l, right)
  BY <1>1, <1>2, <1>3 DEF Atomic!Sortings, Sortings
<1> QED BY <1>1, <1>4

LEMMA SameSlotOf ==
  ASSUME NEW r, NEW addr
  PROVE  Atomic!SlotOf(r, addr) = SlotOf(r, addr)
<1>1. \A a : Atomic!Hex(a) = Hex(a)
  BY DEF Atomic!Hex, Hex, Atomic!HexLen, HexLen
<1>2. \A a, b : Atomic!Level(a, b) = Level(a, b)
  BY <1>1 DEF Atomic!Level, Level, Atomic!HexLen, HexLen
<1>3. \A a, b : Atomic!Column(a, b) = Column(a, b)
  BY <1>1, <1>2 DEF Atomic!Column, Column, Atomic!HexLen, HexLen,
     Atomic!NoColumn, NoColumn, Atomic!ByteBase, ByteBase
<1> QED BY <1>2, <1>3 DEF Atomic!SlotOf, SlotOf

LEMMA SameAdd ==
  ASSUME NEW r, NEW e
  PROVE  Atomic!AddEntry(r, e) = AddEntry(r, e)
<1>1. \A l, right : Atomic!Insert(l, e, right) = Insert(l, e, right)
  BY SameSortings, SameBefore DEF Atomic!Insert, Insert
<1>2. Atomic!SlotOf(r, e.addr) = SlotOf(r, e.addr)
  BY SameSlotOf
<1>3. Atomic!Before(e.addr, r.self.addr) <=> Before(e.addr, r.self.addr)
  BY SameBefore
<1> DEFINE written == [r EXCEPT !.table[SlotOf(r, e.addr)] = e]
           rights(ls) == {[written EXCEPT !.right = l] : l \in ls}
           lefts(ls)  == {[written EXCEPT !.left = l] : l \in ls}
<1>4. AddEntry(r, e) = IF ~Before(e.addr, r.self.addr) THEN rights(Insert(r.right, e, TRUE))
                                                       ELSE lefts(Insert(r.left, e, FALSE))
  BY DEF AddEntry
<1>5. Atomic!AddEntry(r, e)
        = IF ~Atomic!Before(e.addr, r.self.addr)
          THEN rights(Atomic!Insert(r.right, e, TRUE))
          ELSE lefts(Atomic!Insert(r.left, e, FALSE))
  BY <1>2 DEF Atomic!AddEntry
<1> HIDE DEF rights, lefts
<1>6. /\ Atomic!Insert(r.right, e, TRUE) = Insert(r.right, e, TRUE)
      /\ Atomic!Insert(r.left, e, FALSE) = Insert(r.left, e, FALSE)
  BY <1>1, Zenon
<1>7. CASE Before(e.addr, r.self.addr)
  BY <1>3, <1>4, <1>5, <1>6, <1>7, Zenon
<1>8. CASE ~Before(e.addr, r.self.addr)
  BY <1>3, <1>4, <1>5, <1>6, <1>8, Zenon
<1> QED BY <1>7, <1>8

LEMMA SameRemove ==
  ASSUME NEW r, NEW addr
  PROVE  Atomic!RemoveEntry(r, addr) = RemoveEntry(r, addr)
<1>1. ASSUME NEW l, NEW right
      PROVE  Atomic!Extract(l, addr, right) = Extract(l, addr, right)
  <2> DEFINE found == {i \in 1 .. ArrayLen(l) : l[i].addr = addr}
             first == CHOOSE i \in found : \A j \in found : i <= j
             cut   == [l EXCEPT ![first] = l[ArrayLen(l)], ![ArrayLen(l)].is_set = FALSE]
  <2>1. Extract(l, addr, right) = IF found = {} THEN {l} ELSE Sortings(cut, right)
    BY DEF Extract
  <2>2. Atomic!Extract(l, addr, right)
          = IF found = {} THEN {l} ELSE Atomic!Sortings(cut, right)
    <3>1. Atomic!ArrayLen(l) = ArrayLen(l)
      BY SameSortings
    <3> QED BY <3>1 DEF Atomic!Extract
  <2> HIDE DEF found, cut
  <2> QED BY <2>1, <2>2, SameSortings
<1>2. Atomic!SlotOf(r, addr) = SlotOf(r, addr)
  BY SameSlotOf
<1>3. Atomic!Before(addr, r.self.addr) <=> Before(addr, r.self.addr)
  BY SameBefore
<1> DEFINE written == [r EXCEPT !.table[SlotOf(r, addr)] = Gone(addr)]
           rights(ls) == {[written EXCEPT !.right = l] : l \in ls}
           lefts(ls)  == {[written EXCEPT !.left = l] : l \in ls}
<1>4. RemoveEntry(r, addr)
        = IF ~Before(addr, r.self.addr) THEN rights(Extract(r.right, addr, TRUE))
                                        ELSE lefts(Extract(r.left, addr, FALSE))
  BY DEF RemoveEntry, Gone
<1>5. Atomic!RemoveEntry(r, addr)
        = IF ~Atomic!Before(addr, r.self.addr)
          THEN rights(Atomic!Extract(r.right, addr, TRUE))
          ELSE lefts(Atomic!Extract(r.left, addr, FALSE))
  BY <1>2 DEF Atomic!RemoveEntry, Gone
<1> HIDE DEF rights, lefts
<1>6. /\ Atomic!Extract(r.right, addr, TRUE) = Extract(r.right, addr, TRUE)
      /\ Atomic!Extract(r.left, addr, FALSE) = Extract(r.left, addr, FALSE)
  BY <1>1, Zenon
<1>7. CASE Before(addr, r.self.addr)
  BY <1>3, <1>4, <1>5, <1>6, <1>7, Zenon
<1>8. CASE ~Before(addr, r.self.addr)
  BY <1>3, <1>4, <1>5, <1>6, <1>8, Zenon
<1> QED BY <1>7, <1>8

LEMMA SameInit ==
  ASSUME NEW net
  PROVE  Atomic!RouterInit(Self, net) = RouterInit(Self, net)
<1>1. Atomic!Unset = Unset /\ Atomic!Slot = Slot /\ Atomic!Set(Self, net) = Set(Self, net)
  BY DEF Atomic!Unset, Unset, Atomic!Zero, Zero, Atomic!Slot, Slot, Atomic!HexLen, HexLen,
     Atomic!Set, Set
<1> QED BY <1>1 DEF Atomic!RouterInit, RouterInit

\* No peer trips the assertion or leaves the table.
LEMMA PeerSets ==
  ASSUME SoundRouter(snr), plan = <<>>, NEW addr \in Peers
  PROVE  Atomic!SetFault(addr) = "none"
<1> DEFINE slot == SlotOf(snr, addr)
<1>1. Settled = snr
  BY DEF Settled
<1>2. slot \in Slot /\ Self \in Address /\ Self # Zero /\ snr.self.addr = Self
  BY PeerInTable, EntryTypes, RaceAssumption DEF SoundRouter, Set
<1> HIDE DEF slot
<1>3. snr.table[slot].addr # Self
  <2>1. Level(Self, Self) = HexLen
    BY <1>2, LevelUnique, ByteBaseFacts
  <2>2. SlotOf(snr, Self) # slot
    BY <1>2, <2>1, ByteBaseFacts DEF SlotOf, Slot
  <2> QED BY <1>2, <2>2 DEF SoundRouter
<1>4. Atomic!Slot = Slot
  BY DEF Atomic!Slot, Slot, Atomic!HexLen, HexLen
<1>5. ~Atomic!OutOfBounds(snr, addr)
  BY <1>2, <1>4, SameSlotOf DEF Atomic!OutOfBounds, slot
<1>6. ~Atomic!Impossible(snr, addr)
  BY <1>2, <1>3, SameSlotOf DEF Atomic!Impossible, slot
<1> QED BY <1>1, <1>5, <1>6 DEF Atomic!SetFault

\* A call that begins is a step of Router.
LEMMA CallSettles ==
  ASSUME NEW plans, Call(plans), NEW results, NEW table,
         \A p \in plans : PlanTo(p, results, table)
  PROVE  Settled = snr /\ Settled' \in results
BY DEF Call, PlanTo, Settled

LEMMA AddIsAtomic ==
  ASSUME PlanInv, NEW addr \in Peers, NEW net \in Nets, Add(addr, net)
  PROVE  Atomic!Add(addr, net)
<1> DEFINE e == Set(addr, net)
<1>1. plan = <<>> /\ Call(AddPlans(e)) /\ SoundRouter(snr)
  BY DEF Add, Call, PlanInv
<1>2. e \in Entry /\ Atomic!Set(addr, net) = e
  BY <1>1, PeerInTable, EntryTypes, RaceAssumption DEF Atomic!Set, Set
<1> HIDE DEF e
<1>3. \A p \in AddPlans(e) : PlanTo(p, AddEntry(snr, e), Assigned(e).table)
  BY <1>1, <1>2, AddPlansSound
<1>4. Settled = snr /\ Settled' \in AddEntry(snr, e)
  BY <1>1, <1>3, CallSettles
<1>5. Settled' \in Atomic!AddEntry(Settled, e)
  BY <1>4, SameAdd
<1>6. Atomic!SetFault(addr) = "none"
  BY <1>1, PeerSets
<1> QED BY <1>2, <1>5, <1>6 DEF Atomic!Add

LEMMA RemoveIsAtomic ==
  ASSUME PlanInv, NEW addr \in Peers, Remove(addr)
  PROVE  Atomic!Remove(addr)
<1>1. plan = <<>> /\ Call(RemovePlans(addr)) /\ SoundRouter(snr)
  BY DEF Remove, Call, PlanInv
<1>2. addr \in Address
  BY <1>1, PeerInTable
<1>3. \A p \in RemovePlans(addr) :
        PlanTo(p, RemoveEntry(snr, addr), Assigned(Gone(addr)).table)
  BY <1>1, <1>2, RemovePlansSound
<1>4. Settled = snr /\ Settled' \in RemoveEntry(snr, addr)
  BY <1>1, <1>3, CallSettles
<1>5. Settled' \in Atomic!RemoveEntry(Settled, addr)
  BY <1>4, SameRemove
<1>6. Atomic!SetFault(addr) = "none"
  BY <1>1, PeerSets
<1> QED BY <1>5, <1>6 DEF Atomic!Remove

\* The stores of it and what is read meanwhile are none.
LEMMA OthersSettleNothing ==
  ASSUME PlanInv, Store \/ StoredAll \/ Reader \/ UNCHANGED vars
  PROVE  Settled' = Settled
<1>1. CASE Store
  BY <1>1 DEF Store, Settled
<1>2. CASE StoredAll
  <2>1. plan # <<>> /\ snr = Head(plan) /\ plan' = Tail(plan) /\ snr' = snr
    BY <1>2 DEF StoredAll
  <2>2. plan \in Seq(RouterState)
    BY DEF PlanInv
  <2>3. /\ Len(plan) \in Nat \ {0} /\ Head(plan) = plan[1] /\ Len(plan') = Len(plan) - 1
        /\ \A k \in 1 .. Len(plan') : plan'[k] = plan[k + 1]
    BY <2>1, <2>2
  <2>4. CASE plan' = <<>>
    <3>1. Len(plan) = 1
      BY <2>3, <2>4
    <3> QED BY <2>1, <2>3, <2>4, <3>1 DEF Settled
  <2>5. CASE plan' # <<>>
    <3>1. plan' \in Seq(RouterState)
      BY <2>1, <2>2
    <3>2. Len(plan') \in 1 .. Len(plan') /\ Len(plan') + 1 = Len(plan)
      BY <2>3, <2>5, <3>1
    <3> QED BY <2>1, <2>3, <2>5, <3>2 DEF Settled
  <2> QED BY <2>4, <2>5
<1>3. CASE Reader \/ UNCHANGED vars
  <2>1. UNCHANGED <<snr, plan>>
    BY <1>3 DEF Reader, Begin, Scan, Copy, Copied, Decide, vars
  <2> QED BY <2>1 DEF Settled
<1> QED BY <1>1, <1>2, <1>3

\* However its stores are ordered, what a call leaves is what Router lets
\* sn_net_router_add or sn_net_router_remove leave.
THEOREM RaceWritesAreAtomic == Spec => WritesAreAtomic
<1> DEFINE atomic == Settled' # Settled => Atomic!Next
<1>1. Init => Atomic!Init
  <2> SUFFICES ASSUME Init PROVE Atomic!Init
    OBVIOUS
  <2>1. Settled = RouterInit(Self, Net) /\ Net \in Nets
    BY RaceAssumption DEF Init, Settled
  <2> QED BY <2>1, SameInit DEF Atomic!Init
<1>2. RaceInv /\ [Next]_vars => atomic
  <2> SUFFICES ASSUME RaceInv, [Next]_vars, Settled' # Settled PROVE Atomic!Next
    OBVIOUS
  <2>1. PlanInv
    BY DEF RaceInv
  <2>2. \/ \E addr \in Peers : Remove(addr)
        \/ \E addr \in Peers, net \in Nets : Add(addr, net)
    BY <2>1, OthersSettleNothing DEF Next, Writer
  <2> QED BY <2>1, <2>2, AddIsAtomic, RemoveIsAtomic DEF Atomic!Next
<1> HIDE DEF atomic
<1>3. Spec => [][atomic]_vars
  BY <1>2, RaceInvariant, PTL DEF Spec
<1>4. Spec => Atomic!Init
  BY <1>1 DEF Spec
<1> QED BY <1>3, <1>4 DEF atomic, WritesAreAtomic

-----------------------------------------------------------------------------
(* A read that no write overlaps                                           *)

\* What sn_net_entry_closest finds among the candidates of a scan.
Candidates(r, scan) == [i \in DOMAIN scan.in |-> EntryAt(r, scan.in[i])]

Result(r, scan, dst) == Closest(dst, Candidates(r, scan), Self, scan.min)

\* Some of the scans are done, those that are left come after them.
ReadAlong(r, all, dst, scans, bests) ==
  /\ Len(bests) + Len(scans) = Len(all) + 1
  /\ bests[1] = r.self
  /\ \A i \in 1 .. Len(bests) - 1 : bests[i + 1] = Result(r, all[i], dst)
  /\ \A i \in 1 .. Len(scans) : scans[i] = all[Len(bests) - 1 + i]

OnLeafset(r, dst, scans, bests) ==
  TRUE \in OnRange(r, dst) /\ ReadAlong(r, LeafsetScans, dst, scans, bests)

OnTable(r, dst, scans, bests) ==
  /\ FALSE \in OnRange(r, dst)
  /\ SlotOf(r, dst) \in Slot /\ ~r.table[SlotOf(r, dst)].is_set
  /\ ReadAlong(r, TableScans(SlotOf(r, dst)[1]), dst, scans, bests)

OnCourse(r, dst, scans, bests) ==
  OnLeafset(r, dst, scans, bests) \/ OnTable(r, dst, scans, bests)

\* The answer is the entry of the slot for the destination.
InTable(r, dst) ==
  FALSE \in OnRange(r, dst) /\ SlotOf(r, dst) \in Slot /\ r.table[SlotOf(r, dst)].is_set

(***************************************************************************)
(* As long as nobody writes, what was copied is what the router holds, and *)
(* what was found is what sn_net_entry_closest finds at once.              *)
(***************************************************************************)
QuietInv ==
  Reading /\ ~dirty =>
    /\ plan = <<>>
    /\ reader.at = "scan" => OnCourse(snr, reader.dst, reader.scans, reader.bests)
    /\ reader.at = "copy" =>
         /\ \A c \in Compared \ reader.left :
              CellOf(reader.copy, c) = CellOf(EntryAt(snr, reader.from), c)
         /\ reader.bests = <<>> => InTable(snr, reader.dst)
         /\ reader.bests # <<>> =>
              OnCourse(snr, reader.dst, reader.scans,
                       Append(reader.bests, EntryAt(snr, reader.from)))

\* A scan by steps finds what sn_net_entry_closest returns.
LEMMA FoundIsResult ==
  ASSUME SoundRouter(snr), NEW scan \in Scans, NEW dst \in Address
  PROVE  /\ Result(snr, scan, dst) \in Entry
         /\ Found(scan, dst) = {} => Result(snr, scan, dst) = Unset
         /\ \A p \in Found(scan, dst) : EntryAt(snr, p) = Result(snr, scan, dst)
<1> DEFINE cands == Candidates(snr, scan)
           n     == Len(scan.in)
           fit   == Fit(cands, Self, scan.min)
           near  == Near(dst, cands, fit)
<1>1. scan.in \in Seq(Places) /\ scan.min \in Nat /\ Self \in Address
  BY RaceAssumption DEF Scans
<1>2. n \in Nat /\ DOMAIN scan.in = 1 .. n /\ \A i \in 1 .. n : scan.in[i] \in Places
  BY <1>1
<1>3. /\ cands \in [1 .. n -> Entry]
      /\ \A i \in 1 .. n : cands[i] = EntryAt(snr, scan.in[i])
  BY <1>2, EntryAtType DEF SoundRouter, Candidates
<1>4. Result(snr, scan, dst) = Closest(dst, cands, Self, scan.min)
  BY DEF Result
<1>5. fit = {i \in DOMAIN scan.in : Fits(scan.in[i], scan.min)}
  BY <1>2, <1>3 DEF Fit, Fits
<1>6. near = {i \in fit : \A j \in fit :
                ~Before(Dist(EntryAt(snr, scan.in[j]).addr, dst),
                        Dist(EntryAt(snr, scan.in[i]).addr, dst))}
  <2>1. fit \subseteq 1 .. n
    BY <1>2, <1>5
  <2>2. \A i \in fit : cands[i] = EntryAt(snr, scan.in[i])
    BY <1>3, <2>1
  <2> HIDE DEF cands, fit
  <2> QED BY <2>2 DEF Near
<1>7. Found(scan, dst) = {scan.in[i] : i \in {k \in near : \A m \in near : k <= m}}
  <2> HIDE DEF near, fit
  <2> QED BY <1>5, <1>6 DEF Found
<1> HIDE DEF cands, n
<1>8. Closest(dst, cands, Self, scan.min) \in Entry
  BY <1>1, <1>2, <1>3, ClosestIsFit
<1>9. CASE fit = {}
  <2>1. Closest(dst, cands, Self, scan.min) = Unset
    BY <1>9 DEF Closest, Fit
  <2>2. near = {}
    BY <1>9 DEF Near
  <2> HIDE DEF near, fit
  <2>3. Found(scan, dst) = {}
    BY <1>7, <2>2
  <2> QED BY <1>4, <1>8, <2>1, <2>3
<1>10. CASE fit # {}
  <2>1. PICK i \in near : /\ \A j \in near : i <= j
                          /\ Closest(dst, cands, Self, scan.min) = cands[i]
    BY <1>1, <1>2, <1>3, <1>10, ClosestFacts
  <2>2. near \subseteq 1 .. n
    BY <1>2, <1>5 DEF Near
  <2> HIDE DEF near, fit
  <2>3. {k \in near : \A m \in near : k <= m} = {i}
    <3>1. \A k \in near : i <= k /\ k \in Int
      BY <1>2, <2>1, <2>2
    <3>2. ASSUME NEW k \in near, \A m \in near : k <= m PROVE k = i
      <4>1. k <= i /\ i <= k /\ k \in Int /\ i \in Int
        BY <2>1, <3>1, <3>2
      <4> QED BY <4>1
    <3>3. \A m \in near : i <= m
      BY <3>1
    <3> QED BY <2>1, <3>2, <3>3
  <2>4. Found(scan, dst) = {scan.in[i]}
    BY <1>7, <2>3
  <2>5. EntryAt(snr, scan.in[i]) = cands[i]
    BY <1>3, <2>1, <2>2
  <2> QED BY <1>4, <1>8, <2>1, <2>4, <2>5
<1> QED BY <1>9, <1>10

\* A scan is done.
LEMMA ScanDone ==
  ASSUME NEW r, NEW all \in Seq(Scans), NEW dst, NEW scans \in Seq(Scans), scans # <<>>,
         NEW bests \in Seq(Entry), bests # <<>>, NEW e \in Entry,
         ReadAlong(r, all, dst, scans, bests), e = Result(r, Head(scans), dst)
  PROVE  ReadAlong(r, all, dst, Tail(scans), Append(bests, e))
<1> DEFINE more == Append(bests, e)
           rest == Tail(scans)
           m    == Len(bests)
<1>1. m \in Nat \ {0} /\ Len(scans) \in Nat \ {0} /\ Len(all) \in Nat
  <2>1. /\ \A t \in Seq(Entry) : Len(t) = 0 => t = <<>>
        /\ \A t \in Seq(Scans) : Len(t) = 0 => t = <<>>
    OBVIOUS
  <2>2. m \in Nat /\ Len(scans) \in Nat /\ Len(all) \in Nat
    OBVIOUS
  <2> QED BY <2>1, <2>2
<1>2. /\ Len(more) = m + 1 /\ more[m + 1] = e
      /\ \A i \in 1 .. m : more[i] = bests[i]
  OBVIOUS
<1>3. /\ Len(rest) = Len(scans) - 1 /\ Head(scans) = scans[1]
      /\ \A i \in 1 .. Len(rest) : rest[i] = scans[i + 1]
  BY <1>1
<1> HIDE DEF more, rest, m
<1>4. /\ m + Len(scans) = Len(all) + 1
      /\ bests[1] = r.self
      /\ \A i \in 1 .. m - 1 : bests[i + 1] = Result(r, all[i], dst)
      /\ \A i \in 1 .. Len(scans) : scans[i] = all[m - 1 + i]
  BY DEF ReadAlong, m
<1>5. Len(more) + Len(rest) = Len(all) + 1 /\ more[1] = r.self
  <2>1. Len(more) + Len(rest) = Len(all) + 1
    BY <1>1, <1>2, <1>3, <1>4
  <2>2. 1 \in 1 .. m
    BY <1>1
  <2>3. more[1] = r.self
    BY <1>2, <1>4, <2>2
  <2> QED BY <2>1, <2>3
<1>6. ASSUME NEW i \in 1 .. Len(more) - 1 PROVE more[i + 1] = Result(r, all[i], dst)
  <2>1. CASE i = m
    <3>1. scans[1] = all[m - 1 + 1] /\ m - 1 + 1 = m
      BY <1>1, <1>4
    <3> QED BY <1>2, <1>3, <2>1, <3>1
  <2>2. CASE i # m
    <3>1. i \in 1 .. m - 1 /\ i + 1 \in 1 .. m
      BY <1>1, <1>2, <2>2
    <3> QED BY <1>2, <1>4, <3>1
  <2> QED BY <2>1, <2>2
<1>7. ASSUME NEW i \in 1 .. Len(rest) PROVE rest[i] = all[Len(more) - 1 + i]
  <2>1. i + 1 \in 1 .. Len(scans) /\ m - 1 + (i + 1) = Len(more) - 1 + i
    BY <1>1, <1>2, <1>3
  <2>2. rest[i] = scans[i + 1] /\ scans[i + 1] = all[m - 1 + (i + 1)]
    BY <1>3, <1>4, <2>1
  <2> QED BY <2>1, <2>2
<1>8. ReadAlong(r, all, dst, rest, more)
  BY <1>5, <1>6, <1>7 DEF ReadAlong
<1> QED BY <1>8 DEF more, rest

\* So it is on the way to an answer, whichever the scans are.
LEMMA ScanDoneOnCourse ==
  ASSUME NEW r, NEW dst, NEW scans \in Seq(Scans), scans # <<>>,
         NEW bests \in Bests, NEW e \in Entry,
         OnCourse(r, dst, scans, bests), e = Result(r, Head(scans), dst)
  PROVE  OnCourse(r, dst, Tail(scans), Append(bests, e))
<1>1. bests \in Seq(Entry) /\ bests # <<>>
  BY DEF Bests
<1>2. CASE OnLeafset(r, dst, scans, bests)
  <2>1. ReadAlong(r, LeafsetScans, dst, Tail(scans), Append(bests, e))
    BY <1>1, <1>2, ScansType, ScanDone DEF OnLeafset
  <2> QED BY <1>2, <2>1 DEF OnLeafset, OnCourse
<1>3. CASE OnTable(r, dst, scans, bests)
  <2>1. SlotOf(r, dst)[1] \in 0 .. HexLen - 1
    BY <1>3 DEF OnTable, Slot
  <2>2. TableScans(SlotOf(r, dst)[1]) \in Seq(Scans)
    BY <2>1, ScansType
  <2>3. ReadAlong(r, TableScans(SlotOf(r, dst)[1]), dst, Tail(scans), Append(bests, e))
    BY <1>1, <1>3, <2>2, ScanDone DEF OnTable
  <2> QED BY <1>3, <2>3 DEF OnTable, OnCourse
<1> QED BY <1>2, <1>3 DEF OnCourse

\* With all the scans done the candidates are those of sn_net_router_nexthop.
LEMMA SideResult ==
  ASSUME SoundRouter(snr), NEW dst, NEW level
  PROVE  /\ Result(snr, [in |-> LeafPlaces("left"), min |-> level], dst)
              = Closest(dst, snr.left, snr.self.addr, level)
         /\ Result(snr, [in |-> LeafPlaces("right"), min |-> level], dst)
              = Closest(dst, snr.right, snr.self.addr, level)
         /\ Result(snr, [in |-> RowPlaces(level), min |-> 0], dst)
              = Closest(dst, Row(snr, level), snr.self.addr, 0)
<1>1. /\ snr.left = [i \in 1 .. LeafsetSize |-> snr.left[i]]
      /\ snr.right = [i \in 1 .. LeafsetSize |-> snr.right[i]]
  BY DEF SoundRouter, RouterState, Leafset
<1>2. snr.self.addr = Self
  BY EntryTypes, RaceAssumption DEF SoundRouter
<1>3. Candidates(snr, [in |-> LeafPlaces("left"), min |-> level]) = snr.left
  <2>1. Candidates(snr, [in |-> LeafPlaces("left"), min |-> level])
          = [i \in 1 .. LeafsetSize |-> snr.left[i]]
    BY DEF Candidates, LeafPlaces, EntryAt
  <2> QED BY <1>1, <2>1
<1>4. Candidates(snr, [in |-> LeafPlaces("right"), min |-> level]) = snr.right
  <2>1. Candidates(snr, [in |-> LeafPlaces("right"), min |-> level])
          = [i \in 1 .. LeafsetSize |-> snr.right[i]]
    BY DEF Candidates, LeafPlaces, EntryAt
  <2> QED BY <1>1, <2>1
<1>5. Candidates(snr, [in |-> RowPlaces(level), min |-> 0]) = Row(snr, level)
  BY DEF Candidates, RowPlaces, EntryAt, Row
<1> QED BY <1>2, <1>3, <1>4, <1>5 DEF Result

\* So the best of them is its answer.
LEMMA AllScansDone ==
  ASSUME SoundRouter(snr), NEW dst, NEW bests \in Bests, OnCourse(snr, dst, <<>>, bests)
  PROVE  Best(snr, dst, bests) \in Nexthops(snr, dst)
<1>1. bests \in Seq(Entry) /\ Len(<<>>) = 0
  BY DEF Bests
<1>2. CASE OnLeafset(snr, dst, <<>>, bests)
  <2>1. ReadAlong(snr, LeafsetScans, dst, <<>>, bests) /\ TRUE \in OnRange(snr, dst)
    BY <1>2 DEF OnLeafset
  <2>2. Len(LeafsetScans) = 2
    BY DEF LeafsetScans
  <2>3. Len(bests) = 3
    BY <1>1, <2>1, <2>2 DEF ReadAlong
  <2>4. bests = <<bests[1], bests[2], bests[3]>>
    BY <1>1, <2>3
  <2>5. /\ bests[1] = snr.self
        /\ bests[1 + 1] = Result(snr, LeafsetScans[1], dst)
        /\ bests[2 + 1] = Result(snr, LeafsetScans[2], dst)
    BY <2>1, <2>3 DEF ReadAlong
  <2>6. /\ LeafsetScans[1] = [in |-> LeafPlaces("left"), min |-> 0]
        /\ LeafsetScans[2] = [in |-> LeafPlaces("right"), min |-> 0]
    BY DEF LeafsetScans
  <2>7. /\ bests[2] = Closest(dst, snr.left, snr.self.addr, 0)
        /\ bests[3] = Closest(dst, snr.right, snr.self.addr, 0)
    <3>1. 1 + 1 = 2 /\ 2 + 1 = 3
      OBVIOUS
    <3>2. bests[2] = Closest(dst, snr.left, snr.self.addr, 0)
      BY <2>5, <2>6, <3>1, SideResult
    <3>3. bests[3] = Closest(dst, snr.right, snr.self.addr, 0)
      BY <2>5, <2>6, <3>1, SideResult
    <3> QED BY <3>2, <3>3
  <2>8. bests = <<snr.self, Closest(dst, snr.left, snr.self.addr, 0),
                            Closest(dst, snr.right, snr.self.addr, 0)>>
    BY <2>4, <2>5, <2>7
  <2>9. Best(snr, dst, bests) = LeafsetHop(snr, dst)
    BY <2>8 DEF LeafsetHop
  <2> QED BY <2>1, <2>9 DEF Nexthops
<1>3. CASE OnTable(snr, dst, <<>>, bests)
  <2> DEFINE level == SlotOf(snr, dst)[1]
  <2>1. /\ ReadAlong(snr, TableScans(level), dst, <<>>, bests)
        /\ FALSE \in OnRange(snr, dst)
        /\ SlotOf(snr, dst) \in Slot /\ ~snr.table[SlotOf(snr, dst)].is_set
    BY <1>3 DEF OnTable
  <2>2. level = Level(snr.self.addr, dst)
    BY DEF SlotOf
  <2> HIDE DEF level
  <2>3. Len(TableScans(level)) = 3
    BY DEF TableScans
  <2>4. Len(bests) = 4
    BY <1>1, <2>1, <2>3 DEF ReadAlong
  <2>5. bests = <<bests[1], bests[2], bests[3], bests[4]>>
    BY <1>1, <2>4
  <2>6. /\ bests[1] = snr.self
        /\ bests[1 + 1] = Result(snr, TableScans(level)[1], dst)
        /\ bests[2 + 1] = Result(snr, TableScans(level)[2], dst)
        /\ bests[3 + 1] = Result(snr, TableScans(level)[3], dst)
    BY <2>1, <2>4 DEF ReadAlong
  <2>7. /\ TableScans(level)[1] = [in |-> RowPlaces(level), min |-> 0]
        /\ TableScans(level)[2] = [in |-> LeafPlaces("left"), min |-> level]
        /\ TableScans(level)[3] = [in |-> LeafPlaces("right"), min |-> level]
    BY DEF TableScans
  <2>8. /\ bests[2] = Closest(dst, Row(snr, level), snr.self.addr, 0)
        /\ bests[3] = Closest(dst, snr.left, snr.self.addr, level)
        /\ bests[4] = Closest(dst, snr.right, snr.self.addr, level)
    BY <2>6, <2>7, SideResult
  <2>9. bests = <<snr.self, Closest(dst, Row(snr, level), snr.self.addr, 0),
                            Closest(dst, snr.left, snr.self.addr, level),
                            Closest(dst, snr.right, snr.self.addr, level)>>
    BY <2>5, <2>6, <2>8
  <2>10. Best(snr, dst, bests) = TableHop(snr, dst)
    BY <2>1, <2>2, <2>9 DEF TableHop
  <2> QED BY <2>1, <2>10 DEF Nexthops
<1> QED BY <1>2, <1>3 DEF OnCourse

\* Before the first scan.
LEMMA CourseSet ==
  ASSUME NEW r, NEW all \in Seq(Scans), NEW dst
  PROVE  ReadAlong(r, all, dst, all, <<r.self>>)
<1>1. Len(<<r.self>>) = 1 /\ <<r.self>>[1] = r.self /\ Len(all) \in Nat
  OBVIOUS
<1> QED BY <1>1 DEF ReadAlong

\* What sn_net_router_nexthop looks at first chooses the scans.
LEMMA BeginIsQuiet ==
  ASSUME PlanInv, NEW dst \in Wanted, Begin(dst)
  PROVE  QuietInv'
<1> DEFINE slot  == SlotOf(snr, dst)
           whole == SlotOf(snr, snr.table[slot].addr) = slot
<1>1. snr' = snr /\ plan' = plan /\ (~dirty' => plan = <<>>)
  BY DEF Begin
<1>2. \A on \in OnRange(snr, dst) : on \in BOOLEAN
  BY DEF OnRange
<1> SUFFICES ASSUME plan = <<>> PROVE QuietInv'
  BY <1>1 DEF QuietInv
<1>3. PICK on \in OnRange(snr, dst) :
        reader' =
          CASE on -> Scanning(dst, LeafsetScans, <<snr.self>>)
            [] ~on /\ slot \notin Slot ->
                 Answered([snr.self EXCEPT !.is_set = FALSE], dst, FALSE, FALSE)
            [] ~on /\ slot \in Slot /\ snr.table[slot].is_set ->
                 Copying(dst, <<>>, <<>>, <<"table", slot>>, Compared, Unset, whole)
            [] OTHER -> Scanning(dst, TableScans(slot[1]), <<snr.self>>)
  BY DEF Begin
<1>4. on \in BOOLEAN
  BY <1>2
<1>5. on => on = TRUE
  BY <1>4
<1>6. ~on => on = FALSE
  BY <1>4
<1>7. CASE on
  <2>1. reader' = Scanning(dst, LeafsetScans, <<snr.self>>)
    BY <1>3, <1>7
  <2>2. OnCourse(snr, dst, LeafsetScans, <<snr.self>>)
    BY <1>5, <1>7, ScansType, CourseSet DEF OnCourse, OnLeafset
  <2>3. /\ reader'.at = "scan" /\ reader'.dst = dst /\ reader'.scans = LeafsetScans
        /\ reader'.bests = <<snr.self>>
    BY <2>1 DEF Scanning
  <2> QED BY <1>1, <2>2, <2>3 DEF QuietInv
<1>8. CASE ~on /\ slot \notin Slot
  <2>1. reader' = Answered([snr.self EXCEPT !.is_set = FALSE], dst, FALSE, FALSE)
    <3> HIDE DEF slot, whole
    <3> QED BY <1>3, <1>8
  <2>2. reader'.at = "answered"
    BY <2>1 DEF Answered
  <2> QED BY <2>2 DEF QuietInv, Reading
<1>9. CASE ~on /\ slot \in Slot /\ snr.table[slot].is_set
  <2>1. reader' = Copying(dst, <<>>, <<>>, <<"table", slot>>, Compared, Unset, whole)
    <3> HIDE DEF slot, whole
    <3> QED BY <1>3, <1>9
  <2>2. InTable(snr, dst)
    BY <1>6, <1>9 DEF InTable
  <2>3. /\ reader'.at = "copy" /\ reader'.dst = dst /\ reader'.bests = <<>>
        /\ reader'.left = Compared
    BY <2>1 DEF Copying
  <2> QED BY <1>1, <2>2, <2>3 DEF QuietInv
<1>10. CASE ~on /\ slot \in Slot /\ ~snr.table[slot].is_set
  <2>1. reader' = Scanning(dst, TableScans(slot[1]), <<snr.self>>)
    <3> HIDE DEF slot, whole
    <3> QED BY <1>3, <1>10
  <2>2. TableScans(slot[1]) \in Seq(Scans)
    <3>1. slot[1] \in 0 .. HexLen - 1
      BY <1>10 DEF Slot
    <3> QED BY <3>1, ScansType
  <2>3. OnCourse(snr, dst, TableScans(slot[1]), <<snr.self>>)
    BY <1>6, <1>10, <2>2, CourseSet DEF OnCourse, OnTable
  <2>4. /\ reader'.at = "scan" /\ reader'.dst = dst /\ reader'.scans = TableScans(slot[1])
        /\ reader'.bests = <<snr.self>>
    BY <2>1 DEF Scanning
  <2> HIDE DEF slot
  <2> QED BY <1>1, <2>3, <2>4 DEF QuietInv
<1> QED BY <1>7, <1>8, <1>9, <1>10

\* A scan finds what sn_net_entry_closest returns.
LEMMA ScanIsQuiet ==
  ASSUME RaceInv, QuietInv, Scan
  PROVE  QuietInv'
<1> DEFINE scan == Head(reader.scans)
           rest == Tail(reader.scans)
           found == Found(scan, reader.dst)
<1>1. /\ reader.at = "scan" /\ reader.scans # <<>>
      /\ snr' = snr /\ plan' = plan /\ dirty' = dirty
  BY DEF Scan
<1> SUFFICES ASSUME ~dirty PROVE QuietInv'
  BY <1>1 DEF QuietInv
<1>2. /\ reader.dst \in Address /\ reader.bests \in Bests /\ reader.scans \in Seq(Scans)
  BY <1>1 DEF RaceInv, ReaderInv
<1>3. plan = <<>> /\ OnCourse(snr, reader.dst, reader.scans, reader.bests) /\ SoundRouter(snr)
  BY <1>1 DEF QuietInv, Reading, RaceInv, PlanInv
<1>4. scan \in Scans
  BY <1>1, <1>2
<1>5. /\ Result(snr, scan, reader.dst) \in Entry
      /\ found = {} => Result(snr, scan, reader.dst) = Unset
      /\ \A p \in found : EntryAt(snr, p) = Result(snr, scan, reader.dst)
  BY <1>2, <1>3, <1>4, FoundIsResult
<1>6. OnCourse(snr, reader.dst, rest, Append(reader.bests, Result(snr, scan, reader.dst)))
  BY <1>1, <1>2, <1>3, <1>5, ScanDoneOnCourse
<1>7. \/ found = {} /\ reader' = Scanning(reader.dst, rest, Append(reader.bests, Unset))
      \/ \E p \in found :
           reader' = Copying(reader.dst, rest, reader.bests, p, Compared, Unset, FALSE)
  <2>1. PICK p \in Finds(scan, reader.dst) :
          reader' = IF p = Nowhere
                    THEN Scanning(reader.dst, rest, Append(reader.bests, Unset))
                    ELSE Copying(reader.dst, rest, reader.bests, p, Compared, Unset, FALSE)
    BY DEF Scan
  <2>2. CASE found = {}
    BY <2>1, <2>2 DEF Finds
  <2>3. CASE found # {}
    <3>1. p \in found
      BY <2>1, <2>3 DEF Finds
    <3>2. \A q \in Places : q # Nowhere
      BY DEF Places, Nowhere
    <3>3. p \in Places
      <4>1. \A i \in DOMAIN scan.in : scan.in[i] \in Places
        BY <1>4 DEF Scans
      <4> QED BY <3>1, <4>1 DEF Found
    <3> HIDE DEF scan, rest, found
    <3> QED BY <2>1, <3>1, <3>2, <3>3
  <2> QED BY <2>2, <2>3
<1> HIDE DEF scan, rest, found
<1>8. CASE found = {} /\ reader' = Scanning(reader.dst, rest, Append(reader.bests, Unset))
  <2>1. OnCourse(snr, reader.dst, rest, Append(reader.bests, Unset))
    BY <1>5, <1>6, <1>8
  <2>2. /\ reader'.at = "scan" /\ reader'.dst = reader.dst /\ reader'.scans = rest
        /\ reader'.bests = Append(reader.bests, Unset)
    BY <1>8 DEF Scanning
  <2> QED BY <1>1, <1>3, <2>1, <2>2 DEF QuietInv
<1>9. ASSUME NEW p \in found,
             reader' = Copying(reader.dst, rest, reader.bests, p, Compared, Unset, FALSE)
      PROVE  QuietInv'
  <2>1. /\ reader'.at = "copy" /\ reader'.dst = reader.dst /\ reader'.scans = rest
        /\ reader'.bests = reader.bests /\ reader'.from = p /\ reader'.left = Compared
    BY <1>9 DEF Copying
  <2>2. Compared \ reader'.left = {}
    BY <2>1
  <2>3. OnCourse(snr, reader.dst, rest, Append(reader.bests, EntryAt(snr, p)))
    BY <1>5, <1>6
  <2>4. reader.bests # <<>>
    BY <1>2 DEF Bests
  <2> QED BY <1>1, <1>3, <2>1, <2>2, <2>3, <2>4 DEF QuietInv
<1> QED BY <1>7, <1>8, <1>9

\* One more cell of the entry that was found.
LEMMA CellCopied ==
  ASSUME NEW e \in Entry, NEW g \in Entry, NEW c \in Compared, NEW d \in Compared
  PROVE  CellOf(WithCell(e, c, CellOf(g, c)), d) = IF c = d THEN CellOf(g, d) ELSE CellOf(e, d)
<1> DEFINE w == WithCell(e, c, CellOf(g, c))
<1>1. w \in Entry /\ Mixed(w, e, g, c)
  BY CellStored DEF Cells
<1> HIDE DEF w
<1>2. ASSUME d = <<"is_set", 0>>
      PROVE  CellOf(w, d) = IF c = d THEN CellOf(g, d) ELSE CellOf(e, d)
  BY <1>1, <1>2, CellFacts DEF Mixed
<1>3. ASSUME d \in {"addr"} \X (1 .. AddrLen)
      PROVE  CellOf(w, d) = IF c = d THEN CellOf(g, d) ELSE CellOf(e, d)
  <2>1. PICK i \in 1 .. AddrLen : d = <<"addr", i>>
    BY <1>3
  <2> QED BY <1>1, <2>1, CellFacts DEF Mixed
<1>4. CellOf(w, d) = IF c = d THEN CellOf(g, d) ELSE CellOf(e, d)
  BY <1>2, <1>3 DEF Compared
<1> QED BY <1>4 DEF w

LEMMA CopyIsQuiet ==
  ASSUME RaceInv, QuietInv, Copy
  PROVE  QuietInv'
<1>1. reader.at = "copy" /\ snr' = snr /\ plan' = plan /\ dirty' = dirty
  BY DEF Copy
<1> SUFFICES ASSUME ~dirty PROVE QuietInv'
  BY <1>1 DEF QuietInv
<1> DEFINE from == EntryAt(snr, reader.from)
<1>2. PICK c \in reader.left :
         reader' = [reader EXCEPT !.left = @ \ {c}, !.copy = WithCell(@, c, CellOf(from, c))]
  BY DEF Copy
<1>3. reader \in Copies
  BY <1>1 DEF RaceInv, ReaderInv
<1> DEFINE copy == WithCell(reader.copy, c, CellOf(from, c))
<1>4. /\ reader'.at = "copy" /\ reader'.dst = reader.dst /\ reader'.scans = reader.scans
      /\ reader'.bests = reader.bests /\ reader'.from = reader.from
      /\ reader'.left = reader.left \ {c} /\ reader'.copy = copy
  BY <1>2, <1>3 DEF Copies
<1>5. /\ plan = <<>>
      /\ \A d \in Compared \ reader.left : CellOf(reader.copy, d) = CellOf(from, d)
      /\ reader.bests = <<>> => InTable(snr, reader.dst)
      /\ reader.bests # <<>> =>
           OnCourse(snr, reader.dst, reader.scans, Append(reader.bests, from))
  BY <1>1 DEF QuietInv, Reading
<1>6. from \in Entry /\ reader.copy \in Entry /\ c \in Compared
  BY <1>3, EntryAtType DEF RaceInv, PlanInv, TornRouter, Copies
<1>7. \A d \in Compared \ reader'.left : CellOf(copy, d) = CellOf(from, d)
  <2> HIDE DEF from
  <2> QED BY <1>4, <1>5, <1>6, CellCopied
<1>8. EntryAt(snr, reader.from)' = from
  BY <1>1, <1>4
<1> HIDE DEF from, copy
<1> QED BY <1>1, <1>4, <1>5, <1>7, <1>8 DEF QuietInv

\* The copy is complete.
LEMMA CopyIsEntry ==
  ASSUME NEW e \in Entry, NEW g \in Entry, \A c \in Compared : CellOf(e, c) = CellOf(g, c)
  PROVE  [e EXCEPT !.net_addr = g.net_addr] = g
<1>1. e.is_set = g.is_set
  BY CellFacts DEF Compared
<1>2. \A i \in 1 .. AddrLen : e.addr[i] = g.addr[i]
  <2> SUFFICES ASSUME NEW i \in 1 .. AddrLen PROVE e.addr[i] = g.addr[i]
    OBVIOUS
  <2>1. <<"addr", i>> \in Compared
    BY DEF Compared
  <2>2. CellOf(e, <<"addr", i>>) = e.addr[i] /\ CellOf(g, <<"addr", i>>) = g.addr[i]
    BY CellFacts
  <2> QED BY <2>1, <2>2
<1>3. e.addr = g.addr
  <2>1. e.addr \in Address /\ g.addr \in Address
    BY DEF Entry
  <2> QED BY <1>2, <2>1, SameAddress
<1>4. /\ e = [is_set |-> e.is_set, addr |-> e.addr, net_addr |-> e.net_addr]
      /\ g = [is_set |-> g.is_set, addr |-> g.addr, net_addr |-> g.net_addr]
  BY DEF Entry
<1> QED BY <1>1, <1>3, <1>4

\* A copy made while nobody writes is the entry.
LEMMA CopiedEntry ==
  ASSUME RaceInv, QuietInv, Copied, ~dirty
  PROVE  LET copy == EntryAt(snr, reader.from)
         IN  /\ plan = <<>>
             /\ reader.bests = <<>> =>
                  /\ InTable(snr, reader.dst)
                  /\ reader' = Answered(copy, reader.dst, TRUE, reader.placed)
             /\ reader.bests # <<>> =>
                  /\ OnCourse(snr, reader.dst, reader.scans, Append(reader.bests, copy))
                  /\ reader' = Scanning(reader.dst, reader.scans, Append(reader.bests, copy))
<1> DEFINE entry == EntryAt(snr, reader.from)
           copy  == [reader.copy EXCEPT !.net_addr = entry.net_addr]
<1>1. reader.at = "copy" /\ reader.left = {}
  BY DEF Copied
<1>2. reader.from \in Places /\ reader.copy \in Entry /\ snr \in RouterState
  BY <1>1 DEF RaceInv, ReaderInv, PlanInv, TornRouter, Copies
<1>3. entry \in Entry
  BY <1>2, EntryAtType
<1>4. /\ plan = <<>>
      /\ \A c \in Compared : CellOf(reader.copy, c) = CellOf(entry, c)
      /\ reader.bests = <<>> => InTable(snr, reader.dst)
      /\ reader.bests # <<>> =>
           OnCourse(snr, reader.dst, reader.scans, Append(reader.bests, entry))
  BY <1>1 DEF QuietInv, Reading
<1>5. reader' = IF reader.bests = <<>>
                THEN Answered(copy, reader.dst, TRUE, reader.placed)
                ELSE Scanning(reader.dst, reader.scans, Append(reader.bests, copy))
  BY DEF Copied, NetAddressRead
<1>6. copy = entry
  <2> HIDE DEF entry
  <2> QED BY <1>2, <1>3, <1>4, CopyIsEntry
<1> HIDE DEF copy
<1> QED BY <1>4, <1>5, <1>6

\* The copy is one more candidate, or the answer.
LEMMA CopiedIsQuiet ==
  ASSUME RaceInv, QuietInv, Copied
  PROVE  QuietInv'
<1>1. snr' = snr /\ plan' = plan /\ dirty' = dirty
  BY DEF Copied
<1> SUFFICES ASSUME ~dirty PROVE QuietInv'
  BY <1>1 DEF QuietInv
<1>2. CASE reader.bests = <<>>
  <2>1. reader'.at = "answered"
    BY <1>2, CopiedEntry DEF Answered
  <2> QED BY <2>1 DEF QuietInv, Reading
<1>3. CASE reader.bests # <<>>
  <2> DEFINE copy == EntryAt(snr, reader.from)
  <2>1. /\ plan = <<>>
        /\ reader' = Scanning(reader.dst, reader.scans, Append(reader.bests, copy))
        /\ OnCourse(snr, reader.dst, reader.scans, Append(reader.bests, copy))
    BY <1>3, CopiedEntry
  <2> HIDE DEF copy
  <2>2. /\ reader'.at = "scan" /\ reader'.dst = reader.dst /\ reader'.scans = reader.scans
        /\ reader'.bests = Append(reader.bests, copy)
    BY <2>1 DEF Scanning
  <2> QED BY <1>1, <2>1, <2>2 DEF QuietInv
<1> QED BY <1>2, <1>3

\* A write that begins during a read makes it dirty at once.
LEMMA QuietInductive ==
  /\ Init => QuietInv
  /\ RaceInv /\ QuietInv /\ [Next]_vars => QuietInv'
<1>1. ASSUME Init PROVE QuietInv
  BY <1>1 DEF Init, Idle, QuietInv, Reading
<1>2. ASSUME RaceInv, QuietInv, [Next]_vars PROVE QuietInv'
  <2>1. CASE UNCHANGED vars
    BY <1>2, <2>1 DEF vars, QuietInv, Reading
  <2>2. CASE Writer
    <3>1. reader' = reader /\ Reading' = Reading
      BY <2>2 DEF Writer, Add, Remove, Call, Store, StoredAll, Reading
    <3>2. \/ dirty' = Reading
          \/ plan # <<>> /\ dirty' = dirty
      BY <2>2 DEF Writer, Add, Remove, Call, Store, StoredAll
    <3>3. Reading /\ ~dirty => plan = <<>>
      BY <1>2 DEF QuietInv
    <3>4. Reading => dirty'
      BY <1>2, <3>2, <3>3 DEF RaceInv, ReaderInv
    <3> QED BY <3>1, <3>4 DEF QuietInv
  <2>3. CASE Decide
    <3>1. reader'.at = "answered"
      BY <2>3 DEF Decide, Answered
    <3> QED BY <3>1 DEF QuietInv, Reading
  <2> QED BY <1>2, <2>1, <2>2, <2>3, BeginIsQuiet, ScanIsQuiet, CopyIsQuiet, CopiedIsQuiet
          DEF Next, Reader, RaceInv
<1> QED BY <1>1, <1>2

\* The answers of a quiet read are those of sn_net_router_nexthop.
LEMMA QuietAnswers ==
  ASSUME RaceInv, QuietInv, [Next]_vars,
         reader'.at = "answered", reader' # reader, ~dirty'
  PROVE  reader'.hop \in Nexthops(snr, reader'.dst)
<1>1. snr.self = Set(Self, Net) /\ (plan = <<>> => SoundRouter(snr)) /\ dirty \in BOOLEAN
  BY DEF RaceInv, PlanInv, TornRouter, ReaderInv
<1>2. ASSUME NEW dst \in Wanted, Begin(dst)
      PROVE  reader'.hop \in Nexthops(snr, reader'.dst)
  <2>1. plan = <<>>
    BY <1>2 DEF Begin
  <2>2. PICK on \in OnRange(snr, dst) :
          reader' =
            CASE on -> Scanning(dst, LeafsetScans, <<snr.self>>)
              [] ~on /\ SlotOf(snr, dst) \notin Slot ->
                   Answered([snr.self EXCEPT !.is_set = FALSE], dst, FALSE, FALSE)
              [] ~on /\ SlotOf(snr, dst) \in Slot /\ snr.table[SlotOf(snr, dst)].is_set ->
                   Copying(dst, <<>>, <<>>, <<"table", SlotOf(snr, dst)>>, Compared, Unset,
                           SlotOf(snr, snr.table[SlotOf(snr, dst)].addr) = SlotOf(snr, dst))
              [] OTHER -> Scanning(dst, TableScans(SlotOf(snr, dst)[1]), <<snr.self>>)
    BY <1>2, <2>1 DEF Begin
  <2>3. on \in BOOLEAN
    BY DEF OnRange
  <2>4. ~on /\ SlotOf(snr, dst) \notin Slot
    BY <2>2, <2>3 DEF Scanning, Copying
  <2>5. reader' = Answered([snr.self EXCEPT !.is_set = FALSE], dst, FALSE, FALSE)
    BY <2>2, <2>4
  <2>6. reader'.hop = TableHop(snr, dst) /\ reader'.dst = dst
    BY <2>4, <2>5 DEF Answered, TableHop
  <2> QED BY <2>3, <2>4, <2>6 DEF Nexthops
<1>3. CASE Copied
  <2> DEFINE copy == EntryAt(snr, reader.from)
  <2>1. ~dirty /\ reader.at = "copy"
    BY <1>3 DEF Copied
  <2>2. reader.bests = <<>>
    BY <1>3, <2>1, CopiedEntry DEF Scanning
  <2>3. /\ reader' = Answered(copy, reader.dst, TRUE, reader.placed)
        /\ InTable(snr, reader.dst)
    BY <1>3, <2>1, <2>2, CopiedEntry
  <2>4. reader.from = <<"table", SlotOf(snr, reader.dst)>>
    BY <1>1, <2>1, <2>2, HomeIsSlot DEF RaceInv, ReaderInv
  <2>5. copy = TableHop(snr, reader.dst)
    BY <2>3, <2>4 DEF EntryAt, InTable, TableHop
  <2> HIDE DEF copy
  <2>6. copy \in Nexthops(snr, reader.dst)
    BY <2>3, <2>5 DEF InTable, Nexthops
  <2> QED BY <2>3, <2>6 DEF Answered
<1>4. CASE Decide
  <2>1. /\ reader.at = "scan" /\ reader.scans = <<>> /\ ~dirty
        /\ reader' = Answered(Best(snr, reader.dst, reader.bests), reader.dst, FALSE, FALSE)
    BY <1>4 DEF Decide
  <2>2. reader.bests \in Bests
    BY <2>1 DEF RaceInv, ReaderInv
  <2>3. OnCourse(snr, reader.dst, <<>>, reader.bests) /\ plan = <<>>
    BY <2>1 DEF QuietInv, Reading
  <2>4. Best(snr, reader.dst, reader.bests) \in Nexthops(snr, reader.dst)
    BY <1>1, <2>2, <2>3, AllScansDone
  <2> QED BY <2>1, <2>4 DEF Answered
<1>5. CASE Writer \/ UNCHANGED vars
  BY <1>5 DEF Writer, Add, Remove, Call, Store, StoredAll, vars
<1>6. CASE Scan \/ Copy
  <2>1. CASE Scan
    BY <2>1 DEF Scan, Scanning, Copying
  <2>2. CASE Copy
    <3>1. reader.at = "copy"
      BY <2>2 DEF Copy
    <3>2. PICK c \in reader.left :
            reader' = [reader EXCEPT !.left = @ \ {c},
                         !.copy = WithCell(@, c, CellOf(EntryAt(snr, reader.from), c))]
      BY <2>2 DEF Copy
    <3>3. reader \in Copies
      BY <3>1 DEF RaceInv, ReaderInv
    <3>4. reader'.at = "copy"
      BY <3>2, <3>3 DEF Copies
    <3> QED BY <3>4
  <2> QED BY <1>6, <2>1, <2>2
<1> QED BY <1>2, <1>3, <1>4, <1>5, <1>6 DEF Next, Reader

\* A read that no write overlaps answers what sn_net_router_nexthop answers
\* at once, whatever the steps it is made of.
THEOREM RaceQuietReadsExact == Spec => QuietReadsExact
<1> DEFINE exact == reader'.at = "answered" /\ reader' # reader /\ ~dirty' =>
                      reader'.hop \in Nexthops(snr, reader'.dst)
<1>1. RaceInv /\ QuietInv /\ [Next]_vars => exact
  BY QuietAnswers
<1> HIDE DEF exact
<1>2. Spec => [][exact]_vars
  BY <1>1, QuietInductive, RaceInvariant, PTL DEF Spec
<1> QED BY <1>2 DEF exact, QuietReadsExact
=============================================================================
