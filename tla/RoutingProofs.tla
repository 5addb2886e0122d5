--------------------------- MODULE RoutingProofs ---------------------------
(***************************************************************************)
(* Facts about the operators of Routing: what insertion, extraction and    *)
(* sorting do to the shape of a leafset, and what the candidates compared  *)
(* by sn_net_entry_closest tell about the next hop.                        *)
(***************************************************************************)
EXTENDS Routing, AddrProofs, FiniteSetTheorems

\* The entries that memset, add and remove write are entries.
LEMMA EntryTypes ==
  /\ Unset \in Entry /\ ~Unset.is_set
  /\ \A addr \in Address, net \in NetAddress :
       /\ Set(addr, net) \in Entry
       /\ Set(addr, net).is_set /\ Set(addr, net).addr = addr
BY ZeroType, NoNetAssumption DEF Unset, Set, Entry

\* sn_net_entry_array_len finds the filled prefix of every leafset.
LEMMA ArrayLenFacts ==
  ASSUME NEW leafset \in Leafset
  PROVE  /\ ArrayLen(leafset) \in 0 .. LeafsetSize
         /\ \A i \in 1 .. ArrayLen(leafset) : leafset[i].is_set
         /\ ArrayLen(leafset) = LeafsetSize \/ ~leafset[ArrayLen(leafset) + 1].is_set
<1> DEFINE unset == {i \in 1 .. LeafsetSize : ~leafset[i].is_set}
<1>1. \E n \in 0 .. LeafsetSize :
         /\ \A i \in 1 .. n : leafset[i].is_set
         /\ n = LeafsetSize \/ ~leafset[n + 1].is_set
  <2>1. CASE unset = {}
    BY <2>1, LeafsetSizeAssumption
  <2>2. CASE unset # {}
    <3>1. PICK u \in unset : \A v \in unset : u <= v
      <4>1. unset \subseteq Nat
        OBVIOUS
      <4> HIDE DEF unset
      <4> QED BY <2>2, <4>1, LeastNatural
    <3>2. /\ u - 1 \in 0 .. LeafsetSize
          /\ \A i \in 1 .. u - 1 : leafset[i].is_set
          /\ ~leafset[u - 1 + 1].is_set
      BY <3>1, LeafsetSizeAssumption
    <3> QED BY <3>2
  <2> QED BY <2>1, <2>2
<1> HIDE DEF unset
<1> QED BY <1>1 DEF ArrayLen

\* Nothing is set behind the prefix of a leafset without holes.
LEMMA UnsetBehind ==
  ASSUME NEW leafset \in Leafset, NoHoles(leafset),
         NEW i \in 1 .. LeafsetSize
  PROVE  leafset[i].is_set <=> i <= ArrayLen(leafset)
BY ArrayLenFacts, LeafsetSizeAssumption DEF NoHoles

\* Every outcome of leafset_sort is well formed, in whatever order the
\* prefix was.
LEMMA SortingsWellFormed ==
  ASSUME NEW leafset \in Leafset, NEW self \in Address, NEW right \in BOOLEAN,
         NoHoles(leafset), OnSide(leafset, self, right),
         NEW l \in Sortings(leafset, right)
  PROVE  l \in Leafset /\ WellFormed(l, self, right)
<1> DEFINE len == ArrayLen(leafset)
<1>1. len \in 0 .. LeafsetSize
  BY ArrayLenFacts
<1>2. PICK p \in Permutation(len) :
         l = [i \in 1 .. LeafsetSize |->
                IF i <= len THEN leafset[p[i]] ELSE leafset[i]]
  BY DEF Sortings
<1>3. \A i \in 1 .. len : p[i] \in 1 .. len
  BY DEF Permutation
<1>4. \A i, j \in 1 .. len : i < j => ~Precedes(l[j], l[i], right)
  BY DEF Sortings
<1>5. \A i \in 1 .. LeafsetSize : leafset[i].is_set <=> i <= len
  BY UnsetBehind
<1> HIDE DEF len
<1>6. \A i \in 1 .. LeafsetSize :
         /\ l[i].is_set <=> i <= len
         /\ i <= len => p[i] \in 1 .. LeafsetSize /\ l[i] = leafset[p[i]]
  BY <1>1, <1>2, <1>3, <1>5, LeafsetSizeAssumption
<1>7. l \in Leafset
  BY <1>1, <1>2, <1>3, LeafsetSizeAssumption DEF Leafset
<1>8. NoHoles(l)
  BY <1>1, <1>6 DEF NoHoles
<1>9. OnSide(l, self, right)
  BY <1>3, <1>5, <1>6, <1>1 DEF OnSide
<1>10. Ordered(l, right)
  BY <1>1, <1>4, <1>6 DEF Ordered
<1> QED BY <1>7, <1>8, <1>9, <1>10 DEF WellFormed

\* leafset_insert keeps a leafset well formed.
LEMMA InsertWellFormed ==
  ASSUME NEW leafset \in Leafset, NEW self \in Address, NEW right \in BOOLEAN,
         WellFormed(leafset, self, right),
         NEW e \in Entry, e.is_set, Before(e.addr, self) <=> ~right,
         NEW l \in Insert(leafset, e, right)
  PROVE  l \in Leafset /\ WellFormed(l, self, right)
<1> DEFINE len == ArrayLen(leafset)
<1>1. len \in 0 .. LeafsetSize
  BY ArrayLenFacts
<1>2. \A i \in 1 .. LeafsetSize : leafset[i].is_set <=> i <= len
  BY UnsetBehind DEF WellFormed
<1>3. ASSUME NEW k \in 1 .. LeafsetSize, k <= len + 1,
             l \in Sortings([leafset EXCEPT ![k] = e], right)
      PROVE  l \in Leafset /\ WellFormed(l, self, right)
  <2> DEFINE more == [leafset EXCEPT ![k] = e]
  <2> HIDE DEF len
  <2>1. more \in Leafset
    BY DEF Leafset
  <2>2. \A i \in 1 .. LeafsetSize : more[i] = IF i = k THEN e ELSE leafset[i]
    BY DEF Leafset
  <2> HIDE DEF more
  <2>3. NoHoles(more)
    BY <1>1, <1>2, <1>3, <2>2 DEF NoHoles
  <2>4. OnSide(more, self, right)
    BY <2>2 DEF OnSide, WellFormed
  <2>5. l \in Sortings(more, right)
    BY <1>3 DEF more
  <2> QED BY <2>1, <2>3, <2>4, <2>5, SortingsWellFormed
<1>4. CASE len < LeafsetSize
  <2>1. len + 1 \in 1 .. LeafsetSize
    BY <1>1, <1>4, LeafsetSizeAssumption
  <2> QED BY <1>3, <1>4, <2>1 DEF Insert
<1>5. CASE ~(len < LeafsetSize)
  <2>1. LeafsetSize \in 1 .. LeafsetSize /\ LeafsetSize <= len + 1
    BY <1>1, <1>5, LeafsetSizeAssumption
  <2>2. l = leafset \/ l \in Sortings([leafset EXCEPT ![LeafsetSize] = e], right)
    BY <1>5 DEF Insert
  <2> QED BY <1>3, <2>1, <2>2
<1> QED BY <1>4, <1>5

\* leafset_extract keeps a leafset well formed.
LEMMA ExtractWellFormed ==
  ASSUME NEW leafset \in Leafset, NEW self \in Address, NEW right \in BOOLEAN,
         WellFormed(leafset, self, right), NEW addr,
         NEW l \in Extract(leafset, addr, right)
  PROVE  l \in Leafset /\ WellFormed(l, self, right)
<1> DEFINE len   == ArrayLen(leafset)
           found == {i \in 1 .. len : leafset[i].addr = addr}
           first == CHOOSE i \in found : \A j \in found : i <= j
           less  == [leafset EXCEPT ![first] = leafset[len],
                                    ![len].is_set = FALSE]
<1>1. len \in 0 .. LeafsetSize
  BY ArrayLenFacts
<1>2. \A i \in 1 .. LeafsetSize : leafset[i].is_set <=> i <= len
  BY UnsetBehind DEF WellFormed
<1>3. CASE found = {}
  BY <1>3 DEF Extract
<1>4. CASE found # {}
  <2>1. l \in Sortings(less, right)
    BY <1>4 DEF Extract
  <2>2. first \in found
    <3>1. found \subseteq Nat
      BY <1>1
    <3>2. \E i \in found : \A j \in found : i <= j
      <4> HIDE DEF found
      <4> QED BY <1>4, <3>1, LeastNatural
    <3> QED BY <3>2
  <2>3. first \in 1 .. LeafsetSize /\ len \in 1 .. LeafsetSize /\ first <= len
    <3>1. first \in 1 .. len
      BY <2>2
    <3> HIDE DEF first, found, len
    <3> QED BY <1>1, <3>1, LeafsetSizeAssumption
  <2> HIDE DEF first, found, len
  <2>4. less \in Leafset
    BY <2>3 DEF Leafset, Entry
  <2>5. \A i \in 1 .. LeafsetSize :
          /\ less[i].is_set => i < len
          /\ i < len => less[i] = IF i = first THEN leafset[len] ELSE leafset[i]
    BY <1>1, <1>2, <2>3 DEF Leafset, Entry
  <2> HIDE DEF less
  <2>6. NoHoles(less)
    BY <1>1, <1>2, <2>3, <2>5 DEF NoHoles
  <2>7. OnSide(less, self, right)
    BY <1>2, <2>3, <2>5 DEF OnSide, WellFormed
  <2> QED BY <2>1, <2>4, <2>6, <2>7, SortingsWellFormed
<1> QED BY <1>3, <1>4

-----------------------------------------------------------------------------
(* sn_net_router_add and sn_net_router_remove                              *)

\* An empty router is consistent.
LEMMA RouterInitConsistent ==
  ASSUME NEW self \in Address, NEW net \in NetAddress
  PROVE  Consistent(RouterInit(self, net), self)
<1> DEFINE r == RouterInit(self, net)
<1>1. r \in RouterState
  BY EntryTypes DEF RouterInit, RouterState, Leafset
<1>2. r.self.is_set /\ r.self.addr = self
  BY EntryTypes DEF RouterInit
<1>3. \A s \in Slot : ~r.table[s].is_set
  BY EntryTypes DEF RouterInit
<1>4. \A i \in 1 .. LeafsetSize : ~r.left[i].is_set /\ ~r.right[i].is_set
  BY EntryTypes DEF RouterInit
<1> HIDE DEF r
<1>5. WellFormed(r.left, self, FALSE) /\ WellFormed(r.right, self, TRUE)
  BY <1>4 DEF WellFormed, NoHoles, OnSide, Ordered
<1>6. Consistent(r, self)
  BY <1>1, <1>2, <1>3, <1>5 DEF Consistent, WellPlaced
<1> QED BY <1>6 DEF r

\* SlotOf reads nothing of the router but the address of self.
LEMMA SameSlots ==
  ASSUME NEW r, NEW q, r.self = q.self, NEW addr
  PROVE  SlotOf(r, addr) = SlotOf(q, addr)
BY DEF SlotOf

\* sn_net_router_add keeps a router consistent, when it stays in the table.
LEMMA AddConsistent ==
  ASSUME NEW self \in Address, NEW r, Consistent(r, self),
         NEW e \in Entry, e.is_set, SlotOf(r, e.addr) \in Slot,
         NEW q \in AddEntry(r, e)
  PROVE  /\ Consistent(q, self)
         /\ q.table = [r.table EXCEPT ![SlotOf(r, e.addr)] = e]
<1> DEFINE right == ~Before(e.addr, r.self.addr)
<1>1. r.left \in Leafset /\ r.right \in Leafset /\ r.table \in [Slot -> Entry]
      /\ r.self \in Entry /\ r.self.addr = self
  BY DEF Consistent, RouterState
<1>2. /\ q.self = r.self
      /\ q.table = [r.table EXCEPT ![SlotOf(r, e.addr)] = e]
      /\ q \in RouterState
      /\ WellFormed(q.left, self, FALSE) /\ WellFormed(q.right, self, TRUE)
  <2>1. CASE right
    <3>1. PICK l \in Insert(r.right, e, TRUE) :
             q = [r EXCEPT !.table[SlotOf(r, e.addr)] = e, !.right = l]
      BY <2>1 DEF AddEntry
    <3>2. l \in Leafset /\ WellFormed(l, self, TRUE)
      BY <1>1, <2>1, InsertWellFormed DEF Consistent
    <3> QED BY <1>1, <3>1, <3>2 DEF Consistent, RouterState
  <2>2. CASE ~right
    <3>1. PICK l \in Insert(r.left, e, FALSE) :
             q = [r EXCEPT !.table[SlotOf(r, e.addr)] = e, !.left = l]
      BY <2>2 DEF AddEntry
    <3>2. l \in Leafset /\ WellFormed(l, self, FALSE)
      BY <1>1, <2>2, InsertWellFormed DEF Consistent
    <3> QED BY <1>1, <3>1, <3>2 DEF Consistent, RouterState
  <2> QED BY <2>1, <2>2
<1>3. ASSUME NEW s \in Slot, q.table[s].is_set
      PROVE  SlotOf(q, q.table[s].addr) = s
  <2>1. SlotOf(q, q.table[s].addr) = SlotOf(r, q.table[s].addr)
    BY <1>2, SameSlots
  <2>2. CASE s = SlotOf(r, e.addr)
    BY <1>1, <1>2, <2>1, <2>2
  <2>3. CASE s # SlotOf(r, e.addr)
    BY <1>1, <1>2, <1>3, <2>1, <2>3 DEF Consistent, WellPlaced
  <2> QED BY <2>2, <2>3
<1>4. q.self.is_set /\ q.self.addr = self
  BY <1>2 DEF Consistent
<1> QED BY <1>2, <1>3, <1>4 DEF Consistent, WellPlaced

\* sn_net_router_remove keeps a router consistent, when it stays in the table.
LEMMA RemoveConsistent ==
  ASSUME NEW self \in Address, NEW r, Consistent(r, self),
         NEW addr \in Address, SlotOf(r, addr) \in Slot,
         NEW q \in RemoveEntry(r, addr)
  PROVE  /\ Consistent(q, self)
         /\ q.table = [r.table EXCEPT ![SlotOf(r, addr)] =
                         [is_set |-> FALSE, addr |-> addr, net_addr |-> NoNet]]
<1> DEFINE right == ~Before(addr, r.self.addr)
           e     == [is_set |-> FALSE, addr |-> addr, net_addr |-> NoNet]
<1>1. r.left \in Leafset /\ r.right \in Leafset /\ r.table \in [Slot -> Entry]
      /\ r.self \in Entry /\ r.self.addr = self
  BY DEF Consistent, RouterState
<1>2. e \in Entry /\ ~e.is_set
  BY NoNetAssumption DEF Entry
<1>3. /\ q.self = r.self
      /\ q.table = [r.table EXCEPT ![SlotOf(r, addr)] = e]
      /\ q \in RouterState
      /\ WellFormed(q.left, self, FALSE) /\ WellFormed(q.right, self, TRUE)
  <2>1. CASE right
    <3>1. PICK l \in Extract(r.right, addr, TRUE) :
             q = [r EXCEPT !.table[SlotOf(r, addr)] = e, !.right = l]
      BY <2>1 DEF RemoveEntry
    <3>2. l \in Leafset /\ WellFormed(l, self, TRUE)
      BY <1>1, ExtractWellFormed DEF Consistent
    <3> HIDE DEF e
    <3> QED BY <1>1, <1>2, <3>1, <3>2 DEF Consistent, RouterState
  <2>2. CASE ~right
    <3>1. PICK l \in Extract(r.left, addr, FALSE) :
             q = [r EXCEPT !.table[SlotOf(r, addr)] = e, !.left = l]
      BY <2>2 DEF RemoveEntry
    <3>2. l \in Leafset /\ WellFormed(l, self, FALSE)
      BY <1>1, ExtractWellFormed DEF Consistent
    <3> HIDE DEF e
    <3> QED BY <1>1, <1>2, <3>1, <3>2 DEF Consistent, RouterState
  <2> QED BY <2>1, <2>2
<1>4. ASSUME NEW s \in Slot, q.table[s].is_set
      PROVE  SlotOf(q, q.table[s].addr) = s
  <2>1. SlotOf(q, q.table[s].addr) = SlotOf(r, q.table[s].addr)
    BY <1>3, SameSlots
  <2>2. s # SlotOf(r, addr)
    BY <1>1, <1>2, <1>3, <1>4
  <2> QED BY <1>1, <1>3, <1>4, <2>1, <2>2 DEF Consistent, WellPlaced
<1>5. q.self.is_set /\ q.self.addr = self
  BY <1>3 DEF Consistent
<1> QED BY <1>3, <1>4, <1>5 DEF Consistent, WellPlaced

-----------------------------------------------------------------------------
(* sn_net_router_nexthop                                                   *)

\* The candidates that sn_net_entry_closest compares, and the nearest ones.
Fit(cands, self, minLevel) ==
  {i \in DOMAIN cands : cands[i].is_set /\ Level(self, cands[i].addr) >= minLevel}

Near(dst, cands, fit) ==
  {i \in fit : \A j \in fit :
     ~Before(Dist(cands[j].addr, dst), Dist(cands[i].addr, dst))}

\* sn_net_entry_closest returns the first of the nearest candidates.
LEMMA ClosestFacts ==
  ASSUME NEW dst \in Address, NEW n \in Nat, NEW cands \in [1 .. n -> Entry],
         NEW self \in Address, NEW minLevel \in Nat,
         Fit(cands, self, minLevel) # {}
  PROVE  \E i \in Near(dst, cands, Fit(cands, self, minLevel)) :
           /\ \A j \in Near(dst, cands, Fit(cands, self, minLevel)) : i <= j
           /\ Closest(dst, cands, self, minLevel) = cands[i]
<1> DEFINE fit  == Fit(cands, self, minLevel)
           near == Near(dst, cands, fit)
           dist(i) == Dist(cands[i].addr, dst)
<1>1. fit \subseteq 1 .. n /\ near \subseteq fit
  BY DEF Fit, Near
<1>2. \A i \in fit : dist(i) \in Address
  BY <1>1, DistType DEF Entry
<1>3. near # {}
  <2> DEFINE dists == {dist(i) : i \in fit}
  <2>1. dists \subseteq Address /\ dists # {}
    BY <1>2
  <2>2. PICK d \in dists : \A f \in dists : ~Before(f, d)
    <3> HIDE DEF dists
    <3> QED BY <2>1, LeastAddress
  <2>3. PICK i \in fit : d = dist(i)
    BY <2>2
  <2>4. i \in near
    BY <2>2, <2>3 DEF Near
  <2> QED BY <2>4
<1>4. \E i \in near : \A j \in near : i <= j
  <2> HIDE DEF near, fit
  <2>1. near \subseteq Nat
    BY <1>1
  <2> QED BY <1>3, <2>1, LeastNatural
<1>5. Closest(dst, cands, self, minLevel) =
        cands[CHOOSE i \in near : \A j \in near : i <= j]
  BY DEF Closest, Fit, Near
<1> HIDE DEF near, fit
<1>6. \E i \in near : (\A j \in near : i <= j)
                      /\ Closest(dst, cands, self, minLevel) = cands[i]
  BY <1>4, <1>5
<1> QED BY <1>6 DEF near, fit

\* Set or not, the closest is an entry, and a set one is a fit candidate.
LEMMA ClosestIsFit ==
  ASSUME NEW dst \in Address, NEW n \in Nat, NEW cands \in [1 .. n -> Entry],
         NEW self \in Address, NEW minLevel \in Nat
  PROVE  LET hop == Closest(dst, cands, self, minLevel)
         IN  /\ hop \in Entry
             /\ hop.is_set => \E i \in 1 .. n :
                  hop = cands[i] /\ Level(self, cands[i].addr) >= minLevel
<1>1. CASE Fit(cands, self, minLevel) = {}
  BY <1>1, EntryTypes DEF Closest, Fit
<1>2. CASE Fit(cands, self, minLevel) # {}
  <2>1. PICK i \in Fit(cands, self, minLevel) :
           Closest(dst, cands, self, minLevel) = cands[i]
    BY <1>2, ClosestFacts DEF Near
  <2>2. i \in 1 .. n /\ Level(self, cands[i].addr) >= minLevel
    BY DEF Fit
  <2> QED BY <2>1, <2>2
<1> QED BY <1>1, <1>2

\* So it is among the leaves, whose array is full length.
LEMMA ClosestLeaf ==
  ASSUME NEW dst \in Address, NEW leafset \in [1 .. LeafsetSize -> Entry],
         NEW self \in Address, NEW minLevel \in Nat
  PROVE  /\ Closest(dst, leafset, self, minLevel) \in Entry
         /\ Closest(dst, leafset, self, minLevel).is_set => \E i \in 1 .. LeafsetSize :
              /\ Closest(dst, leafset, self, minLevel) = leafset[i]
              /\ Level(self, leafset[i].addr) >= minLevel
<1>1. LeafsetSize \in Nat
  BY LeafsetSizeAssumption
<1> QED BY <1>1, ClosestIsFit

\* The best of some candidates, the first being self, is one of them and
\* strictly nearer than self.
LEMMA BestIsNearer ==
  ASSUME NEW self \in Address, NEW r, r.self \in Entry,
         r.self.is_set, r.self.addr = self, NEW dst \in Address,
         NEW n \in Nat, n >= 1, NEW bests \in [1 .. n -> Entry],
         bests[1] = r.self, Best(r, dst, bests).is_set
  PROVE  \E i \in 1 .. n :
           /\ Best(r, dst, bests) = bests[i]
           /\ Before(Dist(bests[i].addr, dst), Dist(self, dst))
<1> DEFINE fit  == Fit(bests, self, 0)
           near == Near(dst, bests, fit)
<1>1. 1 \in fit
  <2>1. Level(self, bests[1].addr) >= 0
    BY LevelFacts, ByteBaseFacts
  <2> QED BY <2>1 DEF Fit
<1>2. PICK i \in near : (\A j \in near : i <= j) /\ Closest(dst, bests, self, 0) = bests[i]
  BY <1>1, ClosestFacts
<1>3. i \in 1 .. n /\ ~Before(Dist(self, dst), Dist(bests[i].addr, dst))
  BY <1>1 DEF Near, Fit
<1>4. Best(r, dst, bests) = bests[i] /\ bests[i].addr # self
  <2>1. bests[i].addr # self
    <3> SUFFICES ASSUME bests[i].addr = self PROVE FALSE
      OBVIOUS
    <3>1. Best(r, dst, bests) = [bests[i] EXCEPT !.is_set = FALSE]
      BY <1>2 DEF Best
    <3> QED BY <1>3, <3>1 DEF Entry
  <2> QED BY <1>2, <2>1 DEF Best
<1>5. Dist(bests[i].addr, dst) \in Address /\ Dist(self, dst) \in Address
  BY <1>3, DistType DEF Entry
<1>6. Dist(bests[i].addr, dst) # Dist(self, dst)
  <2> SUFFICES ASSUME Dist(bests[i].addr, dst) = Dist(self, dst) PROVE FALSE
    OBVIOUS
  <2>1. 1 \in near
    BY <1>1, <1>2 DEF Near
  <2>2. i = 1
    BY <1>2, <1>3, <2>1
  <2> QED BY <1>4, <2>2
<1> QED BY <1>3, <1>4, <1>5, <1>6, BeforeTotal

\* Leafset routing never moves a packet away from its destination.
LEMMA LeafsetHopProgress ==
  ASSUME NEW self \in Address, NEW r, Consistent(r, self), NEW dst \in Address
  PROVE  LeafsetProgress(r, LeafsetHop(r, dst), dst)
<1> DEFINE left  == Closest(dst, r.left,  self, 0)
           right == Closest(dst, r.right, self, 0)
           bests == <<r.self, left, right>>
<1>1. r.self \in Entry /\ r.self.is_set /\ r.self.addr = self
      /\ r.left \in [1 .. LeafsetSize -> Entry] /\ r.right \in [1 .. LeafsetSize -> Entry]
  BY DEF Consistent, RouterState, Leafset
<1>2. left \in Entry /\ right \in Entry
  BY <1>1, ClosestIsFit, LeafsetSizeAssumption
<1> HIDE DEF left, right
<1>3. bests \in [1 .. 3 -> Entry] /\ bests[1] = r.self
  BY <1>1, <1>2
<1> HIDE DEF bests
<1>4. LeafsetHop(r, dst) = Best(r, dst, bests)
  BY <1>1 DEF LeafsetHop, bests, left, right
<1>5. ASSUME LeafsetHop(r, dst).is_set
      PROVE  Before(Dist(LeafsetHop(r, dst).addr, dst), Dist(self, dst))
  <2>1. Best(r, dst, bests).is_set
    BY <1>4, <1>5
  <2>2. \E i \in 1 .. 3 :
          /\ Best(r, dst, bests) = bests[i]
          /\ Before(Dist(bests[i].addr, dst), Dist(self, dst))
    <3>1. 3 \in Nat /\ 3 >= 1
      OBVIOUS
    <3> QED BY <1>1, <1>3, <2>1, <3>1, BestIsNearer
  <2> QED BY <1>4, <2>2
<1> QED BY <1>1, <1>5 DEF LeafsetProgress, Nearer

\* Table routing never shortens the prefix shared with the destination, and
\* comes nearer to it when it does not lengthen the prefix.
LEMMA TableHopProgress ==
  ASSUME NEW self \in Address, NEW r, Consistent(r, self), NEW dst \in Address
  PROVE  TableProgress(r, TableHop(r, dst), dst)
<1> DEFINE hop   == TableHop(r, dst)
           level == Level(self, dst)
           row   == Closest(dst, Row(r, level), self, 0)
           left  == Closest(dst, r.left,  self, level)
           right == Closest(dst, r.right, self, level)
           bests == <<r.self, row, left, right>>
<1>1. r.self \in Entry /\ r.self.is_set /\ r.self.addr = self
      /\ r.left \in [1 .. LeafsetSize -> Entry] /\ r.right \in [1 .. LeafsetSize -> Entry]
      /\ r.table \in [Slot -> Entry]
  BY DEF Consistent, RouterState, Leafset
<1>2. CASE SlotOf(r, dst) \notin Slot
  <2>1. ~hop.is_set
    BY <1>1, <1>2 DEF TableHop, Entry
  <2> QED BY <2>1 DEF TableProgress
<1>3. CASE SlotOf(r, dst) \in Slot /\ r.table[SlotOf(r, dst)].is_set
  <2> DEFINE e == r.table[SlotOf(r, dst)]
  <2>1. hop = e /\ e.addr \in Address
    BY <1>1, <1>3 DEF TableHop, Entry
  <2>2. SlotOf(r, e.addr) = SlotOf(r, dst)
    BY <1>3 DEF Consistent, WellPlaced
  <2>3. /\ Level(self, e.addr) = Level(self, dst)
        /\ Column(self, e.addr) = Column(self, dst)
        /\ Level(self, e.addr) # HexLen
    BY <1>1, <1>3, <2>2, ByteBaseFacts DEF SlotOf, Slot
  <2>4. Level(e.addr, dst) > Level(self, dst)
    BY <2>1, <2>3, SamePlace
  <2> QED BY <1>1, <2>1, <2>4 DEF TableProgress
<1>4. CASE SlotOf(r, dst) \in Slot /\ ~r.table[SlotOf(r, dst)].is_set /\ hop.is_set
  <2>1. level \in 0 .. HexLen - 1 /\ level \in Nat /\ level \in 0 .. HexLen
    BY <1>1, <1>4, ByteBaseFacts DEF SlotOf, Slot
  <2>2. Row(r, level) \in [1 .. HexBase -> Entry]
    BY <1>1, <2>1, HexBaseAssumption DEF Row, Slot
  <2>3. hop = Best(r, dst, bests)
    BY <1>1, <1>4 DEF TableHop
  <2> HIDE DEF level
  <2>4. /\ row \in Entry /\ (row.is_set => Level(self, row.addr) >= level)
    <3>1. \A c \in 1 .. HexBase :
             Row(r, level)[c].is_set => Level(self, Row(r, level)[c].addr) = level
      <4> TAKE c \in 1 .. HexBase
      <4>1. <<level, c - 1>> \in Slot /\ Row(r, level)[c] = r.table[<<level, c - 1>>]
        BY <2>1, HexBaseAssumption DEF Row, Slot
      <4>2. \A s \in Slot : r.table[s].is_set => Level(self, r.table[s].addr) = s[1]
        BY <1>1 DEF Consistent, WellPlaced, SlotOf
      <4> QED BY <4>1, <4>2
    <3> QED BY <2>1, <2>2, <3>1, ClosestIsFit, HexBaseAssumption
  <2>5. /\ left  \in Entry /\ (left.is_set  => Level(self, left.addr)  >= level)
        /\ right \in Entry /\ (right.is_set => Level(self, right.addr) >= level)
    <3>1. left \in Entry /\ (left.is_set => Level(self, left.addr) >= level)
      BY <1>1, <2>1, ClosestLeaf
    <3>2. right \in Entry /\ (right.is_set => Level(self, right.addr) >= level)
      BY <1>1, <2>1, ClosestLeaf
    <3> QED BY <3>1, <3>2
  <2> HIDE DEF row, left, right
  <2>6. bests \in [1 .. 4 -> Entry] /\ bests[1] = r.self
    BY <1>1, <2>4, <2>5
  <2>7. PICK i \in 1 .. 4 : hop = bests[i] /\ Before(Dist(bests[i].addr, dst), Dist(self, dst))
    <3> HIDE DEF bests, hop
    <3>1. 4 \in Nat /\ 4 >= 1 /\ Best(r, dst, bests).is_set
      BY <1>4, <2>3
    <3>2. \E i \in 1 .. 4 :
            /\ Best(r, dst, bests) = bests[i]
            /\ Before(Dist(bests[i].addr, dst), Dist(self, dst))
      BY <1>1, <2>6, <3>1, BestIsNearer
    <3> QED BY <2>3, <3>2
  <2>8. hop.addr # self
    <3>1. Dist(self, dst) \in Address
      BY DistType
    <3> HIDE DEF bests, hop
    <3> QED BY <2>7, <3>1, BeforeIrreflexive
  <2>9. Level(self, hop.addr) >= level /\ hop.addr \in Address
    BY <1>1, <1>4, <2>4, <2>5, <2>7, <2>8 DEF Entry
  <2>10. Level(hop.addr, dst) >= level /\ Level(hop.addr, dst) \in 0 .. HexLen
    <3> HIDE DEF hop
    <3>1. Level(self, dst) >= level
      BY <2>1 DEF level
    <3> QED BY <2>1, <2>9, <3>1, LevelUltrametric, LevelFacts
  <2> HIDE DEF hop, bests
  <2>11. \/ Level(hop.addr, dst) > level
         \/ Level(hop.addr, dst) = level /\ Nearer(r, hop, dst)
    BY <1>1, <2>1, <2>7, <2>10, ByteBaseFacts DEF Nearer
  <2> QED BY <1>1, <2>11 DEF TableProgress, level, hop
<1>5. CASE ~hop.is_set
  BY <1>5 DEF TableProgress
<1> QED BY <1>2, <1>3, <1>4, <1>5

-----------------------------------------------------------------------------
(* Counting leaves                                                         *)

\* The places of a leafset where leaves with one address are.
PlacesOf(leafset, a) ==
  {i \in 1 .. LeafsetSize : leafset[i].is_set /\ leafset[i].addr = a}

CountOf(leafset, a) == Cardinality(PlacesOf(leafset, a))

\* A count is a natural number, and zero when there is no such leaf.
LEMMA CountFacts ==
  ASSUME NEW leafset, NEW a
  PROVE  /\ IsFiniteSet(PlacesOf(leafset, a))
         /\ CountOf(leafset, a) \in Nat
         /\ CountOf(leafset, a) = 0 <=> PlacesOf(leafset, a) = {}
<1>1. IsFiniteSet(1 .. LeafsetSize)
  BY FS_Interval, LeafsetSizeAssumption
<1>2. IsFiniteSet(PlacesOf(leafset, a))
  <2>1. PlacesOf(leafset, a) \in SUBSET (1 .. LeafsetSize)
    BY DEF PlacesOf
  <2> QED BY <1>1, <2>1, FS_Subset
<1> QED BY <1>2, FS_CardinalityType, FS_EmptySet DEF CountOf

\* A leafset that differs in one place has the leaves of the other, less the
\* one that was there and with the one that is.
LEMMA CountOfChanged ==
  ASSUME NEW leafset, NEW more, NEW k \in 1 .. LeafsetSize, NEW a,
         \A i \in 1 .. LeafsetSize : i # k => more[i] = leafset[i]
  PROVE  CountOf(more, a) = CountOf(leafset, a)
                          - (IF k \in PlacesOf(leafset, a) THEN 1 ELSE 0)
                          + (IF k \in PlacesOf(more, a) THEN 1 ELSE 0)
<1> DEFINE rest == PlacesOf(leafset, a) \ {k}
<1>1. IsFiniteSet(rest) /\ Cardinality(rest) = CountOf(leafset, a)
                             - (IF k \in PlacesOf(leafset, a) THEN 1 ELSE 0)
  <2>1. /\ IsFiniteSet(rest)
        /\ Cardinality(rest) = IF k \in PlacesOf(leafset, a)
                               THEN CountOf(leafset, a) - 1 ELSE CountOf(leafset, a)
    BY CountFacts, FS_RemoveElement DEF CountOf
  <2> QED BY <2>1, CountFacts
<1>2. CASE k \in PlacesOf(more, a)
  <2>1. PlacesOf(more, a) = rest \cup {k}
    BY <1>2 DEF PlacesOf
  <2>2. CountOf(more, a) = Cardinality(rest) + 1
    <3> HIDE DEF PlacesOf
    <3>1. k \notin rest
      OBVIOUS
    <3> HIDE DEF rest
    <3> QED BY <1>1, <2>1, <3>1, FS_AddElement DEF CountOf
  <2> QED BY <1>1, <1>2, <2>2
<1>3. CASE k \notin PlacesOf(more, a)
  <2>1. PlacesOf(more, a) = rest
    BY <1>3 DEF PlacesOf
  <2>2. CountOf(more, a) = Cardinality(rest)
    BY <2>1 DEF CountOf
  <2> QED BY <1>1, <1>3, <2>2, CountFacts
<1> QED BY <1>2, <1>3

\* A permutation of a prefix reaches every place of it.
LEMMA PermutationOnto ==
  ASSUME NEW n \in Nat, NEW p \in Permutation(n)
  PROVE  p \in Bijection(1 .. n, 1 .. n)
<1>1. p \in Injection(1 .. n, 1 .. n)
  BY DEF Permutation, Injection, IsInjective
<1>2. IsFiniteSet(1 .. n)
  BY FS_Interval
<1>3. p \in Surjection(1 .. n, 1 .. n)
  BY <1>1, <1>2, FS_Injection
<1> QED BY <1>1, <1>3 DEF Bijection

\* leafset_sort neither makes nor loses a leaf.
LEMMA SortingsCount ==
  ASSUME NEW leafset \in Leafset, NoHoles(leafset), NEW right,
         NEW l \in Sortings(leafset, right), NEW a
  PROVE  CountOf(l, a) = CountOf(leafset, a)
<1> DEFINE len == ArrayLen(leafset)
           from == PlacesOf(l, a)
           to   == PlacesOf(leafset, a)
<1>1. len \in 0 .. LeafsetSize /\ len \in Nat
  BY ArrayLenFacts, LeafsetSizeAssumption
<1>2. PICK p \in Permutation(len) :
         l = [i \in 1 .. LeafsetSize |->
                IF i <= len THEN leafset[p[i]] ELSE leafset[i]]
  BY DEF Sortings
<1>3. \A i \in 1 .. LeafsetSize : leafset[i].is_set <=> i <= len
  BY UnsetBehind
<1> HIDE DEF len
<1>4. p \in Bijection(1 .. len, 1 .. len)
  BY <1>1, PermutationOnto
<1>5. /\ \A i \in 1 .. len : p[i] \in 1 .. len
      /\ \A i, j \in 1 .. len : p[i] = p[j] => i = j
      /\ \A j \in 1 .. len : \E i \in 1 .. len : p[i] = j
  BY <1>4 DEF Bijection, Injection, IsInjective, Surjection
<1>6. \A i \in 1 .. LeafsetSize :
         /\ l[i].is_set <=> i <= len
         /\ i <= len => p[i] \in 1 .. LeafsetSize /\ l[i] = leafset[p[i]]
  <2>1. \A i \in 1 .. LeafsetSize : l[i] = IF i <= len THEN leafset[p[i]] ELSE leafset[i]
    BY <1>2
  <2>2. \A i \in 1 .. LeafsetSize : i <= len => p[i] \in 1 .. LeafsetSize /\ p[i] <= len
    BY <1>1, <1>5, LeafsetSizeAssumption
  <2> QED BY <1>1, <1>3, <2>1, <2>2
<1>7. /\ from = {i \in 1 .. len : leafset[p[i]].addr = a}
       /\ to = {i \in 1 .. len : leafset[i].addr = a}
  <2>1. \A i : i \in 1 .. len <=> i \in 1 .. LeafsetSize /\ i <= len
    BY <1>1, LeafsetSizeAssumption
  <2>2. from = {i \in 1 .. len : leafset[p[i]].addr = a}
    BY <1>6, <2>1 DEF PlacesOf
  <2>3. to = {i \in 1 .. len : leafset[i].addr = a}
    BY <1>3, <2>1 DEF PlacesOf
  <2> QED BY <2>2, <2>3
<1> DEFINE q == [i \in from |-> p[i]]
<1> HIDE DEF from, to
<1>8. q \in Bijection(from, to)
  <2>1. q \in [from -> to]
    BY <1>5, <1>7
  <2>2. \A i, j \in from : q[i] = q[j] => i = j
    BY <1>5, <1>7
  <2>3. \A j \in to : \E i \in from : q[i] = j
    BY <1>5, <1>7
  <2> HIDE DEF q
  <2> QED BY <2>1, <2>2, <2>3 DEF Bijection, Injection, IsInjective, Surjection
<1>9. IsFiniteSet(from) /\ ExistsBijection(from, to)
  BY <1>8, CountFacts DEF ExistsBijection, from
<1>10. Cardinality(to) = Cardinality(from)
  BY <1>9, FS_Bijection
<1> QED BY <1>10 DEF CountOf, from, to

\* leafset_insert adds the entry to a leafset with room; a full one gives the
\* last leaf for it, or is left alone.
LEMMA InsertCount ==
  ASSUME NEW leafset \in Leafset, NEW self \in Address, NEW right \in BOOLEAN,
         WellFormed(leafset, self, right),
         NEW e \in Entry, e.is_set, Before(e.addr, self) <=> ~right,
         NEW l \in Insert(leafset, e, right), NEW a
  PROVE  LET last == leafset[LeafsetSize].addr
         IN  IF ArrayLen(leafset) < LeafsetSize
             THEN CountOf(l, a) = CountOf(leafset, a) + (IF a = e.addr THEN 1 ELSE 0)
             ELSE IF Before(e.addr, last) # right THEN l = leafset
             ELSE CountOf(l, a) = CountOf(leafset, a) + (IF a = e.addr THEN 1 ELSE 0)
                                - (IF a = last THEN 1 ELSE 0)
<1> DEFINE len == ArrayLen(leafset)
<1>1. len \in 0 .. LeafsetSize
  BY ArrayLenFacts
<1>2. \A i \in 1 .. LeafsetSize : leafset[i].is_set <=> i <= len
  BY UnsetBehind DEF WellFormed
<1>3. ASSUME NEW k \in 1 .. LeafsetSize, k <= len + 1,
             l \in Sortings([leafset EXCEPT ![k] = e], right)
      PROVE  CountOf(l, a) = CountOf(leafset, a) + (IF a = e.addr THEN 1 ELSE 0)
               - (IF leafset[k].is_set /\ leafset[k].addr = a THEN 1 ELSE 0)
  <2> DEFINE more == [leafset EXCEPT ![k] = e]
  <2> HIDE DEF len
  <2>1. more \in Leafset
    BY DEF Leafset
  <2>2. \A i \in 1 .. LeafsetSize : more[i] = IF i = k THEN e ELSE leafset[i]
    BY DEF Leafset
  <2> HIDE DEF more
  <2>3. NoHoles(more)
    BY <1>1, <1>2, <1>3, <2>2 DEF NoHoles
  <2>4. CountOf(l, a) = CountOf(more, a)
    <3>1. l \in Sortings(more, right)
      BY <1>3 DEF more
    <3> QED BY <2>1, <2>3, <3>1, SortingsCount
  <2>5. CountOf(more, a) = CountOf(leafset, a)
                         - (IF k \in PlacesOf(leafset, a) THEN 1 ELSE 0)
                         + (IF k \in PlacesOf(more, a) THEN 1 ELSE 0)
    BY <2>2, CountOfChanged
  <2>6. /\ k \in PlacesOf(leafset, a) <=> leafset[k].is_set /\ leafset[k].addr = a
        /\ k \in PlacesOf(more, a) <=> a = e.addr
    BY <2>2 DEF PlacesOf
  <2> QED BY <2>4, <2>5, <2>6, CountFacts
<1>4. CASE len < LeafsetSize
  <2>1. len + 1 \in 1 .. LeafsetSize /\ ~(len + 1 <= len)
    BY <1>1, <1>4, LeafsetSizeAssumption
  <2>2. ~leafset[len + 1].is_set
    BY <1>2, <2>1
  <2>3. l \in Sortings([leafset EXCEPT ![len + 1] = e], right)
    BY <1>4 DEF Insert
  <2>4. CountOf(l, a) = CountOf(leafset, a) + (IF a = e.addr THEN 1 ELSE 0)
    BY <1>1, <1>3, <2>1, <2>2, <2>3, CountFacts
  <2> QED BY <1>4, <2>4
<1>5. CASE ~(len < LeafsetSize)
  <2> DEFINE last == leafset[LeafsetSize]
  <2>1. LeafsetSize \in 1 .. LeafsetSize /\ LeafsetSize <= len /\ LeafsetSize <= len + 1
    BY <1>1, <1>5, LeafsetSizeAssumption
  <2>2. last.is_set
    BY <1>2, <2>1
  <2>3. CASE Before(e.addr, last.addr) # right
    BY <1>5, <2>3 DEF Insert
  <2>4. CASE ~(Before(e.addr, last.addr) # right)
    <3>1. l \in Sortings([leafset EXCEPT ![LeafsetSize] = e], right)
      BY <1>5, <2>4 DEF Insert
    <3>2. CountOf(l, a) = CountOf(leafset, a) + (IF a = e.addr THEN 1 ELSE 0)
                        - (IF a = last.addr THEN 1 ELSE 0)
      BY <1>3, <2>1, <2>2, <3>1, CountFacts
    <3> QED BY <1>5, <2>4, <3>2
  <2> QED BY <2>3, <2>4
<1> QED BY <1>4, <1>5

\* leafset_extract takes one leaf with the address, if there is one.
LEMMA ExtractCount ==
  ASSUME NEW leafset \in Leafset, NEW self \in Address, NEW right \in BOOLEAN,
         WellFormed(leafset, self, right), NEW addr,
         NEW l \in Extract(leafset, addr, right), NEW a
  PROVE  IF CountOf(leafset, addr) = 0 THEN l = leafset
         ELSE CountOf(l, a) = CountOf(leafset, a) - (IF a = addr THEN 1 ELSE 0)
<1> DEFINE len   == ArrayLen(leafset)
           found == {i \in 1 .. len : leafset[i].addr = addr}
           first == CHOOSE i \in found : \A j \in found : i <= j
           moved == [leafset EXCEPT ![first] = leafset[len]]
           less  == [leafset EXCEPT ![first] = leafset[len],
                                    ![len].is_set = FALSE]
<1>1. len \in 0 .. LeafsetSize
  BY ArrayLenFacts
<1>2. \A i \in 1 .. LeafsetSize : leafset[i].is_set <=> i <= len
  BY UnsetBehind DEF WellFormed
<1>3. found = PlacesOf(leafset, addr)
  <2>1. \A i : i \in 1 .. len <=> i \in 1 .. LeafsetSize /\ i <= len
    BY <1>1, LeafsetSizeAssumption
  <2> QED BY <1>2, <2>1 DEF PlacesOf
<1>4. CASE found = {}
  <2>1. CountOf(leafset, addr) = 0
    BY <1>3, <1>4, CountFacts
  <2> QED BY <1>4, <2>1 DEF Extract
<1>5. CASE found # {}
  <2>1. l \in Sortings(less, right)
    BY <1>5 DEF Extract
  <2>2. first \in found
    <3>1. found \subseteq Nat
      BY <1>1
    <3>2. \E i \in found : \A j \in found : i <= j
      <4> HIDE DEF found
      <4> QED BY <1>5, <3>1, LeastNatural
    <3> QED BY <3>2
  <2>3. /\ first \in 1 .. LeafsetSize /\ len \in 1 .. LeafsetSize /\ first <= len
        /\ leafset[first].is_set /\ leafset[len].is_set /\ leafset[first].addr = addr
    <3>1. first \in 1 .. len /\ leafset[first].addr = addr
      BY <2>2
    <3> HIDE DEF first, found, len
    <3> QED BY <1>1, <1>2, <3>1, LeafsetSizeAssumption
  <2> HIDE DEF first, found, len
  <2>4. less \in Leafset
    BY <2>3 DEF Leafset, Entry
  <2>5. /\ \A i \in 1 .. LeafsetSize :
             /\ moved[i] = IF i = first THEN leafset[len] ELSE leafset[i]
             /\ i # len => less[i] = moved[i]
        /\ moved[len] = leafset[len] /\ ~less[len].is_set
    BY <2>3 DEF Leafset, Entry
  <2> HIDE DEF less, moved
  <2>6. NoHoles(less)
    <3>1. \A i \in 1 .. LeafsetSize : less[i].is_set <=> i < len
      BY <1>1, <1>2, <2>3, <2>5
    <3> QED BY <1>1, <3>1 DEF NoHoles
  <2>7. CountOf(l, a) = CountOf(less, a)
    BY <2>1, <2>4, <2>6, SortingsCount
  <2>8. CountOf(moved, a) = CountOf(leafset, a)
                          - (IF first \in PlacesOf(leafset, a) THEN 1 ELSE 0)
                          + (IF first \in PlacesOf(moved, a) THEN 1 ELSE 0)
    BY <2>3, <2>5, CountOfChanged
  <2>9. CountOf(less, a) = CountOf(moved, a)
                         - (IF len \in PlacesOf(moved, a) THEN 1 ELSE 0)
                         + (IF len \in PlacesOf(less, a) THEN 1 ELSE 0)
    BY <2>3, <2>5, CountOfChanged
  <2>10. /\ first \in PlacesOf(leafset, a) <=> a = addr
         /\ first \in PlacesOf(moved, a) <=> leafset[len].addr = a
         /\ len \in PlacesOf(moved, a) <=> leafset[len].addr = a
         /\ len \notin PlacesOf(less, a)
    BY <2>3, <2>5 DEF PlacesOf
  <2>11. CountOf(less, a) = CountOf(leafset, a) - (IF a = addr THEN 1 ELSE 0)
    BY <2>8, <2>9, <2>10, CountFacts
  <2>12. CountOf(leafset, addr) # 0
    BY <1>3, <1>5, CountFacts
  <2> QED BY <2>7, <2>11, <2>12
<1> QED BY <1>4, <1>5

-----------------------------------------------------------------------------
(* The number of leaves, and where they come from                          *)

\* The number of leaves of a leafset, once it is sorted again.
LEMMA LenUnique ==
  ASSUME NEW leafset \in Leafset, NEW n \in 0 .. LeafsetSize,
         \A i \in 1 .. LeafsetSize : leafset[i].is_set <=> i <= n
  PROVE  ArrayLen(leafset) = n
<1>1. ArrayLen(leafset) \in 0 .. LeafsetSize
  BY ArrayLenFacts
<1>2. ASSUME ArrayLen(leafset) < n PROVE FALSE
  BY <1>1, <1>2, ArrayLenFacts, LeafsetSizeAssumption
<1>3. ASSUME ArrayLen(leafset) > n PROVE FALSE
  BY <1>1, <1>3, ArrayLenFacts, LeafsetSizeAssumption
<1> QED BY <1>1, <1>2, <1>3

\* leafset_sort keeps the number of leaves.
LEMMA SortingsLen ==
  ASSUME NEW leafset \in Leafset, NoHoles(leafset), NEW right,
         NEW l \in Sortings(leafset, right)
  PROVE  ArrayLen(l) = ArrayLen(leafset)
<1> DEFINE len == ArrayLen(leafset)
<1>1. len \in 0 .. LeafsetSize
  BY ArrayLenFacts
<1>2. PICK p \in Permutation(len) :
         l = [i \in 1 .. LeafsetSize |->
                IF i <= len THEN leafset[p[i]] ELSE leafset[i]]
  BY DEF Sortings
<1>3. \A i \in 1 .. LeafsetSize : leafset[i].is_set <=> i <= len
  BY UnsetBehind
<1> HIDE DEF len
<1>4. \A i \in 1 .. LeafsetSize : i <= len => p[i] \in 1 .. LeafsetSize /\ p[i] <= len
  BY <1>1, LeafsetSizeAssumption DEF Permutation
<1>5. l \in Leafset
  BY <1>2, <1>4 DEF Leafset
<1>6. \A i \in 1 .. LeafsetSize : l[i].is_set <=> i <= len
  BY <1>1, <1>2, <1>3, <1>4
<1> QED BY <1>1, <1>5, <1>6, LenUnique DEF len

\* leafset_insert makes a leafset with room one longer, and no other.
LEMMA InsertLen ==
  ASSUME NEW leafset \in Leafset, NEW right \in BOOLEAN, NoHoles(leafset),
         NEW e \in Entry, e.is_set, NEW l \in Insert(leafset, e, right)
  PROVE  ArrayLen(l) = IF ArrayLen(leafset) < LeafsetSize
                       THEN ArrayLen(leafset) + 1 ELSE ArrayLen(leafset)
<1> DEFINE len == ArrayLen(leafset)
<1>1. len \in 0 .. LeafsetSize
  BY ArrayLenFacts
<1>2. \A i \in 1 .. LeafsetSize : leafset[i].is_set <=> i <= len
  BY UnsetBehind
<1>3. ASSUME NEW k \in 1 .. LeafsetSize, k <= len + 1,
             l \in Sortings([leafset EXCEPT ![k] = e], right)
      PROVE  ArrayLen(l) = IF k <= len THEN len ELSE len + 1
  <2> DEFINE more == [leafset EXCEPT ![k] = e]
             n    == IF k <= len THEN len ELSE len + 1
  <2> HIDE DEF len
  <2>1. more \in Leafset
    BY DEF Leafset
  <2>2. \A i \in 1 .. LeafsetSize : more[i] = IF i = k THEN e ELSE leafset[i]
    BY DEF Leafset
  <2>3. l \in Sortings(more, right)
    BY <1>3
  <2> HIDE DEF more
  <2>4. n \in 0 .. LeafsetSize /\ \A i \in 1 .. LeafsetSize : more[i].is_set <=> i <= n
    BY <1>1, <1>2, <1>3, <2>2
  <2>5. NoHoles(more)
    BY <2>4 DEF NoHoles
  <2> HIDE DEF n
  <2>6. ArrayLen(more) = n
    BY <2>1, <2>4, LenUnique
  <2> QED BY <2>1, <2>3, <2>5, <2>6, SortingsLen DEF n
<1>4. CASE len < LeafsetSize
  <2>1. len + 1 \in 1 .. LeafsetSize /\ len + 1 <= len + 1 /\ ~(len + 1 <= len)
    BY <1>1, <1>4, LeafsetSizeAssumption
  <2>2. l \in Sortings([leafset EXCEPT ![len + 1] = e], right)
    BY <1>4 DEF Insert
  <2>3. ArrayLen(l) = len + 1
    BY <1>3, <2>1, <2>2
  <2> QED BY <1>4, <2>3
<1>5. CASE ~(len < LeafsetSize)
  <2>1. LeafsetSize \in 1 .. LeafsetSize /\ LeafsetSize <= len /\ LeafsetSize <= len + 1
    BY <1>1, <1>5, LeafsetSizeAssumption
  <2>2. l = leafset \/ l \in Sortings([leafset EXCEPT ![LeafsetSize] = e], right)
    BY <1>5 DEF Insert
  <2>3. ArrayLen(l) = len
    BY <1>3, <2>1, <2>2
  <2> QED BY <1>5, <2>3
<1> QED BY <1>4, <1>5

\* leafset_extract makes a leafset one shorter, or leaves it alone.
LEMMA ExtractLen ==
  ASSUME NEW leafset \in Leafset, NEW right \in BOOLEAN, NoHoles(leafset),
         NEW addr, NEW l \in Extract(leafset, addr, right)
  PROVE  l = leafset \/ ArrayLen(l) = ArrayLen(leafset) - 1
<1> DEFINE len   == ArrayLen(leafset)
           found == {i \in 1 .. len : leafset[i].addr = addr}
           first == CHOOSE i \in found : \A j \in found : i <= j
           less  == [leafset EXCEPT ![first] = leafset[len],
                                    ![len].is_set = FALSE]
<1>1. len \in 0 .. LeafsetSize
  BY ArrayLenFacts
<1>2. \A i \in 1 .. LeafsetSize : leafset[i].is_set <=> i <= len
  BY UnsetBehind
<1>3. CASE found = {}
  BY <1>3 DEF Extract
<1>4. CASE found # {}
  <2>1. l \in Sortings(less, right)
    BY <1>4 DEF Extract
  <2>2. first \in found
    <3>1. found \subseteq Nat
      BY <1>1
    <3>2. \E i \in found : \A j \in found : i <= j
      <4> HIDE DEF found
      <4> QED BY <1>4, <3>1, LeastNatural
    <3> QED BY <3>2
  <2>3. first \in 1 .. LeafsetSize /\ len \in 1 .. LeafsetSize /\ first <= len
    <3>1. first \in 1 .. len
      BY <2>2
    <3> HIDE DEF first, found, len
    <3> QED BY <1>1, <3>1, LeafsetSizeAssumption
  <2> HIDE DEF first, found, len
  <2>4. less \in Leafset
    BY <2>3 DEF Leafset, Entry
  <2>5. \A i \in 1 .. LeafsetSize : less[i].is_set <=> i <= len - 1
    BY <1>1, <1>2, <2>3 DEF Leafset, Entry
  <2> HIDE DEF less
  <2>6. NoHoles(less)
    BY <1>1, <2>5 DEF NoHoles
  <2>7. len - 1 \in 0 .. LeafsetSize
    BY <2>3, LeafsetSizeAssumption
  <2>8. ArrayLen(less) = len - 1
    BY <2>4, <2>5, <2>7, LenUnique
  <2>9. ArrayLen(l) = len - 1
    BY <2>1, <2>4, <2>6, <2>8, SortingsLen
  <2> QED BY <2>9 DEF len
<1> QED BY <1>3, <1>4

\* leafset_sort brings no leaf.
LEMMA SortingsFrom ==
  ASSUME NEW leafset \in Leafset, NoHoles(leafset), NEW right,
         NEW l \in Sortings(leafset, right),
         NEW i \in 1 .. LeafsetSize, l[i].is_set
  PROVE  \E j \in 1 .. LeafsetSize : leafset[j].is_set /\ l[i] = leafset[j]
<1> DEFINE len == ArrayLen(leafset)
<1>1. len \in 0 .. LeafsetSize
  BY ArrayLenFacts
<1>2. PICK p \in Permutation(len) :
         l = [j \in 1 .. LeafsetSize |->
                IF j <= len THEN leafset[p[j]] ELSE leafset[j]]
  BY DEF Sortings
<1>3. \A j \in 1 .. LeafsetSize : leafset[j].is_set <=> j <= len
  BY UnsetBehind
<1> HIDE DEF len
<1>4. l[i] = IF i <= len THEN leafset[p[i]] ELSE leafset[i]
  BY <1>2
<1>5. i <= len
  BY <1>3, <1>4
<1>6. p[i] \in 1 .. LeafsetSize /\ p[i] <= len
  BY <1>1, <1>5, LeafsetSizeAssumption DEF Permutation
<1> QED BY <1>3, <1>4, <1>5, <1>6

\* leafset_insert brings no leaf but the entry.
LEMMA InsertFrom ==
  ASSUME NEW leafset \in Leafset, NoHoles(leafset), NEW right,
         NEW e \in Entry, e.is_set, NEW l \in Insert(leafset, e, right),
         NEW i \in 1 .. LeafsetSize, l[i].is_set
  PROVE  l[i] = e \/ \E j \in 1 .. LeafsetSize : leafset[j].is_set /\ l[i] = leafset[j]
<1> DEFINE len == ArrayLen(leafset)
<1>1. len \in 0 .. LeafsetSize
  BY ArrayLenFacts
<1>2. \A j \in 1 .. LeafsetSize : leafset[j].is_set <=> j <= len
  BY UnsetBehind
<1>3. ASSUME NEW k \in 1 .. LeafsetSize, k <= len + 1,
             l \in Sortings([leafset EXCEPT ![k] = e], right)
      PROVE  l[i] = e \/ \E j \in 1 .. LeafsetSize : leafset[j].is_set /\ l[i] = leafset[j]
  <2> DEFINE more == [leafset EXCEPT ![k] = e]
  <2> HIDE DEF len
  <2>1. more \in Leafset
    BY DEF Leafset
  <2>2. \A j \in 1 .. LeafsetSize : more[j] = IF j = k THEN e ELSE leafset[j]
    BY DEF Leafset
  <2> HIDE DEF more
  <2>3. NoHoles(more)
    BY <1>1, <1>2, <1>3, <2>2 DEF NoHoles
  <2>4. \E j \in 1 .. LeafsetSize : more[j].is_set /\ l[i] = more[j]
    <3>1. l \in Sortings(more, right)
      BY <1>3 DEF more
    <3> QED BY <2>1, <2>3, <3>1, SortingsFrom
  <2> QED BY <2>2, <2>4
<1>4. CASE len < LeafsetSize
  <2>1. len + 1 \in 1 .. LeafsetSize
    BY <1>1, <1>4, LeafsetSizeAssumption
  <2>2. l \in Sortings([leafset EXCEPT ![len + 1] = e], right)
    BY <1>4 DEF Insert
  <2> QED BY <1>1, <1>3, <2>1, <2>2
<1>5. CASE ~(len < LeafsetSize)
  <2>1. LeafsetSize \in 1 .. LeafsetSize /\ LeafsetSize <= len + 1
    BY <1>1, <1>5, LeafsetSizeAssumption
  <2>2. l = leafset \/ l \in Sortings([leafset EXCEPT ![LeafsetSize] = e], right)
    BY <1>5 DEF Insert
  <2> QED BY <1>3, <2>1, <2>2
<1> QED BY <1>4, <1>5

\* leafset_extract brings no leaf.
LEMMA ExtractFrom ==
  ASSUME NEW leafset \in Leafset, NoHoles(leafset), NEW right,
         NEW addr, NEW l \in Extract(leafset, addr, right),
         NEW i \in 1 .. LeafsetSize, l[i].is_set
  PROVE  \E j \in 1 .. LeafsetSize : leafset[j].is_set /\ l[i] = leafset[j]
<1> DEFINE len   == ArrayLen(leafset)
           found == {j \in 1 .. len : leafset[j].addr = addr}
           first == CHOOSE j \in found : \A k \in found : j <= k
           less  == [leafset EXCEPT ![first] = leafset[len],
                                    ![len].is_set = FALSE]
<1>1. len \in 0 .. LeafsetSize
  BY ArrayLenFacts
<1>2. \A j \in 1 .. LeafsetSize : leafset[j].is_set <=> j <= len
  BY UnsetBehind
<1>3. CASE found = {}
  BY <1>3 DEF Extract
<1>4. CASE found # {}
  <2>1. l \in Sortings(less, right)
    BY <1>4 DEF Extract
  <2>2. first \in found
    <3>1. found \subseteq Nat
      BY <1>1
    <3>2. \E j \in found : \A k \in found : j <= k
      <4> HIDE DEF found
      <4> QED BY <1>4, <3>1, LeastNatural
    <3> QED BY <3>2
  <2>3. first \in 1 .. LeafsetSize /\ len \in 1 .. LeafsetSize /\ first <= len
    <3>1. first \in 1 .. len
      BY <2>2
    <3> HIDE DEF first, found, len
    <3> QED BY <1>1, <3>1, LeafsetSizeAssumption
  <2> HIDE DEF first, found, len
  <2>4. less \in Leafset
    BY <2>3 DEF Leafset, Entry
  <2>5. \A j \in 1 .. LeafsetSize :
          /\ less[j].is_set <=> j <= len - 1
          /\ j <= len - 1 => less[j] = IF j = first THEN leafset[len] ELSE leafset[j]
    BY <1>1, <1>2, <2>3 DEF Leafset, Entry
  <2> HIDE DEF less
  <2>6. NoHoles(less)
    BY <1>1, <2>5 DEF NoHoles
  <2>7. PICK j \in 1 .. LeafsetSize : less[j].is_set /\ l[i] = less[j]
    BY <2>1, <2>4, <2>6, SortingsFrom
  <2> QED BY <1>1, <1>2, <2>3, <2>5, <2>7
<1> QED BY <1>3, <1>4

-----------------------------------------------------------------------------
(* What a next hop is known from, and what is forgotten                    *)

\* The set entries of a router, self left aside: every next hop is one of them.
Knows(r, hop) ==
  \/ \E s \in Slot : hop = r.table[s] /\ r.table[s].is_set
  \/ \E i \in 1 .. LeafsetSize : hop = r.left[i]  /\ r.left[i].is_set
  \/ \E i \in 1 .. LeafsetSize : hop = r.right[i] /\ r.right[i].is_set

\* Leafset routing answers with a leaf, never with self.
LEMMA LeafsetHopKnown ==
  ASSUME NEW self \in Address, NEW r, Consistent(r, self), NEW dst \in Address,
         LeafsetHop(r, dst).is_set
  PROVE  Knows(r, LeafsetHop(r, dst)) /\ LeafsetHop(r, dst).addr # self
<1> DEFINE left  == Closest(dst, r.left,  self, 0)
           right == Closest(dst, r.right, self, 0)
           bests == <<r.self, left, right>>
           hop   == LeafsetHop(r, dst)
<1>1. r.self \in Entry /\ r.self.is_set /\ r.self.addr = self
      /\ r.left \in [1 .. LeafsetSize -> Entry] /\ r.right \in [1 .. LeafsetSize -> Entry]
  BY DEF Consistent, RouterState, Leafset
<1>2. /\ left \in Entry
      /\ left.is_set => \E i \in 1 .. LeafsetSize : left = r.left[i]
  BY <1>1, ClosestLeaf
<1>3. /\ right \in Entry
      /\ right.is_set => \E i \in 1 .. LeafsetSize : right = r.right[i]
  BY <1>1, ClosestLeaf
<1> HIDE DEF left, right
<1>4. bests \in [1 .. 3 -> Entry] /\ bests[1] = r.self
  BY <1>1, <1>2, <1>3
<1>5. hop = Best(r, dst, bests)
  BY <1>1 DEF LeafsetHop, left, right
<1>6. PICK i \in 1 .. 3 : hop = bests[i] /\ Before(Dist(bests[i].addr, dst), Dist(self, dst))
  <2> HIDE DEF bests, hop
  <2>1. 3 \in Nat /\ 3 >= 1 /\ Best(r, dst, bests).is_set
    BY <1>5 DEF hop
  <2> QED BY <1>1, <1>4, <1>5, <2>1, BestIsNearer
<1>7. hop.addr # self
  <2>1. Dist(self, dst) \in Address
    BY DistType
  <2> HIDE DEF bests, hop
  <2> QED BY <1>6, <2>1, BeforeIrreflexive
<1>8. hop = left \/ hop = right
  <2>1. i # 1
    BY <1>1, <1>4, <1>6, <1>7
  <2>2. i = 2 \/ i = 3
    BY <2>1
  <2> HIDE DEF hop
  <2> QED BY <1>6, <2>2
<1>9. hop.is_set
  OBVIOUS
<1> HIDE DEF hop
<1>10. Knows(r, hop)
  BY <1>2, <1>3, <1>8, <1>9 DEF Knows
<1> QED BY <1>7, <1>10 DEF hop

\* Table routing answers with an entry of the table or a leaf, never with self.
LEMMA TableHopKnown ==
  ASSUME NEW self \in Address, NEW r, Consistent(r, self), NEW dst \in Address,
         TableHop(r, dst).is_set
  PROVE  Knows(r, TableHop(r, dst)) /\ TableHop(r, dst).addr # self
<1> DEFINE hop   == TableHop(r, dst)
           level == Level(self, dst)
           row   == Closest(dst, Row(r, level), self, 0)
           left  == Closest(dst, r.left,  self, level)
           right == Closest(dst, r.right, self, level)
           bests == <<r.self, row, left, right>>
<1>1. r.self \in Entry /\ r.self.is_set /\ r.self.addr = self
      /\ r.left \in [1 .. LeafsetSize -> Entry] /\ r.right \in [1 .. LeafsetSize -> Entry]
      /\ r.table \in [Slot -> Entry]
  BY DEF Consistent, RouterState, Leafset
<1>2. SlotOf(r, dst) \in Slot
  <2> SUFFICES ASSUME SlotOf(r, dst) \notin Slot PROVE FALSE
    OBVIOUS
  <2>1. TableHop(r, dst) = [r.self EXCEPT !.is_set = FALSE]
    BY DEF TableHop
  <2> QED BY <1>1, <2>1 DEF Entry
<1>3. CASE r.table[SlotOf(r, dst)].is_set
  <2> DEFINE e == r.table[SlotOf(r, dst)]
  <2>1. hop = e
    BY <1>2, <1>3 DEF TableHop
  <2>2. SlotOf(r, e.addr) = SlotOf(r, dst) /\ e.addr \in Address
    BY <1>1, <1>2, <1>3 DEF Consistent, WellPlaced, Entry
  <2>3. e.addr # self
    <3>1. Level(self, e.addr) # HexLen
      BY <1>1, <1>2, <2>2, ByteBaseFacts DEF SlotOf, Slot
    <3>2. Level(self, self) = HexLen
      BY LevelFacts
    <3> QED BY <3>1, <3>2
  <2> QED BY <1>2, <1>3, <2>1, <2>3 DEF Knows
<1>4. CASE ~r.table[SlotOf(r, dst)].is_set
  <2>1. level \in 0 .. HexLen - 1 /\ level \in Nat
    BY <1>1, <1>2, ByteBaseFacts DEF SlotOf, Slot
  <2>2. Row(r, level) \in [1 .. HexBase -> Entry]
    BY <1>1, <2>1, HexBaseAssumption DEF Row, Slot
  <2>3. hop = Best(r, dst, bests)
    BY <1>1, <1>2, <1>4 DEF TableHop
  <2> HIDE DEF level
  <2>4. row \in Entry /\ (row.is_set => \E s \in Slot : row = r.table[s])
    <3>1. \A c \in 1 .. HexBase :
             <<level, c - 1>> \in Slot /\ Row(r, level)[c] = r.table[<<level, c - 1>>]
      BY <2>1, HexBaseAssumption DEF Row, Slot
    <3>2. /\ row \in Entry
          /\ row.is_set => \E c \in 1 .. HexBase : row = Row(r, level)[c]
      BY <2>2, ClosestIsFit, HexBaseAssumption
    <3> HIDE DEF row
    <3> QED BY <3>1, <3>2
  <2>5. /\ left \in Entry
        /\ left.is_set => \E i \in 1 .. LeafsetSize : left = r.left[i]
    BY <1>1, <2>1, ClosestLeaf
  <2>6. /\ right \in Entry
        /\ right.is_set => \E i \in 1 .. LeafsetSize : right = r.right[i]
    BY <1>1, <2>1, ClosestLeaf
  <2> HIDE DEF row, left, right
  <2>7. bests \in [1 .. 4 -> Entry] /\ bests[1] = r.self
    BY <1>1, <2>4, <2>5, <2>6
  <2>8. PICK i \in 1 .. 4 : hop = bests[i] /\ Before(Dist(bests[i].addr, dst), Dist(self, dst))
    <3> HIDE DEF bests, hop
    <3>1. 4 \in Nat /\ 4 >= 1 /\ Best(r, dst, bests).is_set
      BY <2>3 DEF hop
    <3> QED BY <1>1, <2>3, <2>7, <3>1, BestIsNearer
  <2>9. hop.addr # self
    <3>1. Dist(self, dst) \in Address
      BY DistType
    <3> HIDE DEF bests, hop
    <3> QED BY <2>8, <3>1, BeforeIrreflexive
  <2>10. hop = row \/ hop = left \/ hop = right
    <3>1. i # 1
      BY <1>1, <2>7, <2>8, <2>9
    <3>2. i = 2 \/ i = 3 \/ i = 4
      BY <3>1
    <3> HIDE DEF hop
    <3> QED BY <2>8, <3>2
  <2>11. hop.is_set
    OBVIOUS
  <2> HIDE DEF hop
  <2>12. Knows(r, hop)
    <3>1. CASE hop = row
      BY <2>4, <2>11, <3>1 DEF Knows
    <3>2. CASE hop = left \/ hop = right
      BY <2>5, <2>6, <2>11, <3>2 DEF Knows
    <3> QED BY <2>10, <3>1, <3>2
  <2> QED BY <2>9, <2>12 DEF hop
<1> QED BY <1>3, <1>4

\* Whatever sn_net_router_nexthop answers, it knew it.
LEMMA NexthopKnown ==
  ASSUME NEW self \in Address, NEW r, Consistent(r, self), NEW dst \in Address,
         NEW hop \in Nexthops(r, dst), hop.is_set
  PROVE  Knows(r, hop) /\ hop.addr # self
BY LeafsetHopKnown, TableHopKnown DEF Nexthops

\* A peer that a leafset holds once at most is gone when it was removed.
LEMMA RemoveForgets ==
  ASSUME NEW self \in Address, NEW r, Consistent(r, self),
         NEW addr \in Address, SlotOf(r, addr) \in Slot,
         CountOf(r.left, addr) <= 1, CountOf(r.right, addr) <= 1,
         NEW q \in RemoveEntry(r, addr), NEW hop, Knows(q, hop)
  PROVE  hop.addr # addr
<1> DEFINE unset == [is_set |-> FALSE, addr |-> addr, net_addr |-> NoNet]
<1>1. /\ r.left \in Leafset /\ r.right \in Leafset /\ r.table \in [Slot -> Entry]
      /\ r.self.addr = self /\ r \in RouterState
      /\ WellFormed(r.left, self, FALSE) /\ WellFormed(r.right, self, TRUE)
  BY DEF Consistent, RouterState
<1>2. Consistent(q, self) /\ q.table = [r.table EXCEPT ![SlotOf(r, addr)] = unset]
  BY RemoveConsistent
<1>3. ASSUME NEW s \in Slot, q.table[s].is_set PROVE q.table[s].addr # addr
  <2> SUFFICES ASSUME q.table[s].addr = addr PROVE FALSE
    OBVIOUS
  <2>1. SlotOf(q, addr) = s /\ SlotOf(q, addr) = SlotOf(r, addr)
    BY <1>1, <1>2, <1>3 DEF Consistent, WellPlaced, SlotOf
  <2>2. q.table[s] = unset
    BY <1>1, <1>2, <2>1
  <2> QED BY <1>3, <2>2
<1>4. ASSUME NEW l, NEW right \in BOOLEAN, NEW leafset \in Leafset,
             WellFormed(leafset, self, right), CountOf(leafset, addr) <= 1,
             l \in Extract(leafset, addr, right),
             NEW i \in 1 .. LeafsetSize, l[i].is_set
      PROVE  l[i].addr # addr
  <2>1. CountOf(l, addr) = 0
    BY <1>4, ExtractCount, CountFacts
  <2> QED BY <1>4, <2>1, CountFacts DEF PlacesOf
<1>5. ASSUME NEW l, NEW right \in BOOLEAN, WellFormed(l, self, right),
             Before(addr, self) <=> right,
             NEW i \in 1 .. LeafsetSize, l[i].is_set
      PROVE  l[i].addr # addr
  BY <1>5 DEF WellFormed, OnSide
<1>6. CASE ~Before(addr, r.self.addr)
  <2>1. PICK l \in Extract(r.right, addr, TRUE) :
           q = [r EXCEPT !.table[SlotOf(r, addr)] = unset, !.right = l]
    BY <1>6 DEF RemoveEntry
  <2>2. q.right = l /\ q.left = r.left
    BY <1>1, <2>1 DEF RouterState
  <2>3. \A i \in 1 .. LeafsetSize : q.right[i].is_set => q.right[i].addr # addr
    BY <1>1, <1>4, <2>1, <2>2
  <2>4. \A i \in 1 .. LeafsetSize : q.left[i].is_set => q.left[i].addr # addr
    BY <1>1, <1>5, <1>6, <2>2
  <2> QED BY <1>3, <2>3, <2>4 DEF Knows
<1>7. CASE Before(addr, r.self.addr)
  <2>1. PICK l \in Extract(r.left, addr, FALSE) :
           q = [r EXCEPT !.table[SlotOf(r, addr)] = unset, !.left = l]
    BY <1>7 DEF RemoveEntry
  <2>2. q.left = l /\ q.right = r.right
    BY <1>1, <2>1 DEF RouterState
  <2>3. \A i \in 1 .. LeafsetSize : q.left[i].is_set => q.left[i].addr # addr
    BY <1>1, <1>4, <2>1, <2>2
  <2>4. \A i \in 1 .. LeafsetSize : q.right[i].is_set => q.right[i].addr # addr
    BY <1>1, <1>5, <1>7, <2>2
  <2> QED BY <1>3, <2>3, <2>4 DEF Knows
<1> QED BY <1>6, <1>7

-----------------------------------------------------------------------------
(* What a query of the leafset lists                                       *)

\* The enumeration of a finite set of integers, least first, lists it in order.
LEMMA Enumeration ==
  ASSUME NEW S, S \subseteq Int, IsFiniteSet(S),
         NEW i \in 1 .. Cardinality(S)
  PROVE  \E p \in S : Cardinality({q \in S : q <= p}) = i
<1> DEFINE upto(p) == {q \in S : q <= p}
           place   == [p \in S |-> Cardinality(upto(p))]
           n       == Cardinality(S)
<1>1. n \in Nat
  BY FS_CardinalityType
<1>2. \A p \in S : IsFiniteSet(upto(p)) /\ place[p] \in Nat /\ place[p] <= n
  <2> TAKE p \in S
  <2>1. upto(p) \in SUBSET S
    OBVIOUS
  <2>2. IsFiniteSet(upto(p)) /\ Cardinality(upto(p)) <= n
    BY <2>1, FS_Subset
  <2>3. Cardinality(upto(p)) \in Nat
    BY <2>2, FS_CardinalityType
  <2> QED BY <2>2, <2>3
<1>3. \A p, q \in S : p < q => place[p] < place[q]
  <2> SUFFICES ASSUME NEW p \in S, NEW q \in S, p < q PROVE place[p] < place[q]
    OBVIOUS
  <2>1. upto(p) \in SUBSET upto(q) /\ q \in upto(q) /\ q \notin upto(p)
    <3>1. p \in Int /\ q \in Int /\ \A k \in S : k \in Int
      OBVIOUS
    <3>2. \A k \in Int : k <= p => k <= q
      BY <3>1
    <3>3. ~(q <= p) /\ q <= q
      BY <3>1
    <3> QED BY <3>1, <3>2, <3>3
  <2>2. Cardinality(upto(p)) <= Cardinality(upto(q)) /\ Cardinality(upto(p)) # Cardinality(upto(q))
    BY <1>2, <2>1, FS_Subset
  <2> QED BY <1>2, <2>2
<1>4. \A p \in S : place[p] \in 1 .. n
  <2> TAKE p \in S
  <2>1. p \in upto(p)
    <3>1. p \in Int
      OBVIOUS
    <3> QED BY <3>1
  <2>2. Cardinality(upto(p)) # 0
    BY <1>2, <2>1, FS_EmptySet
  <2> QED BY <1>1, <1>2, <2>2
<1> HIDE DEF n
<1>5. place \in Injection(S, 1 .. n)
  <2>1. place \in [S -> 1 .. n]
    <3>1. place = [p \in S |-> place[p]]
      OBVIOUS
    <3> HIDE DEF place
    <3> QED BY <1>4, <3>1
  <2>2. \A p, q \in S : place[p] = place[q] => p = q
    <3> SUFFICES ASSUME NEW p \in S, NEW q \in S, place[p] = place[q], p # q PROVE FALSE
      OBVIOUS
    <3> HIDE DEF place
    <3>1. p \in Int /\ q \in Int /\ place[p] \in Nat
      BY <1>2
    <3>2. p < q \/ q < p
      BY <3>1
    <3>3. place[p] < place[q] \/ place[q] < place[p]
      BY <1>3, <3>2
    <3> QED BY <3>1, <3>3
  <2> HIDE DEF place
  <2> QED BY <2>1, <2>2 DEF Injection, IsInjective
<1>6. IsFiniteSet(1 .. n) /\ Cardinality(1 .. n) = n
  BY <1>1, FS_Interval
<1>7. place \in Surjection(S, 1 .. n)
  <2> HIDE DEF place
  <2> QED BY <1>5, <1>6, FS_Injection DEF n
<1>8. \E p \in S : place[p] = i
  BY <1>7 DEF Surjection, n
<1> QED BY <1>8

\* The entry at a position of a consistent router, and the order they are in.
LEMMA LeafsetGetAscends ==
  ASSUME NEW self \in Address, NEW r, Consistent(r, self),
         NEW p \in Position, NEW q \in Position, p < q,
         LeafsetGet(r, p).is_set, LeafsetGet(r, q).is_set
  PROVE  ~Before(LeafsetGet(r, q).addr, LeafsetGet(r, p).addr)
<1> DEFINE a == LeafsetGet(r, p).addr
           b == LeafsetGet(r, q).addr
<1>1. /\ r.left \in Leafset /\ r.right \in Leafset /\ r.self.addr = self
      /\ WellFormed(r.left, self, FALSE) /\ WellFormed(r.right, self, TRUE)
  BY DEF Consistent, RouterState
<1>2. p \in Int /\ q \in Int
  BY LeafsetSizeAssumption DEF Position
<1>3. ASSUME NEW x \in Position, x < 0
      PROVE  -x \in 1 .. LeafsetSize /\ LeafsetGet(r, x) = r.left[-x]
  BY <1>3, LeafsetSizeAssumption DEF Position, LeafsetGet
<1>4. ASSUME NEW x \in Position, x > 0
      PROVE  x \in 1 .. LeafsetSize /\ LeafsetGet(r, x) = r.right[x]
  BY <1>4, LeafsetSizeAssumption DEF Position, LeafsetGet
<1>5. LeafsetGet(r, 0) = r.self
  BY DEF LeafsetGet
<1>6. ASSUME NEW x \in Position, x < 0, LeafsetGet(r, x).is_set
      PROVE  LeafsetGet(r, x).addr \in Address /\ Before(LeafsetGet(r, x).addr, self)
  <2>1. r.left[-x].is_set /\ -x \in 1 .. LeafsetSize
    BY <1>3, <1>6
  <2> QED BY <1>1, <1>3, <1>6, <2>1 DEF WellFormed, OnSide, Leafset, Entry
<1>7. ASSUME NEW x \in Position, x > 0, LeafsetGet(r, x).is_set
      PROVE  LeafsetGet(r, x).addr \in Address /\ ~Before(LeafsetGet(r, x).addr, self)
  <2>1. r.right[x].is_set /\ x \in 1 .. LeafsetSize
    BY <1>4, <1>7
  <2> QED BY <1>1, <1>4, <1>7, <2>1 DEF WellFormed, OnSide, Leafset, Entry
<1>8. CASE p < 0 /\ q < 0
  <2>1. /\ -p \in 1 .. LeafsetSize /\ -q \in 1 .. LeafsetSize /\ -q < -p
        /\ LeafsetGet(r, p) = r.left[-p] /\ LeafsetGet(r, q) = r.left[-q]
    BY <1>2, <1>3, <1>8
  <2>2. ~Precedes(r.left[-p], r.left[-q], FALSE)
    BY <1>1, <2>1 DEF WellFormed, Ordered
  <2> QED BY <2>1, <2>2 DEF Precedes
<1>9. CASE p > 0 /\ q > 0
  <2>1. /\ p \in 1 .. LeafsetSize /\ q \in 1 .. LeafsetSize
        /\ LeafsetGet(r, p) = r.right[p] /\ LeafsetGet(r, q) = r.right[q]
    BY <1>4, <1>9
  <2>2. ~Precedes(r.right[q], r.right[p], TRUE)
    BY <1>1, <2>1 DEF WellFormed, Ordered
  <2> QED BY <2>1, <2>2 DEF Precedes
<1>10. CASE p < 0 /\ q >= 0
  <2>1. a \in Address /\ Before(a, self)
    BY <1>6, <1>10
  <2>2. b \in Address /\ ~Before(b, self)
    <3>1. CASE q = 0
      BY <1>1, <1>5, <3>1, BeforeIrreflexive
    <3>2. CASE q > 0
      BY <1>7, <3>2
    <3> QED BY <1>2, <1>10, <3>1, <3>2
  <2> HIDE DEF a, b
  <2>3. ~Before(b, a)
    BY <2>1, <2>2, BeforeTransitive
  <2> QED BY <2>3 DEF a, b
<1>11. CASE p = 0 /\ q > 0
  BY <1>1, <1>5, <1>7, <1>11
<1> QED BY <1>2, <1>8, <1>9, <1>10, <1>11

\* What is asked for is listed in order and, when every entry can be
\* serialised, completely.
LEMMA QueryLeafsetFacts ==
  ASSUME NEW r, NEW pmin \in Position, NEW pmax \in Position
  PROVE  LET answer == QueryLeafset(r, pmin, pmax)
             listed == {p \in pmin .. pmax : Serialisable(LeafsetGet(r, p))}
         IN  /\ Len(answer) = Cardinality(listed) /\ Len(answer) \in Nat
             /\ \A i \in 1 .. Len(answer) : answer[i] \in listed
             /\ \A i, j \in 1 .. Len(answer) : i < j => answer[i] < answer[j]
<1> DEFINE answer  == QueryLeafset(r, pmin, pmax)
           listed  == {p \in pmin .. pmax : Serialisable(LeafsetGet(r, p))}
           upto(p) == {q \in listed : q <= p}
           n       == Cardinality(listed)
<1>1. pmin \in Int /\ pmax \in Int
  BY LeafsetSizeAssumption DEF Position
<1>2. listed \subseteq Int /\ IsFiniteSet(listed) /\ n \in Nat
  <2>1. IsFiniteSet(pmin .. pmax)
    BY <1>1, FS_Interval
  <2>2. listed \in SUBSET (pmin .. pmax)
    OBVIOUS
  <2>3. IsFiniteSet(listed)
    BY <2>1, <2>2, FS_Subset
  <2>4. n \in Nat
    BY <2>3, FS_CardinalityType
  <2>5. listed \subseteq Int
    BY <1>1
  <2> QED BY <2>3, <2>4, <2>5
<1>3. answer = [i \in 1 .. n |-> CHOOSE p \in listed : Cardinality(upto(p)) = i]
  BY DEF QueryLeafset
<1> HIDE DEF answer, listed, n
<1>4. Len(answer) = n
  BY <1>2, <1>3
<1>5. \A i \in 1 .. n : answer[i] \in listed /\ Cardinality(upto(answer[i])) = i
  <2> TAKE i \in 1 .. n
  <2>1. \E p \in listed : Cardinality(upto(p)) = i
    BY <1>2, Enumeration DEF n
  <2> QED BY <1>3, <2>1
<1>6. ASSUME NEW i \in 1 .. n, NEW j \in 1 .. n, i < j
      PROVE  answer[i] < answer[j]
  <2> SUFFICES ASSUME ~(answer[i] < answer[j]) PROVE FALSE
    OBVIOUS
  <2>1. answer[i] \in Int /\ answer[j] \in Int
    BY <1>2, <1>5
  <2>2. answer[j] <= answer[i]
    BY <2>1
  <2>3. upto(answer[j]) \in SUBSET upto(answer[i])
    <3>1. \A q \in listed : q <= answer[j] => q <= answer[i]
      <4> TAKE q \in listed
      <4>1. q \in Int
        BY <1>2
      <4> QED BY <2>1, <2>2, <4>1
    <3> QED BY <3>1
  <2>4. IsFiniteSet(upto(answer[i]))
    <3>1. upto(answer[i]) \in SUBSET listed
      OBVIOUS
    <3> QED BY <1>2, <3>1, FS_Subset
  <2>5. Cardinality(upto(answer[j])) <= Cardinality(upto(answer[i]))
    BY <2>3, <2>4, FS_Subset
  <2>6. j <= i
    BY <1>5, <2>5
  <2> QED BY <1>2, <1>6, <2>6
<1>7. /\ Len(answer) = n /\ Len(answer) \in Nat
      /\ \A i \in 1 .. Len(answer) : answer[i] \in listed
      /\ \A i, j \in 1 .. Len(answer) : i < j => answer[i] < answer[j]
  BY <1>2, <1>4, <1>5, <1>6
<1> QED BY <1>7 DEF answer, listed, n
=============================================================================
