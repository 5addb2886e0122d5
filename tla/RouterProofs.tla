---------------------------- MODULE RouterProofs ----------------------------
(***************************************************************************)
(* What holds of a router for every address length, radix, leafset size    *)
(* and set of peers.  Consistency is inductive: a call of add or remove    *)
(* that returns leaves the table well placed and both leafsets well        *)
(* formed, whatever state of that kind it starts from.  Type correctness,  *)
(* the shape of the table and of the leafsets and the progress of every    *)
(* next hop follow from it.  That no call fails needs two facts more: no   *)
(* entry of the table, set or not, has the address of self, and no peer    *)
(* has.  That a removed peer is unlearnt needs LeafSlotsWritten, since a   *)
(* removal that runs into the assertion removes nothing; the refinements   *)
(* of NearestLeaves count the copies of every key.                         *)
(***************************************************************************)
EXTENDS Router, RoutingProofs

\* sn_net_router_init establishes Consistency, and add and remove keep it.
LEMMA ConsistencyInductive ==
  /\ Init => Consistency
  /\ Consistency /\ [Next]_vars => Consistency'
<1>1. Init => Consistency
  BY RouterInitConsistent, SelfAssumption, NetsAssumption DEF Init, Consistency
<1>2. ASSUME Consistency, [Next]_vars PROVE Consistency'
  <2>1. Consistent(snr, Self) /\ fault \in {"none", "assert", "bounds"}
    BY <1>2 DEF Consistency
  <2>2. CASE UNCHANGED vars
    BY <2>1, <2>2 DEF vars, Consistency
  <2>3. ASSUME NEW addr, Fail(SetFault(addr)) PROVE Consistency'
    BY <2>1, <2>3 DEF Fail, SetFault, Consistency
  <2>4. ASSUME NEW addr \in Peers, SetFault(addr) = "none"
        PROVE  addr \in Address /\ SlotOf(snr, addr) \in Slot
    BY <2>4, PeersAssumption DEF SetFault, OutOfBounds
  <2>5. ASSUME NEW addr \in Peers, Remove(addr) PROVE Consistency'
    <3>1. CASE Fail(SetFault(addr))
      BY <2>3, <3>1
    <3>2. CASE SetFault(addr) = "none" /\ snr' \in RemoveEntry(snr, addr) /\ UNCHANGED fault
      <4>1. Consistent(snr', Self)
        BY <2>1, <2>4, <3>2, RemoveConsistent, SelfAssumption
      <4> QED BY <2>1, <3>2, <4>1 DEF Consistency
    <3> QED BY <2>5, <3>1, <3>2 DEF Remove
  <2>6. ASSUME NEW addr \in Peers, NEW net \in Nets, Add(addr, net)
        PROVE  Consistency'
    <3>1. CASE Fail(SetFault(addr))
      BY <2>3, <3>1
    <3>2. CASE /\ SetFault(addr) = "none"
               /\ snr' \in AddEntry(snr, Set(addr, net)) /\ UNCHANGED fault
      <4>1. /\ Set(addr, net) \in Entry /\ Set(addr, net).is_set
            /\ Set(addr, net).addr = addr
        BY <2>4, <3>2, EntryTypes, NetsAssumption
      <4>2. Consistent(snr', Self)
        BY <2>1, <2>4, <3>2, <4>1, AddConsistent, SelfAssumption
      <4> QED BY <2>1, <3>2, <4>2 DEF Consistency
    <3> QED BY <2>6, <3>1, <3>2 DEF Add
  <2> QED BY <1>2, <2>2, <2>5, <2>6 DEF Next
<1> QED BY <1>1, <1>2

\* Whatever is added and removed, the router stays consistent.
THEOREM RouterConsistent == Spec => []Consistency
BY ConsistencyInductive, PTL DEF Spec

\* The fields of sn_net_router_t keep their types.
THEOREM RouterTypeOK == Spec => []TypeOK
<1>1. Consistency => TypeOK
  BY DEF Consistency, Consistent, TypeOK
<1> QED BY <1>1, RouterConsistent, PTL

\* A set entry of the table is where table routing looks for its address.
THEOREM RouterTableWellPlaced == Spec => []TableWellPlaced
<1>1. Consistency => TableWellPlaced
  BY DEF Consistency, Consistent, TableWellPlaced
<1> QED BY <1>1, RouterConsistent, PTL

\* Leafsets stay without holes, on their side and in order.
THEOREM RouterLeafsetsWellFormed == Spec => []LeafsetsWellFormed
<1>1. Consistency => LeafsetsWellFormed
  BY DEF Consistency, Consistent, LeafsetsWellFormed
<1> QED BY <1>1, RouterConsistent, PTL

\* Every next hop, of leafset or table routing, is progress.
THEOREM RouterNexthopProgress == Spec => []NexthopProgress
<1>1. Consistency => NexthopProgress
  BY LeafsetHopProgress, TableHopProgress, SelfAssumption DEF Consistency, NexthopProgress
<1> QED BY <1>1, RouterConsistent, PTL

-----------------------------------------------------------------------------
\* No entry of the table has self's address, not even one never written.
SelfNotInTable == \A s \in Slot : snr.table[s].addr # Self

\* A router that is not at address zero and is told of other addresses only
\* neither trips the assertion of sn_net_router_set nor leaves its table.
THEOREM RouterNoFault ==
  ASSUME Self # Zero, Self \notin Peers
  PROVE  Spec => []NoFault
<1> DEFINE Inv == Consistency /\ SelfNotInTable /\ NoFault
<1>1. Init => Inv
  <2> SUFFICES ASSUME Init PROVE SelfNotInTable /\ NoFault
    BY ConsistencyInductive
  <2>1. \A s \in Slot : snr.table[s].addr = Zero
    BY DEF Init, RouterInit, Unset
  <2> QED BY <2>1 DEF Init, SelfNotInTable, NoFault
<1>2. ASSUME Inv, [Next]_vars PROVE Inv'
  <2>1. Consistency'
    BY <1>2, ConsistencyInductive
  <2>2. CASE UNCHANGED vars
    BY <1>2, <2>1, <2>2 DEF vars, SelfNotInTable, NoFault
  <2>3. ASSUME NEW addr \in Peers
        PROVE  /\ addr \in Address /\ addr # Self
               /\ SlotOf(snr, addr) \in Slot /\ SetFault(addr) = "none"
    <3>1. addr \in Address /\ addr # Self
      BY PeersAssumption
    <3>2. snr.self.addr = Self
      BY <1>2 DEF Consistency, Consistent
    <3>3. SlotOf(snr, addr) \in Slot
      BY <3>1, <3>2, LevelOfDifferent, SelfAssumption DEF SlotOf, Slot
    <3>4. ~OutOfBounds(snr, addr) /\ ~Impossible(snr, addr)
      BY <1>2, <3>2, <3>3 DEF OutOfBounds, Impossible, SelfNotInTable
    <3> QED BY <3>1, <3>3, <3>4 DEF SetFault
  <2>4. snr.table \in [Slot -> Entry] /\ Consistent(snr, Self)
    BY <1>2 DEF Consistency, Consistent, RouterState
  <2>5. ASSUME NEW addr \in Peers, Remove(addr) PROVE SelfNotInTable' /\ NoFault'
    <3>1. snr' \in RemoveEntry(snr, addr) /\ UNCHANGED fault
      BY <2>3, <2>5 DEF Remove, Fail
    <3>2. snr'.table = [snr.table EXCEPT ![SlotOf(snr, addr)] =
                          [is_set |-> FALSE, addr |-> addr, net_addr |-> NoNet]]
      BY <2>3, <2>4, <3>1, RemoveConsistent, SelfAssumption
    <3> QED BY <1>2, <2>3, <2>4, <3>1, <3>2 DEF SelfNotInTable, NoFault
  <2>6. ASSUME NEW addr \in Peers, NEW net \in Nets, Add(addr, net)
        PROVE  SelfNotInTable' /\ NoFault'
    <3>1. snr' \in AddEntry(snr, Set(addr, net)) /\ UNCHANGED fault
      BY <2>3, <2>6 DEF Add, Fail
    <3>2. /\ Set(addr, net) \in Entry /\ Set(addr, net).is_set
          /\ Set(addr, net).addr = addr
      BY <2>3, EntryTypes, NetsAssumption
    <3>3. snr'.table = [snr.table EXCEPT ![SlotOf(snr, addr)] = Set(addr, net)]
      BY <2>3, <2>4, <3>1, <3>2, AddConsistent, SelfAssumption
    <3> QED BY <1>2, <2>3, <2>4, <3>1, <3>2, <3>3 DEF SelfNotInTable, NoFault
  <2> QED BY <1>2, <2>1, <2>2, <2>5, <2>6 DEF Next
<1>3. Inv => NoFault
  OBVIOUS
<1> QED BY <1>1, <1>2, <1>3, PTL DEF Spec

-----------------------------------------------------------------------------
(* What a removal unlearns                                                 *)

\* A leaf has the address.
HasLeaf(r, a) == PlacesOf(r.left, a) # {} \/ PlacesOf(r.right, a) # {}

\* The slot of every leaf was written, and not with self's address.
LeafSlotsWritten ==
  \A a \in Address :
    HasLeaf(snr, a) => SlotOf(snr, a) \in Slot /\ snr.table[SlotOf(snr, a)].addr # Self

\* An address that has a slot is another than self's.
LEMMA SlotNotOfSelf ==
  ASSUME NEW r, r.self.addr = Self, NEW addr \in Address, SlotOf(r, addr) \in Slot
  PROVE  addr # Self
<1> SUFFICES ASSUME addr = Self PROVE FALSE
  OBVIOUS
<1>1. Level(Self, Self) = HexLen
  BY LevelFacts, SelfAssumption
<1> QED BY <1>1, ByteBaseFacts DEF SlotOf, Slot

\* An insertion brings no address but that of the entry, an extraction none.
LEMMA NoOtherLeaves ==
  ASSUME NEW leafset \in Leafset, NEW right \in BOOLEAN,
         WellFormed(leafset, Self, right), NEW a, PlacesOf(leafset, a) = {}
  PROVE  /\ \A e \in Entry :
              e.is_set /\ (Before(e.addr, Self) <=> ~right) /\ e.addr # a =>
                \A l \in Insert(leafset, e, right) : PlacesOf(l, a) = {}
         /\ \A addr : \A l \in Extract(leafset, addr, right) : PlacesOf(l, a) = {}
<1>1. CountOf(leafset, a) = 0
  BY CountFacts
<1>2. ASSUME NEW e \in Entry, e.is_set, Before(e.addr, Self) <=> ~right, e.addr # a,
             NEW l \in Insert(leafset, e, right)
      PROVE  PlacesOf(l, a) = {}
  <2>1. l = leafset \/ CountOf(l, a) = CountOf(leafset, a) \/ CountOf(l, a) = CountOf(leafset, a) - 1
    BY <1>2, InsertCount, CountFacts, SelfAssumption
  <2> QED BY <1>1, <2>1, CountFacts
<1>3. ASSUME NEW addr, NEW l \in Extract(leafset, addr, right)
      PROVE  PlacesOf(l, a) = {}
  <2>1. l = leafset \/ CountOf(l, a) = CountOf(leafset, a) \/ CountOf(l, a) = CountOf(leafset, a) - 1
    BY ExtractCount, CountFacts, SelfAssumption
  <2> QED BY <1>1, <2>1, CountFacts
<1> QED BY <1>2, <1>3

\* Add and remove write the slot of what they are told, and leave the leafset
\* of the other side alone.
LEMMA LeafSlotsInductive ==
  /\ Init => LeafSlotsWritten
  /\ Consistency /\ LeafSlotsWritten /\ [Next]_vars => LeafSlotsWritten'
<1>1. ASSUME Init PROVE LeafSlotsWritten
  <2>1. \A a : PlacesOf(snr.left, a) = {} /\ PlacesOf(snr.right, a) = {}
    BY <1>1 DEF Init, RouterInit, PlacesOf, Unset
  <2> QED BY <2>1 DEF LeafSlotsWritten, HasLeaf
<1>2. ASSUME Consistency, LeafSlotsWritten, [Next]_vars PROVE LeafSlotsWritten'
  <2>1. /\ Consistent(snr, Self) /\ snr.self.addr = Self
        /\ snr.table \in [Slot -> Entry] /\ snr.left \in Leafset /\ snr.right \in Leafset
        /\ WellFormed(snr.left, Self, FALSE) /\ WellFormed(snr.right, Self, TRUE)
        /\ snr \in RouterState
    BY <1>2 DEF Consistency, Consistent, RouterState
  <2>2. CASE UNCHANGED snr
    BY <1>2, <2>2 DEF LeafSlotsWritten
  <2>3. ASSUME NEW addr \in Address, SlotOf(snr, addr) \in Slot, NEW e \in Entry,
               e.addr = addr, snr'.self = snr.self,
               snr'.table = [snr.table EXCEPT ![SlotOf(snr, addr)] = e],
               \A a \in Address : HasLeaf(snr', a) => HasLeaf(snr, a) \/ a = addr
        PROVE  LeafSlotsWritten'
    <3>1. addr # Self
      BY <2>1, <2>3, SlotNotOfSelf
    <3>2. ASSUME NEW a \in Address, HasLeaf(snr', a)
          PROVE  SlotOf(snr', a) \in Slot /\ snr'.table[SlotOf(snr', a)].addr # Self
      <4>1. SlotOf(snr', a) = SlotOf(snr, a)
        BY <2>3, SameSlots
      <4>2. SlotOf(snr, a) \in Slot /\ (a # addr => snr.table[SlotOf(snr, a)].addr # Self)
        BY <1>2, <2>3, <3>2 DEF LeafSlotsWritten
      <4>3. CASE SlotOf(snr, a) = SlotOf(snr, addr)
        BY <2>1, <2>3, <3>1, <4>1, <4>3
      <4>4. CASE SlotOf(snr, a) # SlotOf(snr, addr)
        <5>1. snr'.table[SlotOf(snr, a)] = snr.table[SlotOf(snr, a)]
          BY <2>1, <2>3, <4>2, <4>4
        <5>2. a # addr
          BY <4>4
        <5> QED BY <4>1, <4>2, <5>1, <5>2
      <4> QED BY <4>3, <4>4
    <3> QED BY <3>2 DEF LeafSlotsWritten
  <2>4. ASSUME NEW addr \in Peers, Remove(addr), ~UNCHANGED snr PROVE LeafSlotsWritten'
    <3> DEFINE unset == [is_set |-> FALSE, addr |-> addr, net_addr |-> NoNet]
    <3>1. addr \in Address /\ SlotOf(snr, addr) \in Slot /\ snr' \in RemoveEntry(snr, addr)
      BY <2>4, PeersAssumption DEF Remove, Fail, SetFault, OutOfBounds
    <3>2. unset \in Entry /\ unset.addr = addr
      BY <3>1, NoNetAssumption DEF Entry
    <3>3. snr'.table = [snr.table EXCEPT ![SlotOf(snr, addr)] = unset]
      BY <2>1, <3>1, RemoveConsistent, SelfAssumption
    <3> HIDE DEF unset
    <3>4. CASE ~Before(addr, snr.self.addr)
      <4>1. PICK l \in Extract(snr.right, addr, TRUE) :
               snr' = [snr EXCEPT !.table[SlotOf(snr, addr)] = unset, !.right = l]
        BY <3>1, <3>4 DEF RemoveEntry, unset
      <4>2. snr'.self = snr.self /\ snr'.left = snr.left /\ snr'.right = l
        BY <2>1, <4>1 DEF RouterState
      <4>3. \A a \in Address : HasLeaf(snr', a) => HasLeaf(snr, a)
        BY <2>1, <4>2, NoOtherLeaves DEF HasLeaf
      <4> QED BY <2>3, <3>1, <3>2, <3>3, <4>2, <4>3
    <3>5. CASE Before(addr, snr.self.addr)
      <4>1. PICK l \in Extract(snr.left, addr, FALSE) :
               snr' = [snr EXCEPT !.table[SlotOf(snr, addr)] = unset, !.left = l]
        BY <3>1, <3>5 DEF RemoveEntry, unset
      <4>2. snr'.self = snr.self /\ snr'.right = snr.right /\ snr'.left = l
        BY <2>1, <4>1 DEF RouterState
      <4>3. \A a \in Address : HasLeaf(snr', a) => HasLeaf(snr, a)
        BY <2>1, <4>2, NoOtherLeaves DEF HasLeaf
      <4> QED BY <2>3, <3>1, <3>2, <3>3, <4>2, <4>3
    <3> QED BY <3>4, <3>5
  <2>5. ASSUME NEW addr \in Peers, NEW net \in Nets, Add(addr, net), ~UNCHANGED snr
        PROVE  LeafSlotsWritten'
    <3> DEFINE e == Set(addr, net)
    <3>1. addr \in Address /\ SlotOf(snr, addr) \in Slot /\ snr' \in AddEntry(snr, e)
      BY <2>5, PeersAssumption DEF Add, Fail, SetFault, OutOfBounds
    <3>2. e \in Entry /\ e.is_set /\ e.addr = addr
      BY <3>1, EntryTypes, NetsAssumption
    <3> HIDE DEF e
    <3>3. snr'.table = [snr.table EXCEPT ![SlotOf(snr, addr)] = e]
      BY <2>1, <3>1, <3>2, AddConsistent, SelfAssumption
    <3>4. CASE ~Before(addr, snr.self.addr)
      <4>1. PICK l \in Insert(snr.right, e, TRUE) :
               snr' = [snr EXCEPT !.table[SlotOf(snr, addr)] = e, !.right = l]
        BY <3>1, <3>2, <3>4 DEF AddEntry
      <4>2. snr'.self = snr.self /\ snr'.left = snr.left /\ snr'.right = l
        BY <2>1, <4>1 DEF RouterState
      <4>3. \A a \in Address : HasLeaf(snr', a) => HasLeaf(snr, a) \/ a = addr
        BY <2>1, <3>2, <3>4, <4>1, <4>2, NoOtherLeaves DEF HasLeaf
      <4> QED BY <2>3, <3>1, <3>2, <3>3, <4>2, <4>3
    <3>5. CASE Before(addr, snr.self.addr)
      <4>1. PICK l \in Insert(snr.left, e, FALSE) :
               snr' = [snr EXCEPT !.table[SlotOf(snr, addr)] = e, !.left = l]
        BY <3>1, <3>2, <3>5 DEF AddEntry
      <4>2. snr'.self = snr.self /\ snr'.right = snr.right /\ snr'.left = l
        BY <2>1, <4>1 DEF RouterState
      <4>3. \A a \in Address : HasLeaf(snr', a) => HasLeaf(snr, a) \/ a = addr
        BY <2>1, <3>2, <3>5, <4>1, <4>2, NoOtherLeaves DEF HasLeaf
      <4> QED BY <2>3, <3>1, <3>2, <3>3, <4>2, <4>3
    <3> QED BY <3>4, <3>5
  <2> QED BY <1>2, <2>2, <2>4, <2>5 DEF Next, vars
<1> QED BY <1>1, <1>2

\* No next hop leads to a peer that was removed and that one leaf held at
\* most, whether the removal went through or ran into an assertion.
LEMMA RemoveStepUnlearns ==
  ASSUME Consistency, LeafSlotsWritten, NEW addr \in Peers,
         Remove(addr), Copies(addr) <= 1
  PROVE  Unreachable(snr', addr)
<1>1. /\ Consistent(snr, Self) /\ snr.self.addr = Self /\ addr \in Address
      /\ snr.table \in [Slot -> Entry]
  BY PeersAssumption DEF Consistency, Consistent, RouterState
<1>2. CountOf(snr.left, addr) <= 1 /\ CountOf(snr.right, addr) <= 1
  <2>1. Copies(addr) = CountOf(snr.left, addr) + CountOf(snr.right, addr)
    BY DEF Copies, CountOf, PlacesOf
  <2> QED BY <2>1, CountFacts
<1>3. CASE SetFault(addr) = "none" /\ snr' \in RemoveEntry(snr, addr)
  <2>1. SlotOf(snr, addr) \in Slot
    BY <1>3 DEF SetFault, OutOfBounds
  <2>2. Consistent(snr', Self)
    BY <1>1, <1>3, <2>1, RemoveConsistent, SelfAssumption
  <2>3. ASSUME NEW dst \in Address, NEW hop \in Nexthops(snr', dst), hop.is_set
        PROVE  hop.addr # addr
    <3>1. Knows(snr', hop)
      BY <2>2, <2>3, NexthopKnown, SelfAssumption
    <3> QED BY <1>1, <1>2, <1>3, <2>1, <3>1, RemoveForgets, SelfAssumption
  <2> QED BY <2>3 DEF Unreachable
<1>4. CASE SetFault(addr) # "none" /\ snr' = snr
  <2>1. ASSUME NEW dst \in Address, NEW hop \in Nexthops(snr, dst), hop.is_set
        PROVE  hop.addr # addr
    <3>1. Knows(snr, hop) /\ hop.addr # Self
      BY <1>1, <2>1, NexthopKnown, SelfAssumption
    <3> SUFFICES ASSUME hop.addr = addr PROVE FALSE
      OBVIOUS
    <3>2. SlotOf(snr, addr) \in Slot
      BY <1>1, <3>1, LevelOfDifferent, SelfAssumption DEF SlotOf, Slot
    <3>3. snr.table[SlotOf(snr, addr)].addr = Self
      BY <1>1, <1>4, <3>2 DEF SetFault, OutOfBounds, Impossible
    <3>4. HasLeaf(snr, addr) \/ \E s \in Slot : hop = snr.table[s] /\ snr.table[s].is_set
      BY <3>1 DEF Knows, HasLeaf, PlacesOf
    <3>5. ~HasLeaf(snr, addr)
      BY <1>1, <3>3 DEF LeafSlotsWritten
    <3>6. PICK s \in Slot : hop = snr.table[s] /\ snr.table[s].is_set
      BY <3>4, <3>5
    <3>7. SlotOf(snr, addr) = s
      BY <1>1, <3>6 DEF Consistent, WellPlaced
    <3> QED BY <3>1, <3>3, <3>6, <3>7
  <2> QED BY <1>4, <2>1 DEF Unreachable
<1> QED BY <1>3, <1>4 DEF Remove, Fail

\* After sn_net_router_remove of a peer that was in a leafset once at most, no
\* destination is routed to that peer.
THEOREM RouterRemoveUnlearns == Spec => RemoveUnlearns
<1> DEFINE Step == \A addr \in Peers :
                     Remove(addr) /\ Copies(addr) <= 1 => Unreachable(snr', addr)
<1>1. Consistency /\ LeafSlotsWritten /\ [Next]_vars => Step
  BY RemoveStepUnlearns
<1> HIDE DEF Step
<1>2. Spec => [][Step]_vars
  BY <1>1, ConsistencyInductive, LeafSlotsInductive, PTL DEF Spec
<1> QED BY <1>2 DEF RemoveUnlearns, Step

-----------------------------------------------------------------------------
(* What a query answers                                                    *)

\* Whatever is set in a leafset was added with one of the network addresses.
LeavesAsAdded ==
  /\ snr.self.net_addr \in Nets
  /\ \A i \in 1 .. LeafsetSize :
       /\ snr.left[i].is_set  => snr.left[i].net_addr \in Nets
       /\ snr.right[i].is_set => snr.right[i].net_addr \in Nets

\* leafset_insert and leafset_extract keep network addresses from outside Nets
\* out of a leafset.
LEMMA NetsOfLeaves ==
  ASSUME NEW leafset \in Leafset, NoHoles(leafset), NEW right \in BOOLEAN,
         \A i \in 1 .. LeafsetSize : leafset[i].is_set => leafset[i].net_addr \in Nets
  PROVE  /\ \A addr : \A l \in Extract(leafset, addr, right) :
              \A i \in 1 .. LeafsetSize : l[i].is_set => l[i].net_addr \in Nets
         /\ \A e \in Entry : e.is_set /\ e.net_addr \in Nets =>
              \A l \in Insert(leafset, e, right) :
                \A i \in 1 .. LeafsetSize : l[i].is_set => l[i].net_addr \in Nets
<1>1. ASSUME NEW addr, NEW l \in Extract(leafset, addr, right),
             NEW i \in 1 .. LeafsetSize, l[i].is_set
      PROVE  l[i].net_addr \in Nets
  <2>1. PICK j \in 1 .. LeafsetSize : leafset[j].is_set /\ l[i] = leafset[j]
    BY <1>1, ExtractFrom
  <2> QED BY <2>1
<1>2. ASSUME NEW e \in Entry, e.is_set, e.net_addr \in Nets,
             NEW l \in Insert(leafset, e, right),
             NEW i \in 1 .. LeafsetSize, l[i].is_set
      PROVE  l[i].net_addr \in Nets
  <2>1. l[i] = e \/ \E j \in 1 .. LeafsetSize : leafset[j].is_set /\ l[i] = leafset[j]
    BY <1>2, InsertFrom
  <2> QED BY <1>2, <2>1
<1> QED BY <1>1, <1>2

\* Add writes what it is told, and the leafsets only move it about.
LEMMA LeavesAsAddedInductive ==
  /\ Init => LeavesAsAdded
  /\ Consistency /\ LeavesAsAdded /\ [Next]_vars => LeavesAsAdded'
<1>1. ASSUME Init PROVE LeavesAsAdded
  BY <1>1 DEF Init, RouterInit, Set, Unset, LeavesAsAdded
<1>2. ASSUME Consistency, LeavesAsAdded, [Next]_vars PROVE LeavesAsAdded'
  <2>1. /\ snr.left \in Leafset /\ snr.right \in Leafset /\ snr \in RouterState
        /\ NoHoles(snr.left) /\ NoHoles(snr.right)
    BY <1>2 DEF Consistency, Consistent, RouterState, WellFormed
  <2>2. CASE UNCHANGED snr
    BY <1>2, <2>2 DEF LeavesAsAdded
  <2>3. ASSUME NEW addr \in Peers, Remove(addr), ~UNCHANGED snr PROVE LeavesAsAdded'
    <3> DEFINE table == [snr.table EXCEPT ![SlotOf(snr, addr)] =
                           [is_set |-> FALSE, addr |-> addr, net_addr |-> NoNet]]
    <3>1. snr' \in RemoveEntry(snr, addr)
      BY <2>3 DEF Remove, Fail
    <3>2. \/ \E l \in Extract(snr.right, addr, TRUE) :
               snr' = [snr EXCEPT !.table = table, !.right = l]
          \/ \E l \in Extract(snr.left, addr, FALSE) :
               snr' = [snr EXCEPT !.table = table, !.left = l]
      BY <3>1 DEF RemoveEntry
    <3>3. CASE \E l \in Extract(snr.right, addr, TRUE) :
                 snr' = [snr EXCEPT !.table = table, !.right = l]
      <4>1. PICK l \in Extract(snr.right, addr, TRUE) :
               snr'.self = snr.self /\ snr'.left = snr.left /\ snr'.right = l
        BY <2>1, <3>3 DEF RouterState
      <4>2. \A i \in 1 .. LeafsetSize : l[i].is_set => l[i].net_addr \in Nets
        BY <1>2, <2>1, NetsOfLeaves DEF LeavesAsAdded
      <4> QED BY <1>2, <4>1, <4>2 DEF LeavesAsAdded
    <3>4. CASE \E l \in Extract(snr.left, addr, FALSE) :
                 snr' = [snr EXCEPT !.table = table, !.left = l]
      <4>1. PICK l \in Extract(snr.left, addr, FALSE) :
               snr'.self = snr.self /\ snr'.right = snr.right /\ snr'.left = l
        BY <2>1, <3>4 DEF RouterState
      <4>2. \A i \in 1 .. LeafsetSize : l[i].is_set => l[i].net_addr \in Nets
        BY <1>2, <2>1, NetsOfLeaves DEF LeavesAsAdded
      <4> QED BY <1>2, <4>1, <4>2 DEF LeavesAsAdded
    <3> QED BY <3>2, <3>3, <3>4
  <2>4. ASSUME NEW addr \in Peers, NEW net \in Nets, Add(addr, net), ~UNCHANGED snr
        PROVE  LeavesAsAdded'
    <3> DEFINE e == Set(addr, net)
               table == [snr.table EXCEPT ![SlotOf(snr, addr)] = e]
    <3>1. snr' \in AddEntry(snr, e) /\ e.addr = addr
      BY <2>4 DEF Add, Fail, Set
    <3>2. e \in Entry /\ e.is_set /\ e.net_addr \in Nets
      BY EntryTypes, NetsAssumption, PeersAssumption DEF Set
    <3> HIDE DEF e
    <3>3. \/ \E l \in Insert(snr.right, e, TRUE) :
               snr' = [snr EXCEPT !.table = table, !.right = l]
          \/ \E l \in Insert(snr.left, e, FALSE) :
               snr' = [snr EXCEPT !.table = table, !.left = l]
      BY <3>1 DEF AddEntry
    <3>4. CASE \E l \in Insert(snr.right, e, TRUE) :
                 snr' = [snr EXCEPT !.table = table, !.right = l]
      <4>1. PICK l \in Insert(snr.right, e, TRUE) :
               snr'.self = snr.self /\ snr'.left = snr.left /\ snr'.right = l
        BY <2>1, <3>4 DEF RouterState
      <4>2. \A i \in 1 .. LeafsetSize : l[i].is_set => l[i].net_addr \in Nets
        BY <1>2, <2>1, <3>2, NetsOfLeaves DEF LeavesAsAdded
      <4> QED BY <1>2, <4>1, <4>2 DEF LeavesAsAdded
    <3>5. CASE \E l \in Insert(snr.left, e, FALSE) :
                 snr' = [snr EXCEPT !.table = table, !.left = l]
      <4>1. PICK l \in Insert(snr.left, e, FALSE) :
               snr'.self = snr.self /\ snr'.right = snr.right /\ snr'.left = l
        BY <2>1, <3>5 DEF RouterState
      <4>2. \A i \in 1 .. LeafsetSize : l[i].is_set => l[i].net_addr \in Nets
        BY <1>2, <2>1, <3>2, NetsOfLeaves DEF LeavesAsAdded
      <4> QED BY <1>2, <4>1, <4>2 DEF LeavesAsAdded
    <3> QED BY <3>3, <3>4, <3>5
  <2> QED BY <1>2, <2>2, <2>3, <2>4 DEF Next, vars
<1> QED BY <1>1, <1>2

\* The answer to a query of the leafset ascends and, when every network
\* address can be serialised, lists every leaf and the node.
THEOREM RouterQueryLeafsetAscends == Spec => []QueryLeafsetAscends
<1> DEFINE listed(pmin, pmax) == {p \in pmin .. pmax : Serialisable(LeafsetGet(snr, p))}
<1>1. ASSUME Consistency, LeavesAsAdded PROVE QueryLeafsetAscends
  <2>1. /\ Consistent(snr, Self) /\ snr.self.is_set
        /\ snr.left \in Leafset /\ snr.right \in Leafset
        /\ NoHoles(snr.left) /\ NoHoles(snr.right)
    BY <1>1 DEF Consistency, Consistent, RouterState, WellFormed
  <2>2. ASSUME NEW pmin \in Position, NEW pmax \in Position
        PROVE  LET answer == QueryLeafset(snr, pmin, pmax)
               IN  \A i, j \in 1 .. Len(answer) : i < j =>
                     ~Before(LeafsetGet(snr, answer[j]).addr, LeafsetGet(snr, answer[i]).addr)
    <3> DEFINE answer == QueryLeafset(snr, pmin, pmax)
    <3>1. /\ \A i \in 1 .. Len(answer) : answer[i] \in listed(pmin, pmax)
          /\ \A i, j \in 1 .. Len(answer) : i < j => answer[i] < answer[j]
      BY QueryLeafsetFacts
    <3>2. \A p \in listed(pmin, pmax) : p \in Position /\ LeafsetGet(snr, p).is_set
      BY LeafsetSizeAssumption DEF Position, Serialisable
    <3> HIDE DEF answer, listed
    <3>3. \A i, j \in 1 .. Len(answer) : i < j =>
            ~Before(LeafsetGet(snr, answer[j]).addr, LeafsetGet(snr, answer[i]).addr)
      BY <2>1, <3>1, <3>2, LeafsetGetAscends, SelfAssumption
    <3> QED BY <3>3 DEF answer
  <2>3. ASSUME NEW pmin \in Position, NEW pmax \in Position,
               pmin = -LeafsetSize, pmax = LeafsetSize, NoNet \notin Nets
        PROVE  Len(QueryLeafset(snr, pmin, pmax)) = ArrayLen(snr.left) + 1 + ArrayLen(snr.right)
    <3> DEFINE l == ArrayLen(snr.left)
               r == ArrayLen(snr.right)
    <3>1. l \in 0 .. LeafsetSize /\ r \in 0 .. LeafsetSize /\ LeafsetSize \in Nat
      BY <2>1, ArrayLenFacts, LeafsetSizeAssumption
    <3>2. \A i \in 1 .. LeafsetSize :
             (snr.left[i].is_set <=> i <= l) /\ (snr.right[i].is_set <=> i <= r)
      BY <2>1, UnsetBehind
    <3> HIDE DEF l, r
    <3>3. ASSUME NEW p \in pmin .. pmax
          PROVE  Serialisable(LeafsetGet(snr, p)) <=> p \in -l .. r
      <4>1. CASE p < 0
        <5>1. -p \in 1 .. LeafsetSize /\ LeafsetGet(snr, p) = snr.left[-p]
          BY <2>3, <3>1, <4>1 DEF LeafsetGet
        <5>2. Serialisable(LeafsetGet(snr, p)) <=> -p <= l
          BY <1>1, <2>3, <3>2, <5>1 DEF Serialisable, LeavesAsAdded
        <5> QED BY <2>3, <3>1, <4>1, <5>2
      <4>2. CASE p > 0
        <5>1. p \in 1 .. LeafsetSize /\ LeafsetGet(snr, p) = snr.right[p]
          BY <2>3, <3>1, <4>2 DEF LeafsetGet
        <5>2. Serialisable(LeafsetGet(snr, p)) <=> p <= r
          BY <1>1, <2>3, <3>2, <5>1 DEF Serialisable, LeavesAsAdded
        <5> QED BY <2>3, <3>1, <4>2, <5>2
      <4>3. CASE p = 0
        <5>1. LeafsetGet(snr, p) = snr.self
          BY <4>3 DEF LeafsetGet
        <5>2. Serialisable(LeafsetGet(snr, p))
          BY <1>1, <2>1, <2>3, <5>1 DEF Serialisable, LeavesAsAdded
        <5> QED BY <3>1, <4>3, <5>2
      <4> QED BY <2>3, <3>1, <4>1, <4>2, <4>3
    <3>4. listed(pmin, pmax) = -l .. r
      <4>1. \A p \in -l .. r : p \in pmin .. pmax
        BY <2>3, <3>1
      <4> QED BY <3>3, <4>1
    <3>5. Cardinality(-l .. r) = l + 1 + r
      <4>1. -l \in Int /\ r \in Int /\ ~(-l > r) /\ r - (-l) + 1 = l + 1 + r
        BY <3>1
      <4>2. Cardinality(-l .. r) = r - (-l) + 1
        BY <4>1, FS_Interval
      <4> QED BY <4>1, <4>2
    <3>6. Len(QueryLeafset(snr, pmin, pmax)) = Cardinality(listed(pmin, pmax))
      BY QueryLeafsetFacts
    <3> HIDE DEF listed
    <3> QED BY <3>4, <3>5, <3>6 DEF l, r
  <2> QED BY <2>2, <2>3 DEF QueryLeafsetAscends
<1>2. Spec => []Consistency /\ []LeavesAsAdded
  BY ConsistencyInductive, LeavesAsAddedInductive, PTL DEF Spec
<1> QED BY <1>1, <1>2, PTL

-----------------------------------------------------------------------------
(* The leafsets implement NearestLeaves                                    *)

\* a is nearer to self than b, for addresses on one side of it.
NearerOn(right, a, b) == IF right THEN Before(a, b) ELSE Before(b, a)

\* Either side has a strict total order.
LEMMA NearerOrder ==
  ASSUME NEW right \in BOOLEAN
  PROVE  /\ \A a \in Address : ~NearerOn(right, a, a)
         /\ \A a, b, c \in Address :
              NearerOn(right, a, b) /\ NearerOn(right, b, c) => NearerOn(right, a, c)
         /\ \A a, b \in Address : NearerOn(right, a, b) \/ NearerOn(right, b, a) \/ a = b
BY BeforeIrreflexive, BeforeTransitive, BeforeTotal DEF NearerOn

\* The copies of a bag, every one with a number, as in NearestLeaves.
Numbered(bag) == UNION {{k} \X (1 .. bag[k]) : k \in Address}

\* A bag of n addresses.
OfSize(bag, n) == IsFiniteSet(Numbered(bag)) /\ Cardinality(Numbered(bag)) = n

\* One copy more and one copy less of an address.
More(bag, k) == [bag EXCEPT ![k] = @ + 1]
Less(bag, k) == [bag EXCEPT ![k] = @ - 1]

\* One copy more, one copy less.
LEMMA BagSteps ==
  ASSUME NEW bag \in [Address -> Nat], NEW n \in Nat, OfSize(bag, n), NEW k \in Address
  PROVE  /\ OfSize(More(bag, k), n + 1)
         /\ bag[k] > 0 => n > 0 /\ OfSize(Less(bag, k), n - 1)
<1>1. \A b : \A a, i : <<a, i>> \in Numbered(b) <=> a \in Address /\ i \in 1 .. b[a]
  BY DEF Numbered
<1>2. \A b : \A c \in Numbered(b) : \E a \in Address, i \in Int : c = <<a, i>>
  BY DEF Numbered
<1>3. ASSUME NEW b, NEW d, NEW top,
             \A a \in Address, i \in Int :
               i \in 1 .. d[a] <=> i \in 1 .. b[a] \/ <<a, i>> = top,
             top \in Numbered(d)
      PROVE  Numbered(d) = Numbered(b) \cup {top}
  <2>1. ASSUME NEW c \in Numbered(d) PROVE c \in Numbered(b) \cup {top}
    BY <1>1, <1>2, <1>3
  <2>2. ASSUME NEW c \in Numbered(b) PROVE c \in Numbered(d)
    BY <1>1, <1>2, <1>3
  <2> QED BY <1>3, <2>1, <2>2
<1> HIDE DEF Numbered
<1>4. OfSize(More(bag, k), n + 1)
  <2> DEFINE new == <<k, bag[k] + 1>>
  <2>1. \A a \in Address : More(bag, k)[a] = IF a = k THEN bag[a] + 1 ELSE bag[a]
    BY DEF More
  <2>2. new \notin Numbered(bag) /\ new \in Numbered(More(bag, k))
    BY <1>1, <2>1
  <2>3. \A a \in Address, i \in Int :
           i \in 1 .. More(bag, k)[a] <=> i \in 1 .. bag[a] \/ <<a, i>> = new
    BY <2>1
  <2>4. Numbered(More(bag, k)) = Numbered(bag) \cup {new}
    <3> HIDE DEF new
    <3> QED BY <1>3, <2>2, <2>3
  <2> HIDE DEF new
  <2> QED BY <2>2, <2>4, FS_AddElement DEF OfSize
<1>5. ASSUME bag[k] > 0 PROVE n > 0 /\ OfSize(Less(bag, k), n - 1)
  <2> DEFINE old == <<k, bag[k]>>
  <2>1. \A a \in Address : Less(bag, k)[a] = IF a = k THEN bag[a] - 1 ELSE bag[a]
    BY DEF Less
  <2>2. old \in Numbered(bag) /\ old \notin Numbered(Less(bag, k))
    BY <1>1, <1>5, <2>1
  <2>3. \A a \in Address, i \in Int :
           i \in 1 .. bag[a] <=> i \in 1 .. Less(bag, k)[a] \/ <<a, i>> = old
    BY <1>5, <2>1
  <2>4. Numbered(bag) = Numbered(Less(bag, k)) \cup {old}
    <3> HIDE DEF old
    <3> QED BY <1>3, <2>2, <2>3
  <2> HIDE DEF old
  <2>5. Numbered(Less(bag, k)) = Numbered(bag) \ {old}
    BY <2>2, <2>4
  <2>6. n # 0
    BY <2>2, FS_EmptySet DEF OfSize
  <2> QED BY <2>2, <2>5, <2>6, FS_RemoveElement DEF OfSize
<1> QED BY <1>4, <1>5

\* What a leafset stands for in NearestLeaves is a bag.
LEMMA CopiesInType ==
  ASSUME NEW leafset
  PROVE  /\ CopiesIn(leafset) \in [Address -> Nat]
         /\ \A a \in Address : CopiesIn(leafset)[a] = CountOf(leafset, a)
<1>1. \A a \in Address : CopiesIn(leafset)[a] = CountOf(leafset, a)
  BY DEF CopiesIn, CountOf, PlacesOf
<1>2. CopiesIn(leafset) = [a \in Address |-> CopiesIn(leafset)[a]]
  BY DEF CopiesIn
<1> QED BY <1>1, <1>2, CountFacts

\* A leafset and its bag are of one size.
Sized(leafset) == OfSize(CopiesIn(leafset), ArrayLen(leafset))

\* leafset_insert is an offer: the entry comes in, and when there is no room
\* a farthest one, perhaps itself, gives way.
LEMMA InsertOffers ==
  ASSUME NEW leafset \in Leafset, NEW right \in BOOLEAN,
         WellFormed(leafset, Self, right), Sized(leafset),
         NEW e \in Entry, e.is_set, Before(e.addr, Self) <=> ~right,
         NEW l \in Insert(leafset, e, right)
  PROVE  LET more == More(CopiesIn(leafset), e.addr)
         IN  /\ Sized(l)
             /\ IF ArrayLen(leafset) < LeafsetSize THEN CopiesIn(l) = more
                ELSE \E f \in Address :
                       /\ more[f] > 0
                       /\ \A j \in Address : more[j] > 0 => ~NearerOn(right, f, j)
                       /\ CopiesIn(l) = Less(more, f)
<1> DEFINE len  == ArrayLen(leafset)
           bag  == CopiesIn(leafset)
           more == More(bag, e.addr)
           last == leafset[LeafsetSize].addr
<1>1. len \in 0 .. LeafsetSize /\ len \in Nat /\ LeafsetSize \in 1 .. LeafsetSize
  BY ArrayLenFacts, LeafsetSizeAssumption
<1>2. /\ bag \in [Address -> Nat] /\ CopiesIn(l) \in [Address -> Nat]
      /\ \A a \in Address : bag[a] = CountOf(leafset, a)
      /\ \A a \in Address : CopiesIn(l)[a] = CountOf(l, a)
  BY CopiesInType
<1>3. e.addr \in Address /\ last \in Address
  BY <1>1 DEF Entry, Leafset
<1>4. /\ more \in [Address -> Nat]
      /\ \A a \in Address : more[a] = bag[a] + (IF a = e.addr THEN 1 ELSE 0)
      /\ OfSize(more, len + 1)
  <2>1. OfSize(bag, len)
    BY DEF Sized
  <2> HIDE DEF bag, len
  <2>2. OfSize(more, len + 1)
    BY <1>1, <1>2, <1>3, <2>1, BagSteps
  <2>3. /\ more \in [Address -> Nat]
        /\ \A a \in Address : more[a] = bag[a] + (IF a = e.addr THEN 1 ELSE 0)
    BY <1>2, <1>3 DEF More
  <2> QED BY <2>2, <2>3
<1> HIDE DEF more
<1>5. CASE len < LeafsetSize
  <2>1. \A a \in Address : CopiesIn(l)[a] = more[a]
    BY <1>2, <1>4, <1>5, InsertCount, SelfAssumption
  <2>2. CopiesIn(l) = more
    <3> HIDE DEF bag
    <3> QED BY <1>2, <1>4, <2>1
  <2>3. ArrayLen(l) = len + 1
    BY <1>5, InsertLen DEF WellFormed
  <2> QED BY <1>4, <1>5, <2>2, <2>3 DEF Sized, more
<1>6. CASE ~(len < LeafsetSize)
  <2>1. ASSUME NEW f \in Address, more[f] > 0,
               \A j \in Address : more[j] > 0 => ~NearerOn(right, f, j),
               \A a \in Address : CopiesIn(l)[a] = more[a] - (IF a = f THEN 1 ELSE 0)
        PROVE  /\ Sized(l)
               /\ \E g \in Address :
                    /\ more[g] > 0
                    /\ \A j \in Address : more[j] > 0 => ~NearerOn(right, g, j)
                    /\ CopiesIn(l) = Less(more, g)
    <3>1. \A a \in Address : Less(more, f)[a] = more[a] - (IF a = f THEN 1 ELSE 0)
      BY <1>4 DEF Less
    <3>2. CopiesIn(l) = Less(more, f)
      <4>1. Less(more, f) = [a \in Address |-> Less(more, f)[a]]
        BY <1>4 DEF Less
      <4>2. CopiesIn(l) = [a \in Address |-> CopiesIn(l)[a]]
        BY DEF CopiesIn
      <4> QED BY <2>1, <3>1, <4>1, <4>2
    <3>3. ArrayLen(l) = len
      BY <1>6, InsertLen DEF WellFormed
    <3>4. OfSize(Less(more, f), len + 1 - 1)
      BY <1>1, <1>4, <2>1, BagSteps
    <3>5. Sized(l)
      BY <1>1, <3>2, <3>3, <3>4 DEF Sized
    <3> QED BY <2>1, <3>2, <3>5
  <2>2. ASSUME NEW j \in Address, bag[j] > 0
        PROVE  ~NearerOn(right, last, j)
    <3>1. PICK i \in 1 .. LeafsetSize : leafset[i].is_set /\ leafset[i].addr = j
      <4>1. PlacesOf(leafset, j) # {}
        <5>1. CountOf(leafset, j) # 0
          BY <1>2, <2>2
        <5> QED BY <5>1, CountFacts
      <4> QED BY <4>1 DEF PlacesOf
    <3>2. CASE i = LeafsetSize
      BY <1>3, <3>1, <3>2, NearerOrder
    <3>3. CASE i < LeafsetSize
      <4>1. leafset[LeafsetSize].is_set
        BY <1>1, <1>6, UnsetBehind DEF WellFormed
      <4>2. ~Precedes(leafset[LeafsetSize], leafset[i], right)
        BY <1>1, <3>3, <4>1 DEF WellFormed, Ordered
      <4> QED BY <3>1, <4>2 DEF Precedes, NearerOn
    <3> QED BY <1>1, <3>2, <3>3
  <2>3. bag[last] > 0
    <3>1. LeafsetSize \in PlacesOf(leafset, last)
      BY <1>1, <1>6, UnsetBehind DEF WellFormed, PlacesOf
    <3> QED BY <1>2, <1>3, <3>1, CountFacts
  <2>4. CASE Before(e.addr, last) # right
    <3>1. l = leafset
      BY <1>6, <2>4, InsertCount, SelfAssumption
    <3>2. ~NearerOn(right, e.addr, last)
      <4> HIDE DEF last
      <4>1. CASE right = TRUE
        BY <2>4, <4>1 DEF NearerOn
      <4>2. CASE right = FALSE
        <5>1. Before(e.addr, last)
          BY <2>4, <4>2 DEF Before
        <5> QED BY <1>3, <4>2, <5>1, BeforeIrreflexive, BeforeTransitive DEF NearerOn
      <4> QED BY <4>1, <4>2
    <3>3. ASSUME NEW j \in Address, more[j] > 0 PROVE ~NearerOn(right, e.addr, j)
      <4>1. CASE j = e.addr
        BY <4>1, NearerOrder
      <4>2. CASE j # e.addr
        <5>1. ~NearerOn(right, last, j)
          BY <1>2, <1>4, <2>2, <3>3, <4>2
        <5> QED BY <1>3, <3>2, <5>1, NearerOrder
      <4> QED BY <4>1, <4>2
    <3>4. \A a \in Address : CopiesIn(l)[a] = more[a] - (IF a = e.addr THEN 1 ELSE 0)
      BY <1>2, <1>4, <3>1
    <3>5. more[e.addr] > 0
      BY <1>2, <1>3, <1>4
    <3>6. /\ Sized(l)
          /\ \E g \in Address :
               /\ more[g] > 0
               /\ \A j \in Address : more[j] > 0 => ~NearerOn(right, g, j)
               /\ CopiesIn(l) = Less(more, g)
      BY <1>3, <2>1, <3>3, <3>4, <3>5
    <3> QED BY <1>6, <3>6 DEF more
  <2>5. CASE ~(Before(e.addr, last) # right)
    <3>1. ~NearerOn(right, last, e.addr)
      BY <1>3, <2>5, BeforeIrreflexive, BeforeTransitive DEF NearerOn
    <3>2. \A a \in Address : CopiesIn(l)[a] = more[a] - (IF a = last THEN 1 ELSE 0)
      <4>1. \A a \in Address : CountOf(l, a) = CountOf(leafset, a)
                + (IF a = e.addr THEN 1 ELSE 0) - (IF a = last THEN 1 ELSE 0)
        BY <1>6, <2>5, InsertCount, SelfAssumption
      <4> QED BY <1>2, <1>4, <4>1
    <3>3. more[last] > 0
      BY <1>2, <1>3, <1>4, <2>3
    <3>4. ASSUME NEW j \in Address, more[j] > 0 PROVE ~NearerOn(right, last, j)
      BY <1>2, <1>4, <2>2, <3>1, <3>4
    <3>5. /\ Sized(l)
          /\ \E g \in Address :
               /\ more[g] > 0
               /\ \A j \in Address : more[j] > 0 => ~NearerOn(right, g, j)
               /\ CopiesIn(l) = Less(more, g)
      BY <1>3, <2>1, <3>2, <3>3, <3>4
    <3> QED BY <1>6, <3>5 DEF more
  <2> QED BY <2>4, <2>5
<1> QED BY <1>5, <1>6

\* leafset_extract drops one copy of the address, or nothing.
LEMMA ExtractDrops ==
  ASSUME NEW leafset \in Leafset, NEW right \in BOOLEAN,
         WellFormed(leafset, Self, right), Sized(leafset),
         NEW addr \in Address, NEW l \in Extract(leafset, addr, right)
  PROVE  \/ l = leafset
         \/ /\ Sized(l)
            /\ CopiesIn(leafset)[addr] > 0
            /\ CopiesIn(l) = Less(CopiesIn(leafset), addr)
<1> DEFINE bag == CopiesIn(leafset)
<1> SUFFICES ASSUME l # leafset
             PROVE  Sized(l) /\ bag[addr] > 0 /\ CopiesIn(l) = Less(bag, addr)
  OBVIOUS
<1>1. /\ bag \in [Address -> Nat]
      /\ \A a \in Address : bag[a] = CountOf(leafset, a)
      /\ \A a \in Address : CopiesIn(l)[a] = CountOf(l, a)
  BY CopiesInType
<1>2. ArrayLen(l) = ArrayLen(leafset) - 1 /\ ArrayLen(leafset) \in Nat
  BY ExtractLen, ArrayLenFacts, LeafsetSizeAssumption DEF WellFormed
<1>3. bag[addr] > 0 /\ \A a \in Address : CopiesIn(l)[a] = bag[a] - (IF a = addr THEN 1 ELSE 0)
  <2>1. CountOf(leafset, addr) # 0
        /\ \A a \in Address : CountOf(l, a) = CountOf(leafset, a) - (IF a = addr THEN 1 ELSE 0)
    BY ExtractCount, SelfAssumption
  <2> QED BY <1>1, <2>1
<1>4. CopiesIn(l) = Less(bag, addr)
  <2>1. \A a \in Address : Less(bag, addr)[a] = bag[a] - (IF a = addr THEN 1 ELSE 0)
    BY <1>1 DEF Less
  <2>2. Less(bag, addr) = [a \in Address |-> Less(bag, addr)[a]]
    BY <1>1 DEF Less
  <2>3. CopiesIn(l) = [a \in Address |-> CopiesIn(l)[a]]
    BY DEF CopiesIn
  <2> HIDE DEF bag
  <2> QED BY <1>3, <2>1, <2>2, <2>3
<1>5. OfSize(bag, ArrayLen(leafset))
  BY DEF Sized
<1>6. OfSize(Less(bag, addr), ArrayLen(leafset) - 1)
  <2> HIDE DEF bag
  <2> QED BY <1>1, <1>2, <1>3, <1>5, BagSteps
<1>7. Sized(l)
  BY <1>2, <1>4, <1>6 DEF Sized
<1> QED BY <1>3, <1>4, <1>7

\* What NearestLeaves allows to become of a leafset that has no room.
Displaces(leafset, l, right, k) ==
  LET more == More(CopiesIn(leafset), k)
  IN  \E f \in Address :
        /\ more[f] > 0
        /\ \A j \in Address : more[j] > 0 => ~NearerOn(right, f, j)
        /\ CopiesIn(l) = Less(more, f)

\* What becomes of a leafset in one call.
SideStep(leafset, l, right) ==
  \/ l = leafset
  \/ \E k \in Address :
       /\ ArrayLen(leafset) < LeafsetSize
       /\ CopiesIn(l) = More(CopiesIn(leafset), k)
  \/ \E k \in Address : ~(ArrayLen(leafset) < LeafsetSize) /\ Displaces(leafset, l, right, k)
  \/ \E k \in Address :
       /\ CopiesIn(leafset)[k] > 0
       /\ CopiesIn(l) = Less(CopiesIn(leafset), k)

\* Every call takes each leafset a step.
LEMMA CallsStep ==
  ASSUME Consistency, Sized(snr.left), Sized(snr.right), [Next]_vars
  PROVE  /\ Sized(snr'.left) /\ SideStep(snr.left, snr'.left, FALSE)
         /\ Sized(snr'.right) /\ SideStep(snr.right, snr'.right, TRUE)
<1>1. /\ Consistent(snr, Self) /\ snr.self.addr = Self
      /\ snr.left \in Leafset /\ snr.right \in Leafset
      /\ WellFormed(snr.left, Self, FALSE) /\ WellFormed(snr.right, Self, TRUE)
      /\ snr \in RouterState
  BY DEF Consistency, Consistent, RouterState
<1>2. CASE UNCHANGED snr
  BY <1>2 DEF SideStep
<1>3. ASSUME NEW addr \in Peers, Remove(addr), ~UNCHANGED snr
      PROVE  /\ Sized(snr'.left) /\ SideStep(snr.left, snr'.left, FALSE)
             /\ Sized(snr'.right) /\ SideStep(snr.right, snr'.right, TRUE)
  <2> DEFINE table == [snr.table EXCEPT ![SlotOf(snr, addr)] =
                         [is_set |-> FALSE, addr |-> addr, net_addr |-> NoNet]]
  <2>1. addr \in Address /\ snr' \in RemoveEntry(snr, addr)
    BY <1>3, PeersAssumption DEF Remove, Fail
  <2>2. CASE ~Before(addr, snr.self.addr)
    <3>1. PICK l \in Extract(snr.right, addr, TRUE) :
             snr' = [snr EXCEPT !.table = table, !.right = l]
      BY <2>1, <2>2 DEF RemoveEntry
    <3>2. snr'.left = snr.left /\ snr'.right = l
      BY <1>1, <3>1 DEF RouterState
    <3>3. Sized(l) /\ SideStep(snr.right, l, TRUE)
      BY <1>1, <2>1, ExtractDrops DEF SideStep
    <3> QED BY <3>2, <3>3 DEF SideStep
  <2>3. CASE Before(addr, snr.self.addr)
    <3>1. PICK l \in Extract(snr.left, addr, FALSE) :
             snr' = [snr EXCEPT !.table = table, !.left = l]
      BY <2>1, <2>3 DEF RemoveEntry
    <3>2. snr'.right = snr.right /\ snr'.left = l
      BY <1>1, <3>1 DEF RouterState
    <3>3. Sized(l) /\ SideStep(snr.left, l, FALSE)
      BY <1>1, <2>1, ExtractDrops DEF SideStep
    <3> QED BY <3>2, <3>3 DEF SideStep
  <2> QED BY <2>2, <2>3
<1>4. ASSUME NEW addr \in Peers, NEW net \in Nets, Add(addr, net), ~UNCHANGED snr
      PROVE  /\ Sized(snr'.left) /\ SideStep(snr.left, snr'.left, FALSE)
             /\ Sized(snr'.right) /\ SideStep(snr.right, snr'.right, TRUE)
  <2> DEFINE e == Set(addr, net)
             table == [snr.table EXCEPT ![SlotOf(snr, addr)] = e]
  <2>1. addr \in Address /\ snr' \in AddEntry(snr, e)
    BY <1>4, PeersAssumption DEF Add, Fail
  <2>2. e \in Entry /\ e.is_set /\ e.addr = addr
    BY <2>1, EntryTypes, NetsAssumption
  <2> HIDE DEF e
  <2>3. CASE ~Before(addr, snr.self.addr)
    <3>1. PICK l \in Insert(snr.right, e, TRUE) :
             snr' = [snr EXCEPT !.table = table, !.right = l]
      BY <2>1, <2>2, <2>3 DEF AddEntry
    <3>2. snr'.left = snr.left /\ snr'.right = l
      BY <1>1, <3>1 DEF RouterState
    <3>3. Sized(l) /\ SideStep(snr.right, l, TRUE)
      <4>1. /\ Sized(l)
            /\ IF ArrayLen(snr.right) < LeafsetSize
               THEN CopiesIn(l) = More(CopiesIn(snr.right), addr)
               ELSE Displaces(snr.right, l, TRUE, addr)
        BY <1>1, <2>2, <2>3, InsertOffers DEF Displaces
      <4> QED BY <2>1, <4>1 DEF SideStep
    <3> QED BY <3>2, <3>3 DEF SideStep
  <2>4. CASE Before(addr, snr.self.addr)
    <3>1. PICK l \in Insert(snr.left, e, FALSE) :
             snr' = [snr EXCEPT !.table = table, !.left = l]
      BY <2>1, <2>2, <2>4 DEF AddEntry
    <3>2. snr'.right = snr.right /\ snr'.left = l
      BY <1>1, <3>1 DEF RouterState
    <3>3. Sized(l) /\ SideStep(snr.left, l, FALSE)
      <4>1. /\ Sized(l)
            /\ IF ArrayLen(snr.left) < LeafsetSize
               THEN CopiesIn(l) = More(CopiesIn(snr.left), addr)
               ELSE Displaces(snr.left, l, FALSE, addr)
        BY <1>1, <2>2, <2>4, InsertOffers DEF Displaces
      <4> QED BY <2>1, <4>1 DEF SideStep
    <3> QED BY <3>2, <3>3 DEF SideStep
  <2> QED BY <2>3, <2>4
<1> QED BY <1>2, <1>3, <1>4 DEF Next, vars

\* An empty leafset is an empty bag.
LEMMA EmptySized ==
  ASSUME Init
  PROVE  /\ Sized(snr.left) /\ Sized(snr.right)
         /\ CopiesIn(snr.left)  = [a \in Address |-> 0]
         /\ CopiesIn(snr.right) = [a \in Address |-> 0]
<1>1. ASSUME NEW leafset \in Leafset, \A i \in 1 .. LeafsetSize : ~leafset[i].is_set
      PROVE  Sized(leafset) /\ CopiesIn(leafset) = [a \in Address |-> 0]
  <2>1. ArrayLen(leafset) = 0
    BY <1>1, LenUnique, LeafsetSizeAssumption
  <2>2. \A a \in Address : CopiesIn(leafset)[a] = 0
    <3>1. \A a : PlacesOf(leafset, a) = {}
      BY <1>1 DEF PlacesOf
    <3>2. \A a \in Address : CountOf(leafset, a) = 0
      BY <3>1, CountFacts
    <3> QED BY <3>2, CopiesInType
  <2>3. CopiesIn(leafset) = [a \in Address |-> 0]
    BY <2>2, CopiesInType
  <2>4. Numbered([a \in Address |-> 0]) = {}
    BY DEF Numbered
  <2>5. OfSize([a \in Address |-> 0], 0)
    BY <2>4, FS_EmptySet DEF OfSize
  <2> QED BY <2>1, <2>3, <2>5 DEF Sized
<1>2. /\ snr.left \in Leafset /\ snr.right \in Leafset
      /\ \A i \in 1 .. LeafsetSize : ~snr.left[i].is_set /\ ~snr.right[i].is_set
  BY EntryTypes DEF Init, RouterInit, Leafset
<1> QED BY <1>1, <1>2

\* Cardinality within NearestLeaves is Cardinality.
LEMMA SameCardinality ==
  ASSUME NEW S
  PROVE  LeftLeaves!Cardinality(S) = Cardinality(S) /\ RightLeaves!Cardinality(S) = Cardinality(S)
<1>1. LeftLeaves!Cardinality(S) = Cardinality(S)
  BY DEF LeftLeaves!Cardinality, Cardinality
<1>2. RightLeaves!Cardinality(S) = Cardinality(S)
  BY DEF RightLeaves!Cardinality, Cardinality
<1> QED BY <1>1, <1>2

\* A step of the left leafset is one of NearestLeaves.
LEMMA LeftStep ==
  ASSUME Sized(snr.left), SideStep(snr.left, snr'.left, FALSE)
  PROVE  [LeftLeaves!Next]_(CopiesIn(snr.left))
<1> DEFINE bag == CopiesIn(snr.left)
<1>1. LeftLeaves!Cardinality(LeftLeaves!Copies(bag)) = ArrayLen(snr.left)
  BY SameCardinality DEF LeftLeaves!Copies, Sized, OfSize, Numbered
<1>2. ASSUME NEW k \in Address, ArrayLen(snr.left) < LeafsetSize,
             CopiesIn(snr'.left) = More(bag, k)
      PROVE  LeftLeaves!Next
  <2>1. LeftLeaves!Offer(k)
    BY <1>1, <1>2 DEF LeftLeaves!Offer, LeftLeaves!With, More
  <2> QED BY <2>1 DEF LeftLeaves!Next
<1>3. ASSUME NEW k \in Address, ~(ArrayLen(snr.left) < LeafsetSize),
             Displaces(snr.left, snr'.left, FALSE, k)
      PROVE  LeftLeaves!Next
  <2> DEFINE more == More(bag, k)
  <2>1. more = LeftLeaves!With(bag, k)
    BY DEF More, LeftLeaves!With
  <2>2. PICK f \in Address :
           /\ more[f] > 0
           /\ \A j \in Address : more[j] > 0 => ~NearerOn(FALSE, f, j)
           /\ CopiesIn(snr'.left) = Less(more, f)
    BY <1>3 DEF Displaces
  <2>3. LeftLeaves!Farthest(more) = f
    <3>1. f \in LeftLeaves!Held(more) /\ \A j \in LeftLeaves!Held(more) : ~NearerOnLeft(f, j)
      BY <2>2 DEF LeftLeaves!Held, NearerOn, NearerOnLeft
    <3>2. ASSUME NEW g \in LeftLeaves!Held(more),
                 \A j \in LeftLeaves!Held(more) : ~NearerOnLeft(g, j)
          PROVE  g = f
      BY <3>1, <3>2, BeforeTotal DEF LeftLeaves!Held, NearerOnLeft
    <3> HIDE DEF more
    <3> QED BY <3>1, <3>2 DEF LeftLeaves!Farthest
  <2>4. LeftLeaves!Offer(k)
    BY <1>1, <1>3, <2>1, <2>2, <2>3 DEF LeftLeaves!Offer, LeftLeaves!Without, Less
  <2> QED BY <2>4 DEF LeftLeaves!Next
<1>4. ASSUME NEW k \in Address, bag[k] > 0, CopiesIn(snr'.left) = Less(bag, k)
      PROVE  LeftLeaves!Next
  <2>1. LeftLeaves!Drop(k)
    BY <1>4 DEF LeftLeaves!Drop, LeftLeaves!Held, LeftLeaves!Without, Less
  <2> QED BY <2>1 DEF LeftLeaves!Next
<1> QED BY <1>2, <1>3, <1>4 DEF SideStep

\* A step of the right leafset is one of NearestLeaves.
LEMMA RightStep ==
  ASSUME Sized(snr.right), SideStep(snr.right, snr'.right, TRUE)
  PROVE  [RightLeaves!Next]_(CopiesIn(snr.right))
<1> DEFINE bag == CopiesIn(snr.right)
<1>1. RightLeaves!Cardinality(RightLeaves!Copies(bag)) = ArrayLen(snr.right)
  BY SameCardinality DEF RightLeaves!Copies, Sized, OfSize, Numbered
<1>2. ASSUME NEW k \in Address, ArrayLen(snr.right) < LeafsetSize,
             CopiesIn(snr'.right) = More(bag, k)
      PROVE  RightLeaves!Next
  <2>1. RightLeaves!Offer(k)
    BY <1>1, <1>2 DEF RightLeaves!Offer, RightLeaves!With, More
  <2> QED BY <2>1 DEF RightLeaves!Next
<1>3. ASSUME NEW k \in Address, ~(ArrayLen(snr.right) < LeafsetSize),
             Displaces(snr.right, snr'.right, TRUE, k)
      PROVE  RightLeaves!Next
  <2> DEFINE more == More(bag, k)
  <2>1. more = RightLeaves!With(bag, k)
    BY DEF More, RightLeaves!With
  <2>2. PICK f \in Address :
           /\ more[f] > 0
           /\ \A j \in Address : more[j] > 0 => ~NearerOn(TRUE, f, j)
           /\ CopiesIn(snr'.right) = Less(more, f)
    BY <1>3 DEF Displaces
  <2>3. RightLeaves!Farthest(more) = f
    <3>1. f \in RightLeaves!Held(more) /\ \A j \in RightLeaves!Held(more) : ~Before(f, j)
      BY <2>2 DEF RightLeaves!Held, NearerOn
    <3>2. ASSUME NEW g \in RightLeaves!Held(more),
                 \A j \in RightLeaves!Held(more) : ~Before(g, j)
          PROVE  g = f
      BY <3>1, <3>2, BeforeTotal DEF RightLeaves!Held
    <3> HIDE DEF more
    <3> QED BY <3>1, <3>2 DEF RightLeaves!Farthest
  <2>4. RightLeaves!Offer(k)
    BY <1>1, <1>3, <2>1, <2>2, <2>3 DEF RightLeaves!Offer, RightLeaves!Without, Less
  <2> QED BY <2>4 DEF RightLeaves!Next
<1>4. ASSUME NEW k \in Address, bag[k] > 0, CopiesIn(snr'.right) = Less(bag, k)
      PROVE  RightLeaves!Next
  <2>1. RightLeaves!Drop(k)
    BY <1>4 DEF RightLeaves!Drop, RightLeaves!Held, RightLeaves!Without, Less
  <2> QED BY <2>1 DEF RightLeaves!Next
<1> QED BY <1>2, <1>3, <1>4 DEF SideStep

\* The leafsets hold the nearest of the peers that were added.
THEOREM RouterLeftIsNearest == Spec => LeftIsNearest
<1> DEFINE Inv == Consistency /\ Sized(snr.left) /\ Sized(snr.right)
<1>1. Init => Inv /\ LeftLeaves!Init
  BY ConsistencyInductive, EmptySized DEF LeftLeaves!Init
<1>2. Inv /\ [Next]_vars => Inv' /\ [LeftLeaves!Next]_(CopiesIn(snr.left))
  BY ConsistencyInductive, CallsStep, LeftStep
<1> HIDE DEF Inv
<1> QED BY <1>1, <1>2, PTL DEF Spec, LeftIsNearest, LeftLeaves!Spec

\* The right leafset does what NearestLeaves says of the addresses above self.
THEOREM RouterRightIsNearest == Spec => RightIsNearest
<1> DEFINE Inv == Consistency /\ Sized(snr.left) /\ Sized(snr.right)
<1>1. Init => Inv /\ RightLeaves!Init
  BY ConsistencyInductive, EmptySized DEF RightLeaves!Init
<1>2. Inv /\ [Next]_vars => Inv' /\ [RightLeaves!Next]_(CopiesIn(snr.right))
  BY ConsistencyInductive, CallsStep, RightStep
<1> HIDE DEF Inv
<1> QED BY <1>1, <1>2, PTL DEF Spec, RightIsNearest, RightLeaves!Spec
=============================================================================
