------------------------------ MODULE Routing ------------------------------
(***************************************************************************)
(* The routing state of one node and the functions over it                 *)
(* (include/net/router.h, src/net/router.c, src/net/entry.c), as operators *)
(* on a record with the fields of sn_net_router_t.                         *)
(*                                                                         *)
(* Where the outcome of a C function is not determined (qsort of entries   *)
(* that compare equal, bytes that were never written, a read past the end  *)
(* of an array) the operator returns the set of its possible outcomes.     *)
(***************************************************************************)
EXTENDS Addr, FiniteSets

CONSTANTS
  LeafsetSize,  \* SN_NET_ROUTER_LEAFSET_SIZE, 8 in the code
  NetAddress,   \* the network addresses (sn_io_naddr_t) that occur
  NoNet         \* the zeroed network address: no family, cannot be serialised

ASSUME LeafsetSizeAssumption == LeafsetSize \in Nat /\ LeafsetSize >= 1
ASSUME NoNetAssumption == NoNet \in NetAddress

Entry   == [is_set : BOOLEAN, addr : Address, net_addr : NetAddress]
Slot    == (0 .. HexLen - 1) \X (0 .. HexBase - 1)
Leafset == [1 .. LeafsetSize -> Entry]
RouterState ==
  [self : Entry, table : [Slot -> Entry], left : Leafset, right : Leafset]

\* What memset leaves in an entry.
Unset == [is_set |-> FALSE, addr |-> Zero, net_addr |-> NoNet]
Set(addr, net) == [is_set |-> TRUE, addr |-> addr, net_addr |-> net]

RouterInitFromZero(addr, net) ==
  [self  |-> Set(addr, net),
   table |-> [s \in Slot |-> Unset],
   left  |-> [i \in 0 .. LeafsetSize |-> Unset],
   right |-> [i \in 0 .. LeafsetSize |-> Unset]]

RouterInit(addr, net) ==
  [self  |-> Set(addr, net),
   table |-> [s \in Slot |-> Unset],
   left  |-> [i \in 1 .. LeafsetSize |-> Unset],
   right |-> [i \in 1 .. LeafsetSize |-> Unset]]

-----------------------------------------------------------------------------
(* Leafsets: position 1 is the leaf nearest to self.                       *)

\* sn_net_entry_array_len: the length of the filled prefix.
ArrayLen(leafset) ==
  CHOOSE n \in 0 .. LeafsetSize :
    /\ \A i \in 1 .. n : leafset[i].is_set
    /\ n = LeafsetSize \/ ~leafset[n + 1].is_set

\* e precedes f in a sorted leafset: the right one ascends, the left one descends.
Precedes(e, f, right) ==
  IF right THEN Before(e.addr, f.addr) ELSE Before(f.addr, e.addr)

Permutation(n) ==
  {p \in [1 .. n -> 1 .. n] : \A i, j \in 1 .. n : p[i] = p[j] => i = j}

(***************************************************************************)
(* leafset_sort: qsort permutes the filled prefix until no entry precedes  *)
(* an earlier one; the order of entries with equal addresses is open.      *)
(***************************************************************************)
Unsorted(leafset, right) == {leafset}

Sortings(leafset, right) ==
  LET len == ArrayLen(leafset)
      arranged(p) == [i \in 1 .. LeafsetSize |->
                        IF i <= len THEN leafset[p[i]] ELSE leafset[i]]
  IN  {l \in {arranged(p) : p \in Permutation(len)} :
         \A i, j \in 1 .. len : i < j => ~Precedes(l[j], l[i], right)}

(***************************************************************************)
(* leafset_insert.  Nothing looks for an entry with the same address.  On  *)
(* a full leafset the right side replaces its last entry by a strictly     *)
(* nearer one, the left side by one that is not farther.                   *)
(***************************************************************************)
InsertFarther(leafset, e, right) ==
  LET len == ArrayLen(leafset)
  IN  IF len < LeafsetSize
      THEN Sortings([leafset EXCEPT ![len + 1] = e], right)
      ELSE IF Before(e.addr, leafset[LeafsetSize].addr) = right
           THEN {leafset}
           ELSE Sortings([leafset EXCEPT ![LeafsetSize] = e], right)

Insert(leafset, e, right) ==
  LET len == ArrayLen(leafset)
  IN  IF len < LeafsetSize
      THEN Sortings([leafset EXCEPT ![len + 1] = e], right)
      ELSE IF Before(e.addr, leafset[LeafsetSize].addr) # right
           THEN {leafset}
           ELSE Sortings([leafset EXCEPT ![LeafsetSize] = e], right)

(***************************************************************************)
(* leafset_extract: the first entry with the address is overwritten by the *)
(* last one, whose own place is unset but keeps its address.               *)
(***************************************************************************)
Extract(leafset, addr, right) ==
  LET len   == ArrayLen(leafset)
      found == {i \in 1 .. len : leafset[i].addr = addr}
  IN  IF found = {} THEN {leafset}
      ELSE LET first == CHOOSE i \in found : \A j \in found : i <= j
           IN  Sortings([leafset EXCEPT ![first] = leafset[len],
                                        ![len].is_set = FALSE], right)

-----------------------------------------------------------------------------
(* sn_net_router_add and sn_net_router_remove                              *)

SlotOf(r, addr) == <<Level(r.self.addr, addr), Column(r.self.addr, addr)>>

\* sn_net_router_set indexes the table with no check of level and column.
OutOfBounds(r, addr) == SlotOf(r, addr) \notin Slot

\* The assertion "Should be impossible" of sn_net_router_set does not hold.
Impossible(r, addr) == r.table[SlotOf(r, addr)].addr = r.self.addr

AddEntryAtOwnColumn(r, e) ==
  LET right   == ~Before(e.addr, r.self.addr)
      slot    == <<Level(r.self.addr, e.addr), Column(e.addr, r.self.addr)>>
      written == [r EXCEPT !.table[slot] = e]
  IN  IF right
      THEN {[written EXCEPT !.right = l] : l \in Insert(r.right, e, TRUE)}
      ELSE {[written EXCEPT !.left  = l] : l \in Insert(r.left, e, FALSE)}

AddEntry(r, e) ==
  LET right   == ~Before(e.addr, r.self.addr)
      written == [r EXCEPT !.table[SlotOf(r, e.addr)] = e]
  IN  IF right
      THEN {[written EXCEPT !.right = l] : l \in Insert(r.right, e, TRUE)}
      ELSE {[written EXCEPT !.left  = l] : l \in Insert(r.left, e, FALSE)}

RemoveEntryOtherSide(r, addr) ==
  LET right   == Before(addr, r.self.addr)
      written == [r EXCEPT !.table[SlotOf(r, addr)] =
                    [is_set |-> FALSE, addr |-> addr, net_addr |-> NoNet]]
  IN  IF right
      THEN {[written EXCEPT !.right = l] : l \in Extract(r.right, addr, TRUE)}
      ELSE {[written EXCEPT !.left  = l] : l \in Extract(r.left, addr, FALSE)}

\* Nobody reads the network address of an unset entry: NoNet stands for the
\* uninitialised one that is written here.
RemoveEntry(r, addr) ==
  LET right   == ~Before(addr, r.self.addr)
      written == [r EXCEPT !.table[SlotOf(r, addr)] =
                    [is_set |-> FALSE, addr |-> addr, net_addr |-> NoNet]]
  IN  IF right
      THEN {[written EXCEPT !.right = l] : l \in Extract(r.right, addr, TRUE)}
      ELSE {[written EXCEPT !.left  = l] : l \in Extract(r.left, addr, FALSE)}

-----------------------------------------------------------------------------
(* sn_net_router_nexthop                                                   *)

(***************************************************************************)
(* sn_net_entry_closest: the first of the candidates nearest to dst among  *)
(* those that share at least minLevel digits with self.                    *)
(***************************************************************************)
ClosestAnyLevel(dst, cands, self, minLevel) ==
  LET fit  == {i \in DOMAIN cands : cands[i].is_set}
      near == {i \in fit : \A j \in fit :
                 ~Before(Dist(cands[j].addr, dst), Dist(cands[i].addr, dst))}
  IN  IF fit = {} THEN Unset
      ELSE cands[CHOOSE i \in near : \A j \in near : i <= j]

Closest(dst, cands, self, minLevel) ==
  LET fit  == {i \in DOMAIN cands :
                 cands[i].is_set /\ Level(self, cands[i].addr) >= minLevel}
      near == {i \in fit : \A j \in fit :
                 ~Before(Dist(cands[j].addr, dst), Dist(cands[i].addr, dst))}
  IN  IF fit = {} THEN Unset
      ELSE cands[CHOOSE i \in near : \A j \in near : i <= j]

(***************************************************************************)
(* leafset_is_on_range takes for bounds the entries one past the last leaf:*)
(* a zeroed entry, one that was removed, the first entry of the right      *)
(* leafset when the left one is full, and whatever follows the structure   *)
(* when the right one is.                                                  *)
(***************************************************************************)
LeftBound(r) ==
  LET len == ArrayLen(r.left)
  IN  CASE len = 0           -> r.self.addr
        [] len = LeafsetSize -> r.right[1].addr
        [] OTHER             -> r.left[len + 1].addr

RightBounds(r) ==
  LET len == ArrayLen(r.right)
  IN  CASE len = 0           -> {r.self.addr}
        [] len = LeafsetSize -> Address
        [] OTHER             -> {r.right[len + 1].addr}

\* TRUE or FALSE, or both.
OnRange(r, dst) ==
  {~Before(dst, LeftBound(r)) /\ ~Before(bound, dst) : bound \in RightBounds(r)}

\* The best of some candidates, unset when that is the node itself.
Best(r, dst, bests) ==
  LET hop == Closest(dst, bests, r.self.addr, 0)
  IN  IF hop.addr = r.self.addr THEN [hop EXCEPT !.is_set = FALSE] ELSE hop

LeafsetHop(r, dst) ==
  Best(r, dst, <<r.self, Closest(dst, r.left,  r.self.addr, 0),
                         Closest(dst, r.right, r.self.addr, 0)>>)

Row(r, level) == [c \in 1 .. HexBase |-> r.table[<<level, c - 1>>]]

TableHop(r, dst) ==
  LET level == Level(r.self.addr, dst)
  IN  IF SlotOf(r, dst) \notin Slot THEN [r.self EXCEPT !.is_set = FALSE]
      ELSE IF r.table[SlotOf(r, dst)].is_set THEN r.table[SlotOf(r, dst)]
      ELSE Best(r, dst, <<r.self,
                          Closest(dst, Row(r, level), r.self.addr, 0),
                          Closest(dst, r.left,  r.self.addr, level),
                          Closest(dst, r.right, r.self.addr, level)>>)

Nexthops(r, dst) ==
  {IF on THEN LeafsetHop(r, dst) ELSE TableHop(r, dst) : on \in OnRange(r, dst)}

-----------------------------------------------------------------------------
(* sn_net_router_query_table and sn_net_router_query_leafset               *)

\* sn_net_entry_ser fails on a network address of no known family.
Serialisable(e) == e.is_set /\ e.net_addr # NoNet

QueryTable(r, lmin, lmax) ==
  {<<s, r.table[s]>> : s \in {t \in Slot : t[1] \in lmin .. lmax
                                           /\ Serialisable(r.table[t])}}

\* Number of entries the buffer is allocated for: one level short.
QueryTableCapacity(lmin, lmax) == (lmax - lmin) * HexBase + 1

\* Positions of a leafset are negative on the left and 0 for the node itself.
Position == -LeafsetSize .. LeafsetSize

LeafsetGetFarFirst(r, p) ==
  CASE p > 0 -> r.right[p]
    [] p < 0 -> r.left[LeafsetSize + 1 + p]
    [] p = 0 -> r.self

LeafsetGet(r, p) ==
  CASE p > 0 -> r.right[p]
    [] p < 0 -> r.left[-p]
    [] p = 0 -> r.self

\* The positions that an answer lists: each one goes to the place after those
\* before it.
QueryLeafset(r, pmin, pmax) ==
  LET listed   == {p \in pmin .. pmax : Serialisable(LeafsetGet(r, p))}
      place(p) == Cardinality({q \in listed : q <= p})
  IN  [i \in 1 .. Cardinality(listed) |-> CHOOSE p \in listed : place(p) = i]

-----------------------------------------------------------------------------
(* What the functions above rely on, and what they promise                 *)

(***************************************************************************)
(* The shape of a leafset: a filled prefix, every leaf on its side of      *)
(* self, the nearest first.                                                *)
(***************************************************************************)
NoHoles(leafset) ==
  \A i \in 1 .. LeafsetSize, j \in 1 .. LeafsetSize :
    j < i /\ leafset[i].is_set => leafset[j].is_set

OnSide(leafset, self, right) ==
  \A i \in 1 .. LeafsetSize :
    leafset[i].is_set => Before(leafset[i].addr, self) <=> ~right

Ordered(leafset, right) ==
  \A i \in 1 .. LeafsetSize, j \in 1 .. LeafsetSize :
    j < i /\ leafset[i].is_set => ~Precedes(leafset[i], leafset[j], right)

WellFormed(leafset, self, right) ==
  NoHoles(leafset) /\ OnSide(leafset, self, right) /\ Ordered(leafset, right)

(***************************************************************************)
(* Table routing trusts the place of an entry: every set entry of row l    *)
(* and column c shares exactly l digits with self and has digit c next.    *)
(***************************************************************************)
WellPlaced(r) ==
  \A s \in Slot : r.table[s].is_set => SlotOf(r, r.table[s].addr) = s

\* What a router is between two calls, whatever it has been told.
Consistent(r, self) ==
  /\ r \in RouterState
  /\ r.self.is_set /\ r.self.addr = self
  /\ WellPlaced(r)
  /\ WellFormed(r.left,  self, FALSE)
  /\ WellFormed(r.right, self, TRUE)

(***************************************************************************)
(* A next hop is progress: leafset routing hands the packet to a node      *)
(* strictly nearer to the destination; table routing to one that shares a  *)
(* longer prefix with the destination or, sharing one as long, is nearer.  *)
(***************************************************************************)
Nearer(r, hop, dst) == Before(Dist(hop.addr, dst), Dist(r.self.addr, dst))

LeafsetProgress(r, hop, dst) == hop.is_set => Nearer(r, hop, dst)

TableProgress(r, hop, dst) ==
  hop.is_set =>
    \/ Level(hop.addr, dst) > Level(r.self.addr, dst)
    \/ Level(hop.addr, dst) = Level(r.self.addr, dst) /\ Nearer(r, hop, dst)
=============================================================================
