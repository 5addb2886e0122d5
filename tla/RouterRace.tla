----------------------------- MODULE RouterRace -----------------------------
(***************************************************************************)
(* A router that is read while it is written: the application calls        *)
(* sn_net_router_add and sn_net_router_remove on the router of its node    *)
(* while the background thread is in sn_net_router_nexthop (src/node.c),   *)
(* and nothing keeps them apart.                                           *)
(*                                                                         *)
(* A write is made of stores of single bytes, those of one assignment in   *)
(* any order.  A read copies entries byte by byte; what it compares in     *)
(* between, while somebody writes, may come out in any way.  The router    *)
(* never looks at a network address: it is one cell here, which is copied  *)
(* last, and a copy of it while somebody writes is any network address.    *)
(***************************************************************************)
EXTENDS Routing, Sequences

CONSTANTS
  Self,      \* the address of the node
  Peers,     \* the addresses that are added and removed
  Wanted,    \* the destinations that are looked up
  Net,       \* the network address of the node
  Nets,      \* those that peers are added with
  MaxWrites  \* bound of the model: calls that change the router

\* As far as no call fails, which is a matter of Router.
ASSUME RaceAssumption ==
  /\ Self \in Address \ {Zero} /\ Peers \subseteq Address \ {Self}
  /\ Wanted \subseteq Address
  /\ Net \in Nets /\ Nets \subseteq NetAddress /\ MaxWrites \in Nat

VARIABLES
  snr,      \* sn_net_router_t
  plan,     \* the writer: the states of the router after each of its
            \* remaining assignments, the sort being the last of them
  writes,   \* how many calls it has made
  reader,   \* the reader: where it is, its local variables, what it answers
  dirty     \* the router has been written since the reader came in

vars == <<snr, plan, writes, reader, dirty>>

Reading == reader.at \notin {"idle", "answered"}

(***************************************************************************)
(* What one store writes of an entry, or one load reads: a byte of its     *)
(* address, or one of the other fields.                                    *)
(***************************************************************************)
NetCell == <<"net_addr", 0>>
Compared == {<<"is_set", 0>>} \cup ({"addr"} \X (1 .. AddrLen))
Cells == Compared \cup {NetCell}

CellOf(e, c) == IF c[1] = "addr" THEN e.addr[c[2]] ELSE e[c[1]]

WithCell(e, c, value) ==
  IF c[1] = "addr" THEN [e EXCEPT !.addr = [@ EXCEPT ![c[2]] = value]]
                   ELSE [e EXCEPT ![c[1]] = value]

\* The entries of the router.
Places ==
  ({"left", "right"} \X (1 .. LeafsetSize)) \cup ({"table"} \X Slot)

EntryAt(r, p) ==
  CASE p[1] = "left"  -> r.left[p[2]]
    [] p[1] = "right" -> r.right[p[2]]
    [] p[1] = "table" -> r.table[p[2]]

WithEntry(r, p, e) ==
  CASE p[1] = "left"  -> [r EXCEPT !.left[p[2]]  = e]
    [] p[1] = "right" -> [r EXCEPT !.right[p[2]] = e]
    [] p[1] = "table" -> [r EXCEPT !.table[p[2]] = e]

-----------------------------------------------------------------------------
(* The writer                                                              *)

AssignedNextLevel(e) ==
  LET slot == SlotOf(snr, e.addr)
  IN  [snr EXCEPT !.table[<<slot[1] + 1, slot[2]>>] = e]

\* sn_net_router_set, the first assignment of both calls.
Assigned(e) == [snr EXCEPT !.table[SlotOf(snr, e.addr)] = e]

OnRight(addr) == ~Before(addr, Self)

WithSide(r, right, leafset) ==
  IF right THEN [r EXCEPT !.right = leafset] ELSE [r EXCEPT !.left = leafset]

Side(r, right) == IF right THEN r.right ELSE r.left

AddPlansUnsorted(e) ==
  LET right   == OnRight(e.addr)
      leafset == Side(snr, right)
      len     == ArrayLen(leafset)
      at      == IF len < LeafsetSize THEN len + 1 ELSE LeafsetSize
  IN  {<<Assigned(e), WithSide(Assigned(e), right, [leafset EXCEPT ![at] = e])>>}

\* sn_net_router_add: where leafset_insert puts the entry, then the sort.
AddPlans(e) ==
  LET right   == OnRight(e.addr)
      leafset == Side(snr, right)
      len     == ArrayLen(leafset)
      at      == IF len < LeafsetSize THEN len + 1 ELSE LeafsetSize
      placed  == WithSide(Assigned(e), right, [leafset EXCEPT ![at] = e])
  IN  IF len = LeafsetSize /\ Before(e.addr, leafset[at].addr) # right
      THEN {<<Assigned(e)>>}
      ELSE {<<Assigned(e), placed, WithSide(placed, right, l)>> :
              l \in Sortings(Side(placed, right), right)}

\* sn_net_router_remove: the last leaf moves, its place is unset, then the sort.
RemovePlans(addr) ==
  LET e       == [is_set |-> FALSE, addr |-> addr, net_addr |-> NoNet]
      right   == OnRight(addr)
      leafset == Side(snr, right)
      len     == ArrayLen(leafset)
      found   == {i \in 1 .. len : leafset[i].addr = addr}
      first   == CHOOSE i \in found : \A j \in found : i <= j
      moved   == WithSide(Assigned(e), right, [leafset EXCEPT ![first] = leafset[len]])
      cut     == WithSide(moved, right, [Side(moved, right) EXCEPT ![len].is_set = FALSE])
  IN  IF found = {} THEN {<<Assigned(e)>>}
      ELSE {<<Assigned(e), moved, cut, WithSide(cut, right, l)>> :
              l \in Sortings(Side(cut, right), right)}

Call(plans) ==
  /\ plan = <<>> /\ writes < MaxWrites
  /\ plan' \in plans
  /\ writes' = writes + 1
  /\ dirty' = Reading
  /\ UNCHANGED <<snr, reader>>

Add(addr, net) == Call(AddPlans(Set(addr, net)))
Remove(addr)   == Call(RemovePlans(addr))

\* One store of the current assignment.
Store ==
  /\ plan # <<>>
  /\ \E p \in Places, c \in Cells :
       LET old == EntryAt(snr, p)
           new == EntryAt(Head(plan), p)
       IN  /\ CellOf(old, c) # CellOf(new, c)
           /\ snr' = WithEntry(snr, p, WithCell(old, c, CellOf(new, c)))
  /\ dirty' = Reading
  /\ UNCHANGED <<plan, writes, reader>>

\* The assignment is complete.
StoredAll ==
  /\ plan # <<>> /\ snr = Head(plan)
  /\ plan' = Tail(plan)
  /\ UNCHANGED <<snr, writes, reader, dirty>>

-----------------------------------------------------------------------------
(* The reader                                                              *)

Idle == [at |-> "idle"]

\* The answer, how it came about, and of one out of the table whether its
\* slot held one of the slot's addresses when the read began.
Answered(hop, dst, direct, placed) ==
  [at |-> "answered", hop |-> hop, dst |-> dst, direct |-> direct, placed |-> placed]

LeafPlaces(side) == [i \in 1 .. LeafsetSize |-> <<side, i>>]
RowPlaces(level) == [c \in 1 .. HexBase |-> <<"table", <<level, c - 1>>>>]

\* The scans that sn_net_entry_closest is called for, in their order.
LeafsetScans == <<[in |-> LeafPlaces("left"), min |-> 0], [in |-> LeafPlaces("right"), min |-> 0]>>

TableScansOfRow(level) == <<[in |-> RowPlaces(level), min |-> 0]>>

TableScans(level) ==
  <<[in |-> RowPlaces(level),      min |-> 0],
    [in |-> LeafPlaces("left"),  min |-> level],
    [in |-> LeafPlaces("right"), min |-> level]>>

Scanning(dst, scans, bests) ==
  [at |-> "scan", dst |-> dst, scans |-> scans, bests |-> bests]

\* The cells that are left to copy from an entry, before its network address;
\* "bests" is empty when the copy is the answer.
Copying(dst, scans, bests, from, left, copy, placed) ==
  [at |-> "copy", dst |-> dst, scans |-> scans, bests |-> bests,
   from |-> from, left |-> left, copy |-> copy, placed |-> placed]

(***************************************************************************)
(* leafset_is_on_range, which may answer anything while somebody writes,   *)
(* and the look at the slot of the table for the destination.              *)
(***************************************************************************)
Begin(dst) ==
  /\ ~Reading
  /\ \E on \in IF plan # <<>> THEN BOOLEAN ELSE OnRange(snr, dst) :
       LET slot == SlotOf(snr, dst)
       IN  reader' =
             CASE on -> Scanning(dst, LeafsetScans, <<snr.self>>)
               [] ~on /\ slot \notin Slot ->
                    Answered([snr.self EXCEPT !.is_set = FALSE], dst, FALSE, FALSE)
               [] ~on /\ slot \in Slot /\ snr.table[slot].is_set ->
                    Copying(dst, <<>>, <<>>, <<"table", slot>>, Compared, Unset,
                            SlotOf(snr, snr.table[slot].addr) = slot)
               [] OTHER -> Scanning(dst, TableScans(slot[1]), <<snr.self>>)
  /\ dirty' = (plan # <<>>)
  /\ UNCHANGED <<snr, plan, writes>>

\* The candidate that sn_net_entry_closest finds where nobody writes, if any.
Fits(p, min) ==
  EntryAt(snr, p).is_set /\ Level(Self, EntryAt(snr, p).addr) >= min

Found(scan, dst) ==
  LET fit     == {i \in DOMAIN scan.in : Fits(scan.in[i], scan.min)}
      away(i) == Dist(EntryAt(snr, scan.in[i]).addr, dst)
      near    == {i \in fit : \A j \in fit : ~Before(away(j), away(i))}
  IN  {scan.in[i] : i \in {n \in near : \A m \in near : n <= m}}

\* sn_net_entry_closest finds the first of the nearest of its candidates or
\* none of them; while somebody writes, any of them or none.
Nowhere == <<>>

Finds(scan, dst) ==
  IF dirty THEN {scan.in[i] : i \in DOMAIN scan.in} \cup {Nowhere}
  ELSE IF Found(scan, dst) = {} THEN {Nowhere} ELSE Found(scan, dst)

Scan ==
  /\ reader.at = "scan" /\ reader.scans # <<>>
  /\ \E p \in Finds(Head(reader.scans), reader.dst) :
       LET rest == Tail(reader.scans)
       IN  reader' =
             IF p = Nowhere THEN Scanning(reader.dst, rest, Append(reader.bests, Unset))
             ELSE Copying(reader.dst, rest, reader.bests, p, Compared, Unset, FALSE)
  /\ UNCHANGED <<snr, plan, writes, dirty>>

\* *nexthop = *e and *closest = *best: a byte of the address, or is_set.
Copy ==
  /\ reader.at = "copy" /\ reader.left # {}
  /\ \E c \in reader.left :
       reader' = [reader EXCEPT
                    !.left = @ \ {c},
                    !.copy = WithCell(@, c, CellOf(EntryAt(snr, reader.from), c))]
  /\ UNCHANGED <<snr, plan, writes, dirty>>

\* The network address, whenever it was read, is what it is if nobody has
\* written since the read began.
NetAddressRead ==
  IF dirty THEN NetAddress ELSE {EntryAt(snr, reader.from).net_addr}

Copied ==
  /\ reader.at = "copy" /\ reader.left = {}
  /\ \E net \in NetAddressRead :
       LET copy == [reader.copy EXCEPT !.net_addr = net]
       IN  reader' = IF reader.bests = <<>>
                     THEN Answered(copy, reader.dst, TRUE, reader.placed)
                     ELSE Scanning(reader.dst, reader.scans, Append(reader.bests, copy))
  /\ UNCHANGED <<snr, plan, writes, dirty>>

\* The best of what was copied, compared where nobody else writes.
DecideByPlace ==
  /\ reader.at = "scan" /\ reader.scans = <<>>
  /\ reader' = Answered(reader.bests[Len(reader.bests)], reader.dst, FALSE, FALSE)
  /\ UNCHANGED <<snr, plan, writes, dirty>>

Decide ==
  /\ reader.at = "scan" /\ reader.scans = <<>>
  /\ reader' = Answered(Best(snr, reader.dst, reader.bests), reader.dst, FALSE, FALSE)
  /\ UNCHANGED <<snr, plan, writes, dirty>>

-----------------------------------------------------------------------------
Init ==
  /\ snr = RouterInit(Self, Net)
  /\ plan = <<>> /\ writes = 0
  /\ reader = Idle /\ dirty = FALSE

Writer == \/ \E addr \in Peers : Remove(addr) \/ \E net \in Nets : Add(addr, net)
          \/ Store \/ StoredAll

Reader == \/ \E dst \in Wanted : Begin(dst)
          \/ Scan \/ Copy \/ Copied \/ Decide

Next == Writer \/ Reader

Spec == Init /\ [][Next]_vars

-----------------------------------------------------------------------------
(* Properties                                                              *)

RaceTypeOK ==
  /\ snr \in RouterState
  /\ plan \in Seq(RouterState) /\ writes \in 0 .. MaxWrites
  /\ reader.at \in {"idle", "scan", "copy", "answered"}
  /\ dirty \in BOOLEAN
  /\ reader.at = "answered" => reader.hop \in Entry

(***************************************************************************)
(* The stores of one writer add up: with its calls taken as done when they *)
(* begin, the router goes from one state of Router to the next, whatever   *)
(* the order of the stores, and no call fails.  (Only the steps that begin *)
(* a call are looked at, the others leave that router as it is.)           *)
(***************************************************************************)
Settled == IF plan = <<>> THEN snr ELSE plan[Len(plan)]

Atomic == INSTANCE Router WITH snr <- Settled, fault <- "none"

WritesAreAtomic == Atomic!Init /\ [][Settled' # Settled => Atomic!Next]_vars

(***************************************************************************)
(* However the router is torn while it is read, a next hop that was chosen *)
(* among candidates is nearer to the destination than the node, by the     *)
(* address that is reported: the candidates are compared once more after   *)
(* they were copied.                                                       *)
(***************************************************************************)
TornHopsNearer ==
  reader.at = "answered" /\ ~reader.direct /\ reader.hop.is_set =>
    Before(Dist(reader.hop.addr, reader.dst), Dist(Self, reader.dst))

(***************************************************************************)
(* A next hop that was taken from the routing table while its slot is      *)
(* written for the first time may be half of an address: each byte is the  *)
(* zero that was there or a byte that the slot allows.  From a slot that   *)
(* was once written it is an address of the slot, if one that nobody has:  *)
(* of two addresses that share the digits of a slot any mix shares them,   *)
(* and so the next hop is progress, whoever had the slot or gets it.       *)
(***************************************************************************)
SlotBytes(slot, i) == {addr[i] : addr \in {a \in Address : SlotOf(snr, a) = slot}}

TornHopsOfSlot ==
  reader.at = "answered" /\ reader.direct /\ reader.hop.is_set =>
    LET slot == SlotOf(snr, reader.dst)
    IN  /\ \A i \in 1 .. AddrLen :
             reader.hop.addr[i] = 0 \/ reader.hop.addr[i] \in SlotBytes(slot, i)
        /\ reader.placed => SlotOf(snr, reader.hop.addr) = slot

(***************************************************************************)
(* A read that no write overlaps, made of as many steps, answers what      *)
(* sn_net_router_nexthop answers in one.                                   *)
(***************************************************************************)
QuietReadsExact ==
  [][reader'.at = "answered" /\ reader' # reader /\ ~dirty' =>
       reader'.hop \in Nexthops(snr, reader'.dst)]_vars
=============================================================================
