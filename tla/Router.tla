------------------------------- MODULE Router -------------------------------
(***************************************************************************)
(* A router as its API lets it evolve: sn_net_router_init, then any        *)
(* sequence of sn_net_router_add and sn_net_router_remove, with            *)
(* sn_net_router_nexthop and sn_net_router_query_table as functions of the *)
(* state.  A call that runs into an assertion or out of the table ends the *)
(* behaviour with a fault.                                                 *)
(***************************************************************************)
EXTENDS Routing, FiniteSets

CONSTANTS
  Self,   \* the address of the node
  Peers,  \* the addresses that are added and removed
  Nets    \* the network addresses that they are added with

ASSUME SelfAssumption  == Self \in Address
ASSUME PeersAssumption == Peers \subseteq Address
ASSUME NetsAssumption  == Nets \subseteq NetAddress

VARIABLES
  snr,    \* sn_net_router_t
  fault   \* "none", "assert" (the process aborted) or "bounds" (it wrote past snr)

vars == <<snr, fault>>

Init ==
  /\ \E net \in Nets : snr = RouterInit(Self, net)
  /\ fault = "none"

\* What sn_net_router_set runs into for this address, "none" if nothing.
SetFault(addr) ==
  CASE OutOfBounds(snr, addr) -> "bounds"
    [] ~OutOfBounds(snr, addr) /\ Impossible(snr, addr) -> "assert"
    [] OTHER -> "none"

Fail(kind) == kind # "none" /\ fault' = kind /\ UNCHANGED snr

Add(addr, net) ==
  /\ fault = "none"
  /\ \/ Fail(SetFault(addr))
     \/ /\ SetFault(addr) = "none"
        /\ snr' \in AddEntry(snr, Set(addr, net))
        /\ UNCHANGED fault

Remove(addr) ==
  /\ fault = "none"
  /\ \/ Fail(SetFault(addr))
     \/ /\ SetFault(addr) = "none"
        /\ snr' \in RemoveEntry(snr, addr)
        /\ UNCHANGED fault

Next == \E addr \in Peers : Remove(addr) \/ \E net \in Nets : Add(addr, net)

Spec == Init /\ [][Next]_vars

-----------------------------------------------------------------------------
(* Properties                                                              *)

TypeOK ==
  /\ snr \in RouterState
  /\ fault \in {"none", "assert", "bounds"}

(***************************************************************************)
(* Every set entry of the table is at the place its address belongs to.    *)
(***************************************************************************)
TableWellPlaced == WellPlaced(snr)

(***************************************************************************)
(* A leafset has no holes, every leaf is on its side of self, and leaves   *)
(* are ordered from the nearest to the farthest.                           *)
(***************************************************************************)
LeafsetsWellFormed ==
  /\ WellFormed(snr.left,  snr.self.addr, FALSE)
  /\ WellFormed(snr.right, snr.self.addr, TRUE)

(***************************************************************************)
(* Everything that the calls rely on and keep: the invariant that the      *)
(* others follow from.                                                     *)
(***************************************************************************)
Consistency == Consistent(snr, Self) /\ fault \in {"none", "assert", "bounds"}

(***************************************************************************)
(* A node that knows neither itself nor, when its own address is not all   *)
(* zeros, anything but its peers never trips the assertion of              *)
(* sn_net_router_set and never leaves the table.                           *)
(***************************************************************************)
NoFault == fault = "none"

(***************************************************************************)
(* A next hop is progress, whichever of the two kinds of routing finds it: *)
(* nearer to the destination, or with a longer prefix of it in common.     *)
(***************************************************************************)
NexthopProgress ==
  \A dst \in Address :
    /\ LeafsetProgress(snr, LeafsetHop(snr, dst), dst)
    /\ TableProgress(snr, TableHop(snr, dst), dst)

(***************************************************************************)
(* Once a peer held by one leaf at most is removed, no destination is      *)
(* routed to it any more, whatever stale entries the removal leaves behind.*)
(***************************************************************************)
Copies(addr) ==
  Cardinality({i \in 1 .. LeafsetSize : snr.left[i].is_set /\ snr.left[i].addr = addr})
  + Cardinality({i \in 1 .. LeafsetSize : snr.right[i].is_set /\ snr.right[i].addr = addr})

Unreachable(r, addr) ==
  \A dst \in Address : \A hop \in Nexthops(r, dst) : hop.is_set => hop.addr # addr

RemoveUnlearns ==
  [][\A addr \in Peers :
       Remove(addr) /\ Copies(addr) <= 1 => Unreachable(snr', addr)]_vars

(***************************************************************************)
(* The answer to a query of the leafset goes around the ring: from the     *)
(* farthest leaf on the left, over the node, to the farthest on the right  *)
(* the addresses never descend; and the whole leafset is answered with all *)
(* its leaves, when all of them can be serialised.                         *)
(***************************************************************************)
QueryLeafsetAscends ==
  \A pmin, pmax \in Position :
    LET answer == QueryLeafset(snr, pmin, pmax)
        at(i)  == LeafsetGet(snr, answer[i]).addr
    IN  /\ \A i, j \in 1 .. Len(answer) : i < j => ~Before(at(j), at(i))
        /\ pmin = -LeafsetSize /\ pmax = LeafsetSize /\ NoNet \notin Nets =>
             Len(answer) = ArrayLen(snr.left) + 1 + ArrayLen(snr.right)

(***************************************************************************)
(* Each leafset implements the abstract one: the LeafsetSize nearest of    *)
(* the peers added on its side, with their copies.                         *)
(***************************************************************************)
CopiesIn(leafset) ==
  [a \in Address |->
     Cardinality({i \in 1 .. LeafsetSize : leafset[i].is_set /\ leafset[i].addr = a})]

NearerOnLeft(a, b)  == Before(b, a)

LeftLeaves  == INSTANCE NearestLeaves WITH
                 Key <- Address, Nearer <- NearerOnLeft,
                 Capacity <- LeafsetSize, leaves <- CopiesIn(snr.left)
RightLeaves == INSTANCE NearestLeaves WITH
                 Key <- Address, Nearer <- Before,
                 Capacity <- LeafsetSize, leaves <- CopiesIn(snr.right)

LeftIsNearest  == LeftLeaves!Spec
RightIsNearest == RightLeaves!Spec

-----------------------------------------------------------------------------
(* What the documentation and the tests say, and the code does not do      *)

(***************************************************************************)
(* router.h: sn_net_router_nexthop tells the best next hop.  In            *)
(* test/net/router-tests.cpp a router that knows of 888888 answers 888888  *)
(* when asked for the next hop to 888888.                                  *)
(***************************************************************************)
Leaves == {snr.left[i]  : i \in 1 .. ArrayLen(snr.left)}
          \cup {snr.right[i] : i \in 1 .. ArrayLen(snr.right)}

KnownIsNexthop ==
  \A e \in Leaves : \A hop \in Nexthops(snr, e.addr) : hop.is_set /\ hop.addr = e.addr

(***************************************************************************)
(* router.h: *out_query will contain all the entries with level l between  *)
(* l_min and l_max.  They must fit the buffer allocated for them.          *)
(***************************************************************************)
QueryTableFits ==
  \A lmin, lmax \in 0 .. HexLen - 1 :
    lmin <= lmax =>
      Cardinality(QueryTable(snr, lmin, lmax)) <= QueryTableCapacity(lmin, lmax)
=============================================================================
