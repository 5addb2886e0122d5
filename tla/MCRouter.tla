------------------------------ MODULE MCRouter ------------------------------
(***************************************************************************)
(* Instances of Router for TLC: addresses of one byte and two digits in    *)
(* radix 4, so 16 addresses, a table of two levels and leafsets of two.    *)
(***************************************************************************)
EXTENDS Router, TLC

CONSTANT Net  \* a network address that can be serialised

addr(n) == [i \in 1 .. 1 |-> n]

\* Three peers compete for the two places on the right of self, two of them
\* for one slot of the table; of the two on the left one shares a digit with
\* self and the other is as near without sharing any.
SelfInside  == addr(5)
PeersAround == {addr(3), addr(4), addr(8), addr(9), addr(14)}

\* Peers next to one another, for routing by distance.
PeersAdjacent == {addr(7), addr(8), addr(12)}

OneNet  == {Net}
TwoNets == {NoNet, Net}
=============================================================================
