------------------------------ MODULE MCNetwork ------------------------------
(***************************************************************************)
(* Instances of Network for TLC: addresses of one byte and two digits in   *)
(* radix 4.                                                                *)
(***************************************************************************)
EXTENDS Network, TLC

addr(n) == [i \in 1 .. 1 |-> n]

\* 03 and 13 in radix 4: for the key 10, which nobody owns, 13 has the longer
\* prefix and 03 the smaller distance.
A == addr(3)
B == addr(7)
Nobody == addr(4)

TwoNodes   == {A, B}
TwoNets    == {A, B, NoNet}
Targets    == {B, Nobody}
OnlyA      == {A}
OnlyB      == {B}

\* Short for a ping, too long for the wire, and longer than the header can say.
Lengths == {0, 4, 8}
OneLength == {2}
=============================================================================
