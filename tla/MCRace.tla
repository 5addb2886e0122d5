------------------------------- MODULE MCRace -------------------------------
(***************************************************************************)
(* Instances of RouterRace for TLC: addresses of two bytes of two binary   *)
(* digits each, and leafsets of two.  Two of the peers share a slot of the *)
(* table and differ in both of their bytes, so that their mixes are the    *)
(* addresses of nobody.                                                    *)
(***************************************************************************)
EXTENDS RouterRace

CONSTANTS m, n  \* network addresses, m the one that cannot be serialised

addr(j, k) == <<j, k>>

SelfInside == addr(0, 2)
SharedSlot == {addr(2, 1), addr(3, 2)}

\* A mix of the two, and an address of a slot further down.
TwoWanted == {addr(2, 2), addr(1, 1)}

TwoNets == {m, n}
OneNet  == {n}
=============================================================================
