-------------------------------- MODULE MCVec --------------------------------
(***************************************************************************)
(* Instances of Vec for TLC.  With a default capacity of 2, a vector of 5  *)
(* elements has grown from 0 or 2 up to 8 and shrinks twice on its way     *)
(* back; a capacity of 3 is odd when it is halved.                         *)
(***************************************************************************)
EXTENDS Vec

CONSTANTS e1, e2

TwoElems     == {e1, e2}
Created      == {0, 2, 5}
=============================================================================
