----------------------------- MODULE Collection -----------------------------
(***************************************************************************)
(* What a vector promises to those who do not care where in it an element  *)
(* is: an unordered collection that keeps every element that was put into  *)
(* it, each as often as it was put, until it is handed out or the          *)
(* collection is destroyed.                                                *)
(***************************************************************************)
EXTENDS Naturals

CONSTANTS
  Item,     \* what can be kept
  Nothing   \* before anything was handed out

VARIABLES
  count,    \* how many of each item there are
  out       \* the item handed out last

Empty == [i \in Item |-> 0]

Init == count = Empty /\ out = Nothing

Put(i)  == count' = [count EXCEPT ![i] = @ + 1] /\ UNCHANGED out

Take(i) == /\ count[i] > 0
           /\ count' = [count EXCEPT ![i] = @ - 1]
           /\ out' = i

Clear   == count' = Empty /\ UNCHANGED out

Next == (\E i \in Item : Put(i) \/ Take(i)) \/ Clear

Spec == Init /\ [][Next]_<<count, out>>
=============================================================================
