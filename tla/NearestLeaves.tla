--------------------------- MODULE NearestLeaves ---------------------------
(***************************************************************************)
(* What one leafset of a router promises: it holds the Capacity nearest of *)
(* the keys offered to it, less those that were dropped.  A key offered    *)
(* twice is held twice, and dropping it drops one copy.  How the keys are  *)
(* stored, sorted and searched is left out, and so is everything a leafset *)
(* remembers of a key it no longer holds.                                  *)
(***************************************************************************)
EXTENDS Naturals, FiniteSets

CONSTANTS
  Key,
  Nearer(_, _),  \* strict total order on Key
  Capacity

VARIABLE leaves  \* number of copies of each key

Held(bag)   == {k \in Key : bag[k] > 0}

\* Every copy of every key, told apart by a number.
Copies(bag) == UNION {{k} \X (1 .. bag[k]) : k \in Key}

With(bag, k)    == [bag EXCEPT ![k] = @ + 1]
Without(bag, k) == [bag EXCEPT ![k] = @ - 1]
Farthest(bag)   == CHOOSE k \in Held(bag) : \A j \in Held(bag) : ~Nearer(k, j)

Init == leaves = [k \in Key |-> 0]

\* One more key; one of the farthest gives way when there is no room.
Offer(k) ==
  LET more == With(leaves, k)
  IN  leaves' = IF Cardinality(Copies(leaves)) < Capacity
                THEN more ELSE Without(more, Farthest(more))

Drop(k) ==
  /\ k \in Held(leaves)
  /\ leaves' = Without(leaves, k)

Next == \E k \in Key : Offer(k) \/ Drop(k)

Spec == Init /\ [][Next]_leaves
=============================================================================
