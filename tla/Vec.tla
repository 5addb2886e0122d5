-------------------------------- MODULE Vec --------------------------------
(***************************************************************************)
(* The growable vector (src/data/vec.c): what its caller does with one,    *)
(* and an allocator that may refuse any request.  The buffer is kept with  *)
(* the length that was really allocated, beside the capacity that the      *)
(* structure records.                                                      *)
(***************************************************************************)
EXTENDS Integers, Sequences, FiniteSets

CONSTANTS
  Elem,             \* elements
  Junk,             \* what malloc leaves in a buffer
  Nothing,          \* handed out by nobody yet
  DefaultCapacity,  \* SN_DATA_VEC_DEFAULT_CAPACITY (8 in the code)
  Capacities,       \* capacities that vectors are created with
  MaxSize           \* bound of the model: the elements in the vector

ASSUME JunkAssumption == {Junk, Nothing} \cap Elem = {}
ASSUME CapacityAssumption ==
  /\ DefaultCapacity \in Nat \ {0}
  /\ Capacities \subseteq Nat
  /\ MaxSize \in Nat

VARIABLES
  vec,     \* sn_data_vec_t, <<>> for a NULL buffer
  phase,   \* "none", "live", "failed" (creation returned -1) or "destroyed"
  out,     \* what sn_data_vec_remove_at handed out last
  denied,  \* history: a push on this vector returned -1
  overrun  \* a push wrote past the buffer

Vector == [size : Nat, capacity : Nat, buf : Seq(Elem \cup {Junk})]

vars == <<vec, phase, out, denied, overrun>>

-----------------------------------------------------------------------------
(* The allocator                                                           *)

Allocated(n) == [i \in 1 .. n |-> Junk]

\* realloc: the elements that fit keep their places.
Resized(buf, n) == [i \in 1 .. n |-> IF i <= Len(buf) THEN buf[i] ELSE Junk]

-----------------------------------------------------------------------------
(* Operations on the structure                                             *)

\* sn_data_vec_at, for a position within the size.
At(v, at) == v.buf[at + 1]

Doubled(v) == IF v.capacity = 0 THEN 1 ELSE 2 * v.capacity

GrownToSize(v) == [v EXCEPT !.capacity = Doubled(v), !.buf = Resized(@, v.size)]

\* The capacity is doubled whether or not the buffer can be.
Grown(v) == [v EXCEPT !.capacity = Doubled(v), !.buf = Resized(@, Doubled(v))]
Refused(v) == [v EXCEPT !.capacity = Doubled(v)]

StoredAfter(v, e) == [v EXCEPT !.buf = [@ EXCEPT ![v.size + 2] = e], !.size = @ + 1]

Stored(v, e) == [v EXCEPT !.buf = [@ EXCEPT ![v.size + 1] = e], !.size = @ + 1]

\* The last element takes the place of the one removed.
TakenOutUnmoved(v, at) == [v EXCEPT !.size = @ - 1]

TakenOut(v, at) ==
  [v EXCEPT !.buf = [@ EXCEPT ![at + 1] = v.buf[v.size]], !.size = @ - 1]

\* A vector at most half full shrinks, unless the buffer cannot be moved:
\* then only the capacity does.
ShrunkEarly(v) ==
  LET half == v.capacity \div 2
  IN  IF half < DefaultCapacity \/ v.size > half + 1 THEN {v}
      ELSE {[v EXCEPT !.capacity = half],
            [v EXCEPT !.capacity = half, !.buf = Resized(@, half)]}

Shrunk(v) ==
  LET half == v.capacity \div 2
  IN  IF half < DefaultCapacity \/ v.size > half THEN {v}
      ELSE {[v EXCEPT !.capacity = half],
            [v EXCEPT !.capacity = half, !.buf = Resized(@, half)]}

-----------------------------------------------------------------------------
(* Calls                                                                   *)

Init ==
  /\ vec = [size |-> 0, capacity |-> 0, buf |-> <<>>]
  /\ phase = "none" /\ out = Nothing /\ denied = FALSE /\ overrun = FALSE

\* sn_data_vec_with_capacity, whose malloc may fail; sn_data_vec_init with DefaultCapacity.
WithCapacity(n) ==
  /\ phase # "live" /\ ~overrun
  /\ \/ phase' = "live" /\ vec' = [size |-> 0, capacity |-> n, buf |-> Allocated(n)]
     \/ phase' = "failed" /\ vec' = [size |-> 0, capacity |-> n, buf |-> <<>>]
  /\ denied' = FALSE
  /\ UNCHANGED <<out, overrun>>

\* memcpy to the place after the last element of v.
Write(v, e) ==
  \/ v.size < Len(v.buf) /\ vec' = Stored(v, e) /\ UNCHANGED overrun
  \/ v.size >= Len(v.buf) /\ overrun' = TRUE /\ UNCHANGED vec

Live == phase = "live" /\ ~overrun

Push(e) ==
  /\ Live /\ vec.size < MaxSize
  /\ \/ vec.size < vec.capacity /\ Write(vec, e) /\ UNCHANGED denied
     \/ vec.size = vec.capacity /\ Write(Grown(vec), e) /\ UNCHANGED denied
     \/ /\ vec.size = vec.capacity
        /\ vec' = Refused(vec) /\ denied' = TRUE /\ UNCHANGED overrun
  /\ UNCHANGED <<phase, out>>

RemoveAt(at) ==
  /\ Live /\ at < vec.size
  /\ out' = At(vec, at)
  /\ vec' \in Shrunk(TakenOut(vec, at))
  /\ UNCHANGED <<phase, denied, overrun>>

\* Also after a failed creation, whose buffer is NULL.
Destroy ==
  /\ phase \in {"live", "failed"} /\ ~overrun
  /\ vec'   = [size |-> 0, capacity |-> 0, buf |-> <<>>]
  /\ phase' = "destroyed"
  /\ UNCHANGED <<out, denied, overrun>>

Next ==
  \/ \E n \in Capacities : WithCapacity(n)
  \/ \E e \in Elem : Push(e)
  \/ \E at \in 0 .. MaxSize - 1 : RemoveAt(at)
  \/ Destroy

Spec == Init /\ [][Next]_vars

-----------------------------------------------------------------------------
(* Properties                                                              *)

\* What is handed out is an element, never memory that was not written.
TypeOK ==
  /\ vec \in Vector
  /\ phase \in {"none", "live", "failed", "destroyed"}
  /\ out \in Elem \cup {Nothing}
  /\ denied \in BOOLEAN /\ overrun \in BOOLEAN

(***************************************************************************)
(* The assertion size <= capacity of sn_data_vec_push never fails, however *)
(* the vector has grown and shrunk before.                                 *)
(***************************************************************************)
SizeWithinCapacity == Live => vec.size <= vec.capacity

(***************************************************************************)
(* A push writes past the buffer only after an earlier push on the vector  *)
(* failed: a caller that stops there is safe, shrinking included.          *)
(***************************************************************************)
OverrunsOnlyAfterDenial == overrun => denied

(***************************************************************************)
(* The vector is a Collection: every push that succeeds puts its element,  *)
(* every removal hands out the element that is then gone, and nothing else *)
(* comes or goes, whatever moves, grows, shrinks or is refused.            *)
(***************************************************************************)
Occurrences ==
  [e \in Elem |-> Cardinality({at \in 0 .. vec.size - 1 : At(vec, at) = e})]

Elements == INSTANCE Collection WITH
              Item <- Elem, Nothing <- Nothing, count <- Occurrences

IsCollection == Elements!Spec

(***************************************************************************)
(* The invariant behind them: the elements are in the buffer, all of them  *)
(* written, and so is the capacity as long as no push was denied.          *)
(***************************************************************************)
Fits ==
  phase = "live" =>
    /\ vec.size <= vec.capacity
    /\ vec.size <= Len(vec.buf)
    /\ \A i \in 1 .. vec.size : vec.buf[i] \in Elem
    /\ ~denied => vec.capacity <= Len(vec.buf)
=============================================================================
