------------------------------ MODULE VecProofs ------------------------------
(***************************************************************************)
(* The vector stays within its buffer, for every element type, default     *)
(* capacity and sequence of calls.  The inductive invariant adds to the    *)
(* type what Fits says: the capacity that the code compares the size with  *)
(* is only as good as the buffer behind it, which a denied push breaks.    *)
(* Counting the places of each element shows every call to be one of the   *)
(* abstract Collection.                                                    *)
(***************************************************************************)
EXTENDS Vec, FiniteSetTheorems, TLAPS

VecInv == TypeOK /\ Fits /\ OverrunsOnlyAfterDenial

-----------------------------------------------------------------------------
(***************************************************************************)
(* What the allocator returns is a buffer of the length asked for that     *)
(* keeps the elements which fit it.                                        *)
(***************************************************************************)
LEMMA ResizedKeeps ==
  ASSUME NEW buf \in Seq(Elem \cup {Junk}), NEW n \in Nat
  PROVE  /\ Resized(buf, n) \in Seq(Elem \cup {Junk})
         /\ Len(Resized(buf, n)) = n
         /\ \A i \in 1 .. n : i <= Len(buf) => Resized(buf, n)[i] = buf[i]
<1> DEFINE r == [i \in 1 .. n |-> IF i <= Len(buf) THEN buf[i] ELSE Junk]
<1>1. \A i \in 1 .. n : r[i] \in Elem \cup {Junk}
  OBVIOUS
<1>2. r \in [1 .. n -> Elem \cup {Junk}]
  BY <1>1
<1>3. r \in Seq(Elem \cup {Junk}) /\ Len(r) = n
  BY <1>2
<1> QED
  BY <1>3 DEF Resized

Holding(v, b, s) == [v EXCEPT !.buf = b, !.size = s]

(***************************************************************************)
(* The fields of a vector whose buffer and size were replaced.             *)
(***************************************************************************)
LEMMA Rewritten ==
  ASSUME NEW v \in Vector, NEW s \in Nat, NEW b \in Seq(Elem \cup {Junk})
  PROVE  /\ Holding(v, b, s) \in Vector
         /\ Holding(v, b, s).size = s
         /\ Holding(v, b, s).capacity = v.capacity
         /\ Holding(v, b, s).buf = b
BY DEF Vector, Holding

(***************************************************************************)
(* A vector is sound when its size is within the capacity and its elements *)
(* are in the buffer; it is backed when its capacity is in the buffer too. *)
(***************************************************************************)
Sound(v) ==
  /\ v \in Vector
  /\ v.size <= v.capacity
  /\ v.size <= Len(v.buf)
  /\ \A i \in 1 .. v.size : v.buf[i] \in Elem

Backed(v) == v.capacity <= Len(v.buf)

(***************************************************************************)
(* Growing a full vector gives room for one more element.                  *)
(***************************************************************************)
LEMMA GrownSound ==
  ASSUME NEW v, Sound(v), v.size = v.capacity
  PROVE  Sound(Grown(v)) /\ Backed(Grown(v)) /\ Grown(v).size < Grown(v).capacity
         /\ Grown(v).size < Len(Grown(v).buf)
<1>1. Doubled(v) \in Nat /\ v.capacity < Doubled(v)
  BY DEF Sound, Vector, Doubled
<1>2. /\ Resized(v.buf, Doubled(v)) \in Seq(Elem \cup {Junk})
      /\ Len(Resized(v.buf, Doubled(v))) = Doubled(v)
      /\ \A i \in 1 .. Doubled(v) : i <= Len(v.buf) => Resized(v.buf, Doubled(v))[i] = v.buf[i]
  BY <1>1, ResizedKeeps DEF Sound, Vector
<1>3. /\ Grown(v) \in Vector
      /\ Grown(v).size = v.size /\ Grown(v).capacity = Doubled(v)
      /\ Grown(v).buf = Resized(v.buf, Doubled(v))
  BY <1>1, <1>2 DEF Sound, Vector, Grown
<1>4. \A i \in 1 .. v.size : Resized(v.buf, Doubled(v))[i] \in Elem
  BY <1>1, <1>2 DEF Sound, Vector
<1> QED
  BY <1>1, <1>2, <1>3, <1>4 DEF Sound, Backed, Vector

(***************************************************************************)
(* So does doubling the capacity alone, in the books.                      *)
(***************************************************************************)
LEMMA RefusedSound ==
  ASSUME NEW v, Sound(v)
  PROVE  Sound(Refused(v))
<1>1. Doubled(v) \in Nat /\ v.capacity <= Doubled(v)
  BY DEF Sound, Vector, Doubled
<1>2. Refused(v) = [size |-> v.size, capacity |-> Doubled(v), buf |-> v.buf]
  BY DEF Sound, Vector, Refused
<1> QED
  BY <1>1, <1>2 DEF Sound, Vector

(***************************************************************************)
(* An element is stored where there is room for it.                        *)
(***************************************************************************)
LEMMA StoredSound ==
  ASSUME NEW v, NEW e \in Elem, Sound(v), v.size < v.capacity, v.size < Len(v.buf)
  PROVE  Sound(Stored(v, e)) /\ (Backed(v) => Backed(Stored(v, e)))
<1> DEFINE b == [v.buf EXCEPT ![v.size + 1] = e]
<1>1. v.size + 1 \in 1 .. Len(v.buf)
  BY DEF Sound, Vector
<1>2. b \in Seq(Elem \cup {Junk}) /\ Len(b) = Len(v.buf)
  BY <1>1 DEF Sound, Vector
<1>3. /\ Stored(v, e) \in Vector
      /\ Stored(v, e).size = v.size + 1 /\ Stored(v, e).capacity = v.capacity
      /\ Stored(v, e).buf = b
  <2>1. Stored(v, e) = Holding(v, b, v.size + 1)
    BY DEF Stored, Holding
  <2>2. v.size + 1 \in Nat
    BY <1>1
  <2> HIDE DEF b
  <2> QED
    BY <1>2, <2>1, <2>2, Rewritten DEF Sound
<1>4. \A i \in 1 .. v.size + 1 : b[i] \in Elem
  BY <1>1 DEF Sound, Vector
<1> HIDE DEF b
<1> QED
  BY <1>1, <1>2, <1>3, <1>4 DEF Sound, Backed, Vector

(***************************************************************************)
(* Removing an element, and shrinking after it, keeps the others in.       *)
(***************************************************************************)
LEMMA TakenOutSound ==
  ASSUME NEW v, NEW at \in Nat, Sound(v), at < v.size
  PROVE  Sound(TakenOut(v, at)) /\ (Backed(v) => Backed(TakenOut(v, at)))
<1> DEFINE b == [v.buf EXCEPT ![at + 1] = v.buf[v.size]]
<1>1. at + 1 \in 1 .. v.size /\ v.size \in 1 .. v.size /\ v.buf[v.size] \in Elem
  BY DEF Sound, Vector
<1>2. b \in Seq(Elem \cup {Junk}) /\ Len(b) = Len(v.buf)
  BY <1>1 DEF Sound, Vector
<1>3. /\ TakenOut(v, at) \in Vector
      /\ TakenOut(v, at).size = v.size - 1 /\ TakenOut(v, at).capacity = v.capacity
      /\ TakenOut(v, at).buf = b
  <2>1. TakenOut(v, at) = Holding(v, b, v.size - 1)
    BY DEF TakenOut, Holding
  <2>2. v.size - 1 \in Nat
    BY <1>1 DEF Sound, Vector
  <2> HIDE DEF b
  <2> QED
    BY <1>2, <2>1, <2>2, Rewritten DEF Sound
<1>4. \A i \in 1 .. v.size - 1 : b[i] \in Elem
  BY <1>1 DEF Sound, Vector
<1> HIDE DEF b
<1> QED
  BY <1>1, <1>2, <1>3, <1>4 DEF Sound, Backed, Vector

\* sn_data_vec_remove_at, second half: the elements fit half the capacity.
LEMMA ShrunkSound ==
  ASSUME NEW v, Sound(v), NEW w \in Shrunk(v)
  PROVE  Sound(w) /\ (Backed(v) => Backed(w))
<1> DEFINE half == v.capacity \div 2
<1>1. half \in Nat /\ half <= v.capacity
  BY DEF Sound, Vector
<1>2. CASE w = v
  BY <1>2
<1>3. CASE v.size <= half /\ w = [v EXCEPT !.capacity = half]
  <2>1. w = [size |-> v.size, capacity |-> half, buf |-> v.buf]
    BY <1>3 DEF Sound, Vector
  <2> QED
    BY <1>1, <1>3, <2>1 DEF Sound, Backed, Vector
<1>4. CASE v.size <= half /\ w = [v EXCEPT !.capacity = half, !.buf = Resized(@, half)]
  <2>1. /\ Resized(v.buf, half) \in Seq(Elem \cup {Junk})
        /\ Len(Resized(v.buf, half)) = half
        /\ \A i \in 1 .. half : i <= Len(v.buf) => Resized(v.buf, half)[i] = v.buf[i]
    BY <1>1, ResizedKeeps DEF Sound, Vector
  <2>2. w = [size |-> v.size, capacity |-> half, buf |-> Resized(v.buf, half)]
    BY <1>4 DEF Sound, Vector
  <2>3. \A i \in 1 .. v.size : Resized(v.buf, half)[i] \in Elem
    BY <1>1, <1>4, <2>1 DEF Sound, Vector
  <2> QED
    BY <1>1, <1>4, <2>1, <2>2, <2>3 DEF Sound, Backed, Vector
<1>5. w = v \/ (v.size <= half /\ (\/ w = [v EXCEPT !.capacity = half]
                                   \/ w = [v EXCEPT !.capacity = half, !.buf = Resized(@, half)]))
  BY <1>1, CapacityAssumption DEF Sound, Vector, Shrunk
<1> QED
  BY <1>2, <1>3, <1>4, <1>5

-----------------------------------------------------------------------------
\* Before the first call there is nothing to keep.
LEMMA VecInvInit == Init => VecInv
<1> SUFFICES ASSUME Init PROVE VecInv
  OBVIOUS
<1>1. <<>> \in Seq(Elem \cup {Junk})
  OBVIOUS
<1> QED
  BY <1>1 DEF Init, VecInv, TypeOK, Vector, Fits, OverrunsOnlyAfterDenial

(***************************************************************************)
(* While a vector is live the invariant says that it is sound, and backed  *)
(* unless a push was denied.                                               *)
(***************************************************************************)
LEMMA LiveSound ==
  VecInv /\ phase = "live" => Sound(vec) /\ (~denied => Backed(vec))
BY DEF VecInv, TypeOK, Fits, Sound, Backed

\* sn_data_vec_with_capacity, whether or not malloc succeeds.
LEMMA WithCapacityKeeps ==
  ASSUME VecInv, NEW n \in Capacities, WithCapacity(n)
  PROVE  VecInv'
<1>1. n \in Nat
  BY CapacityAssumption
<1>2. /\ Allocated(n) \in Seq(Elem \cup {Junk}) /\ Len(Allocated(n)) = n
      /\ <<>> \in Seq(Elem \cup {Junk})
  <2>1. [i \in 1 .. n |-> Junk] \in [1 .. n -> Elem \cup {Junk}]
    OBVIOUS
  <2>2. [i \in 1 .. n |-> Junk] \in Seq(Elem \cup {Junk}) /\ Len([i \in 1 .. n |-> Junk]) = n
    BY <1>1, <2>1
  <2>3. <<>> \in Seq(Elem \cup {Junk})
    OBVIOUS
  <2> QED
    BY <2>2, <2>3 DEF Allocated
<1>3. TypeOK'
  <2>1. [size |-> 0, capacity |-> n, buf |-> Allocated(n)] \in Vector
    BY <1>1, <1>2 DEF Vector
  <2>2. [size |-> 0, capacity |-> n, buf |-> <<>>] \in Vector
    BY <1>1, <1>2 DEF Vector
  <2> QED
    BY <2>1, <2>2 DEF WithCapacity, VecInv, TypeOK
<1>4. Fits'
  BY <1>1, <1>2 DEF WithCapacity, Fits
<1>5. OverrunsOnlyAfterDenial'
  BY DEF WithCapacity, VecInv, TypeOK, OverrunsOnlyAfterDenial
<1> QED
  BY <1>3, <1>4, <1>5 DEF VecInv

\* sn_data_vec_push: with room, after growing, and when growing is refused.
LEMMA PushKeeps ==
  ASSUME VecInv, NEW e \in Elem, Push(e)
  PROVE  VecInv'
<1>1. Sound(vec) /\ (~denied => Backed(vec)) /\ ~overrun /\ phase = "live"
      /\ phase' = phase /\ out' = out /\ TypeOK
  BY LiveSound DEF Push, Live, VecInv
<1>2. ASSUME Sound(vec'), denied' \in BOOLEAN, overrun' \in BOOLEAN,
             ~denied' => Backed(vec'), overrun' => denied'
      PROVE  VecInv'
  BY <1>1, <1>2 DEF VecInv, TypeOK, Fits, OverrunsOnlyAfterDenial, Sound, Backed
<1>3. CASE vec.size < vec.capacity /\ Write(vec, e) /\ UNCHANGED denied
  <2>1. CASE vec.size < Len(vec.buf)
    BY <1>1, <1>2, <1>3, <2>1, StoredSound DEF Write, TypeOK, Sound, Vector
  <2>2. CASE vec.size >= Len(vec.buf)
    <3>1. denied
      BY <1>1, <1>3, <2>2 DEF TypeOK, Backed, Sound, Vector
    <3>2. vec' = vec /\ overrun' = TRUE /\ denied' = denied
      BY <1>1, <1>3, <2>2 DEF Write, Sound, Vector
    <3> QED
      BY <1>1, <1>2, <3>1, <3>2
  <2> QED
    BY <1>1, <2>1, <2>2 DEF Sound, Vector
<1>4. CASE vec.size = vec.capacity /\ Write(Grown(vec), e) /\ UNCHANGED denied
  <2> DEFINE g == Grown(vec)
  <2>1. Sound(g) /\ Backed(g) /\ g.size < g.capacity /\ g.size < Len(g.buf)
    BY <1>1, <1>4, GrownSound
  <2>2. Sound(Stored(g, e)) /\ Backed(Stored(g, e))
    BY <2>1, StoredSound
  <2>3. vec' = Stored(g, e) /\ overrun' = overrun
    BY <1>4, <2>1 DEF Write, Sound, Vector
  <2> QED
    BY <1>1, <1>2, <1>4, <2>2, <2>3 DEF TypeOK
<1>5. CASE vec' = Refused(vec) /\ denied' = TRUE /\ UNCHANGED overrun
  BY <1>1, <1>2, <1>5, RefusedSound DEF TypeOK
<1> QED
  BY <1>3, <1>4, <1>5 DEF Push

\* sn_data_vec_remove_at, from which an element comes out.
LEMMA RemoveAtKeeps ==
  ASSUME VecInv, NEW at \in Nat, RemoveAt(at)
  PROVE  VecInv'
<1>1. Sound(vec) /\ (~denied => Backed(vec)) /\ phase = "live" /\ at < vec.size
      /\ phase' = phase /\ denied' = denied /\ overrun' = overrun
      /\ vec' \in Shrunk(TakenOut(vec, at)) /\ out' = vec.buf[at + 1] /\ TypeOK
      /\ OverrunsOnlyAfterDenial
  BY LiveSound DEF RemoveAt, Live, VecInv, At
<1>2. Sound(TakenOut(vec, at)) /\ (Backed(vec) => Backed(TakenOut(vec, at)))
  BY <1>1, TakenOutSound
<1>3. Sound(vec') /\ (~denied => Backed(vec'))
  BY <1>1, <1>2, ShrunkSound
<1>4. out' \in Elem
  BY <1>1 DEF Sound, Vector
<1> QED
  BY <1>1, <1>3, <1>4 DEF VecInv, TypeOK, Fits, OverrunsOnlyAfterDenial, Sound, Backed

\* Every call keeps the invariant.
LEMMA VecInvNext == VecInv /\ [Next]_vars => VecInv'
<1> SUFFICES ASSUME VecInv, [Next]_vars PROVE VecInv'
  OBVIOUS
<1>1. ASSUME NEW n \in Capacities, WithCapacity(n) PROVE VecInv'
  BY <1>1, WithCapacityKeeps
<1>2. ASSUME NEW e \in Elem, Push(e) PROVE VecInv'
  BY <1>2, PushKeeps
<1>3. ASSUME NEW at \in 0 .. MaxSize - 1, RemoveAt(at) PROVE VecInv'
  BY <1>3, RemoveAtKeeps, CapacityAssumption
<1>4. ASSUME Destroy PROVE VecInv'
  <2>1. <<>> \in Seq(Elem \cup {Junk})
    OBVIOUS
  <2> QED
    BY <1>4, <2>1 DEF Destroy, VecInv, TypeOK, Vector, Fits, OverrunsOnlyAfterDenial
<1>5. CASE UNCHANGED vars
  BY <1>5 DEF vars, VecInv, TypeOK, Fits, OverrunsOnlyAfterDenial
<1> QED
  BY <1>1, <1>2, <1>3, <1>4, <1>5 DEF Next

(***************************************************************************)
(* Types, soundness and the place of every overrun, whatever is pushed and *)
(* removed and whichever requests for memory are refused.                  *)
(***************************************************************************)
THEOREM VecInvariant == Spec => []VecInv
<1> QED
  BY VecInvInit, VecInvNext, PTL DEF Spec

(***************************************************************************)
(* The types of the vector, and that sn_data_vec_remove_at never hands out *)
(* memory that was not written by a push.                                  *)
(***************************************************************************)
THEOREM VecTypeOK == Spec => []TypeOK
<1>1. VecInv => TypeOK
  BY DEF VecInv
<1> QED
  BY <1>1, VecInvariant, PTL

(***************************************************************************)
(* The assertion size <= capacity of sn_data_vec_push holds whenever it is *)
(* evaluated.                                                              *)
(***************************************************************************)
THEOREM VecSizeWithinCapacity == Spec => []SizeWithinCapacity
<1>1. VecInv => SizeWithinCapacity
  BY DEF VecInv, Fits, SizeWithinCapacity, Live
<1> QED
  BY <1>1, VecInvariant, PTL

(***************************************************************************)
(* sn_data_vec_push writes past the buffer only after an earlier push on   *)
(* the same vector returned -1.                                            *)
(***************************************************************************)
THEOREM VecOverrunsOnlyAfterDenial == Spec => []OverrunsOnlyAfterDenial
<1>1. VecInv => OverrunsOnlyAfterDenial
  BY DEF VecInv
<1> QED
  BY <1>1, VecInvariant, PTL
-----------------------------------------------------------------------------
(* The vector implements Collection                                        *)

\* The positions of a vector where an element is.
Held(v, x) == {at \in 0 .. v.size - 1 : At(v, at) = x}

\* They are finitely many, and a vector that holds none counts none.
LEMMA HeldFinite ==
  ASSUME NEW v, v.size \in Nat, NEW x
  PROVE  /\ IsFiniteSet(Held(v, x)) /\ Cardinality(Held(v, x)) \in Nat
         /\ v.size = 0 => Cardinality(Held(v, x)) = 0
<1>1. IsFiniteSet(0 .. v.size - 1)
  BY FS_Interval
<1>2. Held(v, x) \in SUBSET (0 .. v.size - 1)
  BY DEF Held
<1>3. IsFiniteSet(Held(v, x))
  BY <1>1, <1>2, FS_Subset
<1>4. v.size = 0 => Held(v, x) = {}
  BY DEF Held
<1> QED BY <1>3, <1>4, FS_CardinalityType, FS_EmptySet

\* sn_data_vec_push adds one occurrence of what it stores.
LEMMA StoredHeld ==
  ASSUME NEW v, NEW e \in Elem, Sound(v), v.size < v.capacity, v.size < Len(v.buf), NEW x
  PROVE  Cardinality(Held(Stored(v, e), x)) =
           Cardinality(Held(v, x)) + (IF x = e THEN 1 ELSE 0)
<1> DEFINE s == v.size
           b == [v.buf EXCEPT ![s + 1] = e]
<1>1. s \in Nat /\ v \in Vector /\ s + 1 \in 1 .. Len(v.buf)
  BY DEF Sound, Vector
<1>2. Stored(v, e).size = s + 1 /\ Stored(v, e).buf = b
  BY <1>1 DEF Stored, Vector
<1>3. \A at \in 0 .. s : b[at + 1] = IF at = s THEN e ELSE v.buf[at + 1]
  BY <1>1 DEF Sound, Vector
<1>4. IsFiniteSet(Held(v, x)) /\ Cardinality(Held(v, x)) \in Nat /\ s \notin Held(v, x)
  <2>1. IsFiniteSet(Held(v, x)) /\ Cardinality(Held(v, x)) \in Nat
    BY <1>1, HeldFinite
  <2>2. s \notin 0 .. s - 1
    BY <1>1
  <2> QED BY <2>1, <2>2 DEF Held
<1> HIDE DEF b
<1>5. Held(Stored(v, e), x) = {at \in 0 .. s : b[at + 1] = x}
  BY <1>1, <1>2 DEF Held, At
<1>6. Held(v, x) = {at \in 0 .. s - 1 : v.buf[at + 1] = x}
  BY DEF Held, At
<1>7. Held(Stored(v, e), x) = IF x = e THEN Held(v, x) \cup {s} ELSE Held(v, x)
  <2> HIDE DEF s
  <2>1. 0 .. s = (0 .. s - 1) \cup {s} /\ s \notin 0 .. s - 1
    BY <1>1
  <2>2. {at \in 0 .. s : b[at + 1] = x}
          = {at \in 0 .. s - 1 : b[at + 1] = x} \cup {at \in {s} : b[at + 1] = x}
    BY <2>1
  <2>3. \A at \in 0 .. s - 1 : b[at + 1] = v.buf[at + 1]
    BY <1>3, <2>1
  <2>4. {at \in 0 .. s - 1 : b[at + 1] = x} = Held(v, x)
    BY <1>6, <2>3
  <2>5. {at \in {s} : b[at + 1] = x} = IF x = e THEN {s} ELSE {}
    BY <1>3, <2>1
  <2> QED BY <1>5, <2>2, <2>4, <2>5
<1>8. Cardinality(Held(v, x) \cup {s}) = Cardinality(Held(v, x)) + 1
  <2> HIDE DEF s
  <2> QED BY <1>4, FS_AddElement
<1> QED BY <1>4, <1>7, <1>8

\* sn_data_vec_remove_at takes one occurrence of what it hands out: its place
\* goes to the last element.
LEMMA TakenOutHeld ==
  ASSUME NEW v, NEW at \in Nat, Sound(v), at < v.size, NEW x
  PROVE  Cardinality(Held(TakenOut(v, at), x)) =
           Cardinality(Held(v, x)) - (IF x = At(v, at) THEN 1 ELSE 0)
<1> DEFINE last  == v.size - 1
           b     == [v.buf EXCEPT ![at + 1] = v.buf[v.size]]
           held  == Held(v, x)
           rest  == held \ {at}
           after == Held(TakenOut(v, at), x)
<1>1. last \in Nat /\ v \in Vector /\ v.size = last + 1 /\ at <= last
      /\ at + 1 \in 1 .. Len(v.buf) /\ v.size \in Nat
  BY DEF Sound, Vector
<1>2. TakenOut(v, at).size = last /\ TakenOut(v, at).buf = b
  BY <1>1 DEF TakenOut, Vector
<1>3. \A i \in 0 .. last : b[i + 1] = IF i = at THEN v.buf[last + 1] ELSE v.buf[i + 1]
  BY <1>1 DEF Sound, Vector
<1>4. IsFiniteSet(held) /\ Cardinality(held) \in Nat
  BY <1>1, HeldFinite
<1> HIDE DEF b, last
<1>5. \A i : i \in after <=> i \in 0 .. last - 1 /\ b[i + 1] = x
  BY <1>2 DEF Held, At
<1>6. \A i : i \in held <=> i \in 0 .. last /\ v.buf[i + 1] = x
  BY <1>1 DEF Held, At
<1>7. at \in held <=> x = At(v, at)
  BY <1>1, <1>6 DEF At
<1> HIDE DEF held, after
<1>8. IsFiniteSet(rest)
      /\ Cardinality(rest) = Cardinality(held) - (IF x = At(v, at) THEN 1 ELSE 0)
  <2>1. /\ IsFiniteSet(rest)
        /\ Cardinality(rest) = IF at \in held THEN Cardinality(held) - 1 ELSE Cardinality(held)
    BY <1>4, FS_RemoveElement
  <2> QED BY <1>4, <1>7, <2>1
<1>9. CASE at # last /\ last \in held
  <2> DEFINE less == rest \ {last}
  <2>1. after = less \cup {at}
    <3>1. \A i : i \in 0 .. last - 1 <=> i \in 0 .. last /\ i # last
      BY <1>1
    <3>2. at \in 0 .. last /\ v.buf[last + 1] = x
      BY <1>1, <1>6, <1>9
    <3>3. \A i : i \in after <=> i \in less \/ i = at
      BY <1>3, <1>5, <1>6, <1>9, <3>1, <3>2
    <3> QED BY <3>3
  <2>2. IsFiniteSet(less) /\ Cardinality(less) = Cardinality(rest) - 1
    BY <1>8, <1>9, FS_RemoveElement
  <2>3. at \notin less
    OBVIOUS
  <2> HIDE DEF less
  <2>4. Cardinality(after) = Cardinality(less) + 1
    BY <2>1, <2>2, <2>3, FS_AddElement
  <2> HIDE DEF rest
  <2>5. Cardinality(rest) \in Nat
    BY <1>8, FS_CardinalityType
  <2>6. Cardinality(after) = Cardinality(rest)
    BY <2>2, <2>4, <2>5
  <2> QED BY <1>8, <2>6 DEF held, after
<1>10. CASE at = last \/ last \notin held
  <2>1. after = rest
    <3>1. \A i : i \in 0 .. last - 1 <=> i \in 0 .. last /\ i # last
      BY <1>1
    <3>2. at \in 0 .. last /\ last \in 0 .. last
      BY <1>1
    <3>3. ASSUME at # last PROVE v.buf[last + 1] # x
      BY <1>6, <1>10, <3>2, <3>3
    <3>4. \A i : i \in after <=> i \in rest
      BY <1>3, <1>5, <1>6, <1>10, <3>1, <3>2, <3>3
    <3> QED BY <3>4
  <2> QED BY <1>8, <2>1 DEF held, after
<1> QED BY <1>9, <1>10

\* Reallocation moves every element to the place it had.
LEMMA ResizedHeld ==
  ASSUME NEW v, Sound(v)
  PROVE  /\ \A x : Held(Grown(v), x) = Held(v, x) /\ Held(Refused(v), x) = Held(v, x)
         /\ \A w \in Shrunk(v) : \A x : Held(w, x) = Held(v, x)
<1>1. v \in Vector /\ v.size \in Nat /\ v.capacity \in Nat /\ v.size <= v.capacity
      /\ v.size <= Len(v.buf)
  BY DEF Sound, Vector
<1>2. ASSUME NEW n \in Nat, v.size <= n, NEW w, w.size = v.size, w.buf = Resized(v.buf, n),
             NEW x
      PROVE  Held(w, x) = Held(v, x)
  <2>1. \A i \in 1 .. n : i <= Len(v.buf) => Resized(v.buf, n)[i] = v.buf[i]
    BY <1>1, ResizedKeeps DEF Vector
  <2>2. \A at \in 0 .. v.size - 1 : w.buf[at + 1] = v.buf[at + 1]
    <3>1. Len(v.buf) \in Nat
      BY <1>1 DEF Vector
    <3> QED BY <1>1, <1>2, <2>1, <3>1
  <2> QED BY <1>2, <2>2 DEF Held, At
<1>3. ASSUME NEW x PROVE Held(Grown(v), x) = Held(v, x)
  <2>1. Doubled(v) \in Nat /\ v.size <= Doubled(v)
    BY <1>1 DEF Doubled
  <2>2. Grown(v).size = v.size /\ Grown(v).buf = Resized(v.buf, Doubled(v))
    BY <1>1 DEF Grown, Vector
  <2> QED BY <1>2, <2>1, <2>2
<1>4. ASSUME NEW x PROVE Held(Refused(v), x) = Held(v, x)
  BY <1>1 DEF Refused, Held, At, Vector
<1>5. ASSUME NEW w \in Shrunk(v), NEW x PROVE Held(w, x) = Held(v, x)
  <2> DEFINE half == v.capacity \div 2
  <2>1. half \in Nat
    BY <1>1
  <2>2. \/ w = v
        \/ v.size <= half /\ w = [v EXCEPT !.capacity = half]
        \/ v.size <= half /\ w = [v EXCEPT !.capacity = half, !.buf = Resized(@, half)]
    BY <1>1, <2>1 DEF Shrunk
  <2> HIDE DEF half
  <2>3. \/ w = v
        \/ w.size = v.size /\ w.buf = v.buf
        \/ v.size <= half /\ w.size = v.size /\ w.buf = Resized(v.buf, half)
    BY <1>1, <2>2 DEF Vector
  <2>4. CASE w.size = v.size /\ w.buf = v.buf
    BY <2>4 DEF Held, At
  <2> QED BY <1>2, <2>1, <2>3, <2>4
<1> QED BY <1>3, <1>4, <1>5

\* What a vector holds, counted: a change of one occurrence, or of none.
LEMMA OccurrencesFacts ==
  /\ Occurrences = [x \in Elem |-> Cardinality(Held(vec, x))]
  /\ Occurrences' = [x \in Elem |-> Cardinality(Held(vec', x))]
BY DEF Occurrences, Held, At

\* Every call is a step of Collection, or nothing to it.
LEMMA CallRefines ==
  ASSUME VecInv, [Next]_vars
  PROVE  [Elements!Next]_<<Occurrences, out>>
<1> DEFINE n(v, x) == Cardinality(Held(v, x))
<1>1. ASSUME vec'.size = 0, UNCHANGED out PROVE Elements!Clear
  <2>1. \A x \in Elem : n(vec', x) = 0
    BY <1>1, HeldFinite
  <2> QED BY <1>1, <2>1, OccurrencesFacts DEF Elements!Clear, Elements!Empty
<1>2. ASSUME NEW k \in Capacities, WithCapacity(k) PROVE Elements!Next
  BY <1>1, <1>2 DEF WithCapacity, Elements!Next
<1>3. ASSUME Destroy PROVE Elements!Next
  BY <1>1, <1>3 DEF Destroy, Elements!Next
<1>4. ASSUME NEW e \in Elem, Push(e) PROVE [Elements!Next]_<<Occurrences, out>>
  <2>1. Sound(vec) /\ UNCHANGED out
    BY <1>4, LiveSound DEF Push, Live
  <2>2. ASSUME NEW v, Sound(v), v.size < v.capacity, v.size < Len(v.buf),
               \A x \in Elem : Held(v, x) = Held(vec, x), vec' = Stored(v, e)
        PROVE  Elements!Next
    <3>1. \A x \in Elem : n(vec', x) = n(vec, x) + (IF x = e THEN 1 ELSE 0)
      BY <2>2, StoredHeld
    <3>2. Occurrences' = [Occurrences EXCEPT ![e] = @ + 1]
      <4>1. \A x \in Elem : n(vec, x) \in Nat
        BY <2>1, HeldFinite DEF Sound, Vector
      <4> HIDE DEF n
      <4>2. /\ Occurrences = [x \in Elem |-> n(vec, x)]
            /\ Occurrences' = [x \in Elem |-> n(vec', x)]
        BY OccurrencesFacts DEF n
      <4> QED BY <3>1, <4>1, <4>2
    <3> QED BY <2>1, <3>2 DEF Elements!Next, Elements!Put
  <2>3. ASSUME \A x \in Elem : Held(vec', x) = Held(vec, x)
        PROVE  UNCHANGED <<Occurrences, out>>
    BY <2>1, <2>3, OccurrencesFacts
  <2>4. CASE vec' = vec
    BY <2>3, <2>4
  <2>5. CASE vec.size < vec.capacity /\ vec.size < Len(vec.buf) /\ vec' = Stored(vec, e)
    BY <2>1, <2>2, <2>5
  <2>6. CASE vec.size = vec.capacity /\ vec' = Stored(Grown(vec), e)
    BY <2>1, <2>2, <2>6, GrownSound, ResizedHeld
  <2>7. CASE vec' = Refused(vec)
    BY <2>1, <2>3, <2>7, ResizedHeld
  <2>8. \/ vec' = vec \/ vec' = Refused(vec)
        \/ vec.size < vec.capacity /\ vec.size < Len(vec.buf) /\ vec' = Stored(vec, e)
        \/ vec.size = vec.capacity /\ vec' = Stored(Grown(vec), e)
    <3>1. vec.size = vec.capacity => Grown(vec).size < Len(Grown(vec).buf)
      BY <2>1, GrownSound
    <3>2. vec.size = vec.capacity => ~(Grown(vec).size >= Len(Grown(vec).buf))
      BY <2>1, <3>1, GrownSound DEF Sound, Vector
    <3> QED BY <1>4, <3>2 DEF Push, Write
  <2> QED BY <2>4, <2>5, <2>6, <2>7, <2>8
<1>5. ASSUME NEW at \in 0 .. MaxSize - 1, RemoveAt(at) PROVE Elements!Next
  <2> DEFINE e == At(vec, at)
  <2>1. Sound(vec) /\ at \in Nat /\ at < vec.size /\ out' = e
        /\ vec' \in Shrunk(TakenOut(vec, at))
    BY <1>5, LiveSound, CapacityAssumption DEF RemoveAt, Live
  <2>2. e \in Elem
    BY <2>1 DEF Sound, Vector, At
  <2>3. Sound(TakenOut(vec, at))
    BY <2>1, TakenOutSound
  <2>4. \A x \in Elem : n(vec', x) = n(vec, x) - (IF x = e THEN 1 ELSE 0)
    BY <2>1, <2>3, TakenOutHeld, ResizedHeld
  <2>5. \A x \in Elem : n(vec, x) \in Nat
    BY <2>1, HeldFinite DEF Sound, Vector
  <2>6. n(vec, e) > 0
    <3>1. n(vec', e) \in Nat
      <4>1. Sound(vec')
        BY <2>1, <2>3, ShrunkSound
      <4> QED BY <4>1, HeldFinite DEF Sound, Vector
    <3> HIDE DEF n, e
    <3> QED BY <2>2, <2>4, <2>5, <3>1
  <2>7. /\ Occurrences = [x \in Elem |-> n(vec, x)]
        /\ Occurrences' = [x \in Elem |-> n(vec', x)]
    BY OccurrencesFacts
  <2> HIDE DEF n, e
  <2>8. Occurrences' = [Occurrences EXCEPT ![e] = @ - 1] /\ Occurrences[e] > 0
    BY <2>2, <2>4, <2>5, <2>6, <2>7
  <2>9. Elements!Take(e)
    BY <2>1, <2>8 DEF Elements!Take
  <2> QED BY <2>2, <2>9 DEF Elements!Next
<1>6. CASE UNCHANGED vars
  BY <1>6, OccurrencesFacts DEF vars
<1> QED BY <1>2, <1>3, <1>4, <1>5, <1>6 DEF Next

(***************************************************************************)
(* The vector is a Collection: what sn_data_vec_push stored, and nothing   *)
(* else, is handed out by sn_data_vec_remove_at once for every time it was *)
(* stored, whatever the allocator refuses in between.                      *)
(***************************************************************************)
THEOREM VecIsCollection == Spec => IsCollection
<1>1. Init => Elements!Init
  <2> SUFFICES ASSUME Init PROVE Elements!Init
    OBVIOUS
  <2>1. vec.size = 0 /\ out = Nothing
    BY DEF Init
  <2>2. \A x \in Elem : Cardinality(Held(vec, x)) = 0
    BY <2>1, HeldFinite
  <2> QED BY <2>1, <2>2, OccurrencesFacts DEF Elements!Init, Elements!Empty
<1>2. VecInv /\ [Next]_vars => [Elements!Next]_<<Occurrences, out>>
  BY CallRefines
<1> QED BY <1>1, <1>2, VecInvInit, VecInvNext, PTL DEF Spec, IsCollection, Elements!Spec
=============================================================================
