----------------------------- MODULE AddrProofs -----------------------------
(***************************************************************************)
(* What the routing needs to know of addresses, for every length and       *)
(* radix: the order is a strict total one in which every set has a least   *)
(* element, the level is the length of the longest common prefix and an    *)
(* ultrametric, and another address than self has a place in the table.    *)
(***************************************************************************)
EXTENDS Addr, WellFoundedInduction, TLAPS

\* The radix of a byte and the number of digits are what their names say.
LEMMA ByteBaseFacts ==
  /\ ByteBase \in Nat /\ ByteBase >= 4 /\ ByteBase > HexBase
  /\ HexLen \in Nat /\ HexLen >= 2
BY HexBaseAssumption, AddrLenAssumption DEF ByteBase, HexLen

\* c/16 and c%16 of bytestring_to_hexstring are digits, and determine the byte.
LEMMA DigitsOfByte ==
  ASSUME NEW x \in Byte
  PROVE  /\ x \div HexBase \in Digit
         /\ x % HexBase \in Digit
         /\ x = HexBase * (x \div HexBase) + (x % HexBase)
<1> DEFINE q == x \div HexBase
           r == x % HexBase
<1>1. HexBase \in Nat /\ HexBase >= 2 /\ x \in Int /\ 0 <= x /\ x < HexBase * HexBase
  BY HexBaseAssumption, ByteBaseFacts DEF Byte, ByteBase
<1>2. q \in Int /\ r \in 0 .. HexBase - 1 /\ x = HexBase * q + r
  BY <1>1
<1>3. 0 <= q /\ q < HexBase
  <2> HIDE DEF q, r
  <2>1. CASE q < 0
    <3>1. HexBase * q <= -HexBase
      BY <1>1, <1>2, <2>1
    <3> QED BY <3>1, <1>1, <1>2
  <2>2. CASE q >= HexBase
    <3>1. HexBase * q >= HexBase * HexBase
      BY <1>1, <1>2, <2>2
    <3> QED BY <3>1, <1>1, <1>2
  <2> QED BY <1>1, <1>2, <2>1, <2>2
<1> QED BY <1>1, <1>2, <1>3 DEF Digit

\* Every nonempty set of naturals has a least element.
LEMMA LeastNatural ==
  ASSUME NEW T, T \subseteq Nat, T # {}
  PROVE  \E n \in T : \A m \in T : n <= m
<1>1. PICK n \in T : \A m \in T : <<m, n>> \notin OpToRel(<, Nat)
  BY WFMin, NatLessThanWellFounded
<1>2. \A m \in T : ~(m < n)
  BY <1>1 DEF OpToRel
<1> QED BY <1>2

-----------------------------------------------------------------------------
(* Before is a strict total order, and every set of addresses has a least. *)

\* Bytes of an address are numbers.
LEMMA AddressFacts ==
  ASSUME NEW a \in Address, NEW i \in 1 .. AddrLen
  PROVE  a[i] \in Byte /\ a[i] \in Nat
BY ByteBaseFacts DEF Address, Byte

\* Addresses with the same bytes are the same.
LEMMA SameAddress ==
  ASSUME NEW a \in Address, NEW b \in Address,
         \A i \in 1 .. AddrLen : a[i] = b[i]
  PROVE  a = b
<1>1. a = [i \in 1 .. AddrLen |-> a[i]] /\ b = [i \in 1 .. AddrLen |-> b[i]]
  BY DEF Address
<1> QED BY <1>1

\* sn_net_addr_cmp finds no address smaller than itself.
LEMMA BeforeIrreflexive ==
  ASSUME NEW a \in Address
  PROVE  ~Before(a, a)
BY AddressFacts DEF Before

\* sn_net_addr_cmp is transitive, as qsort requires of it.
LEMMA BeforeTransitive ==
  ASSUME NEW a \in Address, NEW b \in Address, NEW c \in Address,
         Before(a, b), Before(b, c)
  PROVE  Before(a, c)
<1>1. PICK i \in 1 .. AddrLen : a[i] < b[i] /\ \A k \in 1 .. i - 1 : a[k] = b[k]
  BY DEF Before
<1>2. PICK j \in 1 .. AddrLen : b[j] < c[j] /\ \A k \in 1 .. j - 1 : b[k] = c[k]
  BY DEF Before
<1>3. a[i] \in Nat /\ b[i] \in Nat /\ c[i] \in Nat /\ a[j] \in Nat /\ b[j] \in Nat /\ c[j] \in Nat
  BY AddressFacts
<1>4. CASE i <= j
  <2>1. a[i] < c[i]
    BY <1>1, <1>2, <1>3, <1>4
  <2>2. \A k \in 1 .. i - 1 : a[k] = c[k]
    BY <1>1, <1>2, <1>4
  <2> QED BY <2>1, <2>2 DEF Before
<1>5. CASE j < i
  <2>1. a[j] < c[j]
    BY <1>1, <1>2, <1>3, <1>5
  <2>2. \A k \in 1 .. j - 1 : a[k] = c[k]
    BY <1>1, <1>2, <1>5
  <2> QED BY <2>1, <2>2 DEF Before
<1> QED BY <1>4, <1>5

\* Of two addresses that differ sn_net_addr_cmp finds one smaller.
LEMMA BeforeTotal ==
  ASSUME NEW a \in Address, NEW b \in Address, a # b
  PROVE  Before(a, b) \/ Before(b, a)
<1> DEFINE differ == {i \in 1 .. AddrLen : a[i] # b[i]}
<1>1. differ # {}
  BY SameAddress
<1>2. PICK i \in differ : \A j \in differ : i <= j
  <2>1. differ \subseteq Nat
    OBVIOUS
  <2> HIDE DEF differ
  <2> QED BY <1>1, <2>1, LeastNatural
<1>3. \A j \in 1 .. i - 1 : a[j] = b[j]
  BY <1>2, AddrLenAssumption
<1>4. a[i] < b[i] \/ b[i] < a[i]
  BY <1>2, AddressFacts
<1> QED BY <1>2, <1>3, <1>4 DEF Before

\* Every nonempty set of addresses, however large, has a smallest one.
LEMMA LeastAddress ==
  ASSUME NEW T, T \subseteq Address, T # {}
  PROVE  \E a \in T : \A b \in T : ~Before(b, a)
<1> DEFINE R == OpToRel(<, Nat)
<1>1. IsWellFoundedOn(R, Byte)
  <2>1. Byte \subseteq Nat
    BY DEF Byte
  <2> QED BY <2>1, NatLessThanWellFounded, IsWellFoundedOnSubset
<1>2. IsWellFoundedOn(LexProductOrdering(R, Byte, AddrLen), Address)
  BY <1>1, WFLexProductOrdering, AddrLenAssumption DEF Address
<1>3. PICK a \in T : \A b \in T : <<b, a>> \notin LexProductOrdering(R, Byte, AddrLen)
  BY <1>2, WFMin
<1>4. ASSUME NEW b \in T, Before(b, a) PROVE FALSE
  <2>1. PICK i \in 1 .. AddrLen : b[i] < a[i] /\ \A j \in 1 .. i - 1 : b[j] = a[j]
    BY <1>4 DEF Before
  <2>2. <<b[i], a[i]>> \in R
    BY <2>1, AddressFacts DEF OpToRel
  <2>3. <<b, a>> \in LexProductOrdering(R, Byte, AddrLen)
    BY <2>1, <2>2 DEF LexProductOrdering, Address
  <2> QED BY <2>3, <1>3, <1>4
<1> QED BY <1>4

-----------------------------------------------------------------------------
(* Levels and columns                                                      *)

\* bytestring_to_hexstring yields digits, two for each byte.
LEMMA HexFacts ==
  ASSUME NEW a \in Address
  PROVE  /\ Hex(a) \in [1 .. HexLen -> Digit]
         /\ \A i \in 1 .. AddrLen : /\ 2 * i - 1 \in 1 .. HexLen /\ 2 * i \in 1 .. HexLen
                                   /\ Hex(a)[2 * i - 1] = a[i] \div HexBase
                                   /\ Hex(a)[2 * i] = a[i] % HexBase
<1>1. ASSUME NEW i \in 1 .. HexLen
      PROVE  /\ i % 2 = 1 => (i + 1) \div 2 \in 1 .. AddrLen
             /\ i % 2 # 1 => i \div 2 \in 1 .. AddrLen
  BY AddrLenAssumption DEF HexLen
<1>2. ASSUME NEW i \in 1 .. HexLen
      PROVE  (IF i % 2 = 1 THEN a[(i + 1) \div 2] \div HexBase
                           ELSE a[i \div 2] % HexBase) \in Digit
  BY <1>1, AddressFacts, DigitsOfByte
<1>3. ASSUME NEW i \in 1 .. AddrLen
      PROVE  /\ 2 * i - 1 \in 1 .. HexLen /\ 2 * i \in 1 .. HexLen
             /\ (2 * i - 1) % 2 = 1 /\ (2 * i - 1 + 1) \div 2 = i
             /\ (2 * i) % 2 # 1 /\ (2 * i) \div 2 = i
  BY AddrLenAssumption DEF HexLen
<1> QED BY <1>2, <1>3 DEF Hex

\* sn_net_addr_index stops behind the longest common prefix.
LEMMA LevelFacts ==
  ASSUME NEW a \in Address, NEW b \in Address
  PROVE  /\ Level(a, b) \in 0 .. HexLen
         /\ \A i \in 1 .. Level(a, b) : Hex(a)[i] = Hex(b)[i]
         /\ Level(a, b) = HexLen \/ Hex(a)[Level(a, b) + 1] # Hex(b)[Level(a, b) + 1]
<1> DEFINE differ == {i \in 1 .. HexLen : Hex(a)[i] # Hex(b)[i]}
<1>1. \E l \in 0 .. HexLen :
         /\ \A i \in 1 .. l : Hex(a)[i] = Hex(b)[i]
         /\ l = HexLen \/ Hex(a)[l + 1] # Hex(b)[l + 1]
  <2>1. CASE differ = {}
    BY <2>1, ByteBaseFacts
  <2>2. CASE differ # {}
    <3>1. differ \subseteq Nat
      OBVIOUS
    <3>2. PICK d \in differ : \A e \in differ : d <= e
      <4> HIDE DEF differ
      <4> QED BY <2>2, <3>1, LeastNatural
    <3>3. /\ d - 1 \in 0 .. HexLen
          /\ \A i \in 1 .. d - 1 : Hex(a)[i] = Hex(b)[i]
          /\ Hex(a)[d - 1 + 1] # Hex(b)[d - 1 + 1]
      BY <3>2, ByteBaseFacts
    <3> QED BY <3>3
  <2> QED BY <2>1, <2>2
<1> HIDE DEF differ
<1> QED BY <1>1 DEF Level

\* A common prefix is no longer than the level, and one that ends where the
\* digits part is the level.
LEMMA LevelUnique ==
  ASSUME NEW a \in Address, NEW b \in Address, NEW l \in 0 .. HexLen,
         \A i \in 1 .. l : Hex(a)[i] = Hex(b)[i]
  PROVE  /\ Level(a, b) >= l
         /\ l = HexLen \/ Hex(a)[l + 1] # Hex(b)[l + 1] => Level(a, b) = l
BY LevelFacts, ByteBaseFacts

\* The index of another address than self lies within the routing table.
LEMMA LevelOfDifferent ==
  ASSUME NEW a \in Address, NEW b \in Address, a # b
  PROVE  Level(a, b) \in 0 .. HexLen - 1 /\ Column(a, b) \in 0 .. HexBase - 1
<1>1. Level(a, b) # HexLen
  <2>1. ASSUME Level(a, b) = HexLen, NEW i \in 1 .. AddrLen
        PROVE  a[i] = b[i]
    <3>1. /\ a[i] \div HexBase = b[i] \div HexBase
          /\ a[i] % HexBase = b[i] % HexBase
      BY <2>1, LevelFacts, HexFacts
    <3> QED BY <3>1, AddressFacts, DigitsOfByte
  <2> QED BY <2>1, SameAddress
<1>2. Level(a, b) \in 0 .. HexLen - 1
  BY <1>1, LevelFacts, ByteBaseFacts
<1>3. Hex(b)[Level(a, b) + 1] \in Digit
  BY <1>2, HexFacts, ByteBaseFacts
<1> QED BY <1>1, <1>2, <1>3 DEF Column, Digit

\* Two addresses that share l digits with a third share them with each other.
LEMMA LevelUltrametric ==
  ASSUME NEW a \in Address, NEW b \in Address, NEW c \in Address,
         NEW l \in 0 .. HexLen, Level(a, b) >= l, Level(a, c) >= l
  PROVE  Level(b, c) >= l
<1>1. \A i \in 1 .. l : Hex(b)[i] = Hex(c)[i]
  BY LevelFacts, ByteBaseFacts
<1> QED BY <1>1, LevelUnique

\* Two addresses with the same place in the table of a share one digit more.
LEMMA SamePlace ==
  ASSUME NEW a \in Address, NEW b \in Address, NEW c \in Address,
         Level(a, b) = Level(a, c), Column(a, b) = Column(a, c), Level(a, b) # HexLen
  PROVE  Level(b, c) > Level(a, c)
<1> DEFINE l == Level(a, c)
<1>1. l \in 0 .. HexLen - 1
  BY LevelFacts, ByteBaseFacts
<1>2. Hex(b)[l + 1] = Hex(c)[l + 1]
  BY DEF Column
<1>3. \A i \in 1 .. l : Hex(b)[i] = Hex(c)[i]
  BY <1>1, LevelFacts
<1>4. \A i \in 1 .. l + 1 : Hex(b)[i] = Hex(c)[i]
  BY <1>1, <1>2, <1>3
<1>5. Level(b, c) >= l + 1
  BY <1>1, <1>4, LevelUnique, ByteBaseFacts
<1> QED BY <1>1, <1>5, LevelFacts, ByteBaseFacts

-----------------------------------------------------------------------------
(* A distance is an address, whatever becomes of its borrows.              *)

\* sn_net_addr_dist yields an address.
LEMMA DistType ==
  ASSUME NEW a \in Address, NEW b \in Address
  PROVE  Dist(a, b) \in Address
<1>1. ASSUME NEW x \in Int PROVE x % ByteBase \in Byte
  BY ByteBaseFacts DEF Byte
<1>2. Subtract(a, b) \in Address
  <2>1. ASSUME NEW i \in 1 .. AddrLen, NEW carry
        PROVE  (a[i] - b[i] - (IF i < AddrLen /\ carry[i + 1] THEN 1 ELSE 0))
                 % ByteBase \in Byte
    BY <1>1, AddressFacts
  <2> QED BY <2>1 DEF Subtract, Address
<1>3. ASSUME NEW c \in Address PROVE Negate(c) \in Address
  BY ByteBaseFacts DEF Negate, Address, Byte
<1> QED BY <1>2, <1>3 DEF Dist

\* The zeroed address is an address.
LEMMA ZeroType == Zero \in Address
BY ByteBaseFacts DEF Zero, Address, Byte

=============================================================================
