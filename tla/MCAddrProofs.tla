---------------------------- MODULE MCAddrProofs ----------------------------
(***************************************************************************)
(* What holds of addresses, and of network addresses that are passed on,   *)
(* for every radix, length and alphabet.  The properties of addresses ask  *)
(* nothing of the steps but that they keep the two addresses addresses;    *)
(* those of network addresses rest on WellFormed, which whatever is built, *)
(* printed, read or deserialised is.  The last part is about numbers: what *)
(* the first bytes of an address stand for, how it changes with the carry  *)
(* into them, and so what the distance of two addresses stands for.  Its   *)
(* inductions are over sets of positions (EveryNatural).                   *)
(***************************************************************************)
EXTENDS MCAddr, AddrProofs

\* The steps exchange the addresses or leave them alone.
AddressInv == a \in Address /\ b \in Address

LEMMA AddressInductive ==
  /\ Init => AddressInv
  /\ AddressInv /\ [Next]_<<a, b, net>> => AddressInv'
<1>1. Init => AddressInv
  BY ZeroType DEF Init, AddressInv
<1>2. AddressInv /\ [Next]_<<a, b, net>> => AddressInv'
  BY DEF AddressInv, Next, Swap, PrintedOn, SerialisedOn
<1> QED BY <1>1, <1>2

\* Two addresses that each share a prefix with a third share the shorter one.
THEOREM AddrLevelIsUltrametric == Spec => []LevelIsUltrametric
<1>1. ASSUME AddressInv PROVE LevelIsUltrametric
  <2> USE <1>1 DEF AddressInv
  <2>1. ASSUME NEW c \in Address
        PROVE  Level(a, c) >= Level(a, b) \/ Level(a, c) >= Level(b, c)
    <3>1. /\ Level(a, b) \in 0 .. HexLen /\ Level(b, c) \in 0 .. HexLen
          /\ Level(a, c) \in 0 .. HexLen /\ HexLen \in Nat
      BY <2>1, LevelFacts, ByteBaseFacts
    <3>2. \A i \in 1 .. Level(a, b) : Hex(a)[i] = Hex(b)[i]
      BY LevelFacts
    <3>3. \A i \in 1 .. Level(b, c) : Hex(b)[i] = Hex(c)[i]
      BY <2>1, LevelFacts
    <3>4. CASE Level(a, b) <= Level(b, c)
      <4>1. \A i \in 1 .. Level(a, b) : Hex(a)[i] = Hex(c)[i]
        BY <3>1, <3>2, <3>3, <3>4
      <4> QED BY <2>1, <3>1, <4>1, LevelUnique
    <3>5. CASE Level(b, c) <= Level(a, b)
      <4>1. \A i \in 1 .. Level(b, c) : Hex(a)[i] = Hex(c)[i]
        BY <3>1, <3>2, <3>3, <3>5
      <4> QED BY <2>1, <3>1, <4>1, LevelUnique
    <3> QED BY <3>1, <3>4, <3>5
  <2> QED BY <2>1 DEF LevelIsUltrametric
<1> QED BY <1>1, AddressInductive, PTL DEF Spec

-----------------------------------------------------------------------------
(* The order of the addresses and the digits                               *)

\* The digits of a byte are in the order of the byte.
LEMMA DigitsInOrder ==
  ASSUME NEW x \in Byte, NEW y \in Byte
  PROVE  /\ x \div HexBase < y \div HexBase => x < y
         /\ x \div HexBase = y \div HexBase => (x < y <=> x % HexBase < y % HexBase)
         /\ x \div HexBase = y \div HexBase /\ x % HexBase = y % HexBase => x = y
<1> DEFINE p == x \div HexBase  q == y \div HexBase  r == x % HexBase  s == y % HexBase
<1>1. /\ p \in Digit /\ q \in Digit /\ r \in Digit /\ s \in Digit
      /\ x = HexBase * p + r /\ y = HexBase * q + s
  BY DigitsOfByte
<1>2. HexBase \in Nat /\ x \in Nat /\ y \in Nat
  BY HexBaseAssumption, ByteBaseFacts DEF Byte
<1> HIDE DEF p, q, r, s
<1>3. p < q => x < y
  <2> SUFFICES ASSUME p < q PROVE x < y
    OBVIOUS
  <2>1. p + 1 <= q /\ p \in Nat /\ q \in Nat /\ r < HexBase /\ s >= 0 /\ r \in Nat /\ s \in Nat
    BY <1>1, <1>2 DEF Digit
  <2>2. HexBase * (p + 1) <= HexBase * q
    BY <1>2, <2>1
  <2>3. HexBase * (p + 1) = HexBase * p + HexBase
    BY <1>2, <2>1
  <2>4. HexBase * p \in Nat /\ HexBase * q \in Nat
    BY <1>2, <2>1
  <2> QED BY <1>1, <1>2, <2>1, <2>2, <2>3, <2>4
<1>4. p = q => (x < y <=> r < s) /\ (r = s => x = y)
  <2>1. HexBase * p \in Nat /\ r \in Nat /\ s \in Nat
    BY <1>1, <1>2 DEF Digit
  <2> HIDE <1>1
  <2> QED BY <1>1, <1>2, <2>1
<1> QED BY <1>3, <1>4 DEF p, q, r, s

\* The first byte that differs decides, whatever comes behind it.
LEMMA FirstByteDecides ==
  ASSUME NEW x \in Address, NEW y \in Address, NEW i \in 1 .. AddrLen, x[i] # y[i],
         \A j \in 1 .. i - 1 : x[j] = y[j]
  PROVE  Before(x, y) <=> x[i] < y[i]
<1>1. x[i] < y[i] => Before(x, y)
  BY DEF Before
<1>2. ASSUME Before(x, y) PROVE x[i] < y[i]
  <2>1. PICK k \in 1 .. AddrLen : x[k] < y[k] /\ \A j \in 1 .. k - 1 : x[j] = y[j]
    BY <1>2 DEF Before
  <2>2. i \in Nat /\ k \in Nat /\ x[k] \in Nat /\ y[k] \in Nat
    BY AddressFacts, AddrLenAssumption
  <2>3. ~(k < i)
    BY <2>1, <2>2
  <2>4. ~(i < k)
    BY <2>1, <2>2
  <2> QED BY <2>1, <2>2, <2>3, <2>4
<1> QED BY <1>1, <1>2

\* Of two addresses the smaller one has the smaller digit where they part.
THEOREM AddrIndexAgreesWithOrder == Spec => []IndexAgreesWithOrder
<1>1. ASSUME AddressInv PROVE IndexAgreesWithOrder
  <2> USE <1>1 DEF AddressInv
  <2> DEFINE l == Level(a, b)
             i == l \div 2 + 1
  <2>1. CASE a = b
    <3>1. ~Before(a, b)
      BY <2>1, BeforeIrreflexive
    <3>2. Level(a, b) = HexLen
      BY <2>1, LevelFacts, ByteBaseFacts
    <3>3. ~(Level(a, b) < HexLen)
      BY <3>2, ByteBaseFacts
    <3> QED BY <3>1, <3>3 DEF IndexAgreesWithOrder
  <2>2. CASE a # b
    <3>1. /\ l \in 0 .. HexLen - 1 /\ l < HexLen
          /\ \A k \in 1 .. l : Hex(a)[k] = Hex(b)[k]
          /\ Hex(a)[l + 1] # Hex(b)[l + 1]
          /\ Column(a, b) = Hex(b)[l + 1]
      BY <2>2, LevelOfDifferent, LevelFacts, ByteBaseFacts DEF Column
    <3> HIDE DEF l
    <3>2. /\ i \in 1 .. AddrLen
          /\ l + 1 = 2 * i - 1 \/ l + 1 = 2 * i
          /\ \A j \in 1 .. i - 1 : 2 * j - 1 \in 1 .. l /\ 2 * j \in 1 .. l
      BY <3>1, AddrLenAssumption DEF HexLen
    <3> HIDE DEF i
    <3>3. /\ Hex(a)[2 * i - 1] = a[i] \div HexBase /\ Hex(a)[2 * i] = a[i] % HexBase
          /\ Hex(b)[2 * i - 1] = b[i] \div HexBase /\ Hex(b)[2 * i] = b[i] % HexBase
      BY <3>2, HexFacts
    <3>4. /\ a[i] \in Byte /\ b[i] \in Byte /\ a[i] \in Nat /\ b[i] \in Nat
          /\ a[i] \div HexBase \in Digit /\ a[i] % HexBase \in Digit
          /\ b[i] \div HexBase \in Digit /\ b[i] % HexBase \in Digit
      BY <3>2, AddressFacts, DigitsOfByte
    <3>5. \A j \in 1 .. i - 1 : a[j] = b[j]
      <4> SUFFICES ASSUME NEW j \in 1 .. i - 1 PROVE a[j] = b[j]
        OBVIOUS
      <4>1. j \in 1 .. AddrLen
        BY <3>2, AddrLenAssumption
      <4>2. /\ a[j] \div HexBase = b[j] \div HexBase
            /\ a[j] % HexBase = b[j] % HexBase
        BY <3>1, <3>2, <4>1, HexFacts
      <4> QED BY <4>1, <4>2, AddressFacts, DigitsInOrder
    <3>6. a[i] # b[i] /\ (a[i] < b[i] <=> Hex(a)[l + 1] < Hex(b)[l + 1])
      <4>1. CASE l + 1 = 2 * i - 1
        <5>1. a[i] \div HexBase # b[i] \div HexBase
          BY <3>1, <3>3, <4>1
        <5>2. a[i] \div HexBase < b[i] \div HexBase \/ b[i] \div HexBase < a[i] \div HexBase
          BY <3>4, <5>1, HexBaseAssumption DEF Digit
        <5>3. /\ a[i] \div HexBase < b[i] \div HexBase => a[i] < b[i]
              /\ b[i] \div HexBase < a[i] \div HexBase => b[i] < a[i]
          BY <3>4, DigitsInOrder
        <5> DEFINE p == a[i] \div HexBase  q == b[i] \div HexBase
        <5>4. p \in Int /\ q \in Int
          BY <3>4 DEF Digit
        <5> HIDE DEF p, q
        <5>5. /\ Hex(a)[l + 1] = p /\ Hex(b)[l + 1] = q
              /\ p < q \/ q < p
              /\ p < q => a[i] < b[i]
              /\ q < p => b[i] < a[i]
          BY <3>3, <4>1, <5>2, <5>3 DEF p, q
        <5> QED BY <3>4, <5>4, <5>5
      <4>2. CASE l + 1 = 2 * i
        <5>1. a[i] \div HexBase = b[i] \div HexBase
          <6>1. 2 * i - 1 \in 1 .. l
            BY <3>1, <3>2, <4>2
          <6> QED BY <3>1, <3>3, <6>1
        <5>2. a[i] % HexBase # b[i] % HexBase
          BY <3>1, <3>3, <4>2
        <5>3. a[i] < b[i] <=> a[i] % HexBase < b[i] % HexBase
          BY <3>4, <5>1, DigitsInOrder
        <5> QED BY <3>3, <4>2, <5>2, <5>3
      <4> QED BY <3>2, <4>1, <4>2
    <3>7. Before(a, b) <=> a[i] < b[i]
      BY <3>2, <3>5, <3>6, FirstByteDecides
    <3>8. Before(a, b) <=> Hex(a)[l + 1] < Column(a, b)
      BY <3>1, <3>6, <3>7
    <3> QED BY <3>1, <3>8 DEF IndexAgreesWithOrder, l
  <2> QED BY <2>1, <2>2
<1> QED BY <1>1, AddressInductive, PTL DEF Spec

-----------------------------------------------------------------------------
(* Strings                                                                 *)

\* The string of an address has its digits up to the last that is not zero.
LEMMA ToStrFacts ==
  ASSUME NEW x \in Address
  PROVE  /\ Len(ToStr(x)) \in 0 .. HexLen
         /\ \A k \in 1 .. Len(ToStr(x)) : ToStr(x)[k] = Hex(x)[k]
         /\ \A k \in Len(ToStr(x)) + 1 .. HexLen : Hex(x)[k] = 0
<1> DEFINE h == Hex(x)
           isLast(n) == (n = 0 \/ h[n] # 0) /\ \A k \in n + 1 .. HexLen : h[k] = 0
           last == CHOOSE n \in 0 .. HexLen : isLast(n)
           ends == {n \in 0 .. HexLen : \A k \in n + 1 .. HexLen : h[k] = 0}
<1>1. HexLen \in Nat /\ h \in [1 .. HexLen -> Digit]
  BY HexFacts, ByteBaseFacts
<1>2. \E n \in 0 .. HexLen : isLast(n)
  <2>1. ends \subseteq Nat /\ HexLen \in ends
    BY <1>1
  <2>2. PICK n \in ends : \A m \in ends : n <= m
    <3> HIDE DEF ends
    <3> QED BY <2>1, LeastNatural
  <2>3. n = 0 \/ h[n] # 0
    <3> SUFFICES ASSUME n # 0, h[n] = 0 PROVE FALSE
      OBVIOUS
    <3>1. n - 1 \in 0 .. HexLen /\ n \in Nat
      BY <1>1, <2>2
    <3>2. \A k \in n - 1 + 1 .. HexLen : k = n \/ k \in n + 1 .. HexLen
      BY <1>1, <3>1
    <3>3. n - 1 \in ends
      BY <2>2, <3>1, <3>2
    <3> QED BY <2>2, <3>1, <3>3
  <2> QED BY <2>2, <2>3
<1>3. last \in 0 .. HexLen /\ isLast(last)
  BY <1>2
<1>4. ToStr(x) = SubSeq(h, 1, last)
  BY DEF ToStr
<1> HIDE DEF last, h
<1>5. Len(SubSeq(h, 1, last)) = last /\ \A k \in 1 .. last : SubSeq(h, 1, last)[k] = h[k]
  BY <1>1, <1>3
<1> QED BY <1>3, <1>4, <1>5 DEF h

\* An address that is printed is read back as the same one.
THEOREM AddrHexRoundTrip == Spec => []HexRoundTrip
<1>1. ASSUME AddressInv PROVE HexRoundTrip
  <2> USE <1>1 DEF AddressInv
  <2> DEFINE str == ToStr(a)
             digit(k) == IF k <= Len(str) THEN str[k] ELSE 0
  <2>1. \A k \in 1 .. HexLen : digit(k) = Hex(a)[k]
    <3>1. /\ HexLen \in Nat /\ Len(str) \in 0 .. HexLen
          /\ \A k \in 1 .. Len(str) : str[k] = Hex(a)[k]
          /\ \A k \in Len(str) + 1 .. HexLen : Hex(a)[k] = 0
      BY ToStrFacts, ByteBaseFacts
    <3> HIDE DEF str
    <3> QED BY <3>1
  <2>2. ASSUME NEW i \in 1 .. AddrLen
        PROVE  digit(2 * i - 1) * HexBase + digit(2 * i) = a[i]
    <3>1. /\ digit(2 * i - 1) = a[i] \div HexBase /\ digit(2 * i) = a[i] % HexBase
      BY <2>1, HexFacts
    <3>2. a[i] \in Byte
      BY AddressFacts
    <3>3. /\ a[i] \div HexBase \in Digit
          /\ a[i] = HexBase * (a[i] \div HexBase) + (a[i] % HexBase)
      BY <3>2, DigitsOfByte
    <3> HIDE DEF digit
    <3> DEFINE q == a[i] \div HexBase
    <3>4. q \in Int /\ HexBase \in Int
      BY <3>3, HexBaseAssumption DEF Digit
    <3>5. q * HexBase = HexBase * q
      <4> HIDE DEF q
      <4> QED BY <3>4
    <3> QED BY <3>1, <3>3, <3>5
  <2>3. FromHex(str) = [i \in 1 .. AddrLen |-> digit(2 * i - 1) * HexBase + digit(2 * i)]
    BY DEF FromHex
  <2> HIDE DEF str, digit
  <2>4. FromHex(str) = [i \in 1 .. AddrLen |-> a[i]]
    BY <2>2, <2>3
  <2>5. a = [i \in 1 .. AddrLen |-> a[i]]
    BY DEF Address
  <2> QED BY <2>4, <2>5 DEF HexRoundTrip, str
<1> QED BY <1>1, AddressInductive, PTL DEF Spec

-----------------------------------------------------------------------------
(* Network addresses                                                       *)

Letters == Chars \cup {Mark}

\* A path begins with a NUL or a character that is no mark, and its first NUL
\* after that ends it.
WellFormed(n) ==
  /\ n \in Naddr
  /\ n.family = "unix" =>
       /\ n.path[1] # Mark
       /\ \A i \in 2 .. MaxPath : n.path[i] = Nul => \A j \in i .. MaxPath : n.path[j] = Nul

LEMMA PathLengths ==
  /\ MaxPath \in Nat /\ Room \in Nat /\ 1 <= Room /\ Room < MaxPath /\ 2 <= MaxPath
  /\ Mark # Nul /\ Nul \notin Letters
BY NaddrAssumption DEF Room, Letters

\* sn_io_naddr_local keeps the characters that fit.
LEMMA FromPathFacts ==
  ASSUME NEW path \in Seq(Letters), Len(path) >= 1
  PROVE  /\ WellFormed(FromPath(path)) /\ FromPath(path) \in Local
         /\ \A i \in 1 .. MaxPath : i <= Len(path) =>
              FromPath(path).path[i] = IF i = 1 /\ path[1] = Mark THEN Nul ELSE path[i]
         /\ \A i \in 1 .. MaxPath : i > Len(path) => FromPath(path).path[i] = Nul
<1> DEFINE n == FromPath(path)
<1>1. /\ n.family = "unix" /\ n = [family |-> "unix", path |-> n.path]
      /\ n.path = [i \in 1 .. MaxPath |-> n.path[i]]
      /\ \A i \in 1 .. MaxPath :
           n.path[i] = IF i > Len(path) \/ (i = 1 /\ path[i] = Mark) THEN Nul ELSE path[i]
  BY DEF FromPath
<1>2. \A i \in 1 .. Len(path) : path[i] \in Letters
  OBVIOUS
<1>3. Len(path) \in Nat /\ 1 <= Len(path)
  OBVIOUS
<1> HIDE DEF n
<1>4. \A i \in 1 .. MaxPath : n.path[i] \in Letters \cup {Nul}
  BY <1>1, <1>2, <1>3, PathLengths
<1>5. n.path \in Path
  BY <1>1, <1>4 DEF Path, Letters
<1>6. n \in Local
  BY <1>1, <1>5 DEF Local
<1>7. n.path[1] # Mark
  BY <1>1, <1>3, PathLengths
<1>8. ASSUME NEW i \in 2 .. MaxPath, n.path[i] = Nul, NEW j \in i .. MaxPath
      PROVE  n.path[j] = Nul
  <2>1. i > Len(path)
    <3> SUFFICES ASSUME i <= Len(path) PROVE FALSE
      BY <1>3
    <3>1. n.path[i] = path[i] /\ path[i] \in Letters
      BY <1>1, <1>2, <1>3, PathLengths
    <3> QED BY <1>8, <3>1, PathLengths
  <2> QED BY <1>1, <1>3, <2>1, PathLengths
<1>9. WellFormed(n)
  BY <1>6, <1>7, <1>8 DEF WellFormed, Naddr
<1>10. \A i \in 1 .. MaxPath : i <= Len(path) =>
         n.path[i] = IF i = 1 /\ path[1] = Mark THEN Nul ELSE path[i]
  BY <1>1, <1>3, PathLengths
<1>11. \A i \in 1 .. MaxPath : i > Len(path) => n.path[i] = Nul
  BY <1>1
<1> QED BY <1>6, <1>9, <1>10, <1>11 DEF n

\* A string ends before the first terminator.
LEMMA UntilFacts ==
  ASSUME NEW S, NEW array \in Seq(S \cup {Nul})
  PROVE  /\ Until(array) \in Seq(S \cup {Nul}) /\ Len(Until(array)) \in 0 .. Len(array)
         /\ \A i \in 1 .. Len(Until(array)) : Until(array)[i] = array[i] /\ array[i] # Nul
         /\ Len(Until(array)) = Len(array) \/ array[Len(Until(array)) + 1] = Nul
<1> DEFINE ends(n) == /\ \A i \in 1 .. n : array[i] # Nul
                      /\ n = Len(array) \/ array[n + 1] = Nul
           len == CHOOSE n \in 0 .. Len(array) : ends(n)
           nuls == {i \in 1 .. Len(array) : array[i] = Nul}
<1>1. Len(array) \in Nat
  OBVIOUS
<1>2. \E n \in 0 .. Len(array) : ends(n)
  <2>1. CASE nuls = {}
    <3>1. Len(array) \in 0 .. Len(array) /\ ends(Len(array))
      BY <1>1, <2>1
    <3> QED BY <3>1
  <2>2. CASE nuls # {}
    <3>1. nuls \subseteq Nat
      OBVIOUS
    <3>2. PICK d \in nuls : \A e \in nuls : d <= e
      <4> HIDE DEF nuls
      <4> QED BY <2>2, <3>1, LeastNatural
    <3>3. d - 1 \in 0 .. Len(array) /\ array[d - 1 + 1] = Nul
      BY <1>1, <3>2
    <3>4. \A i \in 1 .. d - 1 : array[i] # Nul
      BY <1>1, <3>2
    <3> QED BY <3>3, <3>4
  <2> QED BY <2>1, <2>2
<1>3. len \in 0 .. Len(array) /\ ends(len)
  <2> HIDE DEF ends
  <2> QED BY <1>2
<1>4. Until(array) = SubSeq(array, 1, len)
  BY DEF Until
<1> HIDE DEF len
<1>5. /\ SubSeq(array, 1, len) \in Seq(S \cup {Nul}) /\ Len(SubSeq(array, 1, len)) = len
      /\ \A i \in 1 .. len : SubSeq(array, 1, len)[i] = array[i]
  BY <1>1, <1>3
<1> QED BY <1>3, <1>4, <1>5

\* sn_io_naddr_to_str prints the path with a mark for a NUL in front.
LEMMA PrintedFacts ==
  ASSUME NEW n, WellFormed(n), n.family = "unix"
  PROVE  LET text == NaddrToStr(n).text
         IN  /\ NaddrToStr(n).family = "unix"
             /\ text \in Seq(Letters) /\ Len(text) \in 1 .. MaxPath - 1
             /\ text[1] = IF n.path[1] = Nul THEN Mark ELSE n.path[1]
             /\ \A i \in 2 .. Len(text) : text[i] = n.path[i]
             /\ Len(text) < MaxPath - 1 => \A i \in Len(text) + 1 .. MaxPath : n.path[i] = Nul
<1> DEFINE array == [n.path EXCEPT ![1] = IF @ = Nul THEN Mark ELSE @, ![MaxPath] = Nul]
           text  == NaddrToStr(n).text
<1>1. n \in Local /\ n.path \in [1 .. MaxPath -> Letters \cup {Nul}]
  BY DEF WellFormed, Naddr, Inet, Local, None, Path, Letters
<1>2. /\ array \in [1 .. MaxPath -> Letters \cup {Nul}]
      /\ array[1] = IF n.path[1] = Nul THEN Mark ELSE n.path[1]
      /\ \A i \in 2 .. MaxPath - 1 : array[i] = n.path[i]
      /\ array[MaxPath] = Nul
  BY <1>1, PathLengths DEF Letters
<1>3. NaddrToStr(n).family = "unix" /\ text = Until(array)
  BY DEF NaddrToStr
<1> HIDE DEF array, text
<1>4. array \in Seq(Letters \cup {Nul}) /\ Len(array) = MaxPath
  BY <1>2, PathLengths
<1>5. /\ text \in Seq(Letters \cup {Nul}) /\ Len(text) \in 0 .. MaxPath
      /\ \A i \in 1 .. Len(text) : text[i] = array[i] /\ array[i] # Nul
      /\ Len(text) = MaxPath \/ array[Len(text) + 1] = Nul
  BY <1>3, <1>4, UntilFacts
<1>6. Len(text) \in 1 .. MaxPath - 1
  <2>1. Len(text) # MaxPath
    BY <1>2, <1>5, PathLengths
  <2>2. array[1] # Nul
    BY <1>2, PathLengths
  <2>3. Len(text) # 0
    BY <1>5, <2>1, <2>2, PathLengths
  <2> QED BY <1>5, <2>1, <2>3, PathLengths
<1>7. text \in Seq(Letters)
  <2>1. \A i \in 1 .. Len(text) : text[i] \in Letters
    BY <1>5
  <2> QED BY <1>5, <2>1
<1>8. /\ text[1] = IF n.path[1] = Nul THEN Mark ELSE n.path[1]
      /\ \A i \in 2 .. Len(text) : text[i] = n.path[i]
  BY <1>2, <1>5, <1>6, PathLengths
<1>9. ASSUME Len(text) < MaxPath - 1 PROVE \A i \in Len(text) + 1 .. MaxPath : n.path[i] = Nul
  <2>1. Len(text) + 1 \in 2 .. MaxPath - 1
    BY <1>6, <1>9, PathLengths
  <2>2. n.path[Len(text) + 1] = Nul
    BY <1>2, <1>5, <2>1, PathLengths
  <2>3. Len(text) + 1 \in 2 .. MaxPath
    BY <2>1, PathLengths
  <2> QED BY <2>2, <2>3 DEF WellFormed
<1> QED BY <1>3, <1>6, <1>7, <1>8, <1>9 DEF text

\* Printed and read again, a network address is well formed, and it is the same
\* one unless its path fills the buffer; then it begins in the same way.
LEMMA PrintedFaithfully ==
  ASSUME NEW n, WellFormed(n), NEW m \in NaddrFromStr(NaddrToStr(n))
  PROVE  /\ WellFormed(m)
         /\ \/ m = n
            \/ n.family = "unix" /\ ~Short(n) /\ Beginning(m) = Beginning(n)
<1>1. n \in Inet \/ n \in Local \/ n = None
  BY DEF WellFormed, Naddr
<1>2. CASE n = None
  BY <1>2 DEF None, NaddrToStr, NaddrFromStr
<1>3. CASE n \in Inet
  <2>1. n.family = "inet"
    BY <1>3 DEF Inet
  <2>2. NaddrToStr(n) = n
    BY <2>1 DEF NaddrToStr
  <2>3. NaddrFromStr(n) = {n}
    BY <2>1 DEF NaddrFromStr
  <2> QED BY <2>2, <2>3
<1>4. CASE n \in Local
  <2> DEFINE text == NaddrToStr(n).text
  <2>1. n.family = "unix" /\ n.path \in Path /\ n = [family |-> "unix", path |-> n.path]
    BY <1>4 DEF Local
  <2>2. /\ NaddrToStr(n).family = "unix"
        /\ text \in Seq(Letters) /\ Len(text) \in 1 .. MaxPath - 1
        /\ text[1] = IF n.path[1] = Nul THEN Mark ELSE n.path[1]
        /\ \A i \in 2 .. Len(text) : text[i] = n.path[i]
        /\ Len(text) < MaxPath - 1 => \A i \in Len(text) + 1 .. MaxPath : n.path[i] = Nul
    BY <2>1, PrintedFacts
  <2>3. n.path[1] # Mark
    BY <2>1 DEF WellFormed
  <2>4. Short(n) <=> Len(text) < Room
    BY DEF Short
  <2>5. m \in IF Len(text) < Room THEN {FromPath(text)}
              ELSE {FromPath(SubSeq(text, 1, Room) \o tail) : tail \in Tails}
    <3>1. Len(text) < Room \/ Len(text) >= Room
      BY <2>2, PathLengths
    <3> QED BY <2>2, <3>1, PathLengths DEF NaddrFromStr
  <2> HIDE DEF text
  <2>6. CASE Len(text) < Room
    <3>1. m = FromPath(text)
      BY <2>5, <2>6
    <3>2. /\ WellFormed(m) /\ m \in Local
          /\ \A i \in 1 .. MaxPath : i <= Len(text) =>
               m.path[i] = IF i = 1 /\ text[1] = Mark THEN Nul ELSE text[i]
          /\ \A i \in 1 .. MaxPath : i > Len(text) => m.path[i] = Nul
      BY <2>2, <3>1, FromPathFacts
    <3>3. ASSUME NEW i \in 1 .. MaxPath PROVE m.path[i] = n.path[i]
      <4>1. CASE i = 1
        BY <2>2, <2>3, <3>2, <4>1, PathLengths
      <4>2. CASE i # 1 /\ i <= Len(text)
        BY <2>2, <3>2, <4>2, PathLengths
      <4>3. CASE i > Len(text)
        <5>1. Len(text) < MaxPath - 1
          BY <2>2, <2>6, NaddrAssumption, PathLengths DEF Room
        <5> QED BY <2>2, <3>2, <4>3, <5>1, PathLengths
      <4> QED BY <2>2, <4>1, <4>2, <4>3, PathLengths
    <3>4. m.family = "unix" /\ m.path \in Path /\ m = [family |-> "unix", path |-> m.path]
      BY <3>2 DEF Local
    <3>5. m.path = [i \in 1 .. MaxPath |-> m.path[i]] /\ n.path = [i \in 1 .. MaxPath |-> n.path[i]]
      BY <2>1, <3>4 DEF Path
    <3>6. m.path = n.path
      BY <3>3, <3>5
    <3> QED BY <2>1, <3>2, <3>4, <3>6
  <2>7. CASE ~(Len(text) < Room)
    <3>1. PICK tail \in Tails : m = FromPath(SubSeq(text, 1, Room) \o tail)
      BY <2>5, <2>7
    <3>2. tail \in Seq(Letters)
      BY <3>1 DEF Tails, Letters
    <3> DEFINE front == SubSeq(text, 1, Room)
    <3>3. /\ front \in Seq(Letters) /\ Len(front) = Room
          /\ \A i \in 1 .. Room : front[i] = text[i]
      BY <2>2, <2>7, PathLengths
    <3> HIDE DEF front
    <3> DEFINE path == front \o tail
    <3>4. /\ path \in Seq(Letters) /\ Len(path) >= Room /\ Len(path) \in Nat
          /\ \A i \in 1 .. Room : path[i] = text[i]
      BY <3>2, <3>3, PathLengths
    <3>5. m = FromPath(path)
      BY <3>1 DEF front
    <3> HIDE DEF path
    <3>6. /\ WellFormed(m) /\ m \in Local
          /\ \A i \in 1 .. MaxPath : i <= Len(path) =>
               m.path[i] = IF i = 1 /\ path[1] = Mark THEN Nul ELSE path[i]
      BY <3>4, <3>5, FromPathFacts, PathLengths
    <3>7. ASSUME NEW i \in 1 .. Room PROVE m.path[i] = n.path[i]
      <4>1. i \in 1 .. MaxPath /\ i <= Len(path) /\ path[i] = text[i]
            /\ path[1] = text[1] /\ i <= Len(text)
        BY <2>2, <2>7, <3>4, PathLengths
      <4>2. CASE i = 1
        BY <2>2, <2>3, <3>6, <4>1, <4>2
      <4>3. CASE i # 1
        <5>1. i \in 2 .. Len(text)
          BY <2>2, <4>1, <4>3
        <5> QED BY <2>2, <3>6, <4>1, <4>3, <5>1
      <4> QED BY <4>2, <4>3
    <3>8. Beginning(m) = Beginning(n)
      <4>1. /\ SubSeq(m.path, 1, Room) = [i \in 1 .. Room |-> m.path[i]]
            /\ SubSeq(n.path, 1, Room) = [i \in 1 .. Room |-> n.path[i]]
        BY PathLengths
      <4>2. [i \in 1 .. Room |-> m.path[i]] = [i \in 1 .. Room |-> n.path[i]]
        BY <3>7
      <4> QED BY <4>1, <4>2 DEF Beginning
    <3> QED BY <2>1, <2>4, <2>7, <3>6, <3>8
  <2> QED BY <2>6, <2>7
<1> QED BY <1>1, <1>2, <1>3, <1>4

\* Serialised and deserialised, it loses at most its port.
LEMMA SerialisedFaithfully ==
  ASSUME NEW n, WellFormed(n), NEW ser \in Ser(n), NEW m \in Deser(ser)
  PROVE  /\ WellFormed(m)
         /\ m = n \/ (n.family = "inet" /\ m = [n EXCEPT !.port = m.port])
<1>1. n \in Inet \/ n \in Local \/ n = None
  BY DEF WellFormed, Naddr
<1>2. CASE n = None
  BY <1>2 DEF None, Ser
<1>3. CASE n \in Inet
  <2>1. n.family = "inet" /\ n.host \in Hosts
        /\ n = [family |-> "inet", host |-> n.host, port |-> n.port]
    BY <1>3 DEF Inet
  <2>2. ser = [type |-> 1, ipv4 |-> n.host]
    BY <2>1 DEF Ser
  <2>3. Deser(ser) = {[family |-> "inet", host |-> n.host, port |-> p] : p \in Ports}
    BY <2>2 DEF Deser
  <2>4. PICK p \in Ports : m = [family |-> "inet", host |-> n.host, port |-> p]
    BY <2>3
  <2>5. m.port = p /\ m.family = "inet" /\ m \in Inet
    BY <2>1, <2>4 DEF Inet
  <2>6. m = [n EXCEPT !.port = m.port]
    BY <2>1, <2>4, <2>5
  <2> QED BY <2>1, <2>5, <2>6 DEF WellFormed, Naddr
<1>4. CASE n \in Local
  <2>1. n.family = "unix" /\ n = [family |-> "unix", path |-> n.path]
    BY <1>4 DEF Local
  <2>2. ser = [type |-> 2, local_path |-> n.path]
    BY <2>1 DEF Ser
  <2>3. Deser(ser) = {[family |-> "unix", path |-> n.path]}
    BY <2>2 DEF Deser
  <2> QED BY <2>1, <2>3
<1> QED BY <1>1, <1>2, <1>3, <1>4

\* Whatever is built, printed, read or deserialised is well formed.
LEMMA NetInductive ==
  /\ Init => WellFormed(net)
  /\ WellFormed(net) /\ [Next]_<<a, b, net>> => WellFormed(net)'
<1>1. ASSUME Init PROVE WellFormed(net)
  <2>1. ASSUME net = None PROVE WellFormed(net)
    BY <2>1 DEF WellFormed, Naddr, None
  <2>2. ASSUME net \in Inet PROVE WellFormed(net)
    BY <2>2 DEF WellFormed, Naddr, Inet
  <2>3. ASSUME NEW k \in 1 .. MaxPath + 1, NEW path \in [1 .. k -> Chars \cup {Mark}],
               net = FromPath(path)
        PROVE  WellFormed(net)
    <3>1. path \in Seq(Letters) /\ Len(path) >= 1
      BY <2>3, PathLengths DEF Letters
    <3> QED BY <2>3, <3>1, FromPathFacts
  <2> QED BY <1>1, <2>1, <2>2, <2>3 DEF Init, Built
<1>2. ASSUME WellFormed(net), [Next]_<<a, b, net>> PROVE WellFormed(net')
  <2>1. CASE Swap \/ UNCHANGED <<a, b, net>>
    BY <1>2, <2>1 DEF Swap
  <2>2. CASE PrintedOn
    BY <1>2, <2>2, PrintedFaithfully DEF PrintedOn
  <2>3. CASE SerialisedOn
    BY <1>2, <2>3, SerialisedFaithfully DEF SerialisedOn
  <2> QED BY <1>2, <2>1, <2>2, <2>3 DEF Next
<1>3. WellFormed(net') => WellFormed(net)'
  BY DEF WellFormed, Naddr, Inet, Local, None, Path
<1> QED BY <1>1, <1>2, <1>3

\* However often it is passed on, a network address stays that of the same
\* endpoint but for its port and for the end of a path that is too long.
THEOREM NaddrPassedOnFaithfully == Spec => PassedOnFaithfully
<1> DEFINE Faithful ==
      /\ PrintedOn => \/ net' = net
                      \/ net.family = "unix" /\ ~Short(net) /\ Beginning(net') = Beginning(net)
      /\ SerialisedOn => \/ net' = net
                         \/ net.family = "inet" /\ net' = [net EXCEPT !.port = net'.port]
<1>1. ASSUME WellFormed(net) PROVE Faithful
  <2>1. ASSUME PrintedOn
        PROVE  \/ net' = net
               \/ net.family = "unix" /\ ~Short(net) /\ Beginning(net') = Beginning(net)
    BY <1>1, <2>1, PrintedFaithfully DEF PrintedOn
  <2>2. ASSUME SerialisedOn
        PROVE  \/ net' = net
               \/ net.family = "inet" /\ net' = [net EXCEPT !.port = net'.port]
    BY <1>1, <2>2, SerialisedFaithfully DEF SerialisedOn
  <2> QED BY <2>1, <2>2
<1>2. PassedOnFaithfully <=> [][Faithful]_<<a, b, net>>
  BY DEF PassedOnFaithfully
<1> HIDE DEF Faithful
<1>3. Spec => [][Faithful]_<<a, b, net>>
  BY <1>1, NetInductive, PTL DEF Spec
<1> QED BY <1>2, <1>3

-----------------------------------------------------------------------------
(* Addresses as numbers                                                    *)

\* Induction, over the members of a set.
LEMMA EveryNatural ==
  ASSUME NEW S, 0 \in S, \A n \in Nat : n \in S => n + 1 \in S
  PROVE  \A n \in Nat : n \in S
<1> DEFINE missing == {n \in Nat : n \notin S}
<1> SUFFICES ASSUME missing # {} PROVE FALSE
  OBVIOUS
<1>1. missing \subseteq Nat
  OBVIOUS
<1>2. PICK n \in missing : \A m \in missing : n <= m
  <2> HIDE DEF missing
  <2> QED BY <1>1, LeastNatural
<1>3. n # 0 /\ n \in Nat
  BY <1>2
<1>4. n - 1 \in Nat /\ n - 1 \in S
  BY <1>2, <1>3
<1>5. n - 1 + 1 \in S /\ n - 1 + 1 = n
  BY <1>3, <1>4
<1> QED BY <1>2, <1>5

\* What the first bytes of an address stand for is defined for all of them.
LEMMA NumeralFacts ==
  ASSUME NEW x \in Address
  PROVE  /\ Numeral(x) \in [0 .. AddrLen -> Nat]
         /\ Numeral(x)[0] = 0
         /\ \A k \in 1 .. AddrLen : Numeral(x)[k] = Numeral(x)[k - 1] * ByteBase + x[k]
<1> DEFINE upTo(f, n) ==
             /\ f \in [0 .. n -> Nat]
             /\ f = [k \in 0 .. n |-> IF k = 0 THEN 0 ELSE f[k - 1] * ByteBase + x[k]]
           S == {n \in Nat : n <= AddrLen => \E f : upTo(f, n)}
<1>1. 0 \in S
  <2> DEFINE f == [k \in 0 .. 0 |-> 0]
  <2>1. f \in [0 .. 0 -> Nat] /\ \A k \in 0 .. 0 : k = 0
    OBVIOUS
  <2>2. f = [k \in 0 .. 0 |-> IF k = 0 THEN 0 ELSE f[k - 1] * ByteBase + x[k]]
    BY <2>1
  <2> QED BY <2>1, <2>2
<1>2. ASSUME NEW n \in Nat, n \in S PROVE n + 1 \in S
  <2> SUFFICES ASSUME n + 1 <= AddrLen PROVE \E f : upTo(f, n + 1)
    OBVIOUS
  <2>1. PICK f : upTo(f, n)
    BY <1>2, AddrLenAssumption
  <2>2. /\ f \in [0 .. n -> Nat]
        /\ \A k \in 0 .. n : f[k] = IF k = 0 THEN 0 ELSE f[k - 1] * ByteBase + x[k]
    BY <2>1
  <2>3. f[n] \in Nat /\ x[n + 1] \in Nat /\ ByteBase \in Nat
    BY <2>2, AddressFacts, ByteBaseFacts, AddrLenAssumption
  <2> DEFINE g == [k \in 0 .. n + 1 |-> IF k = n + 1 THEN f[n] * ByteBase + x[n + 1] ELSE f[k]]
  <2>4. f[n] * ByteBase + x[n + 1] \in Nat
    BY <2>3
  <2>5. g \in [0 .. n + 1 -> Nat]
    <3>1. \A k \in 0 .. n + 1 : k = n + 1 \/ k \in 0 .. n
      OBVIOUS
    <3> QED BY <2>2, <2>4, <3>1
  <2>6. ASSUME NEW k \in 0 .. n + 1
        PROVE  g[k] = IF k = 0 THEN 0 ELSE g[k - 1] * ByteBase + x[k]
    <3>1. CASE k = n + 1
      BY <3>1
    <3>2. CASE k \in 0 .. n
      <4>1. g[k] = f[k]
        BY <3>2
      <4>2. k # 0 => g[k - 1] = f[k - 1]
        BY <3>2
      <4> QED BY <2>2, <3>2, <4>1, <4>2
    <3> QED BY <3>1, <3>2
  <2>7. g = [k \in 0 .. n + 1 |-> IF k = 0 THEN 0 ELSE g[k - 1] * ByteBase + x[k]]
    <3>1. g = [k \in 0 .. n + 1 |-> g[k]]
      OBVIOUS
    <3> HIDE DEF g
    <3> QED BY <2>6, <3>1
  <2> HIDE DEF g
  <2> QED BY <2>5, <2>7
<1>3. \E f : upTo(f, AddrLen)
  <2>1. AddrLen \in Nat
    BY AddrLenAssumption
  <2> HIDE DEF S
  <2>2. AddrLen \in S
    BY <1>1, <1>2, <2>1, EveryNatural
  <2> QED BY <2>1, <2>2 DEF S
<1>4. PICK f : upTo(f, AddrLen)
  BY <1>3
<1>5. \A g : g = [k \in 0 .. AddrLen |-> IF k = 0 THEN 0 ELSE g[k - 1] * ByteBase + x[k]]
             => g \in [0 .. AddrLen -> Nat]
  <2> SUFFICES ASSUME NEW g,
                 g = [k \in 0 .. AddrLen |-> IF k = 0 THEN 0 ELSE g[k - 1] * ByteBase + x[k]]
               PROVE  g \in [0 .. AddrLen -> Nat]
    OBVIOUS
  <2> DEFINE T == {n \in Nat : n <= AddrLen => g[n] \in Nat}
  <2>1. \A k \in 0 .. AddrLen : g[k] = IF k = 0 THEN 0 ELSE g[k - 1] * ByteBase + x[k]
    OBVIOUS
  <2>2. 0 \in T
    BY <2>1, AddrLenAssumption
  <2>3. ASSUME NEW n \in Nat, n \in T PROVE n + 1 \in T
    <3> SUFFICES ASSUME n + 1 <= AddrLen PROVE g[n + 1] \in Nat
      OBVIOUS
    <3>1. /\ n + 1 \in 0 .. AddrLen /\ n + 1 # 0 /\ n + 1 - 1 = n /\ n + 1 \in 1 .. AddrLen
          /\ g[n] \in Nat
      BY <2>3, AddrLenAssumption
    <3>2. g[n + 1] = g[n] * ByteBase + x[n + 1]
      BY <2>1, <3>1
    <3>3. x[n + 1] \in Nat /\ ByteBase \in Nat
      BY <3>1, AddressFacts, ByteBaseFacts
    <3> QED BY <3>1, <3>2, <3>3
  <2>4. \A k \in 0 .. AddrLen : g[k] \in Nat
    <3> HIDE DEF T
    <3>1. \A n \in Nat : n \in T
      BY <2>2, <2>3, EveryNatural
    <3> QED BY <3>1, AddrLenAssumption DEF T
  <2>5. g = [k \in 0 .. AddrLen |-> g[k]]
    BY <2>1
  <2> QED BY <2>4, <2>5
<1>6. Numeral(x) = [k \in 0 .. AddrLen |-> IF k = 0 THEN 0
                                           ELSE Numeral(x)[k - 1] * ByteBase + x[k]]
  BY <1>4 DEF Numeral
<1> HIDE DEF upTo
<1>7. Numeral(x) \in [0 .. AddrLen -> Nat]
  BY <1>5, <1>6
<1>8. \A k \in 0 .. AddrLen :
         Numeral(x)[k] = IF k = 0 THEN 0 ELSE Numeral(x)[k - 1] * ByteBase + x[k]
  BY <1>6
<1> QED BY <1>7, <1>8, AddrLenAssumption

\* The powers of the radix of a byte are one more than the largest numerals.
Power(k) == Numeral(Largest)[k] + 1

LEMMA PowerFacts ==
  /\ Largest \in Address
  /\ Power(0) = 1
  /\ \A k \in 0 .. AddrLen : Power(k) \in Nat \ {0}
  /\ \A k \in 1 .. AddrLen : Power(k) = Power(k - 1) * ByteBase
<1>1. Largest \in Address /\ \A i \in 1 .. AddrLen : Largest[i] = ByteBase - 1
  BY ByteBaseFacts DEF Largest, Address, Byte
<1>2. /\ Numeral(Largest) \in [0 .. AddrLen -> Nat] /\ Numeral(Largest)[0] = 0
      /\ \A k \in 1 .. AddrLen :
           Numeral(Largest)[k] = Numeral(Largest)[k - 1] * ByteBase + Largest[k]
  BY <1>1, NumeralFacts
<1>3. \A k \in 0 .. AddrLen : Numeral(Largest)[k] \in Nat
  BY <1>2
<1>4. ASSUME NEW k \in 1 .. AddrLen PROVE Power(k) = Power(k - 1) * ByteBase
  <2> DEFINE v == Numeral(Largest)[k - 1]
  <2>1. v \in Nat /\ ByteBase \in Nat
    BY <1>3, ByteBaseFacts, AddrLenAssumption
  <2>2. Numeral(Largest)[k] = v * ByteBase + (ByteBase - 1)
    BY <1>1, <1>2
  <2>3. Power(k - 1) = v + 1 /\ Power(k) = Numeral(Largest)[k] + 1
    BY DEF Power
  <2> HIDE DEF v
  <2>4. (v + 1) * ByteBase = v * ByteBase + ByteBase /\ v * ByteBase \in Nat
    BY <2>1
  <2> QED BY <2>1, <2>2, <2>3, <2>4
<1>5. Power(0) = 1
  BY <1>2 DEF Power
<1>6. \A k \in 0 .. AddrLen : Power(k) \in Nat \ {0}
  BY <1>3 DEF Power
<1> QED BY <1>1, <1>4, <1>5, <1>6

\* A remainder is what lies in its range and differs by a multiple.
LEMMA Remainder ==
  ASSUME NEW m \in Nat \ {0}, NEW d \in Int, NEW t \in Int, NEW r \in 0 .. m - 1,
         r = d + m * t
  PROVE  d % m = r
<1> DEFINE q == d \div m  s == d % m
<1>1. q \in Int /\ s \in 0 .. m - 1 /\ d = m * q + s
  OBVIOUS
<1> HIDE DEF q, s
<1>2. r = m * (q + t) + s
  <2>1. m * (q + t) = m * q + m * t
    BY <1>1
  <2>2. m * q \in Int /\ m * t \in Int
    BY <1>1
  <2> QED BY <1>1, <2>1, <2>2
<1>3. q + t = 0
  <2> DEFINE u == q + t
  <2>1. u \in Int /\ r = m * u + s
    BY <1>1, <1>2
  <2> HIDE DEF u
  <2>2. ~(u >= 1)
    <3> SUFFICES ASSUME u >= 1 PROVE FALSE
      OBVIOUS
    <3>1. m * u >= m /\ m * u \in Int
      BY <2>1
    <3> QED BY <1>1, <2>1, <3>1
  <2>3. ~(u <= -1)
    <3> SUFFICES ASSUME u <= -1 PROVE FALSE
      OBVIOUS
    <3>1. m * u <= -m /\ m * u \in Int
      BY <2>1
    <3> QED BY <1>1, <2>1, <3>1
  <2> QED BY <2>1, <2>2, <2>3 DEF u
<1>4. r = s
  BY <1>1, <1>2, <1>3
<1> QED BY <1>4 DEF s

\* sn_net_addr_dist decides on its borrows from the last byte to the first.
LEMMA CarriesFacts ==
  ASSUME NEW x \in Address, NEW y \in Address, NEW i \in 1 .. AddrLen
  PROVE  Carries(x, y)[i] <=>
           x[i] < (y[i] + (IF i < AddrLen THEN IF Carries(x, y)[i + 1] THEN 1 ELSE 0
                                          ELSE 0)) % ByteBase
<1> DEFINE borrows(f, k) ==
             x[k] < (y[k] + (IF k < AddrLen THEN IF f[k + 1] THEN 1 ELSE 0 ELSE 0)) % ByteBase
           from(f, n) == f = [k \in AddrLen - n + 1 .. AddrLen |-> borrows(f, k)]
           S == {n \in Nat : n <= AddrLen => \E f : from(f, n)}
<1>1. 0 \in S
  <2> DEFINE f == [k \in AddrLen - 0 + 1 .. AddrLen |-> TRUE]
  <2>1. \A k \in AddrLen - 0 + 1 .. AddrLen : FALSE
    BY AddrLenAssumption
  <2>2. f = [k \in AddrLen - 0 + 1 .. AddrLen |-> borrows(f, k)]
    BY <2>1
  <2> QED BY <2>2
<1>2. ASSUME NEW n \in Nat, n \in S PROVE n + 1 \in S
  <2> SUFFICES ASSUME n + 1 <= AddrLen PROVE \E f : from(f, n + 1)
    OBVIOUS
  <2>1. PICK f : from(f, n)
    BY <1>2, AddrLenAssumption
  <2> DEFINE first == AddrLen - n
             g == [k \in first .. AddrLen |-> IF k = first THEN borrows(f, k) ELSE f[k]]
  <2>2. AddrLen - (n + 1) + 1 = first /\ first \in 1 .. AddrLen /\ AddrLen - n + 1 = first + 1
    BY AddrLenAssumption
  <2>3. f = [k \in first + 1 .. AddrLen |-> borrows(f, k)]
    BY <2>1, <2>2
  <2> HIDE DEF first
  <2>4. \A k \in first .. AddrLen : k < AddrLen => g[k + 1] = f[k + 1]
    <3>1. ASSUME NEW k \in first .. AddrLen, k < AddrLen
          PROVE  k + 1 \in first .. AddrLen /\ k + 1 # first
      BY <2>2, <3>1, AddrLenAssumption
    <3> HIDE DEF borrows
    <3> QED BY <3>1, Zenon
  <2>5. \A k \in first .. AddrLen : borrows(g, k) = borrows(f, k)
    BY <2>2, <2>4
  <2>6. g = [k \in first .. AddrLen |-> borrows(f, k)]
    <3>1. ASSUME NEW k \in first .. AddrLen, k # first PROVE f[k] = borrows(f, k)
      <4>1. k \in first + 1 .. AddrLen
        BY <2>2, <3>1
      <4> QED BY <2>3, <4>1, Zenon
    <3> QED BY <3>1, Zenon
  <2> HIDE DEF borrows, g
  <2>7. g = [k \in first .. AddrLen |-> borrows(g, k)]
    BY <2>5, <2>6
  <2> QED BY <2>2, <2>7
<1>3. \E f : from(f, AddrLen)
  <2> HIDE DEF S
  <2>1. AddrLen \in S
    BY <1>1, <1>2, EveryNatural, AddrLenAssumption
  <2> QED BY <2>1, AddrLenAssumption DEF S
<1>4. PICK f : f = [k \in 1 .. AddrLen |-> borrows(f, k)]
  BY <1>3, AddrLenAssumption
<1>5. Carries(x, y) = [k \in 1 .. AddrLen |-> borrows(Carries(x, y), k)]
  BY <1>4 DEF Carries
<1> HIDE DEF borrows
<1>6. Carries(x, y)[i] = borrows(Carries(x, y), i)
  BY <1>5
<1> QED BY <1>6 DEF borrows

\* What byte i was short of: the borrow that is handed to the byte before it.
Lent(x, y, i) == IF i <= AddrLen THEN IF Carries(x, y)[i] THEN 1 ELSE 0 ELSE 0

\* The bytes of the difference, with the borrows they take and hand on, when
\* no borrow is lost; what the first byte lacks is lost in any case.
LEMMA SubtractFacts ==
  ASSUME NEW x \in Address, NEW y \in Address,
         \A i \in 2 .. AddrLen - 1 : y[i] # ByteBase - 1
  PROVE  \E short \in [1 .. AddrLen + 1 -> 0 .. 1] :
           /\ short[AddrLen + 1] = 0
           /\ \A i \in 1 .. AddrLen :
                Subtract(x, y)[i] = x[i] - y[i] - short[i + 1] + ByteBase * short[i]
<1> DEFINE t == IF x[1] - y[1] - Lent(x, y, 2) < 0 THEN 1 ELSE 0
           short == [i \in 1 .. AddrLen + 1 |-> IF i = 1 THEN t ELSE Lent(x, y, i)]
<1>1. AddrLen \in Nat /\ AddrLen >= 1 /\ ByteBase \in Nat /\ ByteBase >= 4
  BY AddrLenAssumption, ByteBaseFacts
<1>2. \A i : Lent(x, y, i) \in 0 .. 1
  BY DEF Lent
<1>3. \A i \in 1 .. AddrLen : x[i] \in 0 .. ByteBase - 1 /\ y[i] \in 0 .. ByteBase - 1
  BY AddressFacts DEF Byte
<1>4. ASSUME NEW i \in 1 .. AddrLen
      PROVE  Subtract(x, y)[i] = (x[i] - y[i] - Lent(x, y, i + 1)) % ByteBase
  <2>1. (IF i < AddrLen /\ Carries(x, y)[i + 1] THEN 1 ELSE 0) = Lent(x, y, i + 1)
    BY <1>1 DEF Lent
  <2> QED BY <2>1 DEF Subtract
<1>5. ASSUME NEW i \in 2 .. AddrLen
      PROVE  Lent(x, y, i) = IF x[i] - y[i] - Lent(x, y, i + 1) < 0 THEN 1 ELSE 0
  <2> DEFINE z == y[i] + Lent(x, y, i + 1)
  <2>1. i \in 1 .. AddrLen /\ i <= AddrLen
    BY <1>1
  <2>2. z \in 0 .. ByteBase - 1
    <3>1. CASE i = AddrLen
      <4>1. Lent(x, y, i + 1) = 0
        BY <1>1, <3>1 DEF Lent
      <4> QED BY <1>3, <2>1, <4>1
    <3>2. CASE i # AddrLen
      <4>1. i \in 2 .. AddrLen - 1
        BY <1>1, <3>2
      <4>2. y[i] # ByteBase - 1
        BY <4>1
      <4> QED BY <1>1, <1>2, <1>3, <2>1, <4>2
    <3> QED BY <3>1, <3>2
  <2>3. z % ByteBase = z
    <3> HIDE DEF z
    <3>1. z \in Int /\ ByteBase \in Nat \ {0} /\ z = z + ByteBase * 0
      BY <1>1, <2>2
    <3> QED BY <2>2, <3>1, Remainder
  <2>4. (IF i < AddrLen THEN IF Carries(x, y)[i + 1] THEN 1 ELSE 0 ELSE 0) = Lent(x, y, i + 1)
    BY <1>1 DEF Lent
  <2>5. Carries(x, y)[i] <=> x[i] < z
    BY <2>1, <2>3, <2>4, CarriesFacts
  <2>6. Lent(x, y, i) = IF x[i] < z THEN 1 ELSE 0
    BY <2>1, <2>5 DEF Lent
  <2>7. x[i] \in Int /\ y[i] \in Int /\ Lent(x, y, i + 1) \in Int
    BY <1>2, <1>3, <2>1
  <2> QED BY <2>6, <2>7
<1>6. ASSUME NEW i \in 1 .. AddrLen
      PROVE  short[i + 1] = Lent(x, y, i + 1) /\ short[i] \in 0 .. 1 /\
             short[i] = IF x[i] - y[i] - Lent(x, y, i + 1) < 0 THEN 1 ELSE 0
  <2>1. i \in 1 .. AddrLen + 1 /\ i + 1 \in 1 .. AddrLen + 1 /\ i + 1 # 1
    BY <1>1
  <2>2. CASE i = 1
    BY <2>1, <2>2
  <2>3. CASE i # 1
    <3>1. i \in 2 .. AddrLen
      BY <1>1, <2>3
    <3> QED BY <1>2, <1>5, <2>1, <2>3, <3>1
  <2> QED BY <2>2, <2>3
<1>7. short[AddrLen + 1] = 0
  BY <1>1 DEF Lent
<1>8. short \in [1 .. AddrLen + 1 -> 0 .. 1]
  BY <1>2
<1> HIDE DEF short
<1>9. ASSUME NEW i \in 1 .. AddrLen
      PROVE  Subtract(x, y)[i] = x[i] - y[i] - short[i + 1] + ByteBase * short[i]
  <2> DEFINE d == x[i] - y[i] - Lent(x, y, i + 1)
             e == d + ByteBase * short[i]
  <2>1. d \in Int /\ -ByteBase <= d /\ d <= ByteBase - 1
    BY <1>1, <1>2, <1>3
  <2>2. short[i] = IF d < 0 THEN 1 ELSE 0
    BY <1>6
  <2>3. e \in 0 .. ByteBase - 1
    <3> HIDE DEF d
    <3> QED BY <1>1, <2>1, <2>2
  <2>4. d % ByteBase = e
    <3> HIDE DEF d
    <3> QED BY <1>1, <1>6, <2>1, <2>3, Remainder
  <2>5. Subtract(x, y)[i] = e
    BY <1>4, <2>4
  <2> QED BY <1>6, <2>5
<1> QED BY <1>7, <1>8, <1>9

\* All of these are numbers.
LEMMA Numbers ==
  ASSUME NEW x \in Address, NEW k \in 0 .. AddrLen
  PROVE  Numeral(x)[k] \in Nat /\ Numeral(x)[k] \in Int /\ Power(k) \in Nat /\ Power(k) \in Int
<1>1. Numeral(x) \in [0 .. AddrLen -> Nat] /\ Power(k) \in Nat
  BY NumeralFacts, PowerFacts
<1> QED BY <1>1

\* Each byte of z is the difference of those of x and y, with what the byte
\* after it was short of.
Borrowing(x, y, z, short) ==
  \A i \in 1 .. AddrLen : z[i] = x[i] - y[i] - short[i + 1] + ByteBase * short[i]

\* What the first k bytes of the difference stand for.
Difference(x, y, z, short, k) ==
  Numeral(z)[k] = Numeral(x)[k] - Numeral(y)[k] - short[k + 1] + short[1] * Power(k)

\* A borrow is paid back by the byte before the one that took it.
LEMMA DifferenceUpTo ==
  ASSUME NEW x \in Address, NEW y \in Address, NEW z \in Address,
         NEW short \in [1 .. AddrLen + 1 -> 0 .. 1], Borrowing(x, y, z, short)
  PROVE  \A k \in 0 .. AddrLen : Difference(x, y, z, short, k)
<1> USE DEF Borrowing, Difference
<1> DEFINE claim(k) ==
             Numeral(z)[k] = Numeral(x)[k] - Numeral(y)[k] - short[k + 1] + short[1] * Power(k)
           S == {k \in Nat : k <= AddrLen => claim(k)}
<1>1. AddrLen \in Nat /\ AddrLen >= 1 /\ ByteBase \in Nat
  BY AddrLenAssumption, ByteBaseFacts
<1>2. claim(0)
  <2>1. 1 \in 1 .. AddrLen + 1 /\ short[1] \in Int
    BY <1>1
  <2> QED BY <2>1, NumeralFacts, PowerFacts
<1>3. ASSUME NEW n \in Nat, n \in S PROVE n + 1 \in S
  <2> SUFFICES ASSUME n + 1 <= AddrLen PROVE claim(n + 1)
    OBVIOUS
  <2>1. n + 1 \in 1 .. AddrLen /\ n \in 0 .. AddrLen /\ n + 1 - 1 = n
    BY <1>1
  <2> DEFINE X == Numeral(x)[n]  Y == Numeral(y)[n]  Z == Numeral(z)[n]  P == Power(n)
             p == x[n + 1]  q == y[n + 1]  s == short[n + 1]  u == short[n + 2]  t == short[1]
             B == ByteBase
  <2>2. Z = X - Y - s + t * P
    BY <1>1, <1>3
  <2>3. /\ X \in Int /\ Y \in Int /\ P \in Int /\ s \in Int /\ u \in Int /\ t \in Int
        /\ p \in Int /\ q \in Int /\ B \in Int
    <3>1. X \in Int /\ Y \in Int /\ P \in Int
      BY <2>1, Numbers
    <3>2. n + 1 \in 1 .. AddrLen + 1 /\ n + 2 \in 1 .. AddrLen + 1 /\ 1 \in 1 .. AddrLen + 1
      BY <1>1, <2>1
    <3>3. short[n + 1] \in 0 .. 1 /\ short[n + 2] \in 0 .. 1 /\ short[1] \in 0 .. 1
      BY <3>2
    <3>4. p \in Int /\ q \in Int
      <4>1. p \in Nat /\ q \in Nat
        BY <2>1, AddressFacts
      <4> QED BY <4>1
    <3> QED BY <1>1, <3>1, <3>3, <3>4
  <2>4. /\ Numeral(x)[n + 1] = X * B + p /\ Numeral(y)[n + 1] = Y * B + q
        /\ Numeral(z)[n + 1] = Z * B + (p - q - u + B * s)
        /\ Power(n + 1) = P * B
    BY <2>1, NumeralFacts, PowerFacts
  <2>5. short[n + 1 + 1] = u
    OBVIOUS
  <2> HIDE DEF X, Y, Z, P, p, q, s, u, B
  <2> HIDE DEF t
  <2>6. Z * B + (p - q - u + B * s) = (X * B + p) - (Y * B + q) - u + t * (P * B)
    <3>1. Z * B = X * B - Y * B - s * B + (t * P) * B
      <4> DEFINE w == t * P
      <4>1. w \in Int /\ Z = X - Y - s + w
        BY <2>2, <2>3
      <4> HIDE DEF w
      <4>2. Z * B = X * B - Y * B - s * B + w * B
        BY <2>3, <4>1
      <4> QED BY <4>2 DEF w
    <3>2. (t * P) * B = t * (P * B) /\ s * B = B * s
      BY <2>3
    <3>3. X * B \in Int /\ Y * B \in Int /\ B * s \in Int /\ t * (P * B) \in Int
      BY <2>3
    <3> DEFINE xb == X * B  yb == Y * B  bs == B * s  tpb == t * (P * B)
    <3>4. Z * B = xb - yb - bs + tpb
      BY <3>1, <3>2
    <3>5. xb \in Int /\ yb \in Int /\ bs \in Int /\ tpb \in Int
      BY <3>3
    <3> HIDE DEF xb, yb, bs, tpb
    <3>6. Z * B + (p - q - u + bs) = (xb + p) - (yb + q) - u + tpb
      BY <2>3, <3>4, <3>5
    <3> QED BY <3>6 DEF xb, yb, bs, tpb
  <2> QED BY <2>4, <2>5, <2>6 DEF t
<1>4. 0 \in S
  BY <1>2
<1> HIDE DEF S, claim
<1>5. \A k \in Nat : k \in S
  BY <1>3, <1>4, EveryNatural
<1>6. ASSUME NEW k \in 0 .. AddrLen PROVE claim(k)
  BY <1>1, <1>5, <1>6 DEF S
<1> QED BY <1>6 DEF claim

\* The ones' complement of an address is the largest address less it.
LEMMA NegateUpTo ==
  ASSUME NEW x \in Address
  PROVE  /\ Negate(x) \in Address
         /\ \A k \in 0 .. AddrLen : Numeral(Negate(x))[k] = Power(k) - 1 - Numeral(x)[k]
<1>1. Negate(x) \in Address /\ \A i \in 1 .. AddrLen : Negate(x)[i] = ByteBase - 1 - x[i]
  BY ByteBaseFacts DEF Negate, Address, Byte
<1> DEFINE claim(k) == Numeral(Negate(x))[k] = Power(k) - 1 - Numeral(x)[k]
           S == {k \in Nat : k <= AddrLen => claim(k)}
<1>2. claim(0)
  BY <1>1, NumeralFacts, PowerFacts
<1>3. ASSUME NEW n \in Nat, n \in S PROVE n + 1 \in S
  <2> SUFFICES ASSUME n + 1 <= AddrLen PROVE claim(n + 1)
    OBVIOUS
  <2>1. n + 1 \in 1 .. AddrLen /\ n \in 0 .. AddrLen /\ n + 1 - 1 = n
    BY AddrLenAssumption
  <2> DEFINE X == Numeral(x)[n]  N == Numeral(Negate(x))[n]  P == Power(n)
             p == x[n + 1]  B == ByteBase
  <2>2. N = P - 1 - X
    BY <1>3, <2>1, AddrLenAssumption
  <2>3. X \in Int /\ P \in Int /\ p \in Int /\ B \in Int
    <3>1. X \in Int /\ P \in Int
      BY <2>1, Numbers
    <3>2. p \in Nat /\ B \in Nat
      BY <2>1, AddressFacts, ByteBaseFacts
    <3> QED BY <3>1, <3>2
  <2>4. /\ Numeral(x)[n + 1] = X * B + p
        /\ Numeral(Negate(x))[n + 1] = N * B + (B - 1 - p)
        /\ Power(n + 1) = P * B
    BY <1>1, <2>1, NumeralFacts, PowerFacts
  <2> HIDE DEF X, N, P, p, B
  <2>5. N * B = P * B - B - X * B /\ P * B \in Int /\ X * B \in Int
    BY <2>2, <2>3
  <2> DEFINE pb == P * B  xb == X * B
  <2>6. pb \in Int /\ xb \in Int /\ N * B = pb - B - xb
    BY <2>5
  <2> HIDE DEF pb, xb
  <2>7. N * B + (B - 1 - p) = pb - 1 - (xb + p)
    BY <2>3, <2>6
  <2> QED BY <2>4, <2>7 DEF pb, xb
<1>4. 0 \in S
  BY <1>2
<1> HIDE DEF S, claim
<1>5. \A k \in Nat : k \in S
  BY <1>3, <1>4, EveryNatural
<1>6. ASSUME NEW k \in 0 .. AddrLen PROVE claim(k)
  BY <1>5, <1>6, AddrLenAssumption DEF S
<1> QED BY <1>1, <1>6 DEF claim

\* The first byte says between which multiples of a power an address lies.
LEMMA FirstByteBounds ==
  ASSUME NEW x \in Address
  PROVE  \A k \in 1 .. AddrLen : /\ x[1] * Power(k - 1) <= Numeral(x)[k]
                                 /\ Numeral(x)[k] + 1 <= (x[1] + 1) * Power(k - 1)
<1> DEFINE claim(k) == /\ x[1] * Power(k) <= Numeral(x)[k + 1]
                       /\ Numeral(x)[k + 1] + 1 <= (x[1] + 1) * Power(k)
           S == {k \in Nat : k + 1 <= AddrLen => claim(k)}
<1>1. claim(0)
  <2>1. 1 \in 1 .. AddrLen /\ 0 + 1 = 1 /\ 1 - 1 = 0
    BY AddrLenAssumption
  <2>2. x[1] \in Nat /\ Numeral(x)[1] = 0 * ByteBase + x[1] /\ ByteBase \in Nat
    BY <2>1, AddressFacts, NumeralFacts, ByteBaseFacts
  <2>3. Numeral(x)[0 + 1] = x[1]
    BY <2>1, <2>2
  <2> QED BY <2>2, <2>3, PowerFacts
<1>2. ASSUME NEW n \in Nat, n \in S PROVE n + 1 \in S
  <2> SUFFICES ASSUME n + 1 + 1 <= AddrLen PROVE claim(n + 1)
    OBVIOUS
  <2>1. /\ n + 2 \in 1 .. AddrLen /\ n + 1 \in 1 .. AddrLen /\ n \in 0 .. AddrLen
        /\ n + 2 - 1 = n + 1 /\ n + 1 - 1 = n /\ n + 1 + 1 = n + 2 /\ 1 \in 1 .. AddrLen
        /\ n + 1 \in 0 .. AddrLen
    BY AddrLenAssumption
  <2> DEFINE X == Numeral(x)[n + 1]  P == Power(n)  f == x[1]  p == x[n + 2]  B == ByteBase
  <2>2. f * P <= X /\ X + 1 <= (f + 1) * P
    BY <1>2, <2>1, AddrLenAssumption
  <2>3. X \in Nat /\ P \in Nat /\ f \in Nat /\ p \in Nat /\ B \in Nat /\ p <= B - 1
    <3>1. X \in Nat /\ P \in Nat
      BY <2>1, Numbers
    <3>2. f \in Nat /\ p \in Nat /\ p \in Byte /\ B \in Nat
      BY <2>1, AddressFacts, ByteBaseFacts
    <3> QED BY <3>1, <3>2 DEF Byte
  <2>4. Numeral(x)[n + 1 + 1] = X * B + p /\ Power(n + 1) = P * B
    BY <2>1, NumeralFacts, PowerFacts
  <2> HIDE DEF X, P, f, p, B
  <2>5. f * (P * B) <= X * B + p
    <3>1. (f * P) * B <= X * B
      <4> DEFINE w == f * P
      <4>1. w \in Nat /\ w <= X
        BY <2>2, <2>3
      <4> HIDE DEF w
      <4>2. w * B <= X * B
        BY <2>3, <4>1
      <4> QED BY <4>2 DEF w
    <3>2. (f * P) * B = f * (P * B) /\ X * B \in Nat /\ f * (P * B) \in Nat
      BY <2>3
    <3> QED BY <2>3, <3>1, <3>2
  <2>6. X * B + p + 1 <= (f + 1) * (P * B)
    <3> DEFINE w == (f + 1) * P
    <3>1. w \in Nat /\ X + 1 <= w /\ w * B = (f + 1) * (P * B)
      BY <2>2, <2>3
    <3> HIDE DEF w
    <3>2. (X + 1) * B <= w * B /\ (X + 1) * B = X * B + B /\ X * B \in Nat /\ w * B \in Nat
      BY <2>3, <3>1
    <3>3. X * B + p + 1 <= w * B
      BY <2>3, <3>2
    <3> QED BY <3>1, <3>3
  <2> QED BY <2>4, <2>5, <2>6 DEF f
<1>3. 0 \in S
  BY <1>1
<1> HIDE DEF S, claim
<1>4. \A k \in Nat : k \in S
  BY <1>2, <1>3, EveryNatural
<1>5. ASSUME NEW k \in 1 .. AddrLen PROVE claim(k - 1)
  <2>1. k - 1 \in Nat /\ k - 1 + 1 <= AddrLen
    BY AddrLenAssumption
  <2> QED BY <1>4, <2>1 DEF S
<1> QED BY <1>5, AddrLenAssumption DEF claim

\* The difference, as long as no borrow is lost, is the way around the ring.
LEMMA SubtractIsAhead ==
  ASSUME NEW x \in Address, NEW y \in Address,
         \A i \in 2 .. AddrLen - 1 : y[i] # ByteBase - 1
  PROVE  /\ Subtract(x, y) \in Address
         /\ Value(Subtract(x, y)) = (Value(x) - Value(y)) % Keyspace
<1> DEFINE z == Subtract(x, y)
<1>1. z \in Address
  <2>1. ASSUME NEW d \in Int PROVE d % ByteBase \in Byte
    BY ByteBaseFacts DEF Byte
  <2>2. ASSUME NEW i \in 1 .. AddrLen, NEW carry
        PROVE  (x[i] - y[i] - (IF i < AddrLen /\ carry[i + 1] THEN 1 ELSE 0))
                 % ByteBase \in Byte
    BY <2>1, AddressFacts
  <2> QED BY <2>2 DEF Subtract, Address
<1>2. PICK short \in [1 .. AddrLen + 1 -> 0 .. 1] :
         short[AddrLen + 1] = 0 /\ Borrowing(x, y, z, short)
  BY SubtractFacts DEF Borrowing
<1> HIDE DEF z
<1>3. AddrLen \in 0 .. AddrLen /\ 1 \in 1 .. AddrLen + 1
  BY AddrLenAssumption
<1>4. Numeral(z)[AddrLen] = Numeral(x)[AddrLen] - Numeral(y)[AddrLen] - short[AddrLen + 1]
                            + short[1] * Power(AddrLen)
  <2>1. \A k \in 0 .. AddrLen : Difference(x, y, z, short, k)
    BY <1>1, <1>2, DifferenceUpTo
  <2> QED BY <1>3, <2>1 DEF Difference
<1> DEFINE V == Value(z)  d == Value(x) - Value(y)  K == Keyspace  t == short[1]
<1>5. /\ Value(x) \in Int /\ Value(y) \in Int /\ V \in Nat /\ K \in Nat \ {0} /\ K = Power(AddrLen)
  BY <1>1, <1>3, Numbers, PowerFacts DEF Value, Keyspace, Power
<1>6. t \in Int
  BY <1>3
<1>7. V = d + t * K
  BY <1>2, <1>4, <1>5 DEF Value
<1>8. V <= K - 1
  <2>1. Negate(z) \in Address /\ Numeral(Negate(z))[AddrLen] = Power(AddrLen) - 1 - Numeral(z)[AddrLen]
    BY <1>1, <1>3, NegateUpTo
  <2>2. Numeral(Negate(z))[AddrLen] \in Nat
    BY <1>3, <2>1, Numbers
  <2> QED BY <1>5, <2>1, <2>2 DEF Value
<1> HIDE DEF V, K, t
<1>9. d \in Int
  BY <1>5
<1> HIDE DEF d
<1>10. V \in 0 .. K - 1 /\ V = d + K * t
  BY <1>5, <1>6, <1>7, <1>8, <1>9
<1>11. d % K = V
  BY <1>5, <1>6, <1>9, <1>10, Remainder
<1> QED BY <1>1, <1>11 DEF V, K, d, z

\* An address is in the upper half if its first byte is.
LEMMA UpperHalf ==
  ASSUME NEW x \in Address, HexBase % 2 = 0
  PROVE  x[1] >= ByteBase \div 2 <=> 2 * Value(x) >= Keyspace
<1> DEFINE h == ByteBase \div 2  P == Power(AddrLen - 1)  f == x[1]  V == Value(x)  K == Keyspace
<1>1. AddrLen \in 1 .. AddrLen /\ AddrLen - 1 \in 0 .. AddrLen /\ 1 \in 1 .. AddrLen
      /\ AddrLen \in 0 .. AddrLen
  BY AddrLenAssumption
<1>2. f * P <= V /\ V + 1 <= (f + 1) * P
  BY <1>1, FirstByteBounds DEF Value
<1>3. V \in Nat /\ P \in Nat /\ f \in Nat
  BY <1>1, Numbers, AddressFacts DEF Value
<1>4. K = P * ByteBase
  BY <1>1, PowerFacts DEF Keyspace, Value, Power
<1>5. h \in Nat /\ ByteBase = 2 * h
  <2> DEFINE g == HexBase \div 2
  <2>1. g \in Nat /\ HexBase = 2 * g
    BY HexBaseAssumption
  <2> HIDE DEF g
  <2>2. ByteBase = 2 * (g * HexBase) /\ g * HexBase \in Nat
    BY <2>1, HexBaseAssumption DEF ByteBase
  <2> DEFINE w == g * HexBase
  <2>3. w \in Nat /\ ByteBase = 2 * w
    BY <2>2
  <2> HIDE DEF w
  <2>4. (2 * w) \div 2 = w
    BY <2>3
  <2> QED BY <2>3, <2>4
<1> HIDE DEF h, P, f, V, K
<1>6. K = 2 * (h * P) /\ h * P \in Nat
  <2>1. P * (2 * h) = 2 * (h * P) /\ h * P \in Nat
    BY <1>3, <1>5
  <2> QED BY <1>4, <1>5, <2>1
<1>7. CASE f >= h
  <2>1. h * P <= f * P /\ f * P \in Nat
    BY <1>3, <1>5, <1>7
  <2>2. 2 * V >= K
    BY <1>2, <1>3, <1>6, <2>1
  <2> QED BY <1>7, <2>2 DEF h, f, V, K
<1>8. CASE ~(f >= h)
  <2>1. f + 1 <= h /\ f + 1 \in Nat
    BY <1>3, <1>5, <1>8
  <2>2. (f + 1) * P <= h * P /\ (f + 1) * P \in Nat
    BY <1>3, <1>5, <2>1
  <2>3. ~(2 * V >= K)
    BY <1>2, <1>3, <1>6, <2>2
  <2> QED BY <1>8, <2>3 DEF h, f, V, K
<1> QED BY <1>7, <1>8

\* Where no borrow is lost sn_net_addr_dist measures the shorter way around
\* the ring of keys, one too little when it goes backwards; for every number
\* of bytes, and of half a byte every even number of values.
THEOREM AddrDistIsRingDistance == HexBase % 2 = 0 => (Spec => []DistIsRingDistance)
<1> SUFFICES ASSUME HexBase % 2 = 0 PROVE Spec => []DistIsRingDistance
  OBVIOUS
<1>1. ASSUME AddressInv PROVE DistIsRingDistance
  <2> USE <1>1 DEF AddressInv
  <2> SUFFICES ASSUME BorrowsKept
               PROVE  Value(Dist(a, b)) =
                        IF 2 * Ahead < Keyspace THEN Ahead ELSE Keyspace - 1 - Ahead
    BY DEF DistIsRingDistance
  <2> DEFINE z == Subtract(a, b)
  <2>1. z \in Address /\ Value(z) = Ahead
    BY SubtractIsAhead DEF BorrowsKept, Ahead
  <2>2. Dist(a, b) = IF z[1] >= ByteBase \div 2 THEN Negate(z) ELSE z
    BY DEF Dist
  <2> HIDE DEF z
  <2>3. AddrLen \in 0 .. AddrLen
    BY AddrLenAssumption
  <2>4. Value(z) \in Nat /\ Keyspace \in Nat
    BY <2>1, <2>3, Numbers, PowerFacts DEF Value, Keyspace
  <2>5. z[1] >= ByteBase \div 2 <=> ~(2 * Ahead < Keyspace)
    BY <2>1, <2>4, UpperHalf
  <2>6. Value(Negate(z)) = Keyspace - 1 - Value(z)
    BY <2>1, <2>3, NegateUpTo DEF Value, Keyspace, Power
  <2> QED BY <2>1, <2>2, <2>5, <2>6
<1> QED BY <1>1, AddressInductive, PTL DEF Spec
=============================================================================
