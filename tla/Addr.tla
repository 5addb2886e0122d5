-------------------------------- MODULE Addr --------------------------------
(***************************************************************************)
(* SecondNet addresses (include/net/addr.h, src/net/addr.c): keys of       *)
(* AddrLen bytes, most significant byte first, read either as bytes (order *)
(* and distance) or as hexadecimal digits (level and column of the routing *)
(* table).  Byte i of the C array is element i + 1 of the sequence here.   *)
(*                                                                         *)
(* The radix is a parameter so that the carries, the complement and the    *)
(* digit boundaries of the 256-bit arithmetic all occur in addresses that  *)
(* are small enough to enumerate.                                          *)
(***************************************************************************)
EXTENDS Integers, Sequences

CONSTANTS
  HexBase,  \* number of values of a hexadecimal digit (16 in the code)
  AddrLen   \* SN_NET_ADDR_LEN, number of bytes of an address (32 in the code)

ASSUME HexBaseAssumption == HexBase \in Nat /\ HexBase >= 2
ASSUME AddrLenAssumption == AddrLen \in Nat /\ AddrLen >= 1

ByteBase == HexBase * HexBase
Byte     == 0 .. ByteBase - 1
Digit    == 0 .. HexBase - 1
Address  == [1 .. AddrLen -> Byte]

HexLen   == 2 * AddrLen                 \* SN_NET_ADDR_HEX_LEN
NoColumn == ByteBase - 1                \* the 255 of "no differing digit"

\* The address memset leaves in an entry that was never written.
Zero == [i \in 1 .. AddrLen |-> 0]

(***************************************************************************)
(* bytestring_to_hexstring: digit 2i is the high half of byte i, digit     *)
(* 2i + 1 its low half.                                                    *)
(***************************************************************************)
HexSwapped(a) ==
  [i \in 1 .. HexLen |->
     IF i % 2 = 1 THEN a[(i + 1) \div 2] % HexBase
                  ELSE a[i \div 2] \div HexBase]

Hex(a) ==
  [i \in 1 .. HexLen |->
     IF i % 2 = 1 THEN a[(i + 1) \div 2] \div HexBase
                  ELSE a[i \div 2] % HexBase]

(***************************************************************************)
(* sn_net_addr_to_str drops the trailing zeros of the hexadecimal string,  *)
(* sn_net_addr_from_hex reads a string of at most HexLen digits and takes  *)
(* the missing ones for zero.  A string is a sequence of digit values.     *)
(***************************************************************************)
ToStr(a) ==
  LET h    == Hex(a)
      last == CHOOSE n \in 0 .. HexLen :
                /\ n = 0 \/ h[n] # 0
                /\ \A i \in n + 1 .. HexLen : h[i] = 0
  IN  SubSeq(h, 1, last)

FromHexUnpadded(str) ==
  LET digit(i) == IF i <= Len(str) THEN str[i] ELSE 0
  IN  [i \in 1 .. AddrLen |->
         IF 2 * i <= Len(str) THEN digit(2 * i - 1) * HexBase + digit(2 * i)
                              ELSE 0]

FromHex(str) ==
  LET digit(i) == IF i <= Len(str) THEN str[i] ELSE 0
  IN  [i \in 1 .. AddrLen |-> digit(2 * i - 1) * HexBase + digit(2 * i)]

(***************************************************************************)
(* sn_net_addr_cmp(a, b) < 0: the first byte that differs decides.         *)
(***************************************************************************)
BeforeFromLast(a, b) ==
  \E i \in 1 .. AddrLen :
    /\ a[i] < b[i]
    /\ \A j \in i + 1 .. AddrLen : a[j] = b[j]

Before(a, b) ==
  \E i \in 1 .. AddrLen :
    /\ a[i] < b[i]
    /\ \A j \in 1 .. i - 1 : a[j] = b[j]

(***************************************************************************)
(* The subtraction of sn_net_addr_dist runs from the last byte to the      *)
(* first.  The byte subtracted is an unsigned char, so adding the borrow   *)
(* to a byte of b that holds the largest value wraps to 0 and the borrow   *)
(* is not passed on.  carry[i] says whether byte i borrows from byte i - 1.*)
(***************************************************************************)
CarriesDropped(a, b) == [i \in 1 .. AddrLen |-> FALSE]

Carries(a, b) ==
  LET carry[i \in 1 .. AddrLen] ==
        a[i] < (b[i] + (IF i < AddrLen THEN IF carry[i + 1] THEN 1 ELSE 0
                                       ELSE 0)) % ByteBase
  IN  carry

Subtract(a, b) ==
  LET carry == Carries(a, b)
  IN  [i \in 1 .. AddrLen |->
         (a[i] - b[i] - (IF i < AddrLen /\ carry[i + 1] THEN 1 ELSE 0))
           % ByteBase]

\* bytestring_negate: the ones' complement of every byte.
Negate(a) == [i \in 1 .. AddrLen |-> ByteBase - 1 - a[i]]

(***************************************************************************)
(* sn_net_addr_dist: the difference, complemented when its first byte is   *)
(* in the upper half (128 and above in the code).                          *)
(***************************************************************************)
Dist(a, b) ==
  LET sub == Subtract(a, b)
  IN  IF sub[1] >= ByteBase \div 2 THEN Negate(sub) ELSE sub

(***************************************************************************)
(* sn_net_addr_index: the level of b seen from a is the number of leading  *)
(* digits they share, its column the first digit of b that differs.        *)
(***************************************************************************)
LevelOffByOne(a, b) ==
  CHOOSE l \in 1 .. HexLen :
    /\ \A i \in 1 .. l - 1 : Hex(a)[i] = Hex(b)[i]
    /\ l = HexLen \/ Hex(a)[l] # Hex(b)[l]

LevelWithoutBreak(a, b) ==
  CHOOSE l \in 0 .. HexLen :
    /\ l = HexLen \/ Hex(a)[l + 1] # Hex(b)[l + 1]
    /\ \A i \in l + 2 .. HexLen : Hex(a)[i] = Hex(b)[i]

Level(a, b) ==
  CHOOSE l \in 0 .. HexLen :
    /\ \A i \in 1 .. l : Hex(a)[i] = Hex(b)[i]
    /\ l = HexLen \/ Hex(a)[l + 1] # Hex(b)[l + 1]

Column(a, b) ==
  IF Level(a, b) = HexLen THEN NoColumn ELSE Hex(b)[Level(a, b) + 1]
=============================================================================
