------------------------------- MODULE MCAddr -------------------------------
(***************************************************************************)
(* The address arithmetic of Addr against the numbers the addresses stand  *)
(* for, over every pair of addresses of three bytes in radix 2 (64         *)
(* addresses).  Three bytes are the least for which a borrow can be lost   *)
(* in a byte that has one above it to notice and one below it to cause it. *)
(* Beside them, and apart from them, network addresses that are passed on. *)
(***************************************************************************)
EXTENDS Addr, Naddr

CONSTANTS h1, h2, p1, p2, c1, c2, mark, nul

VARIABLES
  a, b,  \* two addresses
  net    \* a network address

\* Every network address that is built from what an application gives: none,
\* a host and a port, or a path shorter or longer than sun_path.
Built == {None} \cup Inet
         \cup {FromPath(path) : path \in UNION {[1 .. n -> Chars \cup {Mark}] :
                                                   n \in 1 .. MaxPath + 1}}

TwoHosts == {h1, h2}
TwoPorts == {p1, p2}
TwoChars == {c1, c2}

Init == \/ a \in Address /\ b \in Address /\ net = None
        \/ a = Zero /\ b = Zero /\ net \in Built

Swap == a' = b /\ b' = a /\ UNCHANGED net

\* Through a string, as from a configuration.
PrintedOn == net' \in NaddrFromStr(NaddrToStr(net)) /\ UNCHANGED <<a, b>>

\* Through an entry of the answer to a query.
SerialisedOn == (\E ser \in Ser(net) : net' \in Deser(ser)) /\ UNCHANGED <<a, b>>

Next == Swap \/ PrintedOn \/ SerialisedOn

Spec == Init /\ [][Next]_<<a, b, net>>

-----------------------------------------------------------------------------
\* An address read as a number, most significant byte first: what its first
\* bytes stand for, and all of them.
Numeral(x) ==
  LET upTo[k \in 0 .. AddrLen] == IF k = 0 THEN 0 ELSE upTo[k - 1] * ByteBase + x[k]
  IN  upTo

Value(x) == Numeral(x)[AddrLen]

Largest  == [i \in 1 .. AddrLen |-> ByteBase - 1]
Keyspace == Value(Largest) + 1

\* How far a lies ahead of b on the ring of keys.
Ahead == (Value(a) - Value(b)) % Keyspace

\* No byte of b between the first and the last loses the borrow it is handed.
BorrowsKept == \A i \in 2 .. AddrLen - 1 : b[i] # ByteBase - 1

(***************************************************************************)
(* sn_net_addr_dist measures around the ring in the shorter direction:     *)
(* exactly when a is ahead of b, one too little when it is behind, as long *)
(* as no borrow is lost.                                                   *)
(***************************************************************************)
DistIsRingDistance ==
  BorrowsKept =>
    Value(Dist(a, b)) =
      IF 2 * Ahead < Keyspace THEN Ahead ELSE Keyspace - 1 - Ahead

(***************************************************************************)
(* sn_net_addr_index and sn_net_addr_cmp agree: of two addresses the       *)
(* smaller is the one with the smaller digit at the level where they part, *)
(* so the columns of a row left of self's digit hold the smaller addresses.*)
(***************************************************************************)
IndexAgreesWithOrder ==
  Before(a, b) <=> Level(a, b) < HexLen /\ Hex(a)[Level(a, b) + 1] < Column(a, b)

(***************************************************************************)
(* Levels are an ultrametric: whatever third address the routing goes      *)
(* through, a shares with it the shorter of the other two prefixes.        *)
(***************************************************************************)
LevelIsUltrametric ==
  \A c \in Address : Level(a, c) >= Level(a, b) \/ Level(a, c) >= Level(b, c)

(***************************************************************************)
(* sn_net_addr_to_str drops trailing zeros that may be half a byte, and    *)
(* sn_net_addr_from_hex reads back the same address.                       *)
(***************************************************************************)
HexRoundTrip == FromHex(ToStr(a)) = a

(***************************************************************************)
(* However often a network address is printed and read, or serialised and  *)
(* deserialised, it stays the address of the same endpoint: all of it but  *)
(* for the port, which is not serialised, and for the end of a path that   *)
(* does not fit the buffer strings are read in.                            *)
(***************************************************************************)
Short(n) == Len(NaddrToStr(n).text) < Room

Beginning(n) == SubSeq(n.path, 1, Room)

PassedOnFaithfully ==
  [][/\ PrintedOn => \/ net' = net
                     \/ net.family = "unix" /\ ~Short(net) /\ Beginning(net') = Beginning(net)
     /\ SerialisedOn => \/ net' = net
                        \/ net.family = "inet" /\ net' = [net EXCEPT !.port = net'.port]
    ]_<<a, b, net>>
=============================================================================
