------------------------------- MODULE Naddr -------------------------------
(***************************************************************************)
(* Network addresses (include/io/naddr.h, src/io/naddr.c) and the ways     *)
(* they change form: read from a string, printed to one, serialised and    *)
(* deserialised.  A string or a serialised address may have been cut or not *)
(* be written in full, so what reading it yields is a set of outcomes,     *)
(* empty where the code answers -1.                                        *)
(*                                                                         *)
(* An address of the internet has a host and a port; one of the UNIX       *)
(* domain has the bytes of sun_path, which need no terminator.  The string *)
(* of an address is its family and, for the UNIX domain, the characters of *)
(* the path; a host and a port are printed and read back as they are.      *)
(***************************************************************************)
EXTENDS Integers, Sequences

CONSTANTS
  Hosts,      \* internet hosts
  Ports,      \* port numbers
  Chars,      \* the characters of paths but for the mark
  Mark,       \* '_', which stands for the NUL of a hidden path
  Nul,        \* '\0'
  MaxPath,    \* SN_IO_NADDR_MAX_PATH_LEN, the size of sun_path (14 in the code)
  PrefixLen   \* the length of "UNIX:" (5 in the code)

ASSUME NaddrAssumption ==
  /\ MaxPath \in Nat /\ PrefixLen \in Nat /\ 1 <= PrefixLen /\ PrefixLen < MaxPath
  /\ Mark # Nul /\ {Mark, Nul} \cap Chars = {}

Path  == [1 .. MaxPath -> Chars \cup {Mark, Nul}]
Inet  == [family : {"inet"}, host : Hosts, port : Ports]
Local == [family : {"unix"}, path : Path]
None  == [family |-> "none"]   \* the zeroed address
Naddr == Inet \cup Local \cup {None}

\* The characters of an array up to its terminator, or all of them.
Until(array) ==
  LET len == CHOOSE n \in 0 .. Len(array) :
               /\ \A i \in 1 .. n : array[i] # Nul
               /\ n = Len(array) \/ array[n + 1] = Nul
  IN  SubSeq(array, 1, len)

(***************************************************************************)
(* sn_io_naddr_local: the mark becomes a NUL, a longer path is cut where   *)
(* sun_path ends.  strncpy is given the size of sun_path for the bytes     *)
(* after its first, so it also writes the one behind it.                   *)
(***************************************************************************)
FromPath(path) ==
  [family |-> "unix",
   path |-> [i \in 1 .. MaxPath |->
               IF i > Len(path) \/ (i = 1 /\ path[i] = Mark) THEN Nul ELSE path[i]]]

(***************************************************************************)
(* sn_io_naddr_to_str, a string of at most MaxPath - 1 characters: the     *)
(* first byte is the mark if it is NUL, the last one is lost.              *)
(***************************************************************************)
NaddrToStrUnmarked(a) ==
  IF a.family # "unix" THEN a
  ELSE [family |-> "unix", text |-> Until([a.path EXCEPT ![MaxPath] = Nul])]

NaddrToStr(a) ==
  IF a.family # "unix" THEN a
  ELSE [family |-> "unix",
        text |-> Until([a.path EXCEPT ![1] = IF @ = Nul THEN Mark ELSE @,
                                      ![MaxPath] = Nul])]

(***************************************************************************)
(* sn_io_naddr_from_str copies as many bytes of the string as a path has,  *)
(* its prefix included.  When that cuts the string the copy ends without a *)
(* terminator and the path goes on with whatever follows it.               *)
(***************************************************************************)
Room == MaxPath - PrefixLen

Tails == UNION {[1 .. n -> Chars \cup {Mark}] : n \in 0 .. PrefixLen + 1}

NaddrFromStr(str) ==
  CASE str.family = "none" -> {}
    [] str.family = "inet" -> {str}
    [] str.family = "unix" /\ Len(str.text) < Room -> {FromPath(str.text)}
    [] str.family = "unix" /\ Len(str.text) >= Room ->
         {FromPath(SubSeq(str.text, 1, Room) \o tail) : tail \in Tails}

(***************************************************************************)
(* sn_io_naddr_ser and sn_io_naddr_deser.  The port is not written when an *)
(* address is serialised, and is read when it is deserialised.             *)
(***************************************************************************)
Ser(a) ==
  CASE a.family = "none" -> {}
    [] a.family = "inet" -> {[type |-> 1, ipv4 |-> a.host]}
    [] a.family = "unix" -> {[type |-> 2, local_path |-> a.path]}

Deser(ser) ==
  CASE ser.type = 1 -> {[family |-> "inet", host |-> ser.ipv4, port |-> p] : p \in Ports}
    [] ser.type = 2 -> {[family |-> "unix", path |-> ser.local_path]}
=============================================================================
