------------------------------- MODULE MCNode -------------------------------
(***************************************************************************)
(* Instances of NodeLife for TLC: a header of two bytes of which one is    *)
(* the length, payloads of one byte at most, closures of two arguments.    *)
(***************************************************************************)
EXTENDS NodeLife

CONSTANT Extra  \* an argument of the application

Args == {Name, Msg, Extra}

\* One argument or two: of two lists in a row one may not fit.
ArgLists == {<<Extra>>, <<Name, Extra>>}

datagram(size, len, sign) == [size |-> size, len |-> len, sign |-> sign]

\* Good; cut short by one byte; unsigned; too long; too short for a length.
Arrivals ==
  {datagram(3, 1, TRUE), datagram(2, 1, TRUE), datagram(3, 1, FALSE),
   datagram(4, 2, TRUE), datagram(0, 0, TRUE)}
=============================================================================
