------------------------------ MODULE MCProcess ------------------------------
(***************************************************************************)
(* Instances of Process for TLC: main and another thread, and two          *)
(* datagrams that are good, unsigned or cut short.                         *)
(***************************************************************************)
EXTENDS Process

CONSTANT Other  \* a second thread

TwoThreads == {Main, Other}
Args       == {Name, Msg}
ArgLists   == {<<Name>>}

datagram(size, len, sign) == [size |-> size, len |-> len, sign |-> sign]
Arrivals == {datagram(3, 1, TRUE), datagram(3, 1, FALSE), datagram(2, 1, TRUE)}
=============================================================================
