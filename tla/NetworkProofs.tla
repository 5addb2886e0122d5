---------------------------- MODULE NetworkProofs ----------------------------
(***************************************************************************)
(* What holds of any number of nodes, however their routers change and     *)
(* whatever the network and their processes do to datagrams.  All of it    *)
(* rests on two facts: every packet in flight tells the truth about the    *)
(* message that it carries, or was made in answer to a ping (TruePacket),  *)
(* and a node that handles a packet leaves one datagram, or one upcall, or *)
(* neither (Outcome).                                                      *)
(***************************************************************************)
EXTENDS Network, RoutingProofs, FiniteSetTheorems

Kinds    == {"leak", "overread", "abort"}
Message  == [src : Node, dst : Target, type : Types, len : Length]
Upcall   == [at : Node, len : 0 .. LenModulus - 1, local : BOOLEAN]
OnTheWay == [packet : Packet, to : Node]

\* The packet of a message among those that were sent, or of what came of it.
TruePacket(p, all) ==
  /\ p.id \in 1 .. Len(all)
  /\ p.type = "user" <=> all[p.id].type = "user"
  /\ p.type = "user" => /\ p.len = all[p.id].len % LenModulus
                        /\ p.src = all[p.id].src
                        /\ p.sign <=> p.src \in Signs

\* The upcalls of UpcallsFaithful.
TrueUpcall(u, m) ==
  /\ m.type = "user" /\ u.len = m.len % LenModulus
  /\ u.local => u.at = m.src
  /\ ~u.local => u.len <= MaxLen /\ (u.at \in Checks => m.src \in Signs)

RoutersInv ==
  /\ router \in [Node -> RouterState]
  /\ \A n \in Node : Consistent(router[n], n)

MessagesInv ==
  /\ up \subseteq Node
  /\ sent \in Seq(Message) /\ Len(sent) <= MaxSends
  /\ wire \subseteq OnTheWay
  /\ \A d \in wire : TruePacket(d.packet, sent)
  /\ upcalls \in [Ids -> Seq(Upcall)]
  /\ \A id \in Ids : \A k \in 1 .. Len(upcalls[id]) :
       id <= Len(sent) /\ TrueUpcall(upcalls[id][k], sent[id])
  /\ defects \subseteq Node \X Kinds
  /\ OnlyPingsAbort

CopiesInv ==
  /\ IsFiniteSet(wire)
  /\ used.duplicates \in Nat /\ DOMAIN used = {"changes", "duplicates", "restarts"}
  /\ NotMultiplied

NetworkInv == RoutersInv /\ MessagesInv /\ CopiesInv

-----------------------------------------------------------------------------
(* What the handling of a packet leaves                                    *)

OutcomeType ==
  [sends : SUBSET OnTheWay, upcall : Seq(Upcall), defects : SUBSET Kinds, ret : {0, -1}]

\* The packet, one hop on, or the answer to the ping that it is.
Successor(q, p) ==
  /\ q.id = p.id
  /\ \/ q.type = p.type /\ q.len = p.len /\ q.src = p.src /\ q.sign = p.sign
     \/ p.type = "ping" /\ q.type = "reply"

Outcome(o, n, p, local) ==
  /\ o \in OutcomeType
  /\ \/ \E d \in OnTheWay : o.sends = {d} /\ Successor(d.packet, p) /\ o.upcall = <<>>
     \/ o.sends = {} /\ o.upcall = <<>>
     \/ o.sends = {} /\ p.type = "user" /\ o.upcall = <<[at |-> n, len |-> p.len, local |-> local]>>
  /\ "abort" \in o.defects => p.type # "user"

LEMMA Lengths ==
  /\ MaxLen \in Nat /\ LenModulus \in Nat /\ LenModulus > 0 /\ MaxSends \in Nat
  /\ DefaultTTL \in Nat /\ PingLen \in Nat
  /\ \A len \in Nat : len % LenModulus \in 0 .. LenModulus - 1
BY SizeAssumption

LEMMA NothingDone ==
  ASSUME NEW n, NEW p, NEW local
  PROVE  Outcome(Done, n, p, local) /\ Outcome(Failure, n, p, local)
<1>1. /\ Done \in OutcomeType /\ Failure \in OutcomeType
      /\ Done.sends = {} /\ Done.upcall = <<>> /\ Done.defects = {}
      /\ Failure.sends = {} /\ Failure.upcall = <<>> /\ Failure.defects = {}
  <2>1. <<>> \in Seq(Upcall) /\ {} \in SUBSET OnTheWay /\ {} \in SUBSET Kinds
    OBVIOUS
  <2> QED BY <2>1 DEF OutcomeType, Done, Failure
<1> HIDE DEF Done, Failure
<1> QED BY <1>1 DEF Outcome

\* A failure to send is a leak, and a short ping read past its end.
LEMMA MoreDefects ==
  ASSUME NEW n, NEW p, NEW local, NEW o, Outcome(o, n, p, local),
         NEW more \in SUBSET {"leak", "overread"}
  PROVE  Outcome([o EXCEPT !.defects = @ \cup more], n, p, local)
<1> DEFINE q == [o EXCEPT !.defects = @ \cup more]
<1>1. o \in OutcomeType
  BY DEF Outcome
<1>2. /\ q \in OutcomeType /\ q.sends = o.sends /\ q.upcall = o.upcall
      /\ q.defects = o.defects \cup more
  <2>1. o.defects \cup more \in SUBSET Kinds
    BY <1>1 DEF OutcomeType, Kinds
  <2> QED BY <1>1, <2>1 DEF OutcomeType
<1> HIDE DEF q
<1>3. Outcome(q, n, p, local)
  BY <1>2 DEF Outcome
<1> QED BY <1>3 DEF q

\* A next hop is an entry, and its network address a node's or none.
LEMMA HopType ==
  ASSUME RoutersInv, NEW n \in Node, NEW dst \in Address, NEW hop \in Nexthops(router[n], dst)
  PROVE  hop \in Entry
<1> DEFINE r == router[n]
<1>1. /\ n \in Address /\ r.self \in Entry /\ r.self.addr = n
      /\ r.left \in [1 .. LeafsetSize -> Entry] /\ r.right \in [1 .. LeafsetSize -> Entry]
      /\ r.table \in [Slot -> Entry]
  BY NodeAssumption DEF RoutersInv, Consistent, RouterState, Leafset
<1> HIDE DEF r
<1>2. ASSUME NEW k \in Nat, NEW cands \in [1 .. k -> Entry], NEW level \in Nat
      PROVE  Closest(dst, cands, n, level) \in Entry
  BY <1>1, <1>2, ClosestIsFit
<1>3. ASSUME NEW k \in Nat, NEW bests \in [1 .. k -> Entry]
      PROVE  Best(r, dst, bests) \in Entry
  <2>1. Closest(dst, bests, n, 0) \in Entry
    BY <1>2, <1>3
  <2> QED BY <1>1, <2>1 DEF Best, Entry
<1>4. \A level \in Nat : Closest(dst, r.left, n, level) \in Entry
                         /\ Closest(dst, r.right, n, level) \in Entry
  BY <1>1, <1>2, LeafsetSizeAssumption
<1>5. LeafsetHop(r, dst) \in Entry
  <2> DEFINE bests == <<r.self, Closest(dst, r.left, n, 0), Closest(dst, r.right, n, 0)>>
  <2>1. bests \in [1 .. 3 -> Entry]
    BY <1>1, <1>4
  <2> HIDE DEF bests
  <2>2. Best(r, dst, bests) \in Entry
    BY <1>3, <2>1
  <2> QED BY <1>1, <2>2 DEF LeafsetHop, bests
<1>6. TableHop(r, dst) \in Entry
  <2> DEFINE level == Level(n, dst)
             bests == <<r.self, Closest(dst, Row(r, level), n, 0),
                        Closest(dst, r.left, n, level), Closest(dst, r.right, n, level)>>
  <2>1. CASE SlotOf(r, dst) \notin Slot
    BY <1>1, <2>1 DEF TableHop, Entry
  <2>2. CASE SlotOf(r, dst) \in Slot /\ r.table[SlotOf(r, dst)].is_set
    BY <1>1, <2>2 DEF TableHop
  <2>3. CASE SlotOf(r, dst) \in Slot /\ ~r.table[SlotOf(r, dst)].is_set
    <3>1. level \in 0 .. HexLen - 1 /\ level \in Nat
      BY <1>1, <2>3, ByteBaseFacts DEF SlotOf, Slot
    <3>2. Row(r, level) \in [1 .. HexBase -> Entry]
      BY <1>1, <3>1, HexBaseAssumption DEF Row, Slot
    <3>3. Closest(dst, Row(r, level), n, 0) \in Entry
      BY <1>2, <3>2, HexBaseAssumption
    <3>4. bests \in [1 .. 4 -> Entry]
      BY <1>1, <1>4, <3>1, <3>3
    <3>5. TableHop(r, dst) = Best(r, dst, bests)
      BY <1>1, <2>3 DEF TableHop
    <3> HIDE DEF bests
    <3> QED BY <1>3, <3>4, <3>5
  <2> QED BY <2>1, <2>2, <2>3
<1> QED BY <1>5, <1>6 DEF Nexthops, r

(***************************************************************************)
(* Forwarding q, which is p or came of it, leaves what p may leave when    *)
(* its delivery here does.                                                 *)
(***************************************************************************)
LEMMA ForwardOutcomes ==
  ASSUME RoutersInv, NEW n \in Node, NEW p, NEW q \in Packet, Successor(q, p),
         NEW local, NEW delivered, \A o \in delivered : Outcome(o, n, p, local),
         NEW o \in Forward(n, q, delivered)
  PROVE  Outcome(o, n, p, local)
<1>1. q.dst \in Address /\ q.ttl \in 0 .. DefaultTTL /\ DefaultTTL \in Nat
  BY NodeAssumption, SubsetAssumption, Lengths DEF Packet
<1>2. CASE o = Failure \/ o \in delivered
  BY <1>2, NothingDone
<1>3. ASSUME NEW hop \in Nexthops(router[n], q.dst), q.ttl # 0, hop.net_addr # NoNet,
             o = [Done EXCEPT !.sends = {Datagram([q EXCEPT !.ttl = @ - 1], hop.net_addr)}]
      PROVE  Outcome(o, n, p, local)
  <2> DEFINE d == Datagram([q EXCEPT !.ttl = @ - 1], hop.net_addr)
  <2>1. hop.net_addr \in Node
    <3>1. hop \in Entry
      BY <1>1, HopType
    <3> QED BY <1>3, <3>1, NodeAssumption DEF Entry
  <2>2. q.ttl - 1 \in 0 .. DefaultTTL
    BY <1>1, <1>3
  <2>3. [q EXCEPT !.ttl = @ - 1] \in Packet
    BY <2>2 DEF Packet
  <2>4. Successor([q EXCEPT !.ttl = @ - 1], p)
    BY DEF Successor, Packet
  <2>5. d \in OnTheWay /\ Successor(d.packet, p)
    BY <2>1, <2>3, <2>4 DEF OnTheWay, Datagram
  <2> HIDE DEF d
  <2>6. o = [sends |-> {d}, upcall |-> <<>>, defects |-> {}, ret |-> 0]
    BY <1>3 DEF Done, d
  <2>7. o \in OutcomeType
    BY <2>5, <2>6 DEF OutcomeType
  <2> QED BY <2>5, <2>6, <2>7 DEF Outcome
<1> QED BY <1>2, <1>3 DEF Forward

LEMMA SendTypedOutcomes ==
  ASSUME RoutersInv, NEW n \in Node, NEW p, NEW q \in Packet, Successor(q, p),
         NEW local, NEW delivered, \A o \in delivered : Outcome(o, n, p, local),
         NEW o \in SendTyped(n, q, delivered)
  PROVE  Outcome(o, n, p, local)
<1>1. PICK f \in Forward(n, q, delivered) :
        o = f \/ o = [f EXCEPT !.defects = @ \cup {"leak"}]
  BY DEF SendTyped
<1>2. Outcome(f, n, p, local)
  BY ForwardOutcomes
<1>3. {"leak"} \in SUBSET {"leak", "overread"}
  OBVIOUS
<1>4. Outcome([f EXCEPT !.defects = @ \cup {"leak"}], n, p, local)
  BY <1>2, <1>3, MoreDefects
<1> QED BY <1>1, <1>2, <1>4

LEMMA DeliverOutcomes ==
  ASSUME RoutersInv, NEW n \in Node, NEW p \in Packet, NEW size, NEW local \in BOOLEAN,
         NEW o \in Deliver(n, p, size, local)
  PROVE  Outcome(o, n, p, local)
<1>1. CASE p.type = "user"
  <2>1. PICK r \in {0, -1} :
          \/ o = Failure
          \/ o = [Done EXCEPT !.upcall = <<[at |-> n, len |-> p.len, local |-> local]>>,
                              !.ret = r]
    BY <1>1 DEF Deliver, DeliverUser
  <2>2. [at |-> n, len |-> p.len, local |-> local] \in Upcall
    BY DEF Upcall, Packet
  <2> DEFINE u == [at |-> n, len |-> p.len, local |-> local]
  <2>3. u \in Upcall
    BY <2>2
  <2>4. CASE o = [Done EXCEPT !.upcall = <<u>>, !.ret = r]
    <3> HIDE DEF u
    <3>1. o = [sends |-> {}, upcall |-> <<u>>, defects |-> {}, ret |-> r]
      BY <2>4 DEF Done
    <3>2. <<u>> \in Seq(Upcall)
      BY <2>3
    <3>3. o \in OutcomeType /\ o.sends = {} /\ o.upcall = <<u>> /\ o.defects = {}
      BY <3>1, <3>2 DEF OutcomeType
    <3> QED BY <1>1, <3>3 DEF Outcome, u
  <2> QED BY <2>1, <2>4, NothingDone
<1>2. ASSUME p.type # "user", NEW f \in DeliverReply
      PROVE  Outcome(f, n, p, local)
  <2>1. f = [sends |-> {}, upcall |-> <<>>, defects |-> {"abort"}, ret |-> 0]
    BY <1>2 DEF DeliverReply, Done
  <2>2. f \in OutcomeType
    BY <2>1 DEF OutcomeType, Kinds
  <2> QED BY <1>2, <2>1, <2>2 DEF Outcome
<1>3. CASE p.type = "ping"
  <2> DEFINE q == Pack(n, p.src, "reply", PingLen, p.id)
  <2>1. PingLen % LenModulus \in 0 .. LenModulus - 1 /\ DefaultTTL \in 0 .. DefaultTTL
    BY Lengths
  <2>2. q \in Packet /\ Successor(q, p)
    BY <1>3, <2>1 DEF Packet, Pack, Types, Successor
  <2>3. PICK f \in SendTyped(n, q, DeliverReply), more \in SUBSET {"leak", "overread"} :
          o = [f EXCEPT !.defects = @ \cup more]
    BY <1>3 DEF Deliver, DeliverPing
  <2> HIDE DEF q
  <2>4. Outcome(f, n, p, local)
    BY <1>2, <1>3, <2>2, SendTypedOutcomes
  <2> QED BY <2>3, <2>4, MoreDefects
<1>4. CASE p.type = "reply"
  BY <1>2, <1>4 DEF Deliver
<1> QED BY <1>1, <1>3, <1>4 DEF Packet, Types

\* An iteration of background: an upcall passed both checks.
LEMMA HandledOutcomes ==
  ASSUME RoutersInv, NEW n \in Node, NEW p \in Packet, NEW o \in Handled(n, p)
  PROVE  /\ Outcome(o, n, p, FALSE)
         /\ o.upcall # <<>> => p.len <= MaxLen /\ (n \in Checks => p.sign)
<1>a. p.len \in Nat /\ MaxLen \in Nat
  <2>1. p.len \in 0 .. LenModulus - 1
    BY DEF Packet
  <2> QED BY <2>1, Lengths
<1>0. p.len > MaxLen \/ (p.len <= MaxLen /\ ~(p.len > MaxLen))
  BY <1>a
<1>1. CASE p.len > MaxLen
  <2>1. o = Done
    BY <1>1, <1>a DEF Handled
  <2>2. o.upcall = <<>>
    BY <2>1 DEF Done
  <2> QED BY <2>1, <2>2, NothingDone
<1>2. CASE ~(p.len > MaxLen) /\ n \in Checks /\ ~p.sign
  <2>1. o = [Done EXCEPT !.defects = {"leak"}]
    BY <1>2 DEF Handled
  <2>2. o = [Done EXCEPT !.defects = @ \cup {"leak"}] /\ o.upcall = <<>>
    BY <2>1 DEF Done
  <2>3. {"leak"} \in SUBSET {"leak", "overread"} /\ Outcome(Done, n, p, FALSE)
    BY NothingDone
  <2>4. Outcome([Done EXCEPT !.defects = @ \cup {"leak"}], n, p, FALSE)
    BY <2>3, MoreDefects
  <2> QED BY <2>2, <2>4
<1>3. CASE p.len <= MaxLen /\ ~(p.len > MaxLen) /\ (n \in Checks => p.sign)
  <2>1. o \in Forward(n, p, Deliver(n, p, p.len, FALSE))
    BY <1>3 DEF Handled
  <2>2. Successor(p, p)
    BY DEF Successor
  <2>3. \A f \in Deliver(n, p, p.len, FALSE) : Outcome(f, n, p, FALSE)
    BY DeliverOutcomes
  <2>4. Outcome(o, n, p, FALSE)
    BY <2>1, <2>2, <2>3, ForwardOutcomes
  <2> QED BY <1>3, <2>4
<1> QED BY <1>0, <1>1, <1>2, <1>3

-----------------------------------------------------------------------------
(* What a node that leaves an outcome keeps                                *)

(***************************************************************************)
(* Leave keeps the messages invariant, all being the messages sent by then:*)
(* an upcall is true when the node's checks were made (or it is local).    *)
(***************************************************************************)
LEMMA LeaveKeepsMessages ==
  ASSUME NEW n \in Node, NEW p \in Packet, NEW local \in BOOLEAN, NEW o,
         NEW rest \in SUBSET OnTheWay, NEW all \in Seq(Message),
         up \subseteq Node,
         TruePacket(p, all), \A d \in rest : TruePacket(d.packet, all),
         upcalls \in [Ids -> Seq(Upcall)],
         \A id \in Ids : \A k \in 1 .. Len(upcalls[id]) :
           id <= Len(all) /\ TrueUpcall(upcalls[id][k], all[id]),
         defects \subseteq Node \X Kinds,
         \A m \in Node : <<m, "abort">> \in defects =>
           \E i \in 1 .. Len(all) : all[i].type # "user",
         Outcome(o, n, p, local), Leave(n, p, o, rest),
         local => p.src = n,
         ~local /\ o.upcall # <<>> => p.len <= MaxLen /\ (n \in Checks => p.sign)
  PROVE  /\ up' \subseteq Node
         /\ wire' \subseteq OnTheWay
         /\ \A d \in wire' : TruePacket(d.packet, all)
         /\ upcalls' \in [Ids -> Seq(Upcall)]
         /\ \A id \in Ids : \A k \in 1 .. Len(upcalls'[id]) :
              id <= Len(all) /\ TrueUpcall(upcalls'[id][k], all[id])
         /\ defects' \subseteq Node \X Kinds
         /\ \A m \in Node : <<m, "abort">> \in defects' =>
              \E i \in 1 .. Len(all) : all[i].type # "user"
<1>1. o.sends \subseteq OnTheWay /\ o.upcall \in Seq(Upcall) /\ o.defects \subseteq Kinds
  BY DEF Outcome, OutcomeType
<1>2. p.id \in Ids /\ p.id \in 1 .. Len(all)
  BY DEF Packet, TruePacket
<1>3. \A d \in o.sends : TruePacket(d.packet, all)
  <2>1. ASSUME NEW d \in OnTheWay, Successor(d.packet, p)
        PROVE  TruePacket(d.packet, all)
    BY <2>1 DEF TruePacket, Successor
  <2> QED BY <2>1 DEF Outcome
<1>4. up' \subseteq Node /\ wire' \subseteq OnTheWay /\ defects' \subseteq Node \X Kinds
  <2>1. up' \subseteq Node /\ wire' \subseteq OnTheWay
    BY <1>1 DEF Leave
  <2>2. {n} \X o.defects \subseteq Node \X Kinds
    BY <1>1
  <2> QED BY <2>1, <2>2 DEF Leave
<1>5. \A d \in wire' : TruePacket(d.packet, all)
  BY <1>3 DEF Leave
<1>6. upcalls' = [upcalls EXCEPT ![p.id] = @ \o o.upcall]
  BY DEF Leave
<1>7. upcalls' \in [Ids -> Seq(Upcall)]
  <2>1. upcalls[p.id] \o o.upcall \in Seq(Upcall)
    BY <1>1, <1>2
  <2> QED BY <1>2, <1>6, <2>1
<1>8. ASSUME NEW id \in Ids, NEW k \in 1 .. Len(upcalls'[id])
      PROVE  id <= Len(all) /\ TrueUpcall(upcalls'[id][k], all[id])
  <2>1. CASE id # p.id \/ o.upcall = <<>>
    <3>1. upcalls'[id] = upcalls[id]
      <4>1. upcalls[id] \in Seq(Upcall)
        OBVIOUS
      <4>2. upcalls[id] \o <<>> = upcalls[id]
        BY <4>1
      <4> QED BY <1>2, <1>6, <2>1, <4>2
    <3> QED BY <1>8, <3>1
  <2>2. CASE id = p.id /\ o.upcall # <<>>
    <3> DEFINE u == [at |-> n, len |-> p.len, local |-> local]
               t == upcalls[id]
    <3>1. p.type = "user" /\ o.upcall = <<u>>
      BY <2>2 DEF Outcome
    <3>2. u.at = n /\ u.len = p.len /\ u.local = local
      OBVIOUS
    <3>3. /\ all[id].type = "user" /\ p.len = all[id].len % LenModulus
          /\ p.src = all[id].src /\ (p.sign <=> p.src \in Signs)
      BY <2>2, <3>1 DEF TruePacket
    <3> HIDE DEF u
    <3>4. TrueUpcall(u, all[id])
      <4>1. CASE local
        BY <3>2, <3>3, <4>1 DEF TrueUpcall
      <4>2. CASE ~local
        BY <2>2, <3>2, <3>3, <4>2 DEF TrueUpcall
      <4> QED BY <4>1, <4>2
    <3>5. t \in Seq(Upcall) /\ upcalls'[id] = t \o <<u>> /\ u \in Upcall
      <4>1. u \in Upcall
        BY DEF u, Upcall, Packet
      <4> QED BY <1>2, <1>6, <2>2, <3>1, <4>1
    <3> HIDE DEF t
    <3>6. Len(t \o <<u>>) = Len(t) + 1 /\ Len(t) \in Nat
      BY <3>5
    <3>7. k \in 1 .. Len(t) \/ k = Len(t) + 1
      BY <1>8, <3>5, <3>6
    <3>8. CASE k \in 1 .. Len(t)
      <4>1. upcalls'[id][k] = t[k]
        BY <3>5, <3>8
      <4> QED BY <3>8, <4>1 DEF t
    <3>9. CASE k = Len(t) + 1
      <4>1. upcalls'[id][k] = u
        BY <3>5, <3>9
      <4> QED BY <1>2, <2>2, <3>4, <4>1
    <3> QED BY <3>7, <3>8, <3>9
  <2> QED BY <2>1, <2>2
<1>9. ASSUME NEW m \in Node, <<m, "abort">> \in defects'
      PROVE  \E i \in 1 .. Len(all) : all[i].type # "user"
  <2>1. CASE <<m, "abort">> \in defects
    BY <2>1
  <2>2. CASE <<m, "abort">> \in {n} \X o.defects
    <3>1. p.type # "user"
      BY <2>2 DEF Outcome
    <3> QED BY <1>2, <3>1 DEF TruePacket
  <2> QED BY <1>9, <2>1, <2>2 DEF Leave
<1> QED BY <1>4, <1>5, <1>7, <1>8, <1>9

(***************************************************************************)
(* Leave keeps the count of copies, when the packet that it handles was    *)
(* counted apart from the rest.                                            *)
(***************************************************************************)
Apart(rest, id) == {d \in rest : d.packet.id = id}

LEMMA LeaveKeepsCount ==
  ASSUME NEW n, NEW p \in Packet, NEW local, NEW o, NEW rest, IsFiniteSet(rest),
         upcalls \in [Ids -> Seq(Upcall)],
         Outcome(o, n, p, local), Leave(n, p, o, rest),
         NEW c \in Nat,
         \A id \in Ids : Len(upcalls[id]) + Cardinality(Apart(rest, id)) <= c,
         Len(upcalls[p.id]) + Cardinality(Apart(rest, p.id)) < c
  PROVE  /\ IsFiniteSet(wire')
         /\ \A id \in Ids : Len(upcalls'[id]) + Cardinality(Apart(wire', id)) <= c
<1>1. p.id \in Ids /\ o.sends \subseteq OnTheWay /\ o.upcall \in Seq(Upcall)
  BY DEF Packet, Outcome, OutcomeType
<1>2. /\ wire' = rest \cup o.sends
      /\ upcalls' = [upcalls EXCEPT ![p.id] = @ \o o.upcall]
  BY DEF Leave
<1>3. /\ \A d \in o.sends : d.packet.id = p.id
      /\ o.sends = {} \/ \E d : o.sends = {d} /\ o.upcall = <<>>
  BY DEF Outcome, Successor
<1>4. IsFiniteSet(o.sends) /\ IsFiniteSet(wire')
  <2>1. IsFiniteSet({}) /\ \A d : IsFiniteSet({d})
    BY FS_EmptySet, FS_Singleton
  <2>2. IsFiniteSet(o.sends)
    BY <1>3, <2>1
  <2> QED BY <1>2, <2>2, FS_Union
<1>5. ASSUME NEW id \in Ids
      PROVE  IsFiniteSet(Apart(rest, id)) /\ Cardinality(Apart(rest, id)) \in Nat
             /\ Len(upcalls[id]) \in Nat
  <2>1. Apart(rest, id) \subseteq rest
    BY DEF Apart
  <2> QED BY <2>1, FS_Subset, FS_CardinalityType
<1>6. ASSUME NEW id \in Ids, id # p.id
      PROVE  Len(upcalls'[id]) + Cardinality(Apart(wire', id)) <= c
  <2>1. Apart(wire', id) = Apart(rest, id)
    BY <1>2, <1>3, <1>6 DEF Apart
  <2>2. upcalls'[id] = upcalls[id]
    BY <1>2, <1>6
  <2> QED BY <2>1, <2>2
<1>7. Len(upcalls'[p.id]) + Cardinality(Apart(wire', p.id)) <= c
  <2> DEFINE t == upcalls[p.id]
             a == Apart(rest, p.id)
  <2>1. upcalls'[p.id] = t \o o.upcall /\ t \in Seq(Upcall)
    BY <1>1, <1>2
  <2>2. IsFiniteSet(a) /\ Cardinality(a) \in Nat /\ Len(t) \in Nat /\ Len(t) + Cardinality(a) < c
    BY <1>1, <1>5
  <2>3. Apart(wire', p.id) = a \cup o.sends
    BY <1>2, <1>3 DEF Apart
  <2> HIDE DEF t, a
  <2>4. CASE o.sends = {}
    <3>1. Len(o.upcall) <= 1 /\ Len(o.upcall) \in Nat
      <4>1. Len(<<>>) = 0 /\ \A x : Len(<<x>>) = 1
        OBVIOUS
      <4>2. o.upcall = <<>> \/ \E x : o.upcall = <<x>>
        BY DEF Outcome
      <4>3. CASE o.upcall = <<>>
        BY <4>1, <4>3
      <4>4. ASSUME NEW x, o.upcall = <<x>>
            PROVE  Len(o.upcall) <= 1 /\ Len(o.upcall) \in Nat
        <5>1. Len(o.upcall) = 1
          BY <4>1, <4>4
        <5> QED BY <5>1
      <4> QED BY <4>2, <4>3, <4>4
    <3>2. Len(t \o o.upcall) = Len(t) + Len(o.upcall)
      BY <1>1, <2>1
    <3> QED BY <2>1, <2>2, <2>3, <2>4, <3>1, <3>2
  <2>5. ASSUME NEW d, o.sends = {d}, o.upcall = <<>>
        PROVE  Len(upcalls'[p.id]) + Cardinality(Apart(wire', p.id)) <= c
    <3>1. Cardinality(a \cup {d}) \in Nat /\ Cardinality(a \cup {d}) <= Cardinality(a) + 1
      <4>1. Cardinality(a \cup {d}) = IF d \in a THEN Cardinality(a) ELSE Cardinality(a) + 1
        BY <2>2, FS_AddElement
      <4> QED BY <2>2, <4>1
    <3>2. Len(upcalls'[p.id]) = Len(t)
      <4>1. t \o <<>> = t
        BY <2>1
      <4> QED BY <2>1, <2>5, <4>1
    <3> QED BY <2>2, <2>3, <2>5, <3>1, <3>2
  <2> QED BY <1>3, <2>4, <2>5
<1> QED BY <1>4, <1>6, <1>7

-----------------------------------------------------------------------------
(* The invariant                                                           *)

LEMMA NetworkInit == Init => NetworkInv
<1> SUFFICES ASSUME Init PROVE NetworkInv
  OBVIOUS
<1>1. RoutersInv
  <2>1. \A n \in Node : Consistent(RouterInit(n, n), n)
    BY RouterInitConsistent, NodeAssumption
  <2> QED BY <2>1 DEF Init, RoutersInv, Consistent
<1>2. MessagesInv
  <2>1. \A id \in Ids : Len(upcalls[id]) = 0
    BY DEF Init
  <2>2. <<>> \in Seq(Upcall) /\ <<>> \in Seq(Message) /\ Len(<<>>) = 0
    OBVIOUS
  <2>3. upcalls \in [Ids -> Seq(Upcall)] /\ sent \in Seq(Message) /\ Len(sent) <= MaxSends
    BY <2>2, Lengths DEF Init
  <2>4. OnlyPingsAbort
    BY DEF Init, OnlyPingsAbort
  <2> QED BY <2>1, <2>3, <2>4 DEF Init, MessagesInv
<1>3. CopiesInv
  <2>1. IsFiniteSet(wire) /\ Cardinality(wire) = 0
    BY FS_EmptySet DEF Init
  <2>2. \A id \in Ids : InFlight(id) = wire /\ Len(upcalls[id]) = 0
    BY DEF Init, InFlight
  <2>3. used.duplicates = 0 /\ DOMAIN used = {"changes", "duplicates", "restarts"}
    BY DEF Init
  <2>4. NotMultiplied
    BY <2>1, <2>2, <2>3 DEF NotMultiplied
  <2> QED BY <2>1, <2>3, <2>4 DEF CopiesInv
<1> QED BY <1>1, <1>2, <1>3 DEF NetworkInv

\* Routers that stay as they are.
LEMMA SameRouters ==
  ASSUME RoutersInv, router' = router
  PROVE  RoutersInv'
BY DEF RoutersInv

\* The message that an application sends is the next one.
LEMMA SendKeeps ==
  ASSUME NetworkInv, NEW n \in Node, NEW dst \in Target, NEW type \in Types,
         NEW len \in Length, Send(n, dst, type, len)
  PROVE  NetworkInv'
<1> DEFINE id == Len(sent) + 1
           m  == [src |-> n, dst |-> dst, type |-> type, len |-> len]
           p  == Pack(n, dst, type, len, id)
           all == Append(sent, m)
<1>1. /\ m \in Message /\ sent \in Seq(Message) /\ Len(sent) \in Nat
      /\ Len(sent) < MaxSends /\ MaxSends \in Nat
  BY Lengths DEF Message, NetworkInv, MessagesInv, Send
<1>2. /\ all \in Seq(Message) /\ Len(all) = id /\ all[id] = m
      /\ \A i \in 1 .. Len(sent) : all[i] = sent[i]
  <2> HIDE DEF m
  <2> QED BY <1>1
<1>3. id \in Ids /\ id \in 1 .. Len(all) /\ id <= MaxSends /\ id = Len(sent) + 1
  BY <1>1, <1>2 DEF Ids
<1>4. p \in Packet /\ TruePacket(p, all) /\ p.src = n /\ p.id = id
  <2>1. len % LenModulus \in 0 .. LenModulus - 1 /\ DefaultTTL \in 0 .. DefaultTTL
    BY Lengths, SizeAssumption
  <2>2. p \in Packet
    BY <1>3, <2>1 DEF Packet, Pack
  <2>3. TruePacket(p, all)
    <3>1. /\ p.id = id /\ p.type = type /\ p.len = len % LenModulus /\ p.src = n
          /\ m.type = type /\ m.len = len /\ m.src = n
      BY DEF Pack
    <3>2. p.sign <=> n \in Signs
      BY DEF Pack
    <3> HIDE DEF p, m, id, all
    <3> QED BY <1>2, <1>3, <3>1, <3>2 DEF TruePacket
  <2> QED BY <2>2, <2>3 DEF Pack
<1>5. PICK o \in SendTyped(n, p, Deliver(n, p, len, TRUE)) : Leave(n, p, o, wire)
  BY DEF Send
<1>6. sent' = all /\ router' = router /\ used' = used
  BY DEF Send
<1> HIDE DEF id, m, p, all
<1>7. Outcome(o, n, p, TRUE)
  <2>1. \A f \in Deliver(n, p, len, TRUE) : Outcome(f, n, p, TRUE)
    BY <1>4, DeliverOutcomes DEF NetworkInv
  <2>2. Successor(p, p)
    BY DEF Successor
  <2> QED BY <1>4, <1>5, <2>1, <2>2, SendTypedOutcomes DEF NetworkInv
<1>8. RoutersInv'
  BY <1>6, SameRouters DEF NetworkInv
<1>9. MessagesInv'
  <2>1. /\ up \subseteq Node /\ wire \in SUBSET OnTheWay
        /\ \A d \in wire : TruePacket(d.packet, sent)
        /\ upcalls \in [Ids -> Seq(Upcall)]
        /\ \A i \in Ids : \A k \in 1 .. Len(upcalls[i]) :
             i <= Len(sent) /\ TrueUpcall(upcalls[i][k], sent[i])
        /\ defects \subseteq Node \X Kinds
        /\ \A x \in Node : <<x, "abort">> \in defects =>
             \E i \in 1 .. Len(sent) : sent[i].type # "user"
    BY DEF NetworkInv, MessagesInv, OnlyPingsAbort
  <2>2. \A d \in wire : TruePacket(d.packet, all)
    <3>1. ASSUME NEW q, TruePacket(q, sent) PROVE TruePacket(q, all)
      <4>1. q.id \in 1 .. Len(sent) /\ q.id \in 1 .. Len(all)
        BY <1>1, <1>2, <1>3, <3>1 DEF TruePacket
      <4> QED BY <1>2, <3>1, <4>1 DEF TruePacket
    <3> QED BY <2>1, <3>1
  <2>3. \A i \in Ids : \A k \in 1 .. Len(upcalls[i]) :
          i <= Len(all) /\ TrueUpcall(upcalls[i][k], all[i])
    <3>1. ASSUME NEW i \in Ids, NEW k \in 1 .. Len(upcalls[i])
          PROVE  i <= Len(all) /\ TrueUpcall(upcalls[i][k], all[i])
      <4>1. i \in 1 .. Len(sent) /\ i <= Len(all)
        BY <1>1, <1>2, <1>3, <2>1, <3>1 DEF Ids
      <4>2. TrueUpcall(upcalls[i][k], sent[i])
        BY <2>1, <3>1
      <4> QED BY <1>2, <4>1, <4>2
    <3> QED BY <3>1
  <2>4. \A x \in Node : <<x, "abort">> \in defects =>
          \E i \in 1 .. Len(all) : all[i].type # "user"
    <3>1. 1 .. Len(sent) \subseteq 1 .. Len(all)
      BY <1>1, <1>2, <1>3
    <3> QED BY <1>2, <2>1, <3>1
  <2>5. /\ up' \subseteq Node
        /\ wire' \subseteq OnTheWay
        /\ \A d \in wire' : TruePacket(d.packet, all)
        /\ upcalls' \in [Ids -> Seq(Upcall)]
        /\ \A i \in Ids : \A k \in 1 .. Len(upcalls'[i]) :
             i <= Len(all) /\ TrueUpcall(upcalls'[i][k], all[i])
        /\ defects' \subseteq Node \X Kinds
        /\ \A x \in Node : <<x, "abort">> \in defects' =>
             \E i \in 1 .. Len(all) : all[i].type # "user"
    BY <1>2, <1>4, <1>5, <1>7, <2>1, <2>2, <2>3, <2>4, LeaveKeepsMessages
  <2> QED BY <1>2, <1>3, <1>6, <2>5 DEF MessagesInv, OnlyPingsAbort
<1>10. CopiesInv'
  <2> DEFINE c == 1 + used.duplicates
  <2>1. /\ IsFiniteSet(wire) /\ c \in Nat /\ c >= 1
        /\ \A i \in Ids : Len(upcalls[i]) + Cardinality(Apart(wire, i)) <= c
    BY DEF NetworkInv, CopiesInv, NotMultiplied, InFlight, Apart
  <2>2. upcalls \in [Ids -> Seq(Upcall)]
    BY DEF NetworkInv, MessagesInv
  <2>3. Len(upcalls[id]) + Cardinality(Apart(wire, id)) = 0
    <3>1. ASSUME NEW d \in wire PROVE d.packet.id # id
      <4>1. d.packet.id \in 1 .. Len(sent)
        BY DEF NetworkInv, MessagesInv, TruePacket
      <4> QED BY <1>1, <1>3, <4>1
    <3>2. Apart(wire, id) = {} /\ Cardinality({}) = 0
      BY <3>1, FS_EmptySet DEF Apart
    <3>3. Len(upcalls[id]) \in Nat
      BY <1>3, <2>2
    <3>4. ASSUME Len(upcalls[id]) # 0 PROVE FALSE
      <4>1. 1 \in 1 .. Len(upcalls[id])
        BY <3>3, <3>4
      <4>2. id <= Len(sent)
        BY <1>3, <4>1 DEF NetworkInv, MessagesInv
      <4> QED BY <1>1, <1>3, <4>2
    <3> QED BY <3>2, <3>3, <3>4
  <2> HIDE DEF c
  <2>4. Len(upcalls[id]) + Cardinality(Apart(wire, id)) < c
    BY <2>1, <2>3
  <2>5. /\ IsFiniteSet(wire')
        /\ \A i \in Ids : Len(upcalls'[i]) + Cardinality(Apart(wire', i)) <= c
    BY <1>4, <1>5, <1>7, <2>1, <2>2, <2>4, LeaveKeepsCount
  <2> QED BY <1>6, <2>5 DEF NetworkInv, CopiesInv, NotMultiplied, InFlight, Apart, c
<1> QED BY <1>8, <1>9, <1>10 DEF NetworkInv

\* A node handles a datagram; rest is what stays of those in flight.
LEMMA BackgroundKeepsMessages ==
  ASSUME NetworkInv, NEW n \in Node, NEW d \in wire, NEW rest \in SUBSET wire,
         Background(n, d, rest)
  PROVE  MessagesInv'
<1> DEFINE p == d.packet
<1>1. d \in OnTheWay /\ p \in Packet /\ TruePacket(p, sent)
  BY DEF NetworkInv, MessagesInv, OnTheWay
<1>2. PICK o \in Handled(n, p) : Leave(n, p, o, rest)
  BY DEF Background
<1>3. sent' = sent
  BY DEF Background
<1> HIDE DEF p
<1>4. /\ Outcome(o, n, p, FALSE)
      /\ o.upcall # <<>> => p.len <= MaxLen /\ (n \in Checks => p.sign)
  BY <1>1, <1>2, HandledOutcomes DEF NetworkInv
<1>5. /\ up \subseteq Node /\ rest \in SUBSET OnTheWay /\ sent \in Seq(Message)
      /\ \A e \in rest : TruePacket(e.packet, sent)
      /\ upcalls \in [Ids -> Seq(Upcall)]
      /\ \A i \in Ids : \A k \in 1 .. Len(upcalls[i]) :
           i <= Len(sent) /\ TrueUpcall(upcalls[i][k], sent[i])
      /\ defects \subseteq Node \X Kinds
      /\ \A x \in Node : <<x, "abort">> \in defects =>
           \E i \in 1 .. Len(sent) : sent[i].type # "user"
  BY DEF NetworkInv, MessagesInv, OnlyPingsAbort
<1>6. /\ up' \subseteq Node
      /\ wire' \subseteq OnTheWay
      /\ \A e \in wire' : TruePacket(e.packet, sent)
      /\ upcalls' \in [Ids -> Seq(Upcall)]
      /\ \A i \in Ids : \A k \in 1 .. Len(upcalls'[i]) :
           i <= Len(sent) /\ TrueUpcall(upcalls'[i][k], sent[i])
      /\ defects' \subseteq Node \X Kinds
      /\ \A x \in Node : <<x, "abort">> \in defects' =>
           \E i \in 1 .. Len(sent) : sent[i].type # "user"
  BY <1>1, <1>2, <1>4, <1>5, LeaveKeepsMessages
<1>7. Len(sent) <= MaxSends
  BY DEF NetworkInv, MessagesInv
<1> QED BY <1>3, <1>5, <1>6, <1>7 DEF MessagesInv, OnlyPingsAbort

\* The count of copies, c being what it may be afterwards.
LEMMA BackgroundKeepsCount ==
  ASSUME NetworkInv, NEW n \in Node, NEW d \in wire, NEW rest \in SUBSET wire,
         Background(n, d, rest), NEW c \in Nat,
         \A id \in Ids : Len(upcalls[id]) + Cardinality(Apart(rest, id)) <= c,
         Len(upcalls[d.packet.id]) + Cardinality(Apart(rest, d.packet.id)) < c
  PROVE  /\ IsFiniteSet(wire')
         /\ \A id \in Ids : Len(upcalls'[id]) + Cardinality(Apart(wire', id)) <= c
<1> DEFINE p == d.packet
<1>1. p \in Packet
  BY DEF NetworkInv, MessagesInv, OnTheWay
<1>2. PICK o \in Handled(n, p) : Leave(n, p, o, rest)
  BY DEF Background
<1>3. Len(upcalls[p.id]) + Cardinality(Apart(rest, p.id)) < c
  OBVIOUS
<1> HIDE DEF p
<1>4. Outcome(o, n, p, FALSE)
  BY <1>1, <1>2, HandledOutcomes DEF NetworkInv
<1>5. IsFiniteSet(rest) /\ upcalls \in [Ids -> Seq(Upcall)]
  BY FS_Subset DEF NetworkInv, CopiesInv, MessagesInv
<1> QED BY <1>1, <1>2, <1>3, <1>4, <1>5, LeaveKeepsCount

\* What is counted of each message, and what of it may be lost.
LEMMA Counts ==
  ASSUME NetworkInv, NEW id \in Ids
  PROVE  /\ IsFiniteSet(Apart(wire, id)) /\ Cardinality(Apart(wire, id)) \in Nat
         /\ Len(upcalls[id]) \in Nat
         /\ Len(upcalls[id]) + Cardinality(Apart(wire, id)) <= 1 + used.duplicates
         /\ \A d \in wire :
              LET less == Apart(wire \ {d}, id)
              IN  /\ Cardinality(less) \in Nat
                  /\ Cardinality(less) <= Cardinality(Apart(wire, id))
                  /\ d.packet.id = id =>
                       Cardinality(less) = Cardinality(Apart(wire, id)) - 1
<1>1. IsFiniteSet(wire) /\ Apart(wire, id) \subseteq wire /\ Apart(wire, id) = InFlight(id)
  BY DEF NetworkInv, CopiesInv, Apart, InFlight
<1>2. IsFiniteSet(Apart(wire, id)) /\ Cardinality(Apart(wire, id)) \in Nat
  BY <1>1, FS_Subset, FS_CardinalityType
<1>3. Len(upcalls[id]) \in Nat
  BY DEF NetworkInv, MessagesInv
<1>4. Len(upcalls[id]) + Cardinality(Apart(wire, id)) <= 1 + used.duplicates
  BY <1>1 DEF NetworkInv, CopiesInv, NotMultiplied
<1>5. ASSUME NEW d \in wire
      PROVE  /\ Cardinality(Apart(wire \ {d}, id)) \in Nat
             /\ Cardinality(Apart(wire \ {d}, id)) <= Cardinality(Apart(wire, id))
             /\ d.packet.id = id => Cardinality(Apart(wire \ {d}, id))
                                      = Cardinality(Apart(wire, id)) - 1
  <2>1. CASE d.packet.id = id
    <3>1. Apart(wire \ {d}, id) = Apart(wire, id) \ {d} /\ d \in Apart(wire, id)
      BY <2>1 DEF Apart
    <3>2. Cardinality(Apart(wire, id) \ {d}) = Cardinality(Apart(wire, id)) - 1
      BY <1>2, <3>1, FS_RemoveElement
    <3>3. IsFiniteSet(Apart(wire, id) \ {d})
      BY <1>2, FS_Subset
    <3>4. Cardinality(Apart(wire, id) \ {d}) \in Nat
      BY <3>3, FS_CardinalityType
    <3> DEFINE x == Cardinality(Apart(wire, id))
               y == Cardinality(Apart(wire \ {d}, id))
    <3>5. x \in Nat /\ y \in Nat /\ y = x - 1
      BY <1>2, <3>1, <3>2, <3>4
    <3> HIDE DEF x, y
    <3>6. y \in Nat /\ y <= x /\ y = x - 1
      BY <3>5
    <3> QED BY <3>6 DEF x, y
  <2>2. CASE d.packet.id # id
    <3>1. Apart(wire \ {d}, id) = Apart(wire, id)
      BY <2>2 DEF Apart
    <3> QED BY <1>2, <2>2, <3>1
  <2> QED BY <2>1, <2>2
<1> QED BY <1>2, <1>3, <1>4, <1>5

LEMMA ReceiveKeeps ==
  ASSUME NetworkInv, NEW n \in Node, Receive(n)
  PROVE  NetworkInv'
<1>1. PICK d \in wire : Background(n, d, wire \ {d}) /\ used' = used
  BY DEF Receive
<1>2. RoutersInv'
  BY <1>1, SameRouters DEF NetworkInv, Background
<1>3. MessagesInv'
  BY <1>1, BackgroundKeepsMessages
<1>4. CopiesInv'
  <2> DEFINE c == 1 + used.duplicates
  <2>1. c \in Nat
    BY DEF NetworkInv, CopiesInv
  <2>2. d.packet.id \in Ids
    BY DEF NetworkInv, MessagesInv, OnTheWay, Packet
  <2>3. \A id \in Ids : Len(upcalls[id]) + Cardinality(Apart(wire, id)) <= c
    BY Counts
  <2> HIDE DEF c
  <2>4. \A id \in Ids : Len(upcalls[id]) + Cardinality(Apart(wire \ {d}, id)) <= c
    BY <2>1, <2>3, Counts
  <2>5. Len(upcalls[d.packet.id]) + Cardinality(Apart(wire \ {d}, d.packet.id)) < c
    BY <2>1, <2>2, <2>3, Counts
  <2>6. /\ IsFiniteSet(wire')
        /\ \A id \in Ids : Len(upcalls'[id]) + Cardinality(Apart(wire', id)) <= c
    BY <1>1, <2>1, <2>4, <2>5, BackgroundKeepsCount
  <2> QED BY <1>1, <2>6 DEF NetworkInv, CopiesInv, NotMultiplied, InFlight, Apart, c
<1> QED BY <1>2, <1>3, <1>4 DEF NetworkInv

LEMMA ReceiveCopyKeeps ==
  ASSUME NetworkInv, NEW n \in Node, ReceiveCopy(n)
  PROVE  NetworkInv'
<1>1. PICK d \in wire : Background(n, d, wire)
  BY DEF ReceiveCopy
<1>2. RoutersInv'
  BY <1>1, SameRouters DEF NetworkInv, Background
<1>3. MessagesInv'
  BY <1>1, BackgroundKeepsMessages
<1>4. CopiesInv'
  <2> DEFINE c == 1 + used.duplicates + 1
  <2>1. /\ used.duplicates \in Nat /\ used'.duplicates = used.duplicates + 1
        /\ DOMAIN used' = {"changes", "duplicates", "restarts"}
    BY DEF NetworkInv, CopiesInv, ReceiveCopy
  <2>2. d.packet.id \in Ids /\ c \in Nat
    BY <2>1 DEF NetworkInv, MessagesInv, OnTheWay, Packet
  <2>3. \A id \in Ids : Len(upcalls[id]) + Cardinality(Apart(wire, id)) < c
    BY <2>1, Counts
  <2>4. c = 1 + used'.duplicates
    BY <2>1
  <2> HIDE DEF c
  <2>5. /\ \A id \in Ids : Len(upcalls[id]) + Cardinality(Apart(wire, id)) <= c
        /\ Len(upcalls[d.packet.id]) + Cardinality(Apart(wire, d.packet.id)) < c
    BY <2>2, <2>3, Counts
  <2>6. /\ IsFiniteSet(wire')
        /\ \A id \in Ids : Len(upcalls'[id]) + Cardinality(Apart(wire', id)) <= c
    BY <1>1, <2>2, <2>5, BackgroundKeepsCount
  <2> QED BY <2>1, <2>4, <2>6 DEF CopiesInv, NotMultiplied, InFlight, Apart
<1> QED BY <1>2, <1>3, <1>4 DEF NetworkInv

LEMMA LoseKeeps ==
  ASSUME NetworkInv, NEW d, Lose(d)
  PROVE  NetworkInv'
<1>1. /\ d \in wire /\ wire' = wire \ {d} /\ router' = router /\ up' = up /\ sent' = sent
      /\ upcalls' = upcalls /\ defects' = defects /\ used' = used
  BY DEF Lose
<1>2. RoutersInv' /\ MessagesInv'
  BY <1>1, SameRouters DEF NetworkInv, MessagesInv, OnlyPingsAbort
<1>3. IsFiniteSet(wire')
  BY <1>1, FS_Subset DEF NetworkInv, CopiesInv
<1>4. NotMultiplied'
  <2>1. ASSUME NEW id \in Ids
        PROVE  Len(upcalls[id]) + Cardinality(Apart(wire \ {d}, id)) <= 1 + used.duplicates
    <3>1. used.duplicates \in Nat
      BY DEF NetworkInv, CopiesInv
    <3> QED BY <1>1, <3>1, Counts
  <2> QED BY <1>1, <2>1 DEF NotMultiplied, InFlight, Apart
<1> QED BY <1>1, <1>2, <1>3, <1>4 DEF NetworkInv, CopiesInv

\* The application adds or removes an entry of the router of its node.
LEMMA ChangeKeeps ==
  ASSUME NetworkInv, NEW n \in Node, NEW m \in Node, Learn(n, m) \/ Forget(n, m)
  PROVE  NetworkInv'
<1>1. /\ n \in Address /\ m \in Address /\ m \in NetAddress /\ n # m
      /\ Consistent(router[n], n) /\ SlotOf(router[n], m) \in Slot
  <2>1. n \in Address /\ m \in Address /\ m \in NetAddress /\ n # m
    BY NodeAssumption DEF Learn, Forget
  <2>2. Consistent(router[n], n) /\ router[n].self.addr = n
    BY DEF NetworkInv, RoutersInv, Consistent
  <2> QED BY <2>1, <2>2, LevelOfDifferent DEF SlotOf, Slot
<1>2. PICK r : Consistent(r, n) /\ router' = [router EXCEPT ![n] = r]
  <2>1. CASE Learn(n, m)
    <3>1. Set(m, m) \in Entry /\ Set(m, m).is_set /\ Set(m, m).addr = m
      BY <1>1, EntryTypes
    <3>2. \A r \in AddEntry(router[n], Set(m, m)) : Consistent(r, n)
      BY <1>1, <3>1, AddConsistent
    <3> QED BY <2>1, <3>2 DEF Learn, Change
  <2>2. CASE Forget(n, m)
    <3>1. \A r \in RemoveEntry(router[n], m) : Consistent(r, n)
      BY <1>1, RemoveConsistent
    <3> QED BY <2>2, <3>1 DEF Forget, Change
  <2> QED BY <2>1, <2>2
<1>3. /\ up' = up /\ wire' = wire /\ sent' = sent /\ upcalls' = upcalls /\ defects' = defects
      /\ used' = [used EXCEPT !.changes = @ + 1]
  BY DEF Learn, Forget, Change
<1>4. RoutersInv'
  BY <1>2 DEF NetworkInv, RoutersInv, Consistent
<1>5. MessagesInv'
  BY <1>3 DEF NetworkInv, MessagesInv, OnlyPingsAbort
<1>6. used'.duplicates = used.duplicates /\ DOMAIN used' = DOMAIN used
  BY <1>3 DEF NetworkInv, CopiesInv
<1>7. CopiesInv'
  BY <1>3, <1>6 DEF NetworkInv, CopiesInv, NotMultiplied, InFlight
<1> QED BY <1>4, <1>5, <1>7 DEF NetworkInv

\* A process that dies, and one that starts again with an empty router.
LEMMA RestartKeeps ==
  ASSUME NetworkInv, NEW n \in Node, Crash(n) \/ Restart(n)
  PROVE  NetworkInv'
<1>1. /\ up' \in SUBSET Node /\ wire' = wire /\ sent' = sent /\ upcalls' = upcalls
      /\ defects' = defects /\ router' \in {router, [router EXCEPT ![n] = RouterInit(n, n)]}
      /\ used' \in {used, [used EXCEPT !.restarts = @ + 1]}
  BY DEF NetworkInv, MessagesInv, Crash, Restart
<1>2. Consistent(RouterInit(n, n), n)
  BY NodeAssumption, RouterInitConsistent
<1>3. RoutersInv'
  BY <1>1, <1>2 DEF NetworkInv, RoutersInv, Consistent
<1>4. MessagesInv'
  BY <1>1 DEF NetworkInv, MessagesInv, OnlyPingsAbort
<1>5. used'.duplicates = used.duplicates /\ DOMAIN used' = DOMAIN used
  BY <1>1 DEF NetworkInv, CopiesInv
<1>6. CopiesInv'
  BY <1>1, <1>5 DEF NetworkInv, CopiesInv, NotMultiplied, InFlight
<1> QED BY <1>3, <1>4, <1>6 DEF NetworkInv

(***************************************************************************)
(* Whatever nodes do and whatever becomes of datagrams and processes, the  *)
(* routers stay consistent, the packets in flight tell the truth about the *)
(* messages they carry, and no message multiplies.                         *)
(***************************************************************************)
THEOREM NetworkInvariant == Spec => []NetworkInv
<1>1. NetworkInv /\ [Next]_vars => NetworkInv'
  <2> SUFFICES ASSUME NetworkInv, [Next]_vars PROVE NetworkInv'
    OBVIOUS
  <2>1. CASE UNCHANGED vars
    <3>1. router' = router /\ up' = up /\ wire' = wire /\ sent' = sent
          /\ upcalls' = upcalls /\ defects' = defects /\ used' = used
      BY <2>1 DEF vars
    <3> QED BY <3>1, SameRouters DEF NetworkInv, MessagesInv, CopiesInv, OnlyPingsAbort,
               NotMultiplied, InFlight
  <2>2. ASSUME NEW n \in Node, NEW dst \in Target, NEW type \in Types, NEW len \in Length,
               Send(n, dst, type, len)
        PROVE  NetworkInv'
    BY <2>2, SendKeeps
  <2>3. ASSUME NEW n \in Node, Receive(n) \/ ReceiveCopy(n) PROVE NetworkInv'
    BY <2>3, ReceiveKeeps, ReceiveCopyKeeps
  <2>4. ASSUME NEW d, Lose(d) PROVE NetworkInv'
    BY <2>4, LoseKeeps
  <2>5. ASSUME NEW n \in Node, Discard(n) PROVE NetworkInv'
    BY <2>4, <2>5 DEF Discard
  <2>6. ASSUME NEW n \in Node, NEW m \in Node, Learn(n, m) \/ Forget(n, m) PROVE NetworkInv'
    BY <2>6, ChangeKeeps
  <2>7. ASSUME NEW n \in Node, Crash(n) \/ Restart(n) PROVE NetworkInv'
    BY <2>7, RestartKeeps
  <2> QED BY <2>1, <2>2, <2>3, <2>4, <2>5, <2>6, <2>7 DEF Next
<1> QED BY <1>1, NetworkInit, PTL DEF Spec

\* Every packet in flight has the fields of one, and is on its way to a node.
THEOREM NetworkTypes == Spec => []TypeOK
<1>1. NetworkInv => TypeOK
  <2> SUFFICES ASSUME NetworkInv PROVE TypeOK
    OBVIOUS
  <2>1. DOMAIN upcalls = Ids
    BY DEF NetworkInv, MessagesInv
  <2> QED BY <2>1 DEF NetworkInv, RoutersInv, MessagesInv, OnTheWay, Kinds, TypeOK
<1> QED BY <1>1, NetworkInvariant, PTL

\* A message reaches one upcall at most for each copy that the network made,
\* however the routers of the nodes change and loop meanwhile.
THEOREM NetworkNotMultiplied == Spec => []NotMultiplied
<1>1. NetworkInv => NotMultiplied
  BY DEF NetworkInv, CopiesInv
<1> QED BY <1>1, NetworkInvariant, PTL

\* An upcall gets a user message of the length sent, within the bound of
\* sn_net_packet_recv and past the signature check when it came over the network.
THEOREM NetworkUpcallsFaithful == Spec => []UpcallsFaithful
<1>1. NetworkInv => UpcallsFaithful
  BY DEF NetworkInv, MessagesInv, TrueUpcall, UpcallsFaithful
<1> QED BY <1>1, NetworkInvariant, PTL

\* No assertion of handler.c ends a process before somebody sent a ping or a reply.
THEOREM NetworkOnlyPingsAbort == Spec => []OnlyPingsAbort
<1>1. NetworkInv => OnlyPingsAbort
  BY DEF NetworkInv, MessagesInv
<1> QED BY <1>1, NetworkInvariant, PTL
=============================================================================
