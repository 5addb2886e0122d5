------------------------------ MODULE Network ------------------------------
(***************************************************************************)
(* Nodes that route packets to one another over UDP (src/node.c,           *)
(* src/handler.c, src/net/packet.c).  An iteration of the background loop  *)
(* of a node is one action, and so is a call of sn_node_send_typed on a    *)
(* thread of its process: they share the socket, and the router, whose     *)
(* unsynchronised use is left to another model.                            *)
(*                                                                         *)
(* The sockets are external: a datagram may be lost, delivered again or    *)
(* overtaken, and one for a process that is gone is discarded.             *)
(***************************************************************************)
EXTENDS Routing, FiniteSets

CONSTANTS
  Node,       \* addresses of the nodes; a node's network address is its address
  Target,     \* addresses that applications send to
  Signs,      \* nodes created with a secret key
  Checks,     \* nodes created with check_sign
  Listens,    \* nodes with an upcall
  Length,     \* payload lengths that applications send
  MaxLen,     \* SN_NET_PACKET_MAX_LEN (1000 in the code)
  LenModulus, \* 2^16, the range of the length in the header
  PingLen,    \* sizeof(sn_wire_ping_msg_t) (20 in the code)
  DefaultTTL, \* SN_NET_PACKET_DEFAULT_TTL (32 in the code)
  MaxSends, MaxChanges, MaxDuplicates, MaxRestarts  \* bounds of the model

ASSUME NodeAssumption ==
  Node \subseteq Address \ {Zero} /\ Node \cup {NoNet} = NetAddress
ASSUME SubsetAssumption ==
  /\ Target \subseteq Address
  /\ Signs \subseteq Node /\ Checks \subseteq Node /\ Listens \subseteq Node
ASSUME SizeAssumption ==
  /\ Length \subseteq Nat
  /\ {MaxLen, LenModulus, PingLen, DefaultTTL} \subseteq Nat
  /\ {MaxSends, MaxChanges, MaxDuplicates, MaxRestarts} \subseteq Nat
  /\ MaxLen < LenModulus

Types == {"user", "reply", "ping"}
Ids   == 1 .. MaxSends

VARIABLES
  router,     \* [Node -> RouterState]
  up,         \* nodes whose process runs
  wire,       \* datagrams in flight
  sent,       \* history: the calls of sn_node_send_typed by applications
  upcalls,    \* history: for each send, the upcalls it led to
  defects,    \* history: <<n, "leak">>, <<n, "overread">> or <<n, "abort">>
  used        \* how much of each bound is used up

vars == <<router, up, wire, sent, upcalls, defects, used>>

-----------------------------------------------------------------------------
(* Packets                                                                 *)

\* sn_net_packet_pack and sn_net_packet_sign: the length is cut to 16 bits.
PackUncut(n, dst, type, len, id) ==
  [id |-> id, type |-> type, src |-> n, dst |-> dst, ttl |-> DefaultTTL,
   len |-> len, sign |-> n \in Signs]

Pack(n, dst, type, len, id) ==
  [id |-> id, type |-> type, src |-> n, dst |-> dst, ttl |-> DefaultTTL,
   len |-> len % LenModulus, sign |-> n \in Signs]

Datagram(p, to) == [packet |-> p, to |-> to]

(***************************************************************************)
(* What a call of forward or deliver does: the datagram it sends, the      *)
(* upcall it makes, its return value and the defects it leaves ("abort"    *)
(* when it does not return because an assertion ends the process).         *)
(***************************************************************************)
Done    == [sends |-> {}, upcall |-> <<>>, defects |-> {}, ret |-> 0]
Failure == [Done EXCEPT !.ret = -1]

(***************************************************************************)
(* forward, for a packet whose delivery here would come out as `delivered':*)
(* nothing without TTL; else one hop on, unless the send fails; delivered  *)
(* here when the router knows no better node.                              *)
(***************************************************************************)
ForwardKeepingTTL(n, p, delivered) ==
  IF p.ttl = 0 THEN {Failure}
  ELSE UNION {IF ~hop.is_set THEN delivered
              ELSE IF p.type \notin Types \/ hop.net_addr = NoNet THEN {Failure}
              ELSE {[Done EXCEPT !.sends = {Datagram(p, hop.net_addr)}], Failure} :
              hop \in Nexthops(router[n], p.dst)}

ForwardAndDeliver(n, p, delivered) ==
  IF p.ttl = 0 THEN {Failure}
  ELSE UNION {IF ~hop.is_set THEN delivered
              ELSE IF p.type \notin Types \/ hop.net_addr = NoNet THEN {Failure}
              ELSE {[o EXCEPT !.sends = {Datagram([p EXCEPT !.ttl = @ - 1],
                                                  hop.net_addr)}] : o \in delivered} :
              hop \in Nexthops(router[n], p.dst)}

Forward(n, p, delivered) ==
  IF p.ttl = 0 THEN {Failure}
  ELSE UNION {IF ~hop.is_set THEN delivered
              ELSE IF p.type \notin Types \/ hop.net_addr = NoNet THEN {Failure}
              ELSE {[Done EXCEPT !.sends = {Datagram([p EXCEPT !.ttl = @ - 1],
                                                     hop.net_addr)}], Failure} :
              hop \in Nexthops(router[n], p.dst)}

\* sn_node_send_typed: the packet is not freed when forward returns -1.
SendTyped(n, p, delivered) ==
  {IF o.ret = -1 THEN [o EXCEPT !.defects = @ \cup {"leak"}] ELSE o :
     o \in Forward(n, p, delivered)}

\* deliver_user_handler: whatever the upcall returns, -1 without one.
DeliverUser(n, p, local) ==
  IF n \in Listens
  THEN {[Done EXCEPT !.upcall = <<[at |-> n, len |-> p.len, local |-> local]>>,
                     !.ret = r] : r \in {0, -1}}
  ELSE {Failure}

\* deliver_reply_handler: assert(0).
DeliverReply == {[Done EXCEPT !.defects = {"abort"}]}

\* deliver_ping_handler reads a whole ping, however short the payload of
\* size bytes (and a final 0) is, and sends it back; the reply may be
\* delivered here at once.
DeliverPing(n, p, size) ==
  {[o EXCEPT !.defects = @ \cup (IF size + 1 < PingLen THEN {"overread"} ELSE {})] :
     o \in SendTyped(n, Pack(n, p.src, "reply", PingLen, p.id), DeliverReply)}

DeliverMisrouted(n, p, size, local) ==
  CASE p.type = "user"  -> DeliverReply
    [] p.type = "reply" -> DeliverPing(n, p, size)
    [] p.type = "ping"  -> DeliverUser(n, p, local)
    [] OTHER            -> {Failure}

Deliver(n, p, size, local) ==
  CASE p.type = "user"  -> DeliverUser(n, p, local)
    [] p.type = "reply" -> DeliverReply
    [] p.type = "ping"  -> DeliverPing(n, p, size)
    [] OTHER            -> {Failure}

-----------------------------------------------------------------------------
(* Actions                                                                 *)

Init ==
  /\ router  = [n \in Node |-> RouterInit(n, n)]
  /\ up      = Node
  /\ wire    = {}
  /\ sent    = <<>>
  /\ upcalls = [id \in Ids |-> <<>>]
  /\ defects = {}
  /\ used    = [changes |-> 0, duplicates |-> 0, restarts |-> 0]

\* Node n, having handled packet p, leaves what o says; `rest' stays in flight.
Leave(n, p, o, rest) ==
  /\ wire'    = rest \cup o.sends
  /\ up'      = IF "abort" \in o.defects THEN up \ {n} ELSE up
  /\ upcalls' = [upcalls EXCEPT ![p.id] = @ \o o.upcall]
  /\ defects' = defects \cup ({n} \X o.defects)

\* sn_node_send and sn_node_send_typed, called by the application.
Send(n, dst, type, len) ==
  /\ n \in up
  /\ Len(sent) < MaxSends
  /\ sent' = Append(sent, [src |-> n, dst |-> dst, type |-> type, len |-> len])
  /\ LET p == Pack(n, dst, type, len, Len(sent) + 1)
     IN  \E o \in SendTyped(n, p, Deliver(n, p, len, TRUE)) : Leave(n, p, o, wire)
  /\ UNCHANGED <<router, used>>

(***************************************************************************)
(* One iteration of background: sn_net_packet_recv discards a packet that  *)
(* is too long; one whose signature does not check is rejected and never   *)
(* freed; any other is forwarded, and freed whatever forward returns.      *)
(***************************************************************************)
HandledUnchecked(n, p) ==
  IF p.len > MaxLen THEN {Done}
  ELSE Forward(n, p, Deliver(n, p, p.len, FALSE))

Handled(n, p) ==
  IF p.len > MaxLen THEN {Done}
  ELSE IF n \in Checks /\ ~p.sign THEN {[Done EXCEPT !.defects = {"leak"}]}
  ELSE Forward(n, p, Deliver(n, p, p.len, FALSE))

Background(n, d, rest) ==
  /\ n \in up
  /\ d.to = n
  /\ \E o \in Handled(n, d.packet) : Leave(n, d.packet, o, rest)
  /\ UNCHANGED <<router, sent>>

Receive(n) ==
  \E d \in wire : Background(n, d, wire \ {d}) /\ UNCHANGED used

\* The network delivers a datagram and keeps a copy of it.
ReceiveCopy(n) ==
  /\ used.duplicates < MaxDuplicates
  /\ \E d \in wire : Background(n, d, wire)
  /\ used' = [used EXCEPT !.duplicates = @ + 1]

Lose(d) ==
  /\ d \in wire
  /\ wire' = wire \ {d}
  /\ UNCHANGED <<router, up, sent, upcalls, defects, used>>

\* A datagram for a process that is gone.
Discard(n) == n \notin up /\ \E d \in wire : d.to = n /\ Lose(d)

\* The application changes the router of its node.
Change(n, outcomes) ==
  /\ n \in up
  /\ used.changes < MaxChanges
  /\ used' = [used EXCEPT !.changes = @ + 1]
  /\ \E r \in outcomes : router' = [router EXCEPT ![n] = r]
  /\ UNCHANGED <<up, wire, sent, upcalls, defects>>

Learn(n, m)  == n # m /\ Change(n, AddEntry(router[n], Set(m, m)))
Forget(n, m) == n # m /\ Change(n, RemoveEntry(router[n], m))

\* The process of a node dies, or one that died starts again with an empty router.
Crash(n) ==
  /\ n \in up
  /\ used.restarts < MaxRestarts
  /\ up' = up \ {n}
  /\ UNCHANGED <<router, wire, sent, upcalls, defects, used>>

Restart(n) ==
  /\ n \notin up
  /\ used.restarts < MaxRestarts
  /\ used'   = [used EXCEPT !.restarts = @ + 1]
  /\ up'     = up \cup {n}
  /\ router' = [router EXCEPT ![n] = RouterInit(n, n)]
  /\ UNCHANGED <<wire, sent, upcalls, defects>>

Next ==
  \/ \E n \in Node :
       \/ \E dst \in Target, type \in Types, len \in Length : Send(n, dst, type, len)
       \/ Receive(n) \/ ReceiveCopy(n) \/ Discard(n)
       \/ \E m \in Node : Learn(n, m) \/ Forget(n, m)
       \/ Crash(n) \/ Restart(n)
  \/ \E d \in wire : Lose(d)

Spec == Init /\ [][Next]_vars

\* The background thread of a running node keeps receiving; the kernel drops
\* what nobody will receive.
Fairness == \A n \in Node : WF_vars(Receive(n)) /\ WF_vars(Discard(n))

FairSpec == Spec /\ Fairness

-----------------------------------------------------------------------------
(* Properties                                                              *)

Packet ==
  [id : Ids, type : Types, src : Node, dst : Target \cup Node,
   ttl : 0 .. DefaultTTL, len : 0 .. LenModulus - 1, sign : BOOLEAN]

TypeOK ==
  /\ router \in [Node -> RouterState]
  /\ up \subseteq Node
  /\ wire \subseteq [packet : Packet, to : Node]
  /\ Len(sent) <= MaxSends
  /\ DOMAIN upcalls = Ids
  /\ defects \subseteq Node \X {"leak", "overread", "abort"}

(***************************************************************************)
(* Nodes do not multiply messages: whatever the routers do meanwhile, a    *)
(* message reaches one upcall at most for each copy the network made, and  *)
(* none while it is still on its way and was never copied.                 *)
(***************************************************************************)
InFlight(id) == {d \in wire : d.packet.id = id}

NotMultiplied ==
  \A id \in Ids :
    Len(upcalls[id]) + Cardinality(InFlight(id)) <= 1 + used.duplicates

(***************************************************************************)
(* An upcall gets a user message of the length that was sent, cut to what  *)
(* the header can say.  One that came over the network is short enough for *)
(* sn_net_packet_recv and, where signatures are checked, was sent by a     *)
(* node that signs.                                                        *)
(***************************************************************************)
UpcallsFaithful ==
  \A id \in Ids : \A k \in 1 .. Len(upcalls[id]) :
    LET u == upcalls[id][k]
        m == sent[id]
    IN  /\ m.type = "user" /\ u.len = m.len % LenModulus
        /\ u.local => u.at = m.src
        /\ ~u.local => /\ u.len <= MaxLen
                       /\ u.at \in Checks => m.src \in Signs

(***************************************************************************)
(* No user message ends a process: an assertion fails only after somebody  *)
(* sent a ping or a reply.                                                 *)
(***************************************************************************)
OnlyPingsAbort ==
  \A n \in Node : <<n, "abort">> \in defects =>
    \E i \in 1 .. Len(sent) : sent[i].type # "user"

(***************************************************************************)
(* A packet carries a lower TTL over every hop, so that even where two     *)
(* routers send it back and forth the network falls silent.                *)
(***************************************************************************)
EventuallyQuiet == <>[](wire = {})

-----------------------------------------------------------------------------
(* What the documentation and the code's own assertions say                *)

(***************************************************************************)
(* packet.h: the packet that recv or pack returns must be freed.           *)
(***************************************************************************)
PacketsFreed == \A n \in Node : <<n, "leak">> \notin defects

(***************************************************************************)
(* handler.c: deliver_reply_handler is never reached (assert(0)), although *)
(* every ping is answered by a reply.                                      *)
(***************************************************************************)
RepliesNeverDelivered == \A n \in Node : <<n, "abort">> \notin defects
=============================================================================
