------------------------------ MODULE NodeLife ------------------------------
(***************************************************************************)
(* The life of one node in its process (src/node.c, with src/net/packet.c  *)
(* and src/io/sock.c as the background thread uses them): its creation and *)
(* what is left when that fails, its background thread step by step from   *)
(* one datagram to the next, its callbacks, and its destruction, which     *)
(* cancels and joins that thread wherever it is.                           *)
(*                                                                         *)
(* The thread is cancelled where it calls the kernel; a callback is code   *)
(* of the application that may contain such a place or not.  A ping that   *)
(* is delivered makes the thread pack, send and free a reply while it      *)
(* holds the ping; a reply that is delivered ends the process.  Which way  *)
(* a packet goes is decided in Network; here it goes any way.              *)
(***************************************************************************)
EXTENDS Closure, FiniteSets

CONSTANTS
  CheckSign,    \* the node was created with check_sign
  Name, Msg,    \* arguments of the log callback: "sndnet" and the message
  Curryings,    \* the lists of arguments that the application curries
  HeaderLen,    \* sizeof(sn_wire_net_header_t) (132 in the code)
  LenSize,      \* sizeof of the length in it (2 in the code)
  MaxLen,       \* SN_NET_PACKET_MAX_LEN (1000 in the code)
  Datagrams,    \* what arrives: sizes, lengths in the header and signatures
  MaxArrivals,  \* bound of the model: datagrams that arrive for a node
  MaxFaults     \* bound of the model: failures of the kernel and the allocator

ASSUME NodeAssumption ==
  /\ CheckSign \in BOOLEAN
  /\ {Name, Msg} \subseteq Arg /\ Curryings \subseteq Seq(Arg)
  /\ {HeaderLen, LenSize, MaxLen, MaxArrivals, MaxFaults} \subseteq Nat
  /\ LenSize <= HeaderLen
  /\ Datagrams \subseteq [size : Nat, len : Nat, sign : BOOLEAN]

Resources == {"socket", "vec", "mutex"}
Steps     == {"discard", "alloc", "recv", "verify", "route", "send", "log", "upcall", "free",
              "answer", "reply", "free_reply", "abort"}

VARIABLES
  held,       \* what the node holds of the system
  app,        \* the application: "out" (of a node), "up", "joining" its thread, or
              \* "aborted" with the process
  cancelled,  \* pthread_cancel was called on the thread
  bg,         \* the background thread: "none", "running" or "ended"
  todo,       \* what it does before it peeks at the next datagram
  packet,     \* the packet it holds: a position in arrived, or 0
  reply,      \* 1 while it holds the packet of a reply as well, or 0
  calling,    \* the callback it is in: "nothing", "upcall", "default" or "custom"
  upcall,     \* sns->upcall is not NULL
  log,        \* sns->log_closure: "default" or "custom"
  default,    \* sns->default_log_closure
  custom,     \* a closure of the application
  memory,     \* of that closure: "live", "freed", or "early" when freed while
              \* the node was up, after having been replaced
  curried,    \* history: the arguments that were curried into it
  arrived,    \* history: the datagrams that arrived for this node
  queue,      \* the socket's buffer: positions in arrived
  handled,    \* history: the positions of those that were forwarded or delivered
  packets,    \* packets that the thread of this node has allocated and not freed
  faults      \* how often the kernel or the allocator has failed

thread    == <<bg, todo, packet, reply, calling>>
callbacks == <<upcall, log, default>>
closure   == <<custom, memory, curried>>
traffic   == <<arrived, queue, handled>>
nodeVars  == <<held, app, cancelled, thread, callbacks, closure, traffic, packets, faults>>

Unwritten == [c_argc |-> 0, c_argv |-> [i \in 1 .. MaxCurrying |-> Garbage]]

NodeInit ==
  /\ held = {} /\ app = "out" /\ cancelled = FALSE
  /\ bg = "none" /\ todo = <<>> /\ packet = 0 /\ reply = 0 /\ calling = "nothing"
  /\ upcall = FALSE /\ log = "default" /\ default = Unwritten
  /\ custom = Unwritten /\ memory = "freed" /\ curried = <<>>
  /\ arrived = <<>> /\ queue = <<>> /\ handled = <<>>
  /\ packets = 0 /\ faults = 0

\* A call that can fail, and does.
Fault == faults < MaxFaults /\ faults' = faults + 1

-----------------------------------------------------------------------------
(* Creation and destruction                                                *)

\* What the node holds before the step of sn_node_at_socket that fails, and
\* what sn_node_at_socket gives back then.
AcquiredBefore(step) ==
  IF step \in {"get_name", "vec"} THEN {"socket"} ELSE Resources

ReleasedForgetful(step) == {}

Released(step) == IF step = "thread" THEN {"mutex", "vec"} ELSE {}

(***************************************************************************)
(* sn_node_at_port without a socket, and sn_node_at_port where sn_node_at_ *)
(* socket goes well or fails to get the socket's name, to allocate the     *)
(* vector, or to start the thread: the socket is closed again.             *)
(***************************************************************************)
AtNoPort ==
  app = "out" /\ Fault /\ UNCHANGED <<held, app, cancelled, thread, callbacks,
                                      closure, traffic, packets>>

AtPort(failing) ==
  /\ app = "out"
  /\ upcall' = FALSE /\ log' = "default" /\ default' = InitCurried(default, <<Name>>)
  /\ IF failing = "none"
     THEN held' = Resources /\ app' = "up" /\ bg' = "running" /\ UNCHANGED faults
     ELSE /\ held' = (AcquiredBefore(failing) \ Released(failing)) \ {"socket"}
          /\ Fault /\ bg' = "none" /\ UNCHANGED app
  /\ cancelled' = FALSE /\ todo' = <<>> /\ packet' = 0 /\ reply' = 0 /\ calling' = "nothing"
  /\ arrived' = <<>> /\ queue' = <<>> /\ handled' = <<>> /\ packets' = 0
  /\ UNCHANGED closure

CancelNobody ==
  /\ app = "up"
  /\ app' = "joining"
  /\ UNCHANGED <<held, cancelled, thread, callbacks, closure, traffic, packets, faults>>

\* sn_node_destroy: pthread_cancel, then, once pthread_join returns, the rest.
Cancel ==
  /\ app = "up"
  /\ app' = "joining" /\ cancelled' = TRUE
  /\ UNCHANGED <<held, thread, callbacks, closure, traffic, packets, faults>>

JoinNobody ==
  /\ app = "joining"
  /\ app' = "out" /\ held' = {}
  /\ UNCHANGED <<cancelled, thread, callbacks, closure, traffic, packets, faults>>

Join ==
  /\ app = "joining" /\ bg = "ended"
  /\ app' = "out" /\ held' = {}
  /\ UNCHANGED <<cancelled, thread, callbacks, closure, traffic, packets, faults>>

-----------------------------------------------------------------------------
(* Callbacks                                                               *)

nodeButCallbacks == <<held, app, cancelled, thread, default, traffic, packets, faults>>

SetUpcall(set) ==
  /\ app = "up"
  /\ upcall' = set
  /\ UNCHANGED <<nodeButCallbacks, log, closure>>

\* NULL stands for the default closure.
SetLogCallback(which) ==
  /\ app = "up" /\ (which = "custom" => memory = "live")
  /\ log' = which
  /\ UNCHANGED <<nodeButCallbacks, upcall, closure>>

\* The application makes a closure, curries it before it installs it, and
\* frees it after it replaced it or destroyed the node.
InitClosure ==
  /\ memory # "live"
  /\ custom' = ClosureInit(custom) /\ memory' = "live" /\ curried' = <<>>
  /\ UNCHANGED <<nodeButCallbacks, upcall, log>>

CurryClosure(args) ==
  /\ memory = "live" /\ log = "default" /\ calling # "custom"
  /\ LET c == Curry(custom, args)
     IN  /\ custom'  = c.closure
         /\ curried' = IF c.ret = 0 THEN curried \o args ELSE curried
  /\ UNCHANGED <<nodeButCallbacks, upcall, log, memory>>

FreeClosure ==
  /\ memory = "live" /\ app # "joining" /\ (app = "up" => log = "default")
  /\ memory' = IF app = "out" THEN "freed" ELSE "early"
  /\ UNCHANGED <<nodeButCallbacks, upcall, log, custom, curried>>

-----------------------------------------------------------------------------
(* The background thread                                                   *)

Arrive(d) ==
  /\ "socket" \in held /\ Len(arrived) < MaxArrivals
  /\ arrived' = Append(arrived, d)
  /\ queue'   = Append(queue, Len(arrived) + 1)
  /\ UNCHANGED <<held, app, cancelled, thread, callbacks, closure, handled, packets, faults>>

Running == bg = "running" /\ calling = "nothing"

At(step) == Running /\ todo # <<>> /\ Head(todo) = step

\* A step at which a thread that was cancelled does not arrive any more.
Kernel(step) == At(step) /\ ~cancelled

notThread == <<held, app, cancelled, callbacks, closure>>

First == arrived[Head(queue)]

PeekOnlyRunts ==
  /\ Running /\ todo = <<>> /\ ~cancelled
  /\ \/ Fault /\ UNCHANGED todo
     \/ /\ queue # <<>> /\ (First.len <= MaxLen \/ First.size < LenSize)
        /\ todo' = IF First.size < LenSize THEN <<"discard">> ELSE <<"alloc">>
        /\ UNCHANGED faults
     \/ /\ queue # <<>> /\ First.len > MaxLen /\ First.size >= LenSize
        /\ UNCHANGED <<todo, faults>>
  /\ UNCHANGED <<notThread, bg, packet, reply, calling, traffic, packets>>

\* sn_net_packet_recv, up to what it finds out by peeking.
Peek ==
  /\ Running /\ todo = <<>> /\ ~cancelled
  /\ \/ Fault /\ UNCHANGED todo
     \/ /\ queue # <<>>
        /\ todo' = IF First.size < LenSize \/ First.len > MaxLen
                   THEN <<"discard">> ELSE <<"alloc">>
        /\ UNCHANGED faults
  /\ UNCHANGED <<notThread, bg, packet, reply, calling, traffic, packets>>

Discard ==
  /\ Kernel("discard")
  /\ todo' = <<>>
  /\ \/ Fault /\ UNCHANGED queue
     \/ queue' = Tail(queue) /\ UNCHANGED faults
  /\ UNCHANGED <<notThread, bg, packet, reply, calling, arrived, handled, packets>>

\* malloc; without memory the datagram stays where it is.
Alloc ==
  /\ At("alloc")
  /\ \/ Fault /\ todo' = <<>> /\ UNCHANGED <<packet, packets>>
     \/ /\ todo' = <<"recv">> /\ packet' = Head(queue) /\ packets' = packets + 1
        /\ UNCHANGED faults
  /\ UNCHANGED <<notThread, bg, reply, calling, traffic>>

RecvUnmeasured ==
  /\ Kernel("recv")
  /\ \/ Fault /\ todo' = <<>> /\ packet' = 0 /\ UNCHANGED <<queue, packets>>
     \/ /\ queue' = Tail(queue) /\ UNCHANGED <<packet, packets, faults>>
        /\ todo' = <<"verify">>
  /\ UNCHANGED <<notThread, bg, reply, calling, arrived, handled>>

RecvGoingOn ==
  /\ Kernel("recv")
  /\ \/ Fault /\ todo' = <<>> /\ packet' = 0 /\ UNCHANGED <<queue, packets>>
     \/ /\ queue' = Tail(queue) /\ UNCHANGED <<packet, faults>>
        /\ packets' = IF First.size < HeaderLen + First.len THEN packets - 1 ELSE packets
        /\ todo' = <<"verify">>
  /\ UNCHANGED <<notThread, bg, reply, calling, arrived, handled>>

\* Nobody frees the packet of a datagram that cannot be received after all.
Recv ==
  /\ Kernel("recv")
  /\ \/ Fault /\ todo' = <<>> /\ packet' = 0 /\ UNCHANGED <<queue, packets>>
     \/ /\ queue' = Tail(queue) /\ UNCHANGED faults
        /\ IF First.size < HeaderLen + First.len
           THEN todo' = <<>> /\ packet' = 0 /\ packets' = packets - 1
           ELSE todo' = <<"verify">> /\ UNCHANGED <<packet, packets>>
  /\ UNCHANGED <<notThread, bg, reply, calling, arrived, handled>>

\* A packet that is rejected is logged and not freed.
Verify ==
  /\ At("verify")
  /\ IF CheckSign /\ ~arrived[packet].sign
     THEN todo' = <<"log">> /\ packet' = 0
     ELSE todo' = <<"route">> /\ UNCHANGED packet
  /\ UNCHANGED <<notThread, bg, reply, calling, traffic, packets, faults>>

(***************************************************************************)
(* The ways through forward and deliver: sent on, without TTL or delivered *)
(* without a handler, not sent for its type, to the upcall, and to the     *)
(* handlers of pings and replies.                                          *)
(***************************************************************************)
Routes ==
  {<<"send", "log", "free">>, <<"log", "free">>, <<"free">>, <<"log", "upcall", "free">>,
   <<"log", "answer", "free">>, <<"log", "abort">>}

Route ==
  /\ At("route")
  /\ handled' = Append(handled, packet)
  /\ todo' \in Routes
  /\ UNCHANGED <<notThread, bg, packet, reply, calling, arrived, queue, packets, faults>>

\* sn_net_packet_send: a failure only changes what is logged.
Send ==
  /\ Kernel("send")
  /\ todo' = Tail(todo)
  /\ UNCHANGED <<notThread, bg, packet, reply, calling, traffic, packets, faults>>

\* A reply is sent to the next hop, or the node delivers it to itself.
Answers == {<<"reply", "log", "free_reply", "free">>, <<"log", "abort">>}

\* deliver_ping_handler: sn_node_send_typed packs a reply, if there is memory.
Answer ==
  /\ At("answer")
  /\ \/ Fault /\ todo' = Tail(todo) /\ UNCHANGED <<reply, packets>>
     \/ todo' \in Answers /\ reply' = 1 /\ packets' = packets + 1 /\ UNCHANGED faults
  /\ UNCHANGED <<notThread, bg, packet, calling, traffic>>

SendReplyForgotten ==
  /\ Kernel("reply")
  /\ todo' = <<"log", "free">> /\ reply' = 0 /\ (Fault \/ UNCHANGED faults)
  /\ UNCHANGED <<notThread, bg, packet, calling, traffic, packets>>

\* sn_node_send_typed does not free a reply that could not be sent.
SendReply ==
  /\ Kernel("reply")
  /\ \/ Fault /\ todo' = <<"log", "free">> /\ reply' = 0
     \/ todo' = Tail(todo) /\ UNCHANGED <<reply, faults>>
  /\ UNCHANGED <<notThread, bg, packet, calling, traffic, packets>>

FreeReply ==
  /\ At("free_reply")
  /\ todo' = Tail(todo) /\ reply' = 0 /\ packets' = packets - 1
  /\ UNCHANGED <<notThread, bg, packet, calling, traffic, faults>>

\* deliver_reply_handler: an assertion that fails ends the process, and with it
\* all that it holds.
Abort ==
  /\ At("abort")
  /\ app' = "aborted" /\ held' = {} /\ packets' = 0
  /\ bg' = "none" /\ todo' = <<>> /\ packet' = 0 /\ reply' = 0
  /\ UNCHANGED <<cancelled, calling, callbacks, closure, traffic, faults>>

\* call_log_cb and sn_node_upcall load the pointer, then call what they loaded.
LoadLog ==
  /\ At("log")
  /\ calling' = log
  /\ UNCHANGED <<notThread, bg, todo, packet, reply, traffic, packets, faults>>

LoadUpcall ==
  /\ At("upcall")
  /\ IF upcall THEN calling' = "upcall" /\ UNCHANGED todo
               ELSE todo' = Tail(todo) /\ UNCHANGED calling
  /\ UNCHANGED <<notThread, bg, packet, reply, traffic, packets, faults>>

CallbackReturns ==
  /\ bg = "running" /\ calling # "nothing"
  /\ calling' = "nothing" /\ todo' = Tail(todo)
  /\ UNCHANGED <<notThread, bg, packet, reply, traffic, packets, faults>>

Free ==
  /\ At("free")
  /\ todo' = <<>> /\ packet' = 0 /\ packets' = packets - 1
  /\ UNCHANGED <<notThread, bg, reply, calling, traffic, faults>>

\* The thread acts on its cancellation: in the kernel, or in a callback that
\* calls it.
End ==
  /\ bg = "running" /\ cancelled
  /\ \/ calling # "nothing" \/ todo = <<>>
     \/ At("discard") \/ At("recv") \/ At("send") \/ At("reply")
  /\ bg' = "ended" /\ todo' = <<>> /\ packet' = 0 /\ reply' = 0 /\ calling' = "nothing"
  /\ UNCHANGED <<notThread, traffic, packets, faults>>

Background ==
  \/ Peek \/ Discard \/ Alloc \/ Recv \/ Verify \/ Route
  \/ Send \/ Answer \/ SendReply \/ FreeReply \/ LoadLog \/ LoadUpcall
  \/ CallbackReturns \/ Free \/ End

-----------------------------------------------------------------------------
Application ==
  /\ app # "aborted"
  /\ \/ AtNoPort
     \/ \E failing \in {"get_name", "vec", "thread", "none"} : AtPort(failing)
     \/ Cancel \/ Join
     \/ \E set \in BOOLEAN : SetUpcall(set)
     \/ \E which \in {"default", "custom"} : SetLogCallback(which)
     \/ InitClosure \/ FreeClosure
     \/ \E args \in Curryings : CurryClosure(args)

NodeNext == Application \/ Background \/ Abort \/ \E d \in Datagrams : Arrive(d)

\* The thread is scheduled, callbacks return, and pthread_join returns once
\* the thread has ended.
NodeFairness == WF_nodeVars(Background \/ Abort) /\ WF_nodeVars(Join)

NodeSpec == NodeInit /\ [][NodeNext]_nodeVars /\ NodeFairness

-----------------------------------------------------------------------------
(* Properties                                                              *)

NodeTypeOK ==
  /\ held \subseteq Resources
  /\ app \in {"out", "up", "joining", "aborted"} /\ cancelled \in BOOLEAN
  /\ bg \in {"none", "running", "ended"}
  /\ todo \in Seq(Steps) /\ packet \in 0 .. MaxArrivals /\ reply \in 0 .. 1
  /\ calling \in {"nothing", "upcall", "default", "custom"}
  /\ upcall \in BOOLEAN /\ log \in {"default", "custom"}
  /\ default \in ClosureState /\ custom \in ClosureState
  /\ memory \in {"live", "freed", "early"} /\ curried \in Seq(Arg)
  /\ arrived \in Seq(Datagrams) /\ {queue, handled} \subseteq Seq(1 .. MaxArrivals)
  /\ packets \in Nat /\ faults \in 0 .. MaxFaults

(***************************************************************************)
(* The background thread never runs without the socket, the mutex and the  *)
(* vector of its node: not while it is created, not after creation failed, *)
(* not while it is destroyed, wherever the thread was when it was          *)
(* cancelled.                                                              *)
(***************************************************************************)
NoUseAfterRelease == bg = "running" => held = Resources

(***************************************************************************)
(* When sn_node_at_port has failed or sn_node_destroy has returned nothing *)
(* of the node is left but memory of packets.                              *)
(***************************************************************************)
NothingLeftBehind == app = "out" => held = {} /\ bg # "running"

(***************************************************************************)
(* What is forwarded or delivered arrived whole, with a length that the    *)
(* node accepts and, if it checks, signed; each once, in order of arrival. *)
(***************************************************************************)
Acceptable(d) ==
  /\ d.len <= MaxLen
  /\ d.size >= HeaderLen + d.len
  /\ CheckSign => d.sign

HandledFaithful ==
  /\ \A k \in 1 .. Len(handled) : Acceptable(arrived[handled[k]])
  /\ \A j, k \in 1 .. Len(handled) : j < k => handled[j] < handled[k]

(***************************************************************************)
(* Packets are freed, received ones and replies, but for one for each      *)
(* unsigned datagram that was rejected, one for each failure (of which     *)
(* receiving what was peeked at and sending a reply leave one behind), and *)
(* the two that the thread may hold, or have held when it was cancelled.   *)
(***************************************************************************)
InHand == (IF packet # 0 THEN 1 ELSE 0) + reply

PacketsAccounted ==
  packets <= Cardinality({i \in 1 .. Len(arrived) : CheckSign /\ ~arrived[i].sign})
             + faults + (IF cancelled THEN 2 ELSE InHand)

(***************************************************************************)
(* A log callback gets the arguments that were curried into its closure,   *)
(* in that order and with nothing of a currying that failed, and then the  *)
(* message; the default one gets its name.                                 *)
(***************************************************************************)
LogArguments ==
  /\ calling = "default" => Call(default, <<Msg>>) = <<Name, Msg>>
  /\ calling = "custom" /\ memory = "live" => Call(custom, <<Msg>>) = curried \o <<Msg>>

(***************************************************************************)
(* A closure that the application frees only after sn_node_destroy has     *)
(* returned is not called any more.  (One that was replaced may be.)       *)
(***************************************************************************)
ClosureOutlivesCalls == calling = "custom" => memory # "freed"

(***************************************************************************)
(* No datagram stops those behind it: the first of the queue is consumed   *)
(* unless the application destroys the node or a reply ends the process.   *)
(***************************************************************************)
Waiting(i) == app = "up" /\ queue # <<>> /\ Head(queue) = i

DatagramsConsumed ==
  \A i \in 1 .. MaxArrivals : Waiting(i) ~> (app # "up" \/ queue = <<>> \/ Head(queue) # i)
=============================================================================
