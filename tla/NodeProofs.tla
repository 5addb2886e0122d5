----------------------------- MODULE NodeProofs -----------------------------
(***************************************************************************)
(* What holds of a node, and of the program that runs one, for every kind  *)
(* of datagram, any number of them and of failures.  LifeInv ties what the *)
(* node holds to where the application is with it: a failed creation gives *)
(* back all it has acquired, and nothing is given back before the thread   *)
(* has ended.  ThreadInv says what each step of the background thread      *)
(* knows: the queue of the socket is the end of what arrived, the packet   *)
(* in hand is the datagram received last, and for every packet that is not *)
(* freed there is a datagram that was rejected, a failure, or the thread.  *)
(* ClosureInv says that what is installed is not freed, ArgumentsInv what  *)
(* is curried into it, BoundsInv that no packet is freed twice.            *)
(***************************************************************************)
EXTENDS Process, FiniteSetTheorems, TLAPS

-----------------------------------------------------------------------------
(* The resources of the node                                               *)

LifeInv ==
  /\ app \in {"out", "up", "joining", "aborted"}
  /\ app \in {"out", "aborted"} => held = {} /\ bg # "running"
  /\ app \in {"up", "joining"} => held = Resources

\* The thread only changes its own variables and never comes back to life.
LEMMA BackgroundKeepsLife ==
  ASSUME Background
  PROVE  /\ UNCHANGED notThread
         /\ bg = "running" /\ bg' \in {"running", "ended"}
         /\ bg' = "ended" => cancelled
<1> USE DEF Running, At, Kernel
<1>1. CASE Peek            BY <1>1 DEF Peek
<1>2. CASE Discard         BY <1>2 DEF Discard
<1>3. CASE Alloc           BY <1>3 DEF Alloc
<1>4. CASE Recv            BY <1>4 DEF Recv
<1>5. CASE Verify          BY <1>5 DEF Verify
<1>6. CASE Route           BY <1>6 DEF Route
<1>7. CASE Send            BY <1>7 DEF Send
<1>8. CASE LoadLog         BY <1>8 DEF LoadLog
<1>9. CASE LoadUpcall      BY <1>9 DEF LoadUpcall
<1>10. CASE CallbackReturns BY <1>10 DEF CallbackReturns
<1>11. CASE Free           BY <1>11 DEF Free
<1>12. CASE End            BY <1>12 DEF End
<1>13. CASE Answer         BY <1>13 DEF Answer
<1>14. CASE SendReply      BY <1>14 DEF SendReply
<1>15. CASE FreeReply      BY <1>15 DEF FreeReply
<1> QED BY <1>1, <1>2, <1>3, <1>4, <1>5, <1>6, <1>7, <1>8, <1>9, <1>10, <1>11, <1>12,
           <1>13, <1>14, <1>15
        DEF Background

\* Whatever fails when a node is created, nothing stays acquired.
LEMMA CreationGivesBack ==
  ASSUME NEW failing \in {"get_name", "vec", "thread"}
  PROVE  (AcquiredBefore(failing) \ Released(failing)) \ {"socket"} = {}
BY DEF AcquiredBefore, Released, Resources

LEMMA LifeInductive ==
  /\ NodeInit => LifeInv
  /\ LifeInv /\ [NodeNext]_nodeVars => LifeInv'
<1>1. NodeInit => LifeInv
  BY DEF NodeInit, LifeInv
<1>2. ASSUME LifeInv, [NodeNext]_nodeVars PROVE LifeInv'
  <2> USE <1>2 DEF LifeInv
  <2>1. CASE UNCHANGED <<held, app, bg>>
    BY <2>1
  <2>2. CASE AtNoPort
    BY <2>2 DEF AtNoPort, thread
  <2>3. ASSUME NEW failing \in {"get_name", "vec", "thread", "none"}, AtPort(failing)
        PROVE  LifeInv'
    <3>1. CASE failing = "none"
      BY <2>3, <3>1 DEF AtPort
    <3>2. CASE failing # "none"
      BY <2>3, <3>2, CreationGivesBack DEF AtPort
    <3> QED BY <3>1, <3>2
  <2>4. CASE Cancel
    BY <2>4 DEF Cancel, thread
  <2>5. CASE Join
    BY <2>5 DEF Join, thread
  <2>6. CASE Background
    <3>1. UNCHANGED <<held, app>> /\ bg = "running" /\ bg' \in {"running", "ended"}
      BY <2>6, BackgroundKeepsLife DEF notThread
    <3> QED BY <3>1
  <2>7. CASE \E set \in BOOLEAN : SetUpcall(set)
    BY <2>1, <2>7 DEF SetUpcall, nodeButCallbacks, thread
  <2>8. CASE \E which \in {"default", "custom"} : SetLogCallback(which)
    BY <2>1, <2>8 DEF SetLogCallback, nodeButCallbacks, thread
  <2>9. CASE InitClosure \/ FreeClosure \/ \E args \in Curryings : CurryClosure(args)
    BY <2>1, <2>9 DEF InitClosure, FreeClosure, CurryClosure, nodeButCallbacks, thread
  <2>10. CASE \E d \in Datagrams : Arrive(d)
    BY <2>1, <2>10 DEF Arrive, thread
  <2>11. CASE UNCHANGED nodeVars
    BY <2>1, <2>11 DEF nodeVars, thread
  <2>12. CASE Abort
    BY <2>12 DEF Abort
  <2> QED BY <1>2, <2>2, <2>3, <2>4, <2>5, <2>6, <2>7, <2>8, <2>9, <2>10, <2>11, <2>12
          DEF NodeNext, Application
<1> QED BY <1>1, <1>2

\* What the node holds follows the application.
THEOREM NodeLifeInvariant == NodeSpec => []LifeInv
BY LifeInductive, PTL DEF NodeSpec

\* The background thread never runs without what sn_node_destroy, or a
\* creation that fails, gives back.
THEOREM NodeNoUseAfterRelease == NodeSpec => []NoUseAfterRelease
<1>1. LifeInv => NoUseAfterRelease
  BY DEF LifeInv, NoUseAfterRelease
<1> QED BY <1>1, NodeLifeInvariant, PTL

\* A creation that failed and a destruction that returned leave nothing.
THEOREM NodeNothingLeftBehind == NodeSpec => []NothingLeftBehind
<1>1. LifeInv => NothingLeftBehind
  BY DEF LifeInv, NothingLeftBehind
<1> QED BY <1>1, NodeLifeInvariant, PTL

-----------------------------------------------------------------------------
(* What each step of the background thread knows                           *)

Late     == {"send", "log", "upcall", "free", "answer", "reply", "free_reply", "abort"}
Consumed == Len(arrived) - Len(queue)

\* What is left to do for a packet that was accepted: without a reply, with one
\* in hand, and before the end of the process.
Plain == {<<"send", "log", "free">>, <<"log", "free">>, <<"free">>,
          <<"log", "upcall", "free">>, <<"upcall", "free">>,
          <<"log", "answer", "free">>, <<"answer", "free">>}

Answering == {<<"reply", "log", "free_reply", "free">>, <<"log", "free_reply", "free">>,
              <<"free_reply", "free">>}

Aborting == {<<"log", "abort">>, <<"abort">>}

\* The socket holds what arrived last, in order.
QueueInv ==
  /\ arrived \in Seq(Datagrams) /\ queue \in Seq(Nat)
  /\ Len(queue) <= Len(arrived)
  /\ \A k \in 1 .. Len(queue) : queue[k] = Consumed + k

\* The step that comes next, its packet and what has been found out of it.
StageInv ==
  /\ todo \in Seq(Steps) /\ packet \in Nat /\ reply \in 0 .. 1
  /\ todo = <<>> => packet = 0
  /\ reply = 1 => todo \in Answering \cup Aborting
  /\ todo \in Answering => reply = 1
  /\ calling # "nothing" => todo # <<>> /\ Head(todo) \in {"log", "upcall"}
  /\ todo # <<>> =>
       /\ Head(todo) \in {"discard", "alloc", "recv"} => Len(todo) = 1 /\ queue # <<>>
       /\ Head(todo) \in {"discard", "alloc"} => packet = 0
       /\ Head(todo) \in {"alloc", "recv"} => First.len <= MaxLen
       /\ Head(todo) = "recv" => packet = Head(queue)
       /\ Head(todo) \in {"verify", "route"} =>
            Len(todo) = 1 /\ Consumed >= 1 /\ packet = Consumed
       /\ Head(todo) = "verify" => /\ arrived[packet].len <= MaxLen
                                   /\ arrived[packet].size >= HeaderLen + arrived[packet].len
       /\ Head(todo) = "route" => Acceptable(arrived[packet])
       /\ Head(todo) \in Late => \/ todo = <<"log">> /\ packet = 0
                                 \/ todo \in Plain \cup Answering \cup Aborting /\ packet # 0

\* The packet in hand comes after those that were handled.
HandledInv ==
  /\ handled \in Seq(Nat)
  /\ \A k \in 1 .. Len(handled) :
       /\ handled[k] \in 1 .. Consumed
       /\ Acceptable(arrived[handled[k]])
       /\ todo # <<>> /\ Head(todo) \in {"verify", "route"} => handled[k] < Consumed
  /\ \A j, k \in 1 .. Len(handled) : j < k => handled[j] < handled[k]

\* The datagrams up to one that the node rejects or would have rejected.
Unsigned(all, last) == {i \in 1 .. last : CheckSign /\ ~all[i].sign}

Verified == IF todo # <<>> /\ Head(todo) = "verify" THEN Consumed - 1 ELSE Consumed

\* Who is to blame for a packet that is not freed.
PacketInv ==
  /\ packets \in Int /\ faults \in Nat
  /\ bg = "ended" => cancelled
  /\ packets <= Cardinality(Unsigned(arrived, Verified)) + faults
                + (IF bg = "ended" THEN 2 ELSE InHand)

ThreadInv == QueueInv /\ StageInv /\ HandledInv /\ PacketInv

\* The ways of a packet by their first step, and what follows it.
LEMMA Heads ==
  /\ \A s \in Plain : s # <<>> /\ Head(s) \in {"send", "log", "free", "upcall", "answer"}
  /\ \A s \in Answering : s # <<>> /\ Head(s) \in {"reply", "log", "free_reply"}
  /\ \A s \in Aborting : s # <<>> /\ Head(s) \in {"log", "abort"}
BY DEF Plain, Answering, Aborting

LEMMA Tails ==
  /\ Tail(<<"log">>) = <<>>
  /\ \A s \in Plain : Head(s) \in {"send", "log", "upcall"} => Tail(s) \in Plain
  /\ \A s \in Plain : Head(s) = "answer" => Tail(s) = <<"free">>
  /\ \A s \in Answering : Head(s) \in {"reply", "log"} => Tail(s) \in Answering
  /\ \A s \in Answering : Head(s) = "free_reply" => Tail(s) = <<"free">>
  /\ \A s \in Aborting : Head(s) = "log" => Tail(s) \in Aborting
BY DEF Plain, Answering, Aborting

LEMMA WaysApart ==
  /\ Plain \cap Answering = {} /\ Answering \cap Aborting = {}
  /\ <<"log">> \notin Plain \cup Answering \cup Aborting
  /\ Plain \cup Answering \cup Aborting \subseteq Seq(Steps)
BY DEF Plain, Answering, Aborting, Steps

\* A thread that is at none of the steps of a reply has none in hand.
LEMMA NoReply ==
  ASSUME StageInv, todo = <<>> \/ Head(todo) \notin {"reply", "log", "free_reply", "abort"}
  PROVE  reply = 0
<1>1. todo \notin Answering \cup Aborting
  BY Heads
<1> QED BY <1>1 DEF StageInv

LEMMA NotAnswering ==
  \A s : s = <<>> \/ Head(s) \notin {"reply", "log", "free_reply"} => s \notin Answering
BY Heads

\* Rejected datagrams can only become more.
LEMMA UnsignedGrows ==
  ASSUME NEW all, NEW m \in Nat, NEW n \in Nat, m <= n
  PROVE  /\ IsFiniteSet(Unsigned(all, n)) /\ Cardinality(Unsigned(all, m)) \in Nat
         /\ Cardinality(Unsigned(all, n)) \in Nat
         /\ Cardinality(Unsigned(all, m)) <= Cardinality(Unsigned(all, n))
<1>1. IsFiniteSet(1 .. n)
  BY FS_Interval
<1>2. Unsigned(all, n) \subseteq 1 .. n /\ Unsigned(all, m) \subseteq Unsigned(all, n)
  BY DEF Unsigned
<1>3. IsFiniteSet(Unsigned(all, n))
  BY <1>1, <1>2, FS_Subset
<1>4. IsFiniteSet(Unsigned(all, m))
  BY <1>2, <1>3, FS_Subset
<1> QED BY <1>2, <1>3, <1>4, FS_Subset, FS_CardinalityType

\* A datagram that is rejected is one more.
LEMMA UnsignedAdds ==
  ASSUME NEW all, NEW n \in Nat \ {0}, CheckSign, ~all[n].sign
  PROVE  Cardinality(Unsigned(all, n)) = Cardinality(Unsigned(all, n - 1)) + 1
<1>1. IsFiniteSet(Unsigned(all, n - 1))
  BY UnsignedGrows, n - 1 \in Nat
<1>2. Unsigned(all, n) = Unsigned(all, n - 1) \cup {n} /\ n \notin Unsigned(all, n - 1)
  BY DEF Unsigned
<1> QED BY <1>1, <1>2, FS_AddElement

\* What was handled stays as it was when nothing more is.
LEMMA HandledKept ==
  ASSUME HandledInv, handled' = handled,
         Consumed \in Nat, Consumed' \in Nat, Consumed' >= Consumed,
         \A i \in 1 .. Consumed : arrived'[i] = arrived[i],
         todo' # <<>> /\ Head(todo') \in {"verify", "route"} =>
           todo # <<>> /\ Head(todo) \in {"verify", "route"}
  PROVE  HandledInv'
<1>1. ASSUME NEW k \in 1 .. Len(handled)
      PROVE  /\ handled[k] \in 1 .. Consumed'
             /\ Acceptable(arrived'[handled[k]])
             /\ todo' # <<>> /\ Head(todo') \in {"verify", "route"} => handled[k] < Consumed'
  <2>1. handled[k] \in 1 .. Consumed /\ Acceptable(arrived[handled[k]])
    BY DEF HandledInv
  <2>2. arrived'[handled[k]] = arrived[handled[k]]
    BY <2>1
  <2>3. todo # <<>> /\ Head(todo) \in {"verify", "route"} => handled[k] < Consumed
    BY DEF HandledInv
  <2>4. handled[k] \in 1 .. Consumed'
    BY <2>1
  <2>5. ASSUME handled[k] < Consumed PROVE handled[k] < Consumed'
    BY <2>1, <2>5
  <2> QED BY <2>1, <2>2, <2>3, <2>4, <2>5
<1>2. /\ handled \in Seq(Nat)
      /\ \A j, k \in 1 .. Len(handled) : j < k => handled[j] < handled[k]
  BY DEF HandledInv
<1> QED BY <1>1, <1>2 DEF HandledInv

\* What arrives does not change what has arrived.
LEMMA ArriveKeepsThread ==
  ASSUME ThreadInv, NEW d \in Datagrams, Arrive(d)
  PROVE  ThreadInv'
<1> USE DEF ThreadInv
<1>1. /\ arrived' = Append(arrived, d) /\ queue' = Append(queue, Len(arrived) + 1)
      /\ UNCHANGED <<bg, todo, packet, reply, calling, handled, packets, faults, cancelled>>
  BY DEF Arrive, thread
<1>2. /\ arrived' \in Seq(Datagrams) /\ Len(arrived') = Len(arrived) + 1
      /\ \A i \in 1 .. Len(arrived) : arrived'[i] = arrived[i]
  BY <1>1 DEF QueueInv
<1>3. /\ queue' \in Seq(Nat) /\ Len(queue') = Len(queue) + 1
      /\ \A i \in 1 .. Len(queue) : queue'[i] = queue[i]
      /\ queue'[Len(queue) + 1] = Len(arrived) + 1
  BY <1>1 DEF QueueInv
<1>4. Consumed' = Consumed /\ Consumed \in Nat /\ Consumed <= Len(arrived)
  BY <1>2, <1>3 DEF Consumed, QueueInv
<1>5. QueueInv'
  <2>1. ASSUME NEW k \in 1 .. Len(queue') PROVE queue'[k] = Consumed' + k
    <3>1. CASE k \in 1 .. Len(queue)
      BY <1>3, <1>4, <3>1 DEF QueueInv
    <3>2. CASE k = Len(queue) + 1
      BY <1>2, <1>3, <1>4, <3>2 DEF QueueInv, Consumed
    <3> QED BY <1>3, <2>1, <3>1, <3>2 DEF QueueInv
  <2>2. Len(queue') <= Len(arrived')
    BY <1>2, <1>3 DEF QueueInv
  <2> QED BY <1>2, <1>3, <2>1, <2>2 DEF QueueInv
<1>6. ASSUME queue # <<>>
      PROVE  queue' # <<>> /\ Head(queue') = Head(queue) /\ First' = First
  <2>1. Len(queue) \in Nat \ {0} /\ Len(queue) <= Len(arrived)
    BY <1>6 DEF QueueInv
  <2>2. Head(queue) = Consumed + 1 /\ Consumed + 1 \in 1 .. Len(arrived)
    BY <2>1 DEF QueueInv, Consumed
  <2>3. queue' # <<>> /\ Head(queue') = Head(queue)
    BY <1>3, <2>1 DEF QueueInv
  <2> QED BY <1>2, <2>2, <2>3 DEF First
<1>7. StageInv'
  <2>1. ASSUME todo # <<>>, Head(todo) \in {"verify", "route"}
        PROVE  arrived'[packet] = arrived[packet]
    BY <1>2, <1>4, <2>1 DEF StageInv
  <2>2. UNCHANGED <<todo, packet, reply, calling, Consumed>>
    BY <1>1, <1>4
  <2> QED BY <1>6, <2>1, <2>2 DEF StageInv, Acceptable
<1>8. HandledInv'
  <2>1. Len(arrived) \in Nat /\ 1 .. Consumed \subseteq 1 .. Len(arrived)
    BY <1>4 DEF QueueInv
  <2>2. \A i \in 1 .. Consumed : arrived'[i] = arrived[i]
    BY <1>2, <2>1
  <2>3. Consumed' \in Nat /\ Consumed' >= Consumed
    BY <1>4
  <2> QED BY <1>1, <1>4, <2>2, <2>3, HandledKept
<1>9. Verified' = Verified /\ Verified \in 0 .. Len(arrived)
  BY <1>1, <1>4 DEF Verified, StageInv
<1>10. Unsigned(arrived, Verified)' = Unsigned(arrived, Verified)
  BY <1>2, <1>9 DEF Unsigned
<1>11. PacketInv'
  BY <1>1, <1>10 DEF PacketInv, InHand
<1> QED BY <1>5, <1>7, <1>8, <1>11

\* The first datagram leaves the queue.
LEMMA ConsumeFirst ==
  ASSUME QueueInv, queue # <<>>
  PROVE  /\ Consumed \in Nat /\ Head(queue) = Consumed + 1
         /\ Consumed + 1 \in 1 .. Len(arrived) /\ First = arrived[Consumed + 1]
         /\ queue' = Tail(queue) /\ arrived' = arrived =>
              QueueInv' /\ Consumed' = Consumed + 1
<1>1. Len(queue) \in Nat \ {0} /\ Len(queue) <= Len(arrived) /\ Len(arrived) \in Nat
  BY DEF QueueInv
<1>2. Consumed \in Nat /\ Head(queue) = Consumed + 1 /\ Consumed + 1 \in 1 .. Len(arrived)
  BY <1>1 DEF QueueInv, Consumed
<1>3. ASSUME queue' = Tail(queue), arrived' = arrived
      PROVE  QueueInv' /\ Consumed' = Consumed + 1
  <2>1. /\ queue' \in Seq(Nat) /\ Len(queue') = Len(queue) - 1
        /\ \A k \in 1 .. Len(queue') : queue'[k] = queue[k + 1]
    BY <1>1, <1>3 DEF QueueInv
  <2>2. Consumed' = Consumed + 1
    BY <1>1, <1>3, <2>1 DEF Consumed
  <2>3. ASSUME NEW k \in 1 .. Len(queue') PROVE queue'[k] = Consumed' + k
    BY <1>1, <1>2, <2>1, <2>2, <2>3 DEF QueueInv
  <2> QED BY <1>1, <1>3, <2>1, <2>2, <2>3 DEF QueueInv
<1> QED BY <1>2, <1>3 DEF First

\* What was rejected so far, before and after another datagram.
LEMMA VerifiedGrows ==
  ASSUME QueueInv, arrived' = arrived, Verified \in Nat, Verified' \in Nat,
         Verified <= Verified'
  PROVE  /\ Cardinality(Unsigned(arrived, Verified)) \in Nat
         /\ Cardinality(Unsigned(arrived, Verified)') \in Nat
         /\ Cardinality(Unsigned(arrived, Verified)) <= Cardinality(Unsigned(arrived, Verified)')
<1>1. Unsigned(arrived, Verified)' = Unsigned(arrived, Verified')
  BY DEF Unsigned
<1> QED BY <1>1, UnsignedGrows

-----------------------------------------------------------------------------
(* The steps of the background thread                                      *)

\* What was handled is behind the datagram that is received.
LEMMA HandledStays ==
  ASSUME HandledInv, UNCHANGED <<arrived, handled>>, Consumed \in Nat, Consumed' = Consumed + 1
  PROVE  HandledInv'
<1>1. ASSUME NEW k \in 1 .. Len(handled)
      PROVE  /\ handled[k] \in 1 .. Consumed + 1 /\ handled[k] < Consumed + 1
             /\ Acceptable(arrived[handled[k]])'
  <2>1. handled[k] \in 1 .. Consumed
    BY <1>1 DEF HandledInv
  <2>2. Acceptable(arrived[handled[k]])' <=> Acceptable(arrived[handled[k]])
    BY DEF Acceptable
  <2> QED BY <1>1, <2>1, <2>2 DEF HandledInv
<1> QED BY <1>1 DEF HandledInv

\* A single step to do.
LEMMA OneStep ==
  ASSUME NEW step \in Steps, todo' = <<step>>
  PROVE  /\ todo' \in Seq(Steps) /\ todo' # <<>> /\ Len(todo') = 1
         /\ Head(todo') = step /\ todo'[1] = step
OBVIOUS

LEMMA PeekKeepsThread ==
  ASSUME ThreadInv, Peek PROVE ThreadInv'
<1> USE DEF ThreadInv
<1>1. /\ todo = <<>> /\ calling = "nothing" /\ packet = 0
      /\ reply = 0
      /\ UNCHANGED <<arrived, queue, handled, bg, packet, reply, calling, packets, cancelled>>
  BY NoReply DEF Peek, Running, StageInv, notThread, traffic
<1>2. Consumed' = Consumed /\ Consumed \in Nat
  BY <1>1 DEF Consumed, QueueInv
<1>3. QueueInv'
  BY <1>1, <1>2 DEF QueueInv
<1>4. \/ todo' = <<>>
      \/ todo' = <<"discard">> /\ queue # <<>>
      \/ todo' = <<"alloc">> /\ queue # <<>> /\ First.len <= MaxLen
  <2>1. ASSUME queue # <<>> PROVE First \in Datagrams
    BY <2>1, ConsumeFirst DEF QueueInv
  <2> QED BY <1>1, <2>1, NodeAssumption DEF Peek
<1>5. First' = First
  BY <1>1 DEF First
<1>6. StageInv'
  <2>1. CASE todo' = <<>>
    BY <1>1, <2>1, NotAnswering DEF StageInv
  <2>2. CASE todo' = <<"discard">> /\ queue # <<>>
    <3>1. /\ todo' \in Seq(Steps) /\ todo' # <<>> /\ Len(todo') = 1
          /\ Head(todo') = "discard"
      BY <2>2, OneStep DEF Steps
    <3>2. todo' \notin Answering
      BY <3>1, NotAnswering
    <3> QED BY <1>1, <2>2, <3>1, <3>2 DEF StageInv, Late
  <2>3. CASE todo' = <<"alloc">> /\ queue # <<>> /\ First.len <= MaxLen
    <3>1. /\ todo' \in Seq(Steps) /\ todo' # <<>> /\ Len(todo') = 1
          /\ Head(todo') = "alloc"
      BY <2>3, OneStep DEF Steps
    <3>2. todo' \notin Answering
      BY <3>1, NotAnswering
    <3> QED BY <1>1, <1>5, <2>3, <3>1, <3>2 DEF StageInv, Late
  <2> QED BY <1>4, <2>1, <2>2, <2>3
<1>7. HandledInv'
  <2>1. todo' # <<>> => Head(todo') \in {"discard", "alloc"}
    BY <1>4
  <2>2. Consumed' \in Nat /\ Consumed' >= Consumed
    BY <1>2
  <2> QED BY <1>1, <1>2, <2>1, <2>2, HandledKept
<1>8. Verified' = Verified
  BY <1>1, <1>2, <1>4 DEF Verified
<1>9. faults' \in Nat /\ faults' >= faults
  BY DEF Peek, Fault, PacketInv
<1>10. PacketInv'
  <2>1. Unsigned(arrived, Verified)' = Unsigned(arrived, Verified)
    BY <1>1, <1>8 DEF Unsigned
  <2>2. Cardinality(Unsigned(arrived, Verified)) \in Nat
    BY <1>1, <1>2, UnsignedGrows DEF Verified
  <2> QED BY <1>1, <1>9, <2>1, <2>2 DEF PacketInv, InHand
<1> QED BY <1>3, <1>6, <1>7, <1>10

LEMMA DiscardKeepsThread ==
  ASSUME ThreadInv, Discard PROVE ThreadInv'
<1> USE DEF ThreadInv
<1>1. /\ todo # <<>> /\ Head(todo) = "discard" /\ calling = "nothing"
      /\ packet = 0 /\ queue # <<>> /\ todo' = <<>>
      /\ reply = 0
      /\ UNCHANGED <<arrived, handled, bg, packet, reply, calling, packets, cancelled>>
  BY NoReply DEF Discard, Kernel, At, Running, StageInv, notThread
<1>2. Consumed \in Nat /\ QueueInv' /\ Consumed' \in {Consumed, Consumed + 1}
  <2>1. CASE queue' = Tail(queue)
    BY <1>1, <2>1, ConsumeFirst
  <2>2. CASE queue' = queue
    BY <1>1, <2>2, ConsumeFirst DEF QueueInv, Consumed
  <2> QED BY <2>1, <2>2 DEF Discard
<1>3. StageInv'
  BY <1>1, NotAnswering DEF StageInv, Steps
<1>4. HandledInv'
  <2>1. Consumed' \in Nat /\ Consumed' >= Consumed
    BY <1>2
  <2> QED BY <1>1, <1>2, <2>1, HandledKept
<1>5. Verified = Consumed /\ Verified' = Consumed'
  BY <1>1 DEF Verified
<1>6. faults' \in Nat /\ faults' >= faults
  BY DEF Discard, Fault, PacketInv
<1>7. PacketInv'
  BY <1>1, <1>2, <1>5, <1>6, VerifiedGrows DEF PacketInv, InHand
<1> QED BY <1>2, <1>3, <1>4, <1>7

LEMMA AllocKeepsThread ==
  ASSUME ThreadInv, Alloc PROVE ThreadInv'
<1> USE DEF ThreadInv
<1>1. /\ todo # <<>> /\ Head(todo) = "alloc" /\ calling = "nothing" /\ bg = "running"
      /\ packet = 0 /\ queue # <<>> /\ First.len <= MaxLen
      /\ reply = 0
      /\ UNCHANGED <<arrived, queue, handled, bg, reply, calling, cancelled>>
  BY NoReply DEF Alloc, At, Running, StageInv, notThread, traffic
<1>2. Consumed' = Consumed /\ Consumed \in Nat /\ Head(queue) \in Nat
  BY <1>1, ConsumeFirst DEF Consumed
<1>3. QueueInv'
  BY <1>1, <1>2 DEF QueueInv
<1>4. \/ todo' = <<>> /\ packet' = 0 /\ packets' = packets
      \/ todo' = <<"recv">> /\ packet' = Head(queue) /\ packets' = packets + 1
  BY <1>1 DEF Alloc
<1>5. First' = First
  BY <1>1 DEF First
<1>6. StageInv'
  <2>1. CASE todo' = <<>> /\ packet' = 0
    BY <1>1, <2>1, NotAnswering DEF StageInv
  <2>2. CASE todo' = <<"recv">> /\ packet' = Head(queue)
    <3>1. /\ todo' \in Seq(Steps) /\ todo' # <<>> /\ Len(todo') = 1
          /\ Head(todo') = "recv"
      BY <2>2, OneStep DEF Steps
    <3>2. todo' \notin Answering
      BY <3>1, NotAnswering
    <3> QED BY <1>1, <1>2, <1>5, <2>2, <3>1, <3>2 DEF StageInv, Late
  <2> QED BY <1>4, <2>1, <2>2
<1>7. HandledInv'
  <2>1. todo' # <<>> => Head(todo') = "recv"
    BY <1>4
  <2>2. Consumed' \in Nat /\ Consumed' >= Consumed
    BY <1>2
  <2> QED BY <1>1, <1>2, <2>1, <2>2, HandledKept
<1>8. Verified = Consumed /\ Verified' = Consumed'
  BY <1>1, <1>4 DEF Verified
<1>9. faults' \in Nat /\ faults' >= faults
  BY DEF Alloc, Fault, PacketInv
<1>10. packet' # 0 \/ packets' = packets
  BY <1>1, <1>4, ConsumeFirst
<1>11. PacketInv'
  BY <1>1, <1>2, <1>4, <1>8, <1>9, <1>10, VerifiedGrows DEF PacketInv, InHand
<1> QED BY <1>3, <1>6, <1>7, <1>11

LEMMA RecvKeepsThread ==
  ASSUME ThreadInv, Recv PROVE ThreadInv'
<1> USE DEF ThreadInv
<1>1. /\ todo # <<>> /\ Head(todo) = "recv" /\ calling = "nothing" /\ bg = "running"
      /\ packet = Head(queue) /\ queue # <<>> /\ First.len <= MaxLen
      /\ reply = 0
      /\ UNCHANGED <<arrived, handled, bg, reply, calling, cancelled>>
  BY NoReply DEF Recv, Kernel, At, Running, StageInv, notThread
<1>2. /\ Consumed \in Nat /\ packet = Consumed + 1 /\ First = arrived[Consumed + 1]
      /\ First \in Datagrams
  BY <1>1, ConsumeFirst DEF QueueInv
<1>3. Verified = Consumed
  BY <1>1 DEF Verified
<1>4. CASE /\ Fault /\ todo' = <<>> /\ packet' = 0 /\ UNCHANGED <<queue, packets>>
  <2>1. Consumed' = Consumed /\ QueueInv'
    BY <1>1, <1>4 DEF Consumed, QueueInv
  <2>2. StageInv'
    BY <1>1, <1>4, NotAnswering DEF StageInv
  <2>3. HandledInv'
    BY <1>1, <1>4, <2>1 DEF HandledInv, Acceptable
  <2>4. Verified' = Verified
    BY <1>3, <1>4, <2>1 DEF Verified
  <2>5. faults' = faults + 1
    BY <1>4 DEF Fault
  <2>6. PacketInv'
    BY <1>1, <1>2, <1>3, <1>4, <2>4, <2>5, VerifiedGrows DEF PacketInv, InHand
  <2> QED BY <2>1, <2>2, <2>3, <2>6
<1>5. ASSUME queue' = Tail(queue), faults' = faults
      PROVE  /\ QueueInv' /\ Consumed' = Consumed + 1
  BY <1>1, <1>5, ConsumeFirst
<1>6. CASE /\ queue' = Tail(queue) /\ faults' = faults /\ First.size < HeaderLen + First.len
           /\ todo' = <<>> /\ packet' = 0 /\ packets' = packets - 1
  <2>1. StageInv'
    BY <1>1, <1>6, NotAnswering DEF StageInv
  <2>2. HandledInv'
    BY <1>1, <1>2, <1>5, <1>6, HandledStays
  <2>3. Verified' = Consumed + 1
    BY <1>5, <1>6 DEF Verified
  <2>4. PacketInv'
    BY <1>1, <1>2, <1>3, <1>6, <2>3, VerifiedGrows DEF PacketInv, InHand
  <2> QED BY <1>5, <1>6, <2>1, <2>2, <2>4
<1>7. CASE /\ queue' = Tail(queue) /\ faults' = faults /\ ~(First.size < HeaderLen + First.len)
           /\ todo' = <<"verify">> /\ UNCHANGED <<packet, packets>>
  <2>1. /\ todo' \in Seq(Steps) /\ todo' # <<>> /\ Len(todo') = 1
        /\ Head(todo') = "verify"
    BY <1>7, OneStep DEF Steps
  <2>2. First.size >= HeaderLen + First.len
    BY <1>2, <1>7, NodeAssumption
  <2>3. /\ packet' = Consumed' /\ packet' \in Nat /\ Consumed' >= 1
        /\ arrived'[packet'].len <= MaxLen
        /\ arrived'[packet'].size >= HeaderLen + arrived'[packet'].len
    BY <1>1, <1>2, <1>5, <1>7, <2>2
  <2>4. calling' = "nothing" /\ reply' = 0 /\ todo' \notin Answering
    BY <1>1, <2>1, NotAnswering
  <2>5. StageInv'
    BY <2>1, <2>3, <2>4 DEF StageInv, Late
  <2>6. HandledInv'
    BY <1>1, <1>2, <1>5, <1>7, HandledStays
  <2>7. Verified' = Consumed
    BY <1>2, <1>5, <1>7, <2>1 DEF Verified
  <2>8. PacketInv'
    BY <1>1, <1>2, <1>3, <1>7, <2>7, VerifiedGrows DEF PacketInv, InHand
  <2> QED BY <1>5, <1>7, <2>5, <2>6, <2>8
<1> QED BY <1>4, <1>6, <1>7 DEF Recv

LEMMA VerifyKeepsThread ==
  ASSUME ThreadInv, Verify PROVE ThreadInv'
<1> USE DEF ThreadInv
<1>1. /\ todo # <<>> /\ Head(todo) = "verify" /\ calling = "nothing" /\ bg = "running"
      /\ packet = Consumed /\ Consumed \in Nat \ {0}
      /\ arrived[packet].len <= MaxLen
      /\ arrived[packet].size >= HeaderLen + arrived[packet].len
      /\ reply = 0
      /\ UNCHANGED <<arrived, queue, handled, bg, reply, calling, packets, faults, cancelled>>
  BY NoReply DEF Verify, At, Running, StageInv, notThread, traffic, QueueInv, Consumed
<1>2. QueueInv' /\ Consumed' = Consumed
  BY <1>1 DEF QueueInv, Consumed
<1>3. Verified = Consumed - 1 /\ Consumed - 1 \in Nat
  BY <1>1 DEF Verified
<1>4. CASE CheckSign /\ ~arrived[packet].sign
  <2>1. todo' = <<"log">> /\ packet' = 0
    BY <1>4 DEF Verify
  <2>2. /\ todo' \in Seq(Steps) /\ todo' # <<>> /\ Len(todo') = 1
        /\ Head(todo') = "log" /\ todo'[1] = "log"
    BY <2>1, OneStep DEF Steps
  <2>3. StageInv'
    <3>1. todo' \notin Answering
      BY <2>1, WaysApart
    <3> QED BY <1>1, <2>1, <2>2, <3>1 DEF StageInv, Late
  <2>4. HandledInv'
    BY <1>1, <1>2, <2>2 DEF HandledInv, Acceptable
  <2>5. Verified' = Consumed
    BY <1>2, <2>2 DEF Verified
  <2>6. /\ Cardinality(Unsigned(arrived, Verified)') = Cardinality(Unsigned(arrived, Verified)) + 1
        /\ Cardinality(Unsigned(arrived, Verified)) \in Nat
    <3>1. Unsigned(arrived, Verified)' = Unsigned(arrived, Consumed)
      BY <1>1, <2>5 DEF Unsigned
    <3> QED BY <1>1, <1>3, <1>4, <3>1, UnsignedAdds, UnsignedGrows
  <2>7. PacketInv'
    BY <1>1, <2>1, <2>6 DEF PacketInv, InHand
  <2> QED BY <1>2, <2>3, <2>4, <2>7
<1>5. CASE ~(CheckSign /\ ~arrived[packet].sign)
  <2>1. todo' = <<"route">> /\ packet' = packet
    BY <1>5 DEF Verify
  <2>2. /\ todo' \in Seq(Steps) /\ todo' # <<>> /\ Len(todo') = 1
        /\ Head(todo') = "route"
    BY <2>1, OneStep DEF Steps
  <2>3. /\ packet' = Consumed' /\ packet' \in Nat /\ Consumed' >= 1
        /\ calling' = "nothing" /\ reply' = 0 /\ todo' \notin Answering
        /\ Acceptable(arrived[packet])'
    BY <1>1, <1>2, <1>5, <2>1, <2>2, NotAnswering DEF Acceptable
  <2>4. StageInv'
    BY <2>2, <2>3 DEF StageInv, Late
  <2>5. HandledInv'
    BY <1>1, <1>2 DEF HandledInv, Acceptable
  <2>6. Verified' = Consumed
    BY <1>2, <2>2 DEF Verified
  <2>7. PacketInv'
    BY <1>1, <1>3, <2>1, <2>6, VerifiedGrows DEF PacketInv, InHand
  <2> QED BY <1>2, <2>4, <2>5, <2>7
<1> QED BY <1>4, <1>5

LEMMA RouteKeepsThread ==
  ASSUME ThreadInv, Route PROVE ThreadInv'
<1> USE DEF ThreadInv
<1>1. /\ todo # <<>> /\ Head(todo) = "route" /\ calling = "nothing" /\ bg = "running"
      /\ packet = Consumed /\ Consumed \in Nat \ {0} /\ Acceptable(arrived[packet])
      /\ handled' = Append(handled, packet)
      /\ reply = 0
      /\ UNCHANGED <<arrived, queue, bg, calling, packet, reply, packets, faults, cancelled>>
  BY NoReply DEF Route, At, Running, StageInv, notThread, QueueInv, Consumed
<1>2. QueueInv' /\ Consumed' = Consumed
  BY <1>1 DEF QueueInv, Consumed
<1>3. /\ todo' \in (Plain \cup Aborting) \ Answering /\ todo' \in Seq(Steps)
      /\ todo' # <<>> /\ Head(todo') \in Late
  <2>1. todo' \in Plain \cup Aborting
    BY DEF Route, Routes, Plain, Aborting
  <2> QED BY <2>1, WaysApart, Heads DEF Late
<1>4. StageInv'
  BY <1>1, <1>3 DEF StageInv, Late
<1>5. HandledInv'
  <2>1. /\ handled' \in Seq(Nat) /\ Len(handled') = Len(handled) + 1
        /\ handled'[Len(handled) + 1] = packet
        /\ \A k \in 1 .. Len(handled) : handled'[k] = handled[k]
    BY <1>1 DEF HandledInv
  <2>2. ASSUME NEW k \in 1 .. Len(handled)
        PROVE  handled[k] \in 1 .. Consumed /\ handled[k] < packet /\ Acceptable(arrived[handled[k]])
    BY <1>1 DEF HandledInv
  <2>3. \A k \in 1 .. Len(handled') :
          handled'[k] \in 1 .. Consumed /\ Acceptable(arrived[handled'[k]])
    BY <1>1, <2>1, <2>2 DEF HandledInv
  <2>4. ASSUME NEW j \in 1 .. Len(handled'), NEW k \in 1 .. Len(handled'), j < k
        PROVE  handled'[j] < handled'[k]
    <3>1. j \in 1 .. Len(handled) /\ handled'[j] = handled[j]
      <4>1. Len(handled) \in Nat
        BY DEF HandledInv
      <4>2. j \in 1 .. Len(handled)
        BY <2>1, <2>4, <4>1
      <4> QED BY <2>1, <4>2
    <3>2. CASE k \in 1 .. Len(handled)
      <4>1. handled[j] < handled[k]
        BY <2>4, <3>1, <3>2 DEF HandledInv
      <4> QED BY <2>1, <3>1, <3>2, <4>1
    <3>3. CASE k = Len(handled) + 1
      BY <2>1, <2>2, <3>1, <3>3
    <3>4. k \in 1 .. Len(handled) \/ k = Len(handled) + 1
      <4>1. Len(handled) \in Nat
        BY DEF HandledInv
      <4> QED BY <2>1, <4>1
    <3> QED BY <3>2, <3>3, <3>4
  <2> QED BY <1>1, <1>2, <1>3, <2>1, <2>3, <2>4 DEF HandledInv, Late, Acceptable
<1>6. Verified = Consumed /\ Verified' = Consumed
  BY <1>1, <1>2, <1>3 DEF Verified, Late
<1>7. PacketInv'
  BY <1>1, <1>6, VerifiedGrows DEF PacketInv, InHand
<1> QED BY <1>2, <1>4, <1>5, <1>7

\* Away from the checks only the packet in hand matters.
LEMMA QuietStep ==
  ASSUME QueueInv, HandledInv, UNCHANGED <<arrived, queue, handled>>,
         todo # <<>> => Head(todo) \notin {"verify", "route"},
         todo' # <<>> => Head(todo') \notin {"verify", "route"}
  PROVE  /\ QueueInv' /\ HandledInv'
         /\ Cardinality(Unsigned(arrived, Verified)') = Cardinality(Unsigned(arrived, Verified))
         /\ Cardinality(Unsigned(arrived, Verified)) \in Nat
<1>1. Consumed' = Consumed /\ Consumed \in Nat
  BY DEF Consumed, QueueInv
<1>2. Verified = Consumed /\ Verified' = Consumed
  BY <1>1 DEF Verified
<1>3. QueueInv' /\ HandledInv'
  BY <1>1 DEF QueueInv, HandledInv, Acceptable
<1>4. Unsigned(arrived, Verified)' = Unsigned(arrived, Verified)
  BY <1>2 DEF Unsigned
<1> QED BY <1>1, <1>2, <1>3, <1>4, UnsignedGrows

\* The thread leaves a step of the way of its packet.
LEMMA NextStep ==
  ASSUME StageInv, todo # <<>>, Head(todo) \in {"send", "log", "upcall", "reply"},
         todo' = Tail(todo), packet' = packet, reply' = reply, calling' = "nothing"
  PROVE  StageInv' /\ (todo' # <<>> => Head(todo') \in Late)
<1>1. /\ packet \in Nat /\ reply \in 0 .. 1
      /\ reply = 1 => todo \in Answering \cup Aborting
      /\ todo \in Answering => reply = 1
      /\ \/ todo = <<"log">> /\ packet = 0
         \/ todo \in Plain \cup Answering \cup Aborting /\ packet # 0
  BY DEF StageInv, Late
<1>2. CASE todo = <<"log">>
  <2>1. todo' = <<>> /\ packet = 0 /\ reply = 0 /\ todo' \notin Answering
    BY <1>1, <1>2, Tails, WaysApart, NotAnswering
  <2> QED BY <2>1 DEF StageInv
<1>3. CASE todo \in Plain \cup Answering \cup Aborting
  <2>1. /\ todo \in Plain => todo' \in Plain
        /\ todo \in Answering => todo' \in Answering
        /\ todo \in Aborting => todo' \in Aborting
    BY Tails, Heads
  <2>2. /\ todo' \in Plain \cup Answering \cup Aborting /\ packet # 0
        /\ reply = 1 => todo' \in Answering \cup Aborting
        /\ todo' \in Answering => reply = 1
    BY <1>1, <1>3, <2>1, WaysApart
  <2>3. todo' # <<>> /\ Head(todo') \in Late /\ todo' \in Seq(Steps)
    BY <2>2, Heads, WaysApart DEF Late
  <2> QED BY <1>1, <2>2, <2>3 DEF StageInv, Late
<1> QED BY <1>1, <1>2, <1>3

LEMMA CallsKeepThread ==
  ASSUME ThreadInv, Send \/ LoadLog \/ LoadUpcall \/ CallbackReturns
  PROVE  ThreadInv'
<1> USE DEF ThreadInv
<1>1. /\ todo # <<>> /\ Head(todo) \in {"send", "log", "upcall"}
      /\ UNCHANGED <<arrived, queue, handled, bg, packet, reply, packets, faults, cancelled>>
      /\ \/ todo' = todo /\ Head(todo) \in {"log", "upcall"}
         \/ todo' = Tail(todo) /\ calling' = "nothing"
  BY DEF Send, LoadLog, LoadUpcall, CallbackReturns, Kernel, At, Running, StageInv,
         notThread, traffic
<1>2. StageInv' /\ (todo' # <<>> => Head(todo') \in Late)
  <2>1. CASE todo' = todo /\ Head(todo) \in {"log", "upcall"}
    BY <1>1, <2>1 DEF StageInv, Late
  <2>2. CASE todo' = Tail(todo) /\ calling' = "nothing"
    BY <1>1, <2>2, NextStep DEF Late
  <2> QED BY <1>1, <2>1, <2>2
<1>3. /\ QueueInv' /\ HandledInv'
      /\ Cardinality(Unsigned(arrived, Verified)') = Cardinality(Unsigned(arrived, Verified))
  BY <1>1, <1>2, QuietStep DEF Late
<1>4. PacketInv'
  BY <1>1, <1>3 DEF PacketInv, InHand
<1> QED BY <1>2, <1>3, <1>4

\* The ways on with a reply in hand and after it.
LEMMA NewWay ==
  ASSUME StageInv, packet # 0, packet' = packet, calling' = "nothing",
         \/ reply' = 1 /\ todo' \in Answering \cup Aborting
         \/ reply' = 0 /\ todo' \in {<<"free">>, <<"log", "free">>}
  PROVE  StageInv' /\ todo' # <<>> /\ Head(todo') \in Late
<1>1. {<<"free">>, <<"log", "free">>} \subseteq Plain
  BY DEF Plain
<1>2. /\ todo' \in Plain \cup Answering \cup Aborting /\ reply' \in 0 .. 1
      /\ reply' = 1 => todo' \in Answering \cup Aborting
      /\ todo' \in Answering => reply' = 1
  BY <1>1, WaysApart
<1>3. todo' # <<>> /\ Head(todo') \in Late /\ todo' \in Seq(Steps)
  BY <1>2, Heads, WaysApart DEF Late
<1>4. packet' \in Nat /\ packet' # 0
  BY DEF StageInv
<1> QED BY <1>2, <1>3, <1>4 DEF StageInv, Late

LEMMA AnswerKeepsThread ==
  ASSUME ThreadInv, Answer PROVE ThreadInv'
<1> USE DEF ThreadInv
<1>1. /\ todo # <<>> /\ Head(todo) = "answer" /\ calling = "nothing" /\ reply = 0
      /\ bg = "running" /\ UNCHANGED <<arrived, queue, handled, bg, packet, calling, cancelled>>
  BY NoReply DEF Answer, At, Running, notThread, traffic
<1>2. packet # 0 /\ Tail(todo) = <<"free">>
  <2>1. todo \in Plain /\ packet # 0
    <3>1. todo # <<"log">> /\ todo \notin Answering \cup Aborting
      BY <1>1, Heads
    <3> QED BY <1>1, <3>1 DEF StageInv, Late
  <2> QED BY <1>1, <2>1, Tails
<1>3. \/ todo' = <<"free">> /\ reply' = 0 /\ packets' = packets /\ faults' = faults + 1
      \/ /\ todo' \in Answering \cup Aborting
         /\ reply' = 1 /\ packets' = packets + 1 /\ faults' = faults
  <2>1. Answers \subseteq Answering \cup Aborting
    BY DEF Answers, Answering, Aborting
  <2> QED BY <1>1, <1>2, <2>1 DEF Answer, Fault
<1>4. StageInv' /\ todo' # <<>> /\ Head(todo') \in Late
  BY <1>1, <1>2, <1>3, NewWay
<1>5. /\ QueueInv' /\ HandledInv'
      /\ Cardinality(Unsigned(arrived, Verified)') = Cardinality(Unsigned(arrived, Verified))
      /\ Cardinality(Unsigned(arrived, Verified)) \in Nat
  BY <1>1, <1>4, QuietStep DEF Late
<1>6. PacketInv'
  BY <1>1, <1>3, <1>5 DEF PacketInv, InHand
<1> QED BY <1>4, <1>5, <1>6

LEMMA SendReplyKeepsThread ==
  ASSUME ThreadInv, SendReply PROVE ThreadInv'
<1> USE DEF ThreadInv
<1>1. /\ todo # <<>> /\ Head(todo) = "reply" /\ calling = "nothing"
      /\ UNCHANGED <<arrived, queue, handled, bg, packet, calling, packets, cancelled>>
  BY DEF SendReply, Kernel, At, Running, notThread, traffic
<1>2. packet # 0 /\ reply = 1
  <2>1. todo # <<"log">> /\ todo \notin Plain \cup Aborting
    BY <1>1, Heads
  <2> QED BY <1>1, <2>1 DEF StageInv, Late
<1>3. CASE Fault /\ todo' = <<"log", "free">> /\ reply' = 0
  <2>1. StageInv' /\ todo' # <<>> /\ Head(todo') \in Late
    BY <1>1, <1>2, <1>3, NewWay
  <2>2. /\ QueueInv' /\ HandledInv'
        /\ Cardinality(Unsigned(arrived, Verified)') = Cardinality(Unsigned(arrived, Verified))
        /\ Cardinality(Unsigned(arrived, Verified)) \in Nat
    BY <1>1, <2>1, QuietStep DEF Late
  <2>3. PacketInv'
    BY <1>1, <1>2, <1>3, <2>2 DEF PacketInv, InHand, Fault
  <2> QED BY <2>1, <2>2, <2>3
<1>4. CASE todo' = Tail(todo) /\ UNCHANGED <<reply, faults>>
  <2>1. StageInv' /\ (todo' # <<>> => Head(todo') \in Late)
    BY <1>1, <1>4, NextStep
  <2>2. /\ QueueInv' /\ HandledInv'
        /\ Cardinality(Unsigned(arrived, Verified)') = Cardinality(Unsigned(arrived, Verified))
    BY <1>1, <2>1, QuietStep DEF Late
  <2>3. PacketInv'
    BY <1>1, <1>4, <2>2 DEF PacketInv, InHand
  <2> QED BY <2>1, <2>2, <2>3
<1> QED BY <1>3, <1>4 DEF SendReply

LEMMA FreeReplyKeepsThread ==
  ASSUME ThreadInv, FreeReply PROVE ThreadInv'
<1> USE DEF ThreadInv
<1>1. /\ todo # <<>> /\ Head(todo) = "free_reply" /\ calling = "nothing"
      /\ todo' = Tail(todo) /\ reply' = 0 /\ packets' = packets - 1
      /\ UNCHANGED <<arrived, queue, handled, bg, packet, calling, faults, cancelled>>
  BY DEF FreeReply, At, Running, notThread, traffic
<1>2. packet # 0 /\ reply = 1 /\ todo' = <<"free">>
  <2>1. todo # <<"log">> /\ todo \notin Plain \cup Aborting
    BY <1>1, Heads
  <2>2. packet # 0 /\ todo \in Answering
    BY <1>1, <2>1 DEF StageInv, Late
  <2> QED BY <1>1, <2>2, Tails DEF StageInv
<1>3. StageInv' /\ todo' # <<>> /\ Head(todo') \in Late
  BY <1>1, <1>2, NewWay
<1>4. /\ QueueInv' /\ HandledInv'
      /\ Cardinality(Unsigned(arrived, Verified)') = Cardinality(Unsigned(arrived, Verified))
      /\ Cardinality(Unsigned(arrived, Verified)) \in Nat
  BY <1>1, <1>3, QuietStep DEF Late
<1>5. PacketInv'
  BY <1>1, <1>2, <1>4 DEF PacketInv, InHand
<1> QED BY <1>3, <1>4, <1>5

LEMMA FreeKeepsThread ==
  ASSUME ThreadInv, Free PROVE ThreadInv'
<1> USE DEF ThreadInv
<1>1. /\ todo # <<>> /\ Head(todo) = "free" /\ calling = "nothing" /\ bg = "running"
      /\ todo' = <<>> /\ packet' = 0 /\ packets' = packets - 1 /\ reply = 0
      /\ UNCHANGED <<arrived, queue, handled, bg, reply, calling, faults, cancelled>>
  BY NoReply DEF Free, At, Running, notThread, traffic
<1>2. StageInv'
  BY <1>1, NotAnswering DEF StageInv
<1>3. /\ QueueInv' /\ HandledInv'
      /\ Cardinality(Unsigned(arrived, Verified)') = Cardinality(Unsigned(arrived, Verified))
      /\ Cardinality(Unsigned(arrived, Verified)) \in Nat
  BY <1>1, QuietStep
<1>4. PacketInv'
  BY <1>1, <1>3 DEF PacketInv, InHand
<1> QED BY <1>2, <1>3, <1>4

\* The process takes its packets with it.
LEMMA AbortKeepsThread ==
  ASSUME ThreadInv, Abort PROVE ThreadInv'
<1> USE DEF ThreadInv
<1>1. /\ todo # <<>> /\ Head(todo) = "abort" /\ calling = "nothing"
      /\ todo' = <<>> /\ packet' = 0 /\ packets' = 0 /\ reply' = 0 /\ bg' = "none"
      /\ UNCHANGED <<arrived, queue, handled, calling, faults, cancelled>>
  BY DEF Abort, At, Running, traffic
<1>2. StageInv'
  BY <1>1, NotAnswering DEF StageInv
<1>3. /\ QueueInv' /\ HandledInv'
      /\ Cardinality(Unsigned(arrived, Verified)') = Cardinality(Unsigned(arrived, Verified))
      /\ Cardinality(Unsigned(arrived, Verified)) \in Nat
  BY <1>1, QuietStep
<1>4. PacketInv'
  BY <1>1, <1>3 DEF PacketInv, InHand
<1> QED BY <1>2, <1>3, <1>4

LEMMA EndKeepsThread ==
  ASSUME ThreadInv, End PROVE ThreadInv'
<1> USE DEF ThreadInv
<1>1. /\ todo # <<>> => Head(todo) \notin {"verify", "route"}
      /\ todo' = <<>> /\ packet' = 0 /\ reply' = 0 /\ reply \in 0 .. 1
      /\ calling' = "nothing" /\ bg = "running" /\ bg' = "ended"
      /\ cancelled' /\ UNCHANGED <<arrived, queue, handled, packets, faults>>
  BY DEF End, At, StageInv, notThread, traffic
<1>2. StageInv'
  BY <1>1, NotAnswering DEF StageInv
<1>3. /\ QueueInv' /\ HandledInv'
      /\ Cardinality(Unsigned(arrived, Verified)') = Cardinality(Unsigned(arrived, Verified))
      /\ Cardinality(Unsigned(arrived, Verified)) \in Nat
  BY <1>1, QuietStep
<1>4. PacketInv'
  BY <1>1, <1>3 DEF PacketInv, InHand
<1> QED BY <1>2, <1>3, <1>4

-----------------------------------------------------------------------------
(* The steps of the application                                            *)

\* Of the application only the creation of a node and its destruction touch
\* what the thread uses, and both while it does not run or without its notice.
LEMMA ApplicationKeepsThread ==
  ASSUME ThreadInv, UNCHANGED <<bg, todo, packet, reply, calling, traffic, packets>>,
         cancelled' \/ cancelled' = cancelled, faults' \in Nat, faults' >= faults
  PROVE  ThreadInv'
<1> USE DEF ThreadInv
<1>1. UNCHANGED <<arrived, queue, handled>>
  BY DEF traffic
<1>2. QueueInv' /\ Consumed' = Consumed /\ First' = First
  BY <1>1 DEF QueueInv, Consumed, First
<1>3. StageInv' /\ HandledInv'
  BY <1>1, <1>2 DEF StageInv, HandledInv, Acceptable
<1>4. Unsigned(arrived, Verified)' = Unsigned(arrived, Verified)
  BY <1>1, <1>2 DEF Unsigned, Verified
<1>5. Verified \in Nat
  <2>1. Consumed \in Nat
    BY DEF QueueInv, Consumed
  <2> QED BY <2>1 DEF Verified, StageInv
<1>6. Cardinality(Unsigned(arrived, Verified)) \in Nat
  BY <1>5, UnsignedGrows
<1>7. PacketInv'
  BY <1>1, <1>4, <1>6 DEF PacketInv, StageInv, InHand
<1> QED BY <1>2, <1>3, <1>7

\* A new node has no thread yet or one that has done nothing.
LEMMA NewThread ==
  ASSUME todo' = <<>>, packet' = 0, reply' = 0, calling' = "nothing", packets' = 0, bg' # "ended",
         arrived' = <<>>, queue' = <<>>, handled' = <<>>, faults' \in Nat
  PROVE  ThreadInv'
<1>1. QueueInv' /\ Consumed' = 0
  BY DEF QueueInv, Consumed
<1>2. StageInv'
  BY NotAnswering DEF StageInv
<1>3. HandledInv'
  BY DEF HandledInv
<1>4. Unsigned(arrived, Verified)' = {}
  BY <1>1 DEF Unsigned, Verified
<1>5. PacketInv'
  <2>1. Cardinality(Unsigned(arrived, Verified)') = 0
    BY <1>4, FS_EmptySet
  <2> QED BY <2>1 DEF PacketInv, InHand
<1> QED BY <1>1, <1>2, <1>3, <1>5 DEF ThreadInv

LEMMA ThreadInductive ==
  /\ NodeInit => ThreadInv
  /\ ThreadInv /\ [NodeNext]_nodeVars => ThreadInv'
<1>1. ASSUME NodeInit PROVE ThreadInv
  <2>1. QueueInv /\ Consumed = 0
    BY <1>1 DEF NodeInit, QueueInv, Consumed
  <2>2. StageInv
    BY <1>1, NotAnswering DEF NodeInit, StageInv
  <2>3. HandledInv
    BY <1>1 DEF NodeInit, HandledInv
  <2>4. Unsigned(arrived, Verified) = {}
    BY <1>1, <2>1 DEF NodeInit, Unsigned, Verified
  <2>5. PacketInv
    BY <1>1, <2>4, FS_EmptySet DEF NodeInit, PacketInv, InHand
  <2> QED BY <2>1, <2>2, <2>3, <2>5 DEF ThreadInv
<1>2. ASSUME ThreadInv, [NodeNext]_nodeVars PROVE ThreadInv'
  <2> USE <1>2
  <2>1. faults \in Nat
    BY DEF ThreadInv, PacketInv
  <2>2. CASE AtNoPort
    BY <2>1, <2>2, ApplicationKeepsThread DEF AtNoPort, Fault, thread
  <2>3. ASSUME NEW failing \in {"get_name", "vec", "thread", "none"}, AtPort(failing)
        PROVE  ThreadInv'
    <3>1. faults' \in Nat /\ bg' \in {"running", "none"}
      BY <2>1, <2>3 DEF AtPort, Fault
    <3> QED BY <2>3, <3>1, NewThread DEF AtPort
  <2>4. CASE Cancel
    BY <2>1, <2>4, ApplicationKeepsThread DEF Cancel, thread
  <2>5. CASE Join
    BY <2>1, <2>5, ApplicationKeepsThread DEF Join, thread
  <2>6. CASE \E set \in BOOLEAN : SetUpcall(set)
    BY <2>1, <2>6, ApplicationKeepsThread DEF SetUpcall, nodeButCallbacks, thread
  <2>7. CASE \E which \in {"default", "custom"} : SetLogCallback(which)
    BY <2>1, <2>7, ApplicationKeepsThread DEF SetLogCallback, nodeButCallbacks, thread
  <2>8. CASE InitClosure \/ FreeClosure \/ \E args \in Curryings : CurryClosure(args)
    BY <2>1, <2>8, ApplicationKeepsThread
       DEF InitClosure, FreeClosure, CurryClosure, nodeButCallbacks, thread
  <2>9. CASE \E d \in Datagrams : Arrive(d)
    BY <2>9, ArriveKeepsThread
  <2>10. CASE UNCHANGED nodeVars
    BY <2>1, <2>10, ApplicationKeepsThread DEF nodeVars, thread
  <2>11. CASE Background
    BY <2>11, PeekKeepsThread, DiscardKeepsThread, AllocKeepsThread, RecvKeepsThread,
       VerifyKeepsThread, RouteKeepsThread, CallsKeepThread, AnswerKeepsThread,
       SendReplyKeepsThread, FreeReplyKeepsThread, FreeKeepsThread, EndKeepsThread
       DEF Background
  <2> QED BY <2>2, <2>3, <2>4, <2>5, <2>6, <2>7, <2>8, <2>9, <2>10, <2>11, AbortKeepsThread
          DEF NodeNext, Application
<1> QED BY <1>1, <1>2

-----------------------------------------------------------------------------
\* At each of its steps the thread relies on what it has found out before.
THEOREM NodeThreadInvariant == NodeSpec => []ThreadInv
BY ThreadInductive, PTL DEF NodeSpec

\* What is forwarded or delivered is whole, short enough and signed if the
\* node checks, and never a datagram twice.
THEOREM NodeHandledFaithful == NodeSpec => []HandledFaithful
<1>1. ThreadInv => HandledFaithful
  BY DEF ThreadInv, HandledInv, HandledFaithful
<1> QED BY <1>1, NodeThreadInvariant, PTL

\* However many datagrams arrive, only rejected ones, failures (a reply that
\* cannot be sent is one) and the end of the thread leave packets that are not
\* freed: one for each, and two for the end.
THEOREM NodePacketsAccounted == NodeSpec => []PacketsAccounted
<1>1. ASSUME ThreadInv PROVE PacketsAccounted
  <2>1. Verified \in Nat /\ Len(arrived) \in Nat /\ Verified <= Len(arrived)
    BY <1>1 DEF ThreadInv, Verified, StageInv, QueueInv, Consumed
  <2>2. /\ Cardinality(Unsigned(arrived, Verified)) <= Cardinality(Unsigned(arrived, Len(arrived)))
        /\ Cardinality(Unsigned(arrived, Verified)) \in Nat
        /\ Cardinality(Unsigned(arrived, Len(arrived))) \in Nat
    BY <2>1, UnsignedGrows
  <2>3. packets <= Cardinality(Unsigned(arrived, Len(arrived))) + faults
                   + (IF cancelled THEN 2 ELSE InHand)
    BY <1>1, <2>2 DEF ThreadInv, PacketInv, StageInv, InHand
  <2> QED BY <2>3 DEF PacketsAccounted, Unsigned
<1> QED BY <1>1, NodeThreadInvariant, PTL

-----------------------------------------------------------------------------
(* The closure of the application                                          *)

\* A node calls back only what is installed in it, and what is installed is
\* not freed; what was freed before its time was replaced before.
ClosureInv ==
  /\ log \in {"default", "custom"}
  /\ app # "out" /\ log = "custom" => memory = "live"
  /\ calling = "custom" => memory # "freed"
  /\ bg # "running" => calling = "nothing"

LEMMA ClosureInductive ==
  /\ NodeInit => ClosureInv
  /\ LifeInv /\ ClosureInv /\ [NodeNext]_nodeVars => ClosureInv'
<1>1. NodeInit => ClosureInv
  BY DEF NodeInit, ClosureInv
<1>2. ASSUME LifeInv, ClosureInv, [NodeNext]_nodeVars PROVE ClosureInv'
  <2> USE <1>2 DEF LifeInv, ClosureInv
  <2>1. CASE UNCHANGED <<app, log, memory, calling, bg>>
    BY <2>1
  <2>2. CASE AtNoPort
    BY <2>1, <2>2 DEF AtNoPort, thread, callbacks, closure
  <2>3. ASSUME NEW failing \in {"get_name", "vec", "thread", "none"}, AtPort(failing)
        PROVE  ClosureInv'
    BY <2>3 DEF AtPort
  <2>4. CASE Cancel
    BY <2>4 DEF Cancel, thread, callbacks, closure
  <2>5. CASE Join
    BY <2>5 DEF Join, thread, callbacks, closure
  <2>6. CASE \E set \in BOOLEAN : SetUpcall(set)
    BY <2>1, <2>6 DEF SetUpcall, nodeButCallbacks, thread, closure
  <2>7. CASE \E which \in {"default", "custom"} : SetLogCallback(which)
    BY <2>7 DEF SetLogCallback, nodeButCallbacks, thread, closure
  <2>8. CASE InitClosure
    BY <2>8 DEF InitClosure, nodeButCallbacks, thread
  <2>9. CASE app # "aborted" /\ FreeClosure
    BY <2>9 DEF FreeClosure, nodeButCallbacks, thread
  <2>10. CASE \E args \in Curryings : CurryClosure(args)
    BY <2>1, <2>10 DEF CurryClosure, nodeButCallbacks, thread
  <2>11. CASE \E d \in Datagrams : Arrive(d)
    BY <2>1, <2>11 DEF Arrive, thread, callbacks, closure
  <2>12. CASE UNCHANGED nodeVars
    BY <2>1, <2>12 DEF nodeVars, thread, callbacks, closure
  <2>13. CASE Background
    <3>1. UNCHANGED <<app, log, memory>> /\ bg = "running"
      BY <2>13, BackgroundKeepsLife DEF notThread, callbacks, closure
    <3>2. CASE LoadLog
      BY <3>1, <3>2 DEF LoadLog, notThread
    <3>3. CASE LoadUpcall
      BY <3>1, <3>3 DEF LoadUpcall, notThread
    <3>4. CASE CallbackReturns \/ End
      BY <3>1, <3>4 DEF CallbackReturns, End
    <3>5. CASE UNCHANGED <<calling, bg>>
      BY <3>1, <3>5
    <3> QED BY <2>13, <3>2, <3>3, <3>4, <3>5
            DEF Background, Peek, Discard, Alloc, Recv, Verify, Route, Send, Answer,
                SendReply, FreeReply, Free
  <2>14. CASE Abort
    BY <2>14 DEF Abort, At, Running, callbacks, closure
  <2> QED BY <1>2, <2>2, <2>3, <2>4, <2>5, <2>6, <2>7, <2>8, <2>9, <2>10, <2>11, <2>12, <2>13,
             <2>14
          DEF NodeNext, Application
<1> QED BY <1>1, <1>2

\* A closure that the application frees only after it has destroyed the node is
\* not called any more.
THEOREM NodeClosureOutlivesCalls == NodeSpec => []ClosureOutlivesCalls
<1>1. ClosureInv => ClosureOutlivesCalls
  BY DEF ClosureInv, ClosureOutlivesCalls
<1>2. NodeSpec => []ClosureInv
  BY LifeInductive, ClosureInductive, PTL DEF NodeSpec
<1> QED BY <1>1, <1>2, PTL
-----------------------------------------------------------------------------
(* What is in a closure                                                    *)

\* The first arguments of a closure are those of a list.
Holds(c, list) == c.c_argc = Len(list) /\ \A i \in 1 .. Len(list) : c.c_argv[i] = list[i]

\* sn_util_closure_call hands them on, followed by those of the call.
LEMMA CallOfHeld ==
  ASSUME NEW c \in ClosureState, NEW list \in Seq(Arg), Holds(c, list), NEW args
  PROVE  Call(c, args) = list \o args
<1>1. Len(list) \in 0 .. MaxCurrying /\ Len(list) \in Nat
  BY CurryingAssumption DEF Holds, ClosureState
<1>2. SubSeq(c.c_argv, 1, c.c_argc) = list
  <2>1. SubSeq(c.c_argv, 1, c.c_argc) = [i \in 1 .. Len(list) |-> c.c_argv[i]]
    BY <1>1 DEF Holds
  <2>2. list = [i \in 1 .. Len(list) |-> list[i]]
    OBVIOUS
  <2> QED BY <2>1, <2>2 DEF Holds
<1> QED BY <1>2 DEF Call

\* sn_util_closure_curry appends all of its arguments or none of them.
LEMMA CurryFacts ==
  ASSUME NEW c \in ClosureState, NEW args \in Seq(Arg), NEW list \in Seq(Arg), Holds(c, list)
  PROVE  /\ Curry(c, args).closure \in ClosureState
         /\ IF Curry(c, args).ret = 0 THEN Holds(Curry(c, args).closure, list \o args)
                                      ELSE Holds(Curry(c, args).closure, list)
         /\ Curry(c, args).ret = 0 <=> Len(list) + Len(args) <= MaxCurrying
<1> DEFINE d == Curry(c, args).closure
<1>1. /\ c.c_argc \in 0 .. MaxCurrying /\ c.c_argc = Len(list)
      /\ c.c_argv \in [1 .. MaxCurrying -> Arg \cup {Garbage}]
      /\ MaxCurrying \in Nat /\ Len(list) \in Nat /\ Len(args) \in Nat
      /\ \A i \in 1 .. Len(args) : args[i] \in Arg
  BY CurryingAssumption DEF ClosureState, Holds
<1>2. /\ Fit(c, args) <=> Len(list) + Len(args) <= MaxCurrying
      /\ Curry(c, args).ret = IF Fit(c, args) THEN 0 ELSE -1
      /\ d.c_argc = IF Fit(c, args) THEN c.c_argc + Len(args) ELSE c.c_argc
      /\ d.c_argv = Written(c, args)
      /\ d = [c_argc |-> d.c_argc, c_argv |-> d.c_argv]
  BY <1>1 DEF Fit, Curry
<1>3. \A i \in 1 .. MaxCurrying :
         Written(c, args)[i] = IF i - c.c_argc \in 1 .. Len(args)
                               THEN args[i - c.c_argc] ELSE c.c_argv[i]
  BY DEF Written
<1>4. Written(c, args) \in [1 .. MaxCurrying -> Arg \cup {Garbage}]
  <2>1. \A i \in 1 .. MaxCurrying : Written(c, args)[i] \in Arg \cup {Garbage}
    BY <1>1, <1>3
  <2>2. Written(c, args) = [i \in 1 .. MaxCurrying |-> Written(c, args)[i]]
    BY DEF Written
  <2> QED BY <2>1, <2>2
<1> HIDE DEF d
<1>5. d \in ClosureState
  <2>1. d.c_argc \in 0 .. MaxCurrying
    BY <1>1, <1>2
  <2> QED BY <1>2, <1>4, <2>1 DEF ClosureState
<1>6. CASE Fit(c, args)
  <2>1. /\ Len(list \o args) = Len(list) + Len(args)
        /\ \A i \in 1 .. Len(list) + Len(args) :
             (list \o args)[i] = IF i <= Len(list) THEN list[i] ELSE args[i - Len(list)]
    BY <1>1
  <2>2. ASSUME NEW i \in 1 .. Len(list) + Len(args) PROVE d.c_argv[i] = (list \o args)[i]
    <3>1. i \in 1 .. MaxCurrying
      BY <1>1, <1>2, <1>6
    <3>2. CASE i <= Len(list)
      <4>1. i \in 1 .. Len(list) /\ i - c.c_argc \notin 1 .. Len(args)
        BY <1>1, <3>2
      <4> QED BY <1>2, <1>3, <2>1, <3>1, <3>2, <4>1 DEF Holds
    <3>3. CASE ~(i <= Len(list))
      <4>1. i - c.c_argc \in 1 .. Len(args)
        BY <1>1, <3>3
      <4> QED BY <1>1, <1>2, <1>3, <2>1, <3>1, <3>3, <4>1
    <3> QED BY <3>2, <3>3
  <2>3. Holds(d, list \o args)
    BY <1>1, <1>2, <1>6, <2>1, <2>2 DEF Holds
  <2> QED BY <1>2, <1>5, <1>6, <2>3 DEF d
<1>7. CASE ~Fit(c, args)
  <2>1. ASSUME NEW i \in 1 .. Len(list) PROVE d.c_argv[i] = list[i]
    <3>1. i \in 1 .. MaxCurrying /\ i - c.c_argc \notin 1 .. Len(args)
      BY <1>1
    <3> QED BY <1>2, <1>3, <3>1 DEF Holds
  <2>2. Holds(d, list)
    BY <1>1, <1>2, <1>7, <2>1 DEF Holds
  <2> QED BY <1>2, <1>5, <1>7, <2>2 DEF d
<1> QED BY <1>6, <1>7

\* An initialised closure has no arguments, whatever it was.
LEMMA ClosureInitFacts ==
  ASSUME NEW c \in ClosureState
  PROVE  ClosureInit(c) \in ClosureState /\ Holds(ClosureInit(c), <<>>)
<1>1. ClosureInit(c) = [c_argc |-> 0, c_argv |-> c.c_argv]
  BY DEF ClosureInit, ClosureState
<1> QED BY <1>1, CurryingAssumption DEF ClosureState, Holds

\* The default closure of a node whose thread runs has the name of the
\* library; a closure of the application what was curried into it.
ArgumentsInv ==
  /\ default \in ClosureState /\ custom \in ClosureState /\ curried \in Seq(Arg)
  /\ app # "out" \/ bg = "running" => Holds(default, <<Name>>)
  /\ memory = "live" => Holds(custom, curried)

LEMMA ArgumentsInductive ==
  /\ NodeInit => ArgumentsInv
  /\ LifeInv /\ ArgumentsInv /\ [NodeNext]_nodeVars => ArgumentsInv'
<1>1. ASSUME NodeInit PROVE ArgumentsInv
  <2>1. Unwritten \in ClosureState
    BY CurryingAssumption DEF Unwritten, ClosureState
  <2> QED BY <1>1, <2>1 DEF NodeInit, ArgumentsInv
<1>2. ASSUME LifeInv, ArgumentsInv, [NodeNext]_nodeVars PROVE ArgumentsInv'
  <2> USE <1>2 DEF LifeInv, ArgumentsInv
  <2>1. ASSUME UNCHANGED <<default, custom, curried, memory>>,
               app' # "out" \/ bg' = "running" => app # "out" \/ bg = "running"
        PROVE  ArgumentsInv'
    BY <2>1 DEF Holds
  <2>2. CASE AtNoPort
    BY <2>1, <2>2 DEF AtNoPort, thread, callbacks, closure
  <2>3. ASSUME NEW failing \in {"get_name", "vec", "thread", "none"}, AtPort(failing)
        PROVE  ArgumentsInv'
    <3>1. <<Name>> \in Seq(Arg) /\ <<>> \in Seq(Arg) /\ Len(<<Name>>) = 1 /\ Len(<<>>) = 0
          /\ <<>> \o <<Name>> = <<Name>>
      BY NodeAssumption
    <3> DEFINE c == ClosureInit(default)
    <3>2. c \in ClosureState /\ Holds(c, <<>>)
      BY ClosureInitFacts
    <3> HIDE DEF c
    <3>3. /\ Curry(c, <<Name>>).closure \in ClosureState
          /\ Holds(Curry(c, <<Name>>).closure,
                   IF Curry(c, <<Name>>).ret = 0 THEN <<>> \o <<Name>> ELSE <<>>)
      BY <3>1, <3>2, CurryFacts
    <3>4. Curry(c, <<Name>>).ret = 0
      BY <3>1, <3>2, CurryingAssumption DEF Curry, Fit, Holds
    <3>5. /\ InitCurried(default, <<Name>>) \in ClosureState
          /\ Holds(InitCurried(default, <<Name>>), <<Name>>)
      BY <3>1, <3>3, <3>4 DEF InitCurried, c
    <3>6. /\ default' = InitCurried(default, <<Name>>)
          /\ UNCHANGED <<custom, memory, curried>>
      BY <2>3 DEF AtPort, closure
    <3> QED BY <3>5, <3>6 DEF Holds
  <2>4. CASE Cancel
    BY <2>1, <2>4 DEF Cancel, thread, callbacks, closure
  <2>5. CASE Join
    BY <2>1, <2>5 DEF Join, thread, callbacks, closure
  <2>6. CASE \E set \in BOOLEAN : SetUpcall(set)
    BY <2>1, <2>6 DEF SetUpcall, nodeButCallbacks, thread, closure
  <2>7. CASE \E which \in {"default", "custom"} : SetLogCallback(which)
    BY <2>1, <2>7 DEF SetLogCallback, nodeButCallbacks, thread, closure
  <2>8. CASE InitClosure
    <3>1. UNCHANGED <<app, bg, default>> /\ custom' = ClosureInit(custom) /\ curried' = <<>>
      BY <2>8 DEF InitClosure, nodeButCallbacks, thread
    <3> QED BY <3>1, ClosureInitFacts DEF Holds
  <2>9. CASE FreeClosure
    <3>1. UNCHANGED <<app, bg, default, custom, curried>> /\ memory' # "live"
      BY <2>9 DEF FreeClosure, nodeButCallbacks, thread
    <3> QED BY <3>1 DEF Holds
  <2>10. ASSUME NEW args \in Curryings, CurryClosure(args) PROVE ArgumentsInv'
    <3>1. /\ UNCHANGED <<app, bg, default, memory>> /\ args \in Seq(Arg)
          /\ Holds(custom, curried) /\ custom' = Curry(custom, args).closure
          /\ curried' = IF Curry(custom, args).ret = 0 THEN curried \o args ELSE curried
      BY <2>10, NodeAssumption DEF CurryClosure, nodeButCallbacks, thread
    <3>2. custom' \in ClosureState /\ Holds(custom', curried') /\ curried' \in Seq(Arg)
      BY <3>1, CurryFacts
    <3> QED BY <3>1, <3>2 DEF Holds
  <2>11. CASE \E d \in Datagrams : Arrive(d)
    BY <2>1, <2>11 DEF Arrive, thread, callbacks, closure
  <2>12. CASE UNCHANGED nodeVars
    BY <2>1, <2>12 DEF nodeVars, thread, callbacks, closure
  <2>13. CASE Background
    BY <2>1, <2>13, BackgroundKeepsLife DEF notThread, callbacks, closure
  <2>14. CASE Abort
    BY <2>1, <2>14 DEF Abort, At, Running, callbacks, closure
  <2> QED BY <1>2, <2>2, <2>3, <2>4, <2>5, <2>6, <2>7, <2>8, <2>9, <2>10, <2>11, <2>12, <2>13,
             <2>14
          DEF NodeNext, Application
<1> QED BY <1>1, <1>2

\* A log callback gets what was curried into its closure, nothing of a
\* currying that failed, and the message; the default one gets its name.
THEOREM NodeLogArguments == NodeSpec => []LogArguments
<1>1. ASSUME ClosureInv, ArgumentsInv PROVE LogArguments
  <2> Name \in Arg /\ Msg \in Arg
    BY NodeAssumption
  <2>0. <<Name>> \in Seq(Arg) /\ <<Msg>> \in Seq(Arg) /\ <<Name, Msg>> \in Seq(Arg)
    OBVIOUS
  <2>1. <<Name>> \in Seq(Arg) /\ <<Name>> \o <<Msg>> = <<Name, Msg>>
    <3>1. /\ <<Name>> \o <<Msg>> \in Seq(Arg) /\ Len(<<Name>> \o <<Msg>>) = 2
          /\ (<<Name>> \o <<Msg>>)[1] = Name /\ (<<Name>> \o <<Msg>>)[2] = Msg
      BY <2>0
    <3> DEFINE f == <<Name>> \o <<Msg>>   g == <<Name, Msg>>
    <3>2. Len(f) = 2 /\ Len(g) = 2 /\ f[1] = g[1] /\ f[2] = g[2]
      BY <3>1
    <3>3. f \in Seq(Arg) /\ g \in Seq(Arg)
      BY <2>0, <3>1
    <3> HIDE DEF f, g
    <3>4. f = [i \in 1 .. 2 |-> f[i]] /\ g = [i \in 1 .. 2 |-> g[i]]
      BY <3>2, <3>3
    <3>5. \A i \in 1 .. 2 : f[i] = g[i]
      <4>1. \A i \in 1 .. 2 : i = 1 \/ i = 2
        OBVIOUS
      <4> QED BY <3>2, <4>1
    <3>6. f = g
      BY <3>4, <3>5
    <3> QED BY <2>0, <3>6 DEF f, g
  <2>2. calling = "default" => Call(default, <<Msg>>) = <<Name, Msg>>
    BY <1>1, <2>1, CallOfHeld DEF ClosureInv, ArgumentsInv
  <2>3. calling = "custom" /\ memory = "live" => Call(custom, <<Msg>>) = curried \o <<Msg>>
    BY <1>1, CallOfHeld DEF ArgumentsInv
  <2> QED BY <2>2, <2>3 DEF LogArguments
<1>2. NodeSpec => []ClosureInv /\ []ArgumentsInv
  BY LifeInductive, ClosureInductive, ArgumentsInductive, PTL DEF NodeSpec
<1> QED BY <1>1, <1>2, PTL
-----------------------------------------------------------------------------
(* The values of the variables                                             *)

\* The packets in hand are among those that are not freed.
BoundsInv ==
  /\ cancelled \in BOOLEAN /\ upcall \in BOOLEAN
  /\ bg \in {"none", "running", "ended"} /\ memory \in {"live", "freed", "early"}
  /\ calling \in {"nothing", "upcall", "default", "custom"}
  /\ Len(arrived) <= MaxArrivals /\ packet \in 0 .. MaxArrivals
  /\ faults \in 0 .. MaxFaults
  /\ packets \in Nat /\ packets >= InHand

LEMMA BackgroundKeepsBounds ==
  ASSUME ThreadInv, ClosureInv, BoundsInv, Background PROVE BoundsInv'
<1> USE DEF BoundsInv
<1>1. /\ UNCHANGED <<cancelled, upcall, memory>> /\ bg' \in {"running", "ended"}
      /\ todo \in Seq(Steps) /\ packet \in Nat /\ faults \in Nat
      /\ log \in {"default", "custom"} /\ calling \in {"nothing", "upcall", "default", "custom"}
  BY BackgroundKeepsLife DEF notThread, callbacks, closure, ThreadInv, StageInv, ClosureInv
<1>2. arrived' = arrived /\ faults' \in 0 .. MaxFaults
  BY NodeAssumption
     DEF Background, Peek, Discard, Alloc, Recv, Verify, Route, Send, Answer, SendReply,
         FreeReply, LoadLog, LoadUpcall, CallbackReturns, Free, End, Fault, traffic
<1>3. calling' \in {"nothing", "upcall", "default", "custom"}
  BY <1>1
     DEF Background, Peek, Discard, Alloc, Recv, Verify, Route, Send, Answer, SendReply,
         FreeReply, LoadLog, LoadUpcall, CallbackReturns, Free, End
<1>4. packet' \in 0 .. MaxArrivals
  <2>1. queue # <<>> => Head(queue) \in 0 .. MaxArrivals
    <3>1. Len(arrived) \in Nat /\ MaxArrivals \in Nat /\ Len(arrived) <= MaxArrivals
      BY NodeAssumption DEF ThreadInv, QueueInv
    <3>2. queue # <<>> => Head(queue) \in 1 .. Len(arrived)
      BY ConsumeFirst DEF ThreadInv
    <3> QED BY <3>1, <3>2
  <2>2. todo # <<>> /\ Head(todo) = "alloc" => queue # <<>>
    BY DEF ThreadInv, StageInv
  <2> QED BY <2>1, <2>2, NodeAssumption
          DEF Background, Peek, Discard, Alloc, Recv, Verify, Route, Send, Answer, SendReply,
              FreeReply, LoadLog, LoadUpcall, CallbackReturns, Free, End, At
<1>5. reply \in 0 .. 1
  BY DEF ThreadInv, StageInv
<1> SUFFICES packets' \in Nat /\ packets' >= InHand'
  BY <1>1, <1>2, <1>3, <1>4
<1> USE DEF InHand
<1>6. ASSUME UNCHANGED <<packet, reply, packets>> PROVE packets' \in Nat /\ packets' >= InHand'
  BY <1>6
<1>7. CASE Alloc
  <2>1. packet = 0
    BY <1>7 DEF Alloc, At, ThreadInv, StageInv
  <2> QED BY <1>1, <1>4, <1>5, <1>6, <1>7, <2>1 DEF Alloc
<1>8. CASE Recv
  <2>1. packet # 0 /\ reply = 0
    <3>1. todo # <<>> /\ Head(todo) = "recv"
      BY <1>8 DEF Recv, Kernel, At
    <3>2. packet = Head(queue) /\ queue # <<>> /\ reply = 0
      BY <3>1, NoReply DEF ThreadInv, StageInv
    <3> QED BY <3>2, ConsumeFirst DEF ThreadInv
  <2>2. \/ packet' = 0 /\ reply' = 0 /\ packets' \in {packets, packets - 1}
        \/ UNCHANGED <<packet, reply, packets>>
    BY <1>8, <2>1 DEF Recv
  <2> QED BY <1>6, <2>1, <2>2
<1>9. CASE Verify
  BY <1>1, <1>5, <1>9 DEF Verify
<1>10. CASE Answer
  <2>1. reply = 0
    BY <1>10, NoReply DEF Answer, At, ThreadInv
  <2> QED BY <1>1, <1>6, <1>10, <2>1 DEF Answer
<1>11. CASE SendReply
  BY <1>1, <1>5, <1>6, <1>11 DEF SendReply
<1>12. CASE FreeReply
  <2>1. reply = 1
    <3>1. todo # <<>> /\ Head(todo) = "free_reply"
      BY <1>12 DEF FreeReply, At
    <3>2. todo # <<"log">> /\ todo \notin Plain \cup Aborting
      BY <3>1, Heads
    <3> QED BY <3>1, <3>2 DEF ThreadInv, StageInv, Late
  <2> QED BY <1>1, <1>12, <2>1 DEF FreeReply
<1>13. CASE Free
  <2>1. packet # 0 /\ reply = 0
    <3>1. todo # <<>> /\ Head(todo) = "free"
      BY <1>13 DEF Free, At
    <3>2. todo # <<"log">> /\ reply = 0
      BY <3>1, NoReply DEF ThreadInv
    <3> QED BY <3>1, <3>2 DEF ThreadInv, StageInv, Late
  <2> QED BY <1>1, <1>13, <2>1 DEF Free
<1>14. CASE End
  BY <1>14 DEF End
<1> QED BY <1>6, <1>7, <1>8, <1>9, <1>10, <1>11, <1>12, <1>13, <1>14
        DEF Background, Peek, Discard, Route, Send, LoadLog, LoadUpcall, CallbackReturns

LEMMA BoundsInductive ==
  /\ NodeInit => BoundsInv
  /\ ThreadInv /\ ClosureInv /\ BoundsInv /\ [NodeNext]_nodeVars => BoundsInv'
<1>1. ASSUME NodeInit PROVE BoundsInv
  <2>1. MaxArrivals \in Nat /\ MaxFaults \in Nat
    BY NodeAssumption
  <2>2. Len(arrived) = 0 /\ InHand = 0
    BY <1>1 DEF NodeInit, InHand
  <2>3. cancelled \in BOOLEAN /\ upcall \in BOOLEAN
    BY <1>1, Zenon DEF NodeInit
  <2>4. /\ bg = "none" /\ memory = "freed" /\ calling = "nothing"
        /\ packet = 0 /\ packets = 0 /\ faults = 0
    BY <1>1 DEF NodeInit
  <2> QED BY <2>1, <2>2, <2>3, <2>4 DEF BoundsInv
<1>2. ASSUME ThreadInv, ClosureInv, BoundsInv, [NodeNext]_nodeVars PROVE BoundsInv'
  <2> USE <1>2 DEF BoundsInv
  <2>1. Fault => faults' \in 0 .. MaxFaults
    BY NodeAssumption DEF Fault
  <2>2. ASSUME UNCHANGED <<bg, todo, packet, reply, calling, arrived, packets>>,
               cancelled' \in BOOLEAN, upcall' \in BOOLEAN,
               memory' \in {"live", "freed", "early"}, faults' \in 0 .. MaxFaults
        PROVE  BoundsInv'
    BY <2>2 DEF InHand
  <2>3. CASE AtNoPort
    BY <2>1, <2>2, <2>3 DEF AtNoPort, thread, callbacks, closure, traffic
  <2>4. ASSUME NEW failing \in {"get_name", "vec", "thread", "none"}, AtPort(failing)
        PROVE  BoundsInv'
    <3>1. faults' \in 0 .. MaxFaults /\ bg' \in {"running", "none"} /\ memory' = memory
      BY <2>1, <2>4 DEF AtPort, closure
    <3>2. /\ upcall' = FALSE /\ cancelled' = FALSE /\ packet' = 0 /\ reply' = 0
          /\ calling' = "nothing" /\ arrived' = <<>> /\ packets' = 0
      BY <2>4 DEF AtPort
    <3>3. MaxArrivals \in Nat /\ Len(arrived') = 0 /\ InHand' = 0
      BY <3>2, NodeAssumption DEF InHand
    <3>4. cancelled' \in BOOLEAN /\ upcall' \in BOOLEAN
      BY <3>2, Zenon
    <3>5. calling' = "nothing" /\ packet' = 0 /\ packets' = 0
      BY <3>2
    <3> QED BY <3>1, <3>3, <3>4, <3>5
  <2>5. CASE Cancel
    BY <2>2, <2>5 DEF Cancel, thread, callbacks, closure, traffic
  <2>6. CASE Join
    BY <2>2, <2>6 DEF Join, thread, callbacks, closure, traffic
  <2>7. CASE \E set \in BOOLEAN : SetUpcall(set)
    BY <2>2, <2>7 DEF SetUpcall, nodeButCallbacks, thread, closure, traffic
  <2>8. CASE \E which \in {"default", "custom"} : SetLogCallback(which)
    BY <2>2, <2>8 DEF SetLogCallback, nodeButCallbacks, thread, closure, traffic
  <2>9. CASE InitClosure \/ FreeClosure \/ \E args \in Curryings : CurryClosure(args)
    BY <2>2, <2>9
       DEF InitClosure, FreeClosure, CurryClosure, nodeButCallbacks, thread, traffic
  <2>10. ASSUME NEW d \in Datagrams, Arrive(d) PROVE BoundsInv'
    <3>1. Len(arrived') <= MaxArrivals
      <4>1. arrived \in Seq(Datagrams)
        BY DEF ThreadInv, QueueInv
      <4>2. Len(arrived) < MaxArrivals /\ arrived' = Append(arrived, d)
        BY <2>10 DEF Arrive
      <4>3. Len(arrived') = Len(arrived) + 1 /\ Len(arrived) \in Nat
        BY <4>1, <4>2
      <4> QED BY <4>2, <4>3, NodeAssumption
    <3> QED BY <2>10, <3>1 DEF Arrive, thread, callbacks, closure, InHand
  <2>11. CASE UNCHANGED nodeVars
    BY <2>2, <2>11 DEF nodeVars, thread, callbacks, closure, traffic
  <2>12. CASE Background
    BY <2>12, BackgroundKeepsBounds
  <2>13. CASE Abort
    <3>1. /\ UNCHANGED <<cancelled, upcall, memory, arrived, faults, calling>> /\ bg' = "none"
          /\ packet' = 0 /\ packets' = 0 /\ InHand' = 0
      BY <2>13 DEF Abort, callbacks, closure, traffic, InHand
    <3> QED BY <3>1, NodeAssumption
  <2> QED BY <1>2, <2>3, <2>4, <2>5, <2>6, <2>7, <2>8, <2>9, <2>10, <2>11, <2>12, <2>13
          DEF NodeNext, Application
<1> QED BY <1>1, <1>2

\* A sequence is one over any set that has its elements.
LEMMA ElementsIn ==
  ASSUME NEW S, NEW T, NEW s \in Seq(S), \A k \in 1 .. Len(s) : s[k] \in T
  PROVE  s \in Seq(T)
OBVIOUS

\* Everything the node keeps has the values it may have; of packets there are
\* never fewer than none, so that none is freed twice.
THEOREM NodeTypes == NodeSpec => []NodeTypeOK
<1>1. ASSUME LifeInv, ThreadInv, ClosureInv, ArgumentsInv, BoundsInv PROVE NodeTypeOK
  <2>1. /\ held \subseteq Resources /\ app \in {"out", "up", "joining", "aborted"}
        /\ log \in {"default", "custom"}
    BY <1>1 DEF LifeInv, ClosureInv
  <2>2. arrived \in Seq(Datagrams) /\ Len(arrived) \in Nat /\ Len(arrived) <= MaxArrivals
    BY <1>1 DEF BoundsInv, ThreadInv, QueueInv
  <2>3. Consumed \in 0 .. Len(arrived) /\ MaxArrivals \in Nat
    BY <1>1, NodeAssumption DEF ThreadInv, QueueInv, Consumed
  <2>4. queue \in Seq(1 .. MaxArrivals)
    <3>1. queue \in Seq(Nat) /\ \A k \in 1 .. Len(queue) : queue[k] \in 1 .. MaxArrivals
      BY <1>1, <2>2, <2>3, <2>2 DEF ThreadInv, QueueInv, Consumed
    <3> QED BY <3>1, ElementsIn
  <2>5. handled \in Seq(1 .. MaxArrivals)
    <3>1. handled \in Seq(Nat) /\ \A k \in 1 .. Len(handled) : handled[k] \in 1 .. MaxArrivals
      BY <1>1, <2>2, <2>3, <2>2 DEF ThreadInv, HandledInv
    <3> QED BY <3>1, ElementsIn
  <2> QED BY <1>1, <2>1, <2>2, <2>4, <2>5 DEF NodeTypeOK, BoundsInv, ArgumentsInv,
             ThreadInv, StageInv
<1>2. NodeSpec => [](LifeInv /\ ThreadInv /\ ClosureInv /\ ArgumentsInv /\ BoundsInv)
  BY LifeInductive, ThreadInductive, ClosureInductive, ArgumentsInductive, BoundsInductive, PTL
     DEF NodeSpec
<1> QED BY <1>1, <1>2, PTL
-----------------------------------------------------------------------------
(***************************************************************************)
(* The program (Process), for any number of threads that initialise the    *)
(* library beside main.  The invariants of the node hold of it as well,    *)
(* since it makes no step on its node that NodeLife does not make; MainInv *)
(* ties the life of the node to the place where main is; CallInv says what *)
(* is known when nobody but main has called sn_init.                       *)
(***************************************************************************)
LibInv == LibTypeOK /\ OneInitialiser

\* Nobody but main has ever called sn_init.
Alone == \A t \in Thread \ {Main} : call[t] = "out" /\ answer[t] = None

\* main calls sn_init once.
CallInv ==
  /\ main = "start" => call[Main] = "out" /\ answer[Main] = None
  /\ answer[Main] # None => call[Main] = "out"
  /\ main = "init" /\ call[Main] = "out" => answer[Main] # None
  /\ main \in {"create", "loop", "quit"} => answer[Main] \in {0, 1}
  /\ main = "returned" /\ app # "out" => answer[Main] \in {0, 1}
  /\ Alone => /\ answer[Main] = None /\ call[Main] # "sodium" => initialized = 0
              /\ answer[Main] # 1
              /\ answer[Main] = 0 => sodium = "ready"

\* Where main is, and with it its node.
MainInv ==
  /\ main \in {"start", "init", "create", "loop", "quit", "returned"}
  /\ main \in {"start", "init", "create"} => app = "out"
  /\ main = "loop" => app \in {"up", "aborted"}
  /\ main = "quit" => app \in {"joining", "aborted"}
  /\ main = "returned" => app = "out" \/ (app = "up" /\ status = 1)
  /\ bg # "running" => calling = "nothing"

-----------------------------------------------------------------------------
(* The initialisation of the library                                       *)

\* A call of sn_init.
LEMMA ProceedKeepsLib ==
  ASSUME LibInv, NEW t \in Thread, Proceed(t) PROVE LibInv'
<1> USE DEF LibInv, LibTypeOK, OneInitialiser, Initialising, Return, None
<1>1. CASE Load(t)
  BY <1>1 DEF Load
<1>2. CASE CompareExchange(t)
  BY <1>2 DEF CompareExchange
<1>3. CASE SodiumInit(t)
  BY <1>3 DEF SodiumInit
<1> QED BY <1>1, <1>2, <1>3 DEF Proceed

LEMMA EnterKeepsLib ==
  ASSUME LibInv, NEW t \in Thread, Enter(t) PROVE LibInv'
BY DEF LibInv, LibTypeOK, OneInitialiser, Initialising, Enter

\* What the steps of the program do to the library.
LEMMA LibStep ==
  ASSUME [Next]_vars
  PROVE  \/ UNCHANGED libVars
         \/ \E t \in Thread : Enter(t) \/ Proceed(t)
BY MainAssumption
   DEF Next, vars, MainInit, MainStep, MainInitialised, MainCreate, MainReturns,
       MainShowFails, MainQuit, Others

LEMMA LibInductive ==
  /\ Init => LibInv
  /\ LibInv /\ [Next]_vars => LibInv'
<1>1. Init => LibInv
  BY DEF Init, LibInit, LibInv, LibTypeOK, OneInitialiser, Initialising, None
<1>2. ASSUME LibInv, [Next]_vars PROVE LibInv'
  <2>1. CASE UNCHANGED libVars
    BY <1>2, <2>1 DEF libVars, LibInv, LibTypeOK, OneInitialiser, Initialising
  <2>2. CASE \E t \in Thread : Enter(t) \/ Proceed(t)
    BY <1>2, <2>2, ProceedKeepsLib, EnterKeepsLib
  <2> QED BY <1>2, <2>1, <2>2, LibStep
<1> QED BY <1>1, <1>2

-----------------------------------------------------------------------------
(* The node of the program                                                 *)

\* Its steps on its node are steps of an application that goes on.
LEMMA MainIsApplication ==
  ASSUME \/ AtNoPort \/ \E failing \in {"get_name", "vec", "thread", "none"} : AtPort(failing)
         \/ Cancel \/ Join
  PROVE  Application
<1>1. app # "aborted"
  BY DEF AtNoPort, AtPort, Cancel, Join
<1> QED BY <1>1 DEF Application

\* What the steps of the program do to its node.
LEMMA NodeStep ==
  ASSUME [Next]_vars
  PROVE  \/ [NodeNext]_nodeVars
         \/ /\ UNCHANGED <<held, app, cancelled, thread, callbacks, closure, traffic, packets>>
            /\ Fault
<1>1. CASE MainInit
  BY <1>1 DEF MainInit
<1>2. CASE MainInitialised
  BY <1>2 DEF MainInitialised
<1>3. CASE MainCreate
  BY <1>3, MainIsApplication DEF MainCreate, NodeNext
<1>4. CASE MainReturns
  BY <1>4, MainIsApplication DEF MainReturns, NodeNext
<1>5. CASE MainShowFails
  BY <1>5 DEF MainShowFails
<1>6. CASE MainQuit
  BY <1>6, MainIsApplication DEF MainQuit, NodeNext
<1>7. CASE Others
  BY <1>7 DEF Others, NodeNext
<1>8. CASE UNCHANGED vars
  BY <1>8 DEF vars
<1> QED BY <1>1, <1>2, <1>3, <1>4, <1>5, <1>6, <1>7, <1>8 DEF Next, MainStep

NodeInv == LifeInv /\ ThreadInv

LEMMA NodeInductive ==
  /\ Init => NodeInv
  /\ NodeInv /\ [Next]_vars => NodeInv'
<1>1. Init => NodeInv
  BY LifeInductive, ThreadInductive DEF Init, NodeInv
<1>2. ASSUME NodeInv, [Next]_vars PROVE NodeInv'
  <2>1. CASE [NodeNext]_nodeVars
    BY <1>2, <2>1, LifeInductive, ThreadInductive DEF NodeInv
  <2>2. CASE /\ UNCHANGED <<held, app, cancelled, thread, callbacks, closure, traffic, packets>>
             /\ Fault
    <3>1. LifeInv'
      BY <1>2, <2>2 DEF NodeInv, LifeInv, thread
    <3>2. faults \in Nat
      BY <1>2 DEF NodeInv, ThreadInv, PacketInv
    <3>3. ThreadInv'
      BY <1>2, <2>2, <3>2, ApplicationKeepsThread DEF NodeInv, Fault, thread
    <3> QED BY <3>1, <3>3 DEF NodeInv
  <2> QED BY <1>2, <2>1, <2>2, NodeStep
<1> QED BY <1>1, <1>2

\* A thread that has ended is in no callback.
LEMMA BackgroundLeavesCallbacks ==
  ASSUME Background
  PROVE  /\ UNCHANGED app /\ bg = "running"
         /\ bg' # "running" => calling' = "nothing"
<1>1. bg = "running" /\ UNCHANGED app
  BY BackgroundKeepsLife DEF notThread
<1>2. CASE End
  BY <1>1, <1>2 DEF End
<1>3. CASE ~End
  BY <1>1, <1>3
     DEF Background, Peek, Discard, Alloc, Recv, Verify, Route, Send, Answer, SendReply,
         FreeReply, LoadLog, LoadUpcall, CallbackReturns, Free
<1> QED BY <1>1, <1>2, <1>3

LEMMA MainInductive ==
  /\ Init => MainInv
  /\ MainInv /\ NodeInv /\ [Next]_vars => MainInv'
<1>1. Init => MainInv
  BY DEF Init, NodeInit, MainInv
<1>2. ASSUME MainInv, NodeInv, [Next]_vars PROVE MainInv'
  <2> USE <1>2 DEF MainInv, From, Exit
  <2>1. CASE MainInit
    BY <2>1 DEF MainInit, nodeVars, thread
  <2>2. CASE MainInitialised
    BY <2>2 DEF MainInitialised, nodeVars, thread
  <2>3. CASE MainCreate
    <3>1. CASE AtNoPort /\ Exit("create", 1)
      BY <3>1 DEF AtNoPort, thread
    <3>2. ASSUME NEW failing \in {"get_name", "vec", "thread"},
                 AtPort(failing), Exit("create", 1)
          PROVE  MainInv'
      BY <3>2 DEF AtPort
    <3>3. CASE AtPort("none") /\ From("create", "loop")
      BY <3>3 DEF AtPort
    <3> QED BY <2>3, <3>1, <3>2, <3>3 DEF MainCreate
  <2>4. CASE MainReturns
    BY <2>4 DEF MainReturns, Join, thread
  <2>5. CASE MainShowFails
    BY <2>5 DEF MainShowFails, thread
  <2>6. CASE MainQuit
    BY <2>6 DEF MainQuit, Cancel, thread
  <2>7. CASE Others
    <3>1. CASE UNCHANGED nodeVars
      BY <2>7, <3>1 DEF Others, nodeVars, thread
    <3>2. CASE Background
      BY <2>7, <3>2, BackgroundLeavesCallbacks DEF Others
    <3>3. CASE \E d \in Datagrams : Arrive(d)
      BY <2>7, <3>3 DEF Others, Arrive, thread
    <3>4. CASE Abort
      BY <2>7, <3>4 DEF Others, Alive, Abort, At, Running, NodeInv, LifeInv
    <3> QED BY <2>7, <3>1, <3>2, <3>3, <3>4 DEF Others
  <2>8. CASE UNCHANGED vars
    BY <2>8 DEF vars, nodeVars, thread
  <2> QED BY <1>2, <2>1, <2>2, <2>3, <2>4, <2>5, <2>6, <2>7, <2>8 DEF Next, MainStep
<1> QED BY <1>1, <1>2

\* What main knows of its call, when it or another thread goes on with one.
LEMMA ProceedKeepsCalls ==
  ASSUME LibInv, CallInv, MainInv, NEW t \in Thread, Proceed(t), UNCHANGED <<main, app>>
  PROVE  CallInv'
<1> USE MainAssumption DEF LibInv, LibTypeOK, OneInitialiser, Initialising, CallInv, Return, None
<1>1. Alone' => Alone
  BY DEF Alone, Proceed, Load, CompareExchange, SodiumInit
<1>2. CASE t = Main
  <2>1. Alone' => \A u \in Initialising : u = Main
    BY <1>1 DEF Alone
  <2>2. CASE Load(t)
    BY <1>1, <1>2, <2>2 DEF Load
  <2>3. CASE CompareExchange(t)
    BY <1>1, <1>2, <2>3 DEF CompareExchange
  <2>4. CASE SodiumInit(t)
    BY <1>1, <1>2, <2>4 DEF SodiumInit
  <2> QED BY <2>2, <2>3, <2>4 DEF Proceed
<1>3. CASE t # Main
  <2>1. ~Alone'
    BY <1>3 DEF Alone, Proceed, Load, CompareExchange, SodiumInit
  <2>2. call'[Main] = call[Main] /\ answer'[Main] = answer[Main]
    BY <1>3 DEF Proceed, Load, CompareExchange, SodiumInit
  <2> QED BY <2>1, <2>2
<1> QED BY <1>2, <1>3

LEMMA CallInductive ==
  /\ Init => CallInv
  /\ CallInv /\ LibInv /\ MainInv /\ [Next]_vars => CallInv'
<1> USE MainAssumption
<1>1. Init => CallInv
  BY DEF Init, LibInit, NodeInit, CallInv, None
<1>2. ASSUME CallInv, LibInv, MainInv, [Next]_vars PROVE CallInv'
  <2> USE <1>2 DEF From, Exit
  <2>1. CASE MainInit
    BY <2>1 DEF MainInit, nodeVars, Enter, CallInv, LibInv, LibTypeOK, Alone, None
  <2>2. ASSUME UNCHANGED libVars,
               main' = main \/ (main' # "start" /\ main' # "init"),
               main' \in {"create", "loop", "quit"} => answer[Main] \in {0, 1},
               main' = "returned" /\ app' # "out" => answer[Main] \in {0, 1}
        PROVE  CallInv'
    BY <2>2 DEF libVars, CallInv, Alone
  <2>3. CASE MainInitialised
    <3>1. answer[Main] \in {0, 1, -1}
      BY <2>3 DEF MainInitialised, CallInv, LibInv, LibTypeOK, None
    <3> QED BY <2>2, <2>3, <3>1 DEF MainInitialised, MainInv, nodeVars
  <2>4. CASE MainCreate
    BY <2>2, <2>4 DEF MainCreate, CallInv
  <2>5. CASE MainReturns
    BY <2>2, <2>5 DEF MainReturns, CallInv
  <2>6. CASE MainShowFails
    BY <2>2, <2>6 DEF MainShowFails, CallInv
  <2>7. CASE MainQuit
    BY <2>2, <2>7 DEF MainQuit, CallInv
  <2>8. CASE Others
    <3>1. ASSUME NEW t \in Thread \ {Main}, Enter(t), UNCHANGED nodeVars PROVE CallInv'
      BY <2>8, <3>1 DEF Others, nodeVars, Enter, CallInv, LibInv, LibTypeOK, Alone
    <3>2. CASE \E t \in Thread : Proceed(t) /\ UNCHANGED nodeVars
      BY <2>8, <3>2, ProceedKeepsCalls DEF Others, nodeVars
    <3>3. CASE Background /\ UNCHANGED libVars
      BY <2>2, <2>8, <3>3, BackgroundLeavesCallbacks DEF Others, CallInv
    <3>4. CASE \E d \in Datagrams : Arrive(d) /\ UNCHANGED libVars
      BY <2>2, <2>8, <3>4 DEF Others, Arrive, CallInv
    <3>5. CASE Abort /\ UNCHANGED libVars
      BY <2>2, <2>8, <3>5 DEF Others, Alive, CallInv
    <3> QED BY <2>8, <3>1, <3>2, <3>3, <3>4, <3>5 DEF Others
  <2>9. CASE UNCHANGED vars
    BY <2>2, <2>9 DEF vars, nodeVars, CallInv
  <2> QED BY <1>2, <2>1, <2>3, <2>4, <2>5, <2>6, <2>7, <2>8, <2>9 DEF Next, MainStep
<1> QED BY <1>1, <1>2

-----------------------------------------------------------------------------
THEOREM ProcessInvariant == Spec => [](LibInv /\ NodeInv /\ MainInv /\ CallInv)
BY LibInductive, NodeInductive, MainInductive, CallInductive, PTL DEF Spec

\* Any number of threads that call sn_init run sodium_init once.
THEOREM ProcessOneInitialiser == Spec => []OneInitialiser
<1>1. LibInv => OneInitialiser
  BY DEF LibInv
<1> QED BY <1>1, ProcessInvariant, PTL

\* Wherever main returns, it has destroyed its node or never had one, but for
\* the command that gives up.
THEOREM ProcessCleanExit == Spec => []CleanExit
<1>1. NodeInv /\ MainInv => CleanExit
  BY DEF NodeInv, LifeInv, MainInv, CleanExit
<1> QED BY <1>1, ProcessInvariant, PTL

\* Nobody runs a node without an answer of sn_init, which tells the truth to
\* the only thread that asks.
THEOREM ProcessLibraryBeforeNode == Spec => []LibraryBeforeNode
<1>1. MainInv /\ CallInv => LibraryBeforeNode
  BY DEF MainInv, CallInv, Alone, LibraryBeforeNode
<1> QED BY <1>1, ProcessInvariant, PTL
=============================================================================
