------------------------------- MODULE Process -------------------------------
(***************************************************************************)
(* The program of the repository (prototype/main.c): it initialises the    *)
(* library, creates a node, obeys commands until it is told to quit, and   *)
(* destroys the node.  The commands that send, insert into the router and  *)
(* print change nothing that is modelled here.  Other threads may call     *)
(* sn_init as well, as they may in a program that embeds the library.      *)
(***************************************************************************)
EXTENDS SnInit, NodeLife

CONSTANT Main  \* the thread of main

ASSUME MainAssumption == Main \in Thread

VARIABLES
  main,    \* "start", "init", "create", "loop", "quit" or "returned"
  status   \* what main returned, Running before

vars == <<libVars, nodeVars, main, status>>

NotYet == 2

Init == LibInit /\ NodeInit /\ main = "start" /\ status = NotYet

From(here, there) == main = here /\ main' = there /\ UNCHANGED status
Exit(here, value) == main = here /\ main' = "returned" /\ status' = value

MainInit ==
  /\ From("start", "init")
  /\ Enter(Main)
  /\ UNCHANGED nodeVars

MainIgnoresError ==
  /\ call[Main] = "out" /\ From("init", "create")
  /\ UNCHANGED <<libVars, nodeVars>>

\* main goes on to make its keys unless it is told of an error.
MainInitialised ==
  /\ call[Main] = "out"
  /\ IF answer[Main] = -1 THEN Exit("init", -1) ELSE From("init", "create")
  /\ UNCHANGED <<libVars, nodeVars>>

MainCreate ==
  /\ \/ AtNoPort /\ Exit("create", 1)
     \/ \E failing \in {"get_name", "vec", "thread"} : AtPort(failing) /\ Exit("create", 1)
     \/ AtPort("none") /\ From("create", "loop")
  /\ UNCHANGED libVars

\* The command "show", for lack of memory.
MainShowFails ==
  /\ Exit("loop", 1)
  /\ app = "up" /\ Fault
  /\ UNCHANGED <<libVars, held, app, cancelled, thread, callbacks, closure, traffic, packets>>

MainReturnsAtOnce == Exit("loop", 0) /\ app = "up" /\ UNCHANGED <<libVars, nodeVars>>

\* The command "quit", or the end of the input.
MainQuit == From("loop", "quit") /\ Cancel /\ UNCHANGED libVars

MainReturns == Exit("quit", 0) /\ Join /\ UNCHANGED libVars

MainStep == MainInitialised \/ MainCreate \/ MainReturns

\* The other threads of the process, which ends when main returns or an
\* assertion fails.
Alive == main # "returned" /\ app # "aborted"

Others ==
  /\ Alive
  /\ \/ \E t \in Thread \ {Main} : Enter(t) /\ UNCHANGED nodeVars
     \/ \E t \in Thread : Proceed(t) /\ UNCHANGED nodeVars
     \/ (Background \/ Abort) /\ UNCHANGED libVars
     \/ \E d \in Datagrams : Arrive(d) /\ UNCHANGED libVars
  /\ UNCHANGED <<main, status>>

Next == MainInit \/ MainStep \/ MainShowFails \/ MainQuit \/ Others

\* Every thread is scheduled; nobody has to type a command.
Scheduled(step) == Alive /\ step /\ UNCHANGED <<main, status>>

Fairness ==
  /\ WF_vars(MainStep)
  /\ \A t \in Thread : WF_vars(Scheduled(Proceed(t) /\ UNCHANGED nodeVars))
  /\ WF_vars(Scheduled((Background \/ Abort) /\ UNCHANGED libVars))

Spec == Init /\ [][Next]_vars /\ Fairness

-----------------------------------------------------------------------------
(* Properties                                                              *)

(***************************************************************************)
(* main returns 0 only when the node is destroyed, and -1 or 1 with        *)
(* nothing to destroy, except where it gives up in the middle of a command.*)
(***************************************************************************)
CleanExit ==
  main = "returned" =>
    \/ held = {} /\ bg # "running" /\ calling = "nothing"
    \/ status = 1 /\ app = "up"

(***************************************************************************)
(* Whoever runs a node has seen sn_init return without an error, and when  *)
(* nobody else called it, libsodium is ready for the keys of that node.    *)
(***************************************************************************)
LibraryBeforeNode ==
  app # "out" =>
    /\ answer[Main] \in {0, 1}
    /\ (\A t \in Thread \ {Main} : call[t] = "out" /\ answer[t] = None) => sodium = "ready"

(***************************************************************************)
(* A program that is told to quit does, whatever its background thread is  *)
(* doing and however many datagrams arrive, unless a reply among them ends *)
(* it before.                                                              *)
(***************************************************************************)
QuitReturns == main = "quit" ~> (status = 0 \/ app = "aborted")
=============================================================================
