------------------------------- MODULE SnInit -------------------------------
(***************************************************************************)
(* The initialisation of the library (src/sndnet.c), called by any number  *)
(* of threads at the same time, any number of times.  A call is a load, a  *)
(* compare-and-swap and, for the one thread that wins it, sodium_init,     *)
(* which takes its time and may fail.                                      *)
(***************************************************************************)
EXTENDS Integers

CONSTANT Thread  \* the threads of the process

VARIABLES
  initialized,  \* the atomic flag
  sodium,       \* libsodium: "raw", "ready" or "failed"
  call,         \* where each thread is in its call of sn_init
  answer        \* what its last call returned, None before

libVars == <<initialized, sodium, call, answer>>

None == 2

LibInit ==
  /\ initialized = 0
  /\ sodium = "raw"
  /\ call   = [t \in Thread |-> "out"]
  /\ answer = [t \in Thread |-> None]

Enter(t) ==
  /\ call[t] = "out"
  /\ call' = [call EXCEPT ![t] = "load"]
  /\ UNCHANGED <<initialized, sodium, answer>>

Return(t, value) ==
  /\ call'   = [call EXCEPT ![t] = "out"]
  /\ answer' = [answer EXCEPT ![t] = value]

Load(t) ==
  /\ call[t] = "load"
  /\ \/ /\ initialized # 0
        /\ Return(t, 1)
     \/ /\ initialized = 0
        /\ call' = [call EXCEPT ![t] = "swap"] /\ UNCHANGED answer
  /\ UNCHANGED <<initialized, sodium>>

StoreUncompared(t) ==
  /\ call[t] = "swap"
  /\ initialized' = 1
  /\ call' = [call EXCEPT ![t] = "sodium"]
  /\ UNCHANGED <<sodium, answer>>

\* mint_compare_exchange_strong_32_relaxed: one step, whatever other threads do.
CompareExchange(t) ==
  /\ call[t] = "swap"
  /\ \/ /\ initialized # 0
        /\ Return(t, 1) /\ UNCHANGED initialized
     \/ /\ initialized = 0 /\ initialized' = 1
        /\ call' = [call EXCEPT ![t] = "sodium"] /\ UNCHANGED answer
  /\ UNCHANGED sodium

\* sodium_init returns.
SodiumInit(t) ==
  /\ call[t] = "sodium"
  /\ \/ sodium' = "ready"  /\ Return(t, 0)
     \/ sodium' = "failed" /\ Return(t, -1)
  /\ UNCHANGED initialized

Proceed(t) == Load(t) \/ CompareExchange(t) \/ SodiumInit(t)

-----------------------------------------------------------------------------
(* Properties                                                              *)

LibTypeOK ==
  /\ initialized \in {0, 1}
  /\ sodium \in {"raw", "ready", "failed"}
  /\ call   \in [Thread -> {"out", "load", "swap", "sodium"}]
  /\ answer \in [Thread -> {None, 0, 1, -1}]

Initialising == {t \in Thread : call[t] = "sodium"}

(***************************************************************************)
(* sn_init, called by any threads at any time, runs sodium_init once: no   *)
(* two threads are ever in it, and nobody is after it has returned.  The   *)
(* flag tells whether somebody is or was.                                  *)
(***************************************************************************)
OneInitialiser ==
  /\ \A t, u \in Initialising : t = u
  /\ Initialising # {} => sodium = "raw"
  /\ initialized = 1 <=> Initialising # {} \/ sodium # "raw"

-----------------------------------------------------------------------------
(***************************************************************************)
(* sndnet.h: sn_init is thread safe and returns 0 if correctly             *)
(* initialized, 1 if it was already initialized.  A thread that gets one   *)
(* of the two may use the library.                                         *)
(***************************************************************************)
AnswerMeansReady == \A t \in Thread : answer[t] \in {0, 1} => sodium = "ready"
=============================================================================
