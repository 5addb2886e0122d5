------------------------------- MODULE Closure -------------------------------
(***************************************************************************)
(* Closures (src/util/closure.c): a function with some of its first        *)
(* arguments, as operators on a record with the fields of                  *)
(* sn_util_closure_t.  An operator that stands for a function with a       *)
(* result returns the closure it leaves and that result.                   *)
(***************************************************************************)
EXTENDS Integers, Sequences

CONSTANTS
  Arg,          \* what arguments point to
  Garbage,      \* an argument that was never written
  MaxCurrying   \* SN_UTIL_CLOSURE_MAX_CURRYING (8 in the code)

ASSUME CurryingAssumption == MaxCurrying \in Nat \ {0}

ClosureState ==
  [c_argc : 0 .. MaxCurrying, c_argv : [1 .. MaxCurrying -> Arg \cup {Garbage}]]

\* sn_util_closure_init leaves the array of arguments alone.
ClosureInit(closure) == [closure EXCEPT !.c_argc = 0]

\* The loop of sn_util_closure_curry over sn_util_closure_curry_once: arguments
\* go behind those already there until the array is full.
Fit(closure, args) == closure.c_argc + Len(args) <= MaxCurrying

Written(closure, args) ==
  [i \in 1 .. MaxCurrying |-> IF i - closure.c_argc \in 1 .. Len(args)
                              THEN args[i - closure.c_argc] ELSE closure.c_argv[i]]

CurryWithoutRollback(closure, args) ==
  [closure |-> [c_argc |-> IF Fit(closure, args) THEN closure.c_argc + Len(args)
                                                 ELSE MaxCurrying,
                c_argv |-> Written(closure, args)],
   ret     |-> IF Fit(closure, args) THEN 0 ELSE -1]

\* sn_util_closure_curry: all of the arguments or none of them, though those
\* that fit have been written.
Curry(closure, args) ==
  [closure |-> [c_argc |-> IF Fit(closure, args) THEN closure.c_argc + Len(args)
                                                 ELSE closure.c_argc,
                c_argv |-> Written(closure, args)],
   ret     |-> IF Fit(closure, args) THEN 0 ELSE -1]

\* sn_util_closure_init_curried, for a closure of any former content.
InitCurried(closure, args) == Curry(ClosureInit(closure), args).closure

\* sn_util_closure_call: the arguments that the body is called with.
Call(closure, args) == SubSeq(closure.c_argv, 1, closure.c_argc) \o args
=============================================================================
