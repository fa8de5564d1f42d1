---------------------------- MODULE ProfilerInput ----------------------------
(***************************************************************************)
(* lab02: how the scheduler profiler gets its configuration, and what it   *)
(* does with a wrong one: parsing_input(), parsing_cfgfile(), and main()   *)
(* up to the creation of the threads.  Each error ends the program with a  *)
(* number of its own.  What fscanf() reads from exp.cfg is not tested.     *)
(*                                                                         *)
(* Module Profiler takes over where this one has created the threads.      *)
(***************************************************************************)
EXTENDS Integers, Sequences

CONSTANTS
  PCPUcnt,      \* processors on line
  Arguments,    \* what the command line may say: policy (or "unknown"), round,
                \* iter and cnt, any integers
  CfgFiles,     \* the numbers exp.cfg may start with: sequences of integers
  RTPriorities, \* 1 .. 99
  IntLimit      \* 2^31

VARIABLES
  mpc,          \* next statement of main()
  pthread,      \* built with pthread_barrier_t, not with a barrier of its own
  gstrArg,      \* the configuration
  numbers,      \* how many numbers exp.cfg has given
  threads,      \* the priorities of the threads created so far
  s32ret        \* the error main() ends with, or 0

vars == <<mpc, pthread, gstrArg, numbers, threads, s32ret>>

ERR_ARGMISS       == -1
ERR_NOSCHED       == -2
ERR_NPOSR         == -3
ERR_NPOSI         == -4
ERR_THREAD_CREATE == -5
ERR_MALLOC        == -6
ERR_SET_POLICY    == -7
ERR_PIN_CORE      == -8
ERR_SET_BARRIER   == -9
ERR_DES_BARRIER   == -10
ERR_INIT_MUTEX    == -11
ERR_DES_MUTEX     == -12
ERR_CFGFILE       == -13
ERR_SET_PRIORITY  == -14

\* gstrArg as it is initialized.
Default == [s32pthpercore |-> 2, as32prio |-> <<0, 0>>, s32sched_policy |-> "OTHER",
            s32round |-> 0, s32iter |-> 0, s32cnt |-> 0]

Init ==
  /\ mpc = "start" /\ pthread = FALSE
  /\ gstrArg = Default /\ numbers = 0
  /\ threads = << >> /\ s32ret = 0

\* The user runs one of the builds.
Run ==
  /\ mpc = "start" /\ mpc' = "arguments"
  /\ pthread' \in BOOLEAN
  /\ UNCHANGED <<gstrArg, numbers, threads, s32ret>>

\* print_error() and exit(), which ends the threads there are.
Fail(eno) ==
  /\ mpc' = "exited" /\ s32ret' = eno
  /\ UNCHANGED <<pthread, numbers, threads>>

-----------------------------------------------------------------------------
(* parsing_input() and parsing_cfgfile() *)

\* The first thing that is wrong with the arguments, or 0; what comes after it is
\* not stored any more, but the program ends.
InputError(a) ==
  CASE a.cnt <= 0            -> ERR_ARGMISS
    [] a.policy = "unknown"  -> ERR_NOSCHED
    [] a.round <= 0          -> ERR_NPOSR
    [] a.iter <= 0           -> ERR_NPOSI
    [] OTHER                 -> 0

parsing_input ==
  /\ mpc = "arguments"
  /\ \E a \in Arguments :
       /\ gstrArg' = [gstrArg EXCEPT !.s32sched_policy = a.policy, !.s32round = a.round,
                                     !.s32iter = a.iter, !.s32cnt = a.cnt]
       /\ IF InputError(a) # 0 THEN Fail(InputError(a))
          ELSE \/ Fail(ERR_MALLOC)
               \/ mpc' = "cfgfile" /\ UNCHANGED <<pthread, numbers, threads, s32ret>>

\* What is not read keeps its initial value.
parsing_cfgfile ==
  /\ mpc = "cfgfile"
  /\ \/ Fail(ERR_CFGFILE) /\ UNCHANGED gstrArg
     \/ \E f \in CfgFiles :
          LET Read(i, old) == IF i <= Len(f) THEN f[i] ELSE old IN
          /\ numbers' = Len(f)
          /\ gstrArg' = [gstrArg EXCEPT
               !.s32pthpercore = Read(1, @),
               !.as32prio = <<Read(2, @[1]), Read(3, @[2])>>]
          /\ mpc' = "init"
          /\ UNCHANGED <<pthread, threads, s32ret>>

-----------------------------------------------------------------------------
(* main() *)

\* An int product.
s32threadcnt ==
  ((PCPUcnt * gstrArg.s32pthpercore + IntLimit) % (2 * IntLimit)) - IntLimit

\* The mutex and the barrier; pthread_barrier_init() rejects a count of 0; whether
\* one below, taken as an unsigned, is too large depends on the library.
InitBarrier ==
  /\ mpc = "init"
  /\ \/ Fail(ERR_INIT_MUTEX)
     \/ pthread /\ s32threadcnt <= 0 /\ Fail(ERR_SET_BARRIER)
     \/ /\ ~pthread \/ s32threadcnt # 0
        /\ mpc' = "create"
        /\ UNCHANGED <<pthread, numbers, threads, s32ret>>
  /\ UNCHANGED gstrArg

\* The row of the thread to be created.
row == Len(threads) \div PCPUcnt

\* Mutant: the rows are divided one row later.
s32prio_Later ==
  IF row <= gstrArg.s32pthpercore \div 2 THEN gstrArg.as32prio[1] ELSE gstrArg.as32prio[2]

\* The first half of the rows has the first priority.
s32prio ==
  IF row < gstrArg.s32pthpercore \div 2 THEN gstrArg.as32prio[1] ELSE gstrArg.as32prio[2]

RT == gstrArg.s32sched_policy # "OTHER"

\* One turn of the loop: the arrays have room for s32threadcnt threads; a
\* real-time policy takes no other priorities than its own.
CreateThread ==
  /\ mpc = "create" /\ row < gstrArg.s32pthpercore
  /\ IF Len(threads) >= s32threadcnt
     THEN mpc' = "outside" /\ UNCHANGED <<pthread, numbers, threads, s32ret>>
     ELSE \/ Fail(ERR_PIN_CORE)
          \/ Fail(ERR_SET_POLICY)
          \/ RT /\ s32prio \notin RTPriorities /\ Fail(ERR_SET_PRIORITY)
          \/ /\ ~RT \/ s32prio \in RTPriorities
             /\ \/ Fail(ERR_THREAD_CREATE)
                \/ /\ threads' = Append(threads, s32prio)
                   /\ UNCHANGED <<mpc, pthread, numbers, s32ret>>
  /\ UNCHANGED gstrArg

\* The threads, if there are any, are joined, barrier and mutex are destroyed, and
\* main() returns 0.
Return ==
  /\ mpc = "create" /\ row >= gstrArg.s32pthpercore
  /\ \/ mpc' = "returned" /\ UNCHANGED <<pthread, numbers, threads, s32ret>>
     \/ pthread /\ Fail(ERR_DES_BARRIER)
     \/ Fail(ERR_DES_MUTEX)
  /\ UNCHANGED gstrArg

Next == Run \/ parsing_input \/ parsing_cfgfile \/ InitBarrier \/ CreateThread \/ Return

Spec == Init /\ [][Next]_vars

-----------------------------------------------------------------------------
(* Properties *)

(***************************************************************************)
(* Threads run only with what module Profiler assumes: a known policy,     *)
(* positive rounds, iterations and numbers of the cabin, and, under a      *)
(* real-time policy, priorities that policy has (parsing.c and             *)
(* main.c:325-342).                                                        *)
(***************************************************************************)
ThreadsAreSound ==
  threads # << >> =>
    /\ gstrArg.s32sched_policy \in {"RR", "FIFO", "OTHER"}
    /\ {gstrArg.s32round, gstrArg.s32iter, gstrArg.s32cnt} \subseteq Nat \ {0}
    /\ \A i \in 1 .. Len(threads) : RT => threads[i] \in RTPriorities

(***************************************************************************)
(* The unchecked fscanf() (parsing.c:90): a real-time run whose exp.cfg    *)
(* has less than three numbers never returns with success, unless it asks  *)
(* for no threads; the last row always has the second priority.  A run     *)
(* that returns has created each thread it was asked for.  The arrays are  *)
(* left only if the number of threads is no int.                           *)
(***************************************************************************)
ShortFileFails ==
  /\ mpc = "returned" =>
       /\ RT /\ numbers < 3 => gstrArg.s32pthpercore <= 0
       /\ Len(threads) = IF gstrArg.s32pthpercore > 0
                         THEN PCPUcnt * gstrArg.s32pthpercore ELSE 0
       /\ numbers = 0 => Len(threads) = 2 * PCPUcnt
  /\ mpc = "outside" => PCPUcnt * gstrArg.s32pthpercore >= IntLimit

\* Whatever the arguments (parsing.c) and exp.cfg are: threads that may run, and
\* success only for a file that says enough.
InputIsSound == ThreadsAreSound /\ ShortFileFails
=============================================================================
