------------------------------ MODULE Counters ------------------------------
(***************************************************************************)
(* studio10: a kernel module whose threads, one per core, each increment a *)
(* shared counter IRT_TIME times.  There are three versions of it:         *)
(* multi_race increments a volatile int, multi_atomic an atomic_t, and     *)
(* multi_mutex the volatile int under a mutex.  hello_exit() prints the    *)
(* counter; its calls of kthread_stop() are commented out, so the module   *)
(* can be unloaded while its threads run, and their code with it.          *)
(*                                                                         *)
(* An increment of a volatile int is a load and a store (multi_race/main.c *)
(* line 21).  atomic_add() is one step.                                    *)
(***************************************************************************)
EXTENDS Integers, FiniteSets

CONSTANTS
  Threads,      \* kernel threads, 4 in the code
  IRT_TIME,     \* increments of each, 1000000 in the code
  Program       \* the versions to consider

ASSUME ThreadsAssumption == Threads \in Nat \ {0}
ASSUME IrtTimeAssumption == IRT_TIME \in Nat \ {0}
ASSUME ProgramAssumption == Program \subseteq {"race", "atomic", "mutex"}

VARIABLES
  program,      \* the version that is loaded
  mpc, row,     \* the module: next thread to wake, loaded, printed, unloaded
  pc,           \* where each thread is in mykthread()
  s32i,         \* increments each thread has done
  reg,          \* the value a thread has loaded
  race,         \* the counter
  MYMUTEX,      \* owner of the mutex
  printed,      \* what hello_exit() has printed
  fault         \* a thread ran code that is gone

module == <<mpc, row, printed, fault>>
vars   == <<program, module, pc, s32i, reg, race, MYMUTEX>>

Thread == 0 .. Threads - 1
Nobody == -1
Total  == Threads * IRT_TIME

Init ==
  /\ program \in Program
  /\ mpc = "wake" /\ row = 0 /\ printed = Nobody /\ fault = FALSE
  /\ pc = [t \in Thread |-> "new"]
  /\ s32i = [t \in Thread |-> 0]
  /\ reg = [t \in Thread |-> 0]
  /\ race = 0
  /\ MYMUTEX = Nobody

\* A step of thread t in the module's code.
Goto(t, from, to) ==
  /\ mpc # "unloaded"
  /\ pc[t] = from
  /\ pc' = [pc EXCEPT ![t] = to]

-----------------------------------------------------------------------------
(* hello_init() and hello_exit() *)

\* The threads are created and bound, and then woken one after the other.
WakeThread ==
  /\ mpc = "wake"
  /\ Goto(row, "new", "loop")
  /\ IF row < Threads - 1 THEN row' = row + 1 /\ mpc' = mpc
                          ELSE row' = 0 /\ mpc' = "loaded"
  /\ UNCHANGED <<program, printed, fault, s32i, reg, race, MYMUTEX>>

\* hello_exit() prints the counter, whatever the threads are doing.
PrintRace ==
  /\ mpc = "loaded" /\ mpc' = "printed"
  /\ printed' = race
  /\ UNCHANGED <<program, row, fault, pc, s32i, reg, race, MYMUTEX>>

\* The kernel frees the module; a thread that is still in its code faults.
FreeModule ==
  /\ mpc = "printed" /\ mpc' = "unloaded"
  /\ fault' = \E t \in Thread : pc[t] # "done"
  /\ UNCHANGED <<program, row, printed, pc, s32i, reg, race, MYMUTEX>>

-----------------------------------------------------------------------------
(* mykthread() *)

\* multi_atomic: atomic_add(1, &race)
AtomicAdd(t) ==
  /\ program = "atomic"
  /\ s32i[t] < IRT_TIME
  /\ Goto(t, "loop", "loop")
  /\ race' = race + 1
  /\ s32i' = [s32i EXCEPT ![t] = @ + 1]
  /\ UNCHANGED <<program, module, reg, MYMUTEX>>

LockMutex(t) ==
  /\ program = "mutex"
  /\ s32i[t] < IRT_TIME
  /\ MYMUTEX = Nobody
  /\ Goto(t, "loop", "load")
  /\ MYMUTEX' = t
  /\ UNCHANGED <<program, module, s32i, reg, race>>

\* Mutant: the load is moved out of the loop, as without "volatile".
LoadRace_Hoisted(t) ==
  /\ \/ program = "race" /\ s32i[t] < IRT_TIME /\ Goto(t, "loop", "store")
     \/ Goto(t, "load", "store")
  /\ reg' = [reg EXCEPT ![t] = IF s32i[t] = 0 THEN race ELSE @]
  /\ UNCHANGED <<program, module, s32i, race, MYMUTEX>>

\* The first half of race++.
LoadRace(t) ==
  /\ \/ program = "race" /\ s32i[t] < IRT_TIME /\ Goto(t, "loop", "store")
     \/ Goto(t, "load", "store")
  /\ reg' = [reg EXCEPT ![t] = race]
  /\ UNCHANGED <<program, module, s32i, race, MYMUTEX>>

\* The second half of race++.
StoreRace(t) ==
  /\ Goto(t, "store", IF program = "mutex" THEN "unlock" ELSE "loop")
  /\ race' = reg[t] + 1
  /\ s32i' = [s32i EXCEPT ![t] = @ + 1]
  /\ UNCHANGED <<program, module, reg, MYMUTEX>>

\* Mutant: the mutex is kept.
UnlockMutex_Forgotten(t) ==
  /\ Goto(t, "unlock", "loop")
  /\ UNCHANGED <<program, module, s32i, reg, race, MYMUTEX>>

UnlockMutex(t) ==
  /\ Goto(t, "unlock", "loop")
  /\ MYMUTEX' = Nobody
  /\ UNCHANGED <<program, module, s32i, reg, race>>

Return(t) ==
  /\ s32i[t] = IRT_TIME
  /\ Goto(t, "loop", "done")
  /\ UNCHANGED <<program, module, s32i, reg, race, MYMUTEX>>

mykthread(t) ==
  \/ AtomicAdd(t) \/ LockMutex(t) \/ LoadRace(t) \/ StoreRace(t)
  \/ UnlockMutex(t) \/ Return(t)

-----------------------------------------------------------------------------
Unloaded == mpc = "unloaded" /\ UNCHANGED vars

Next ==
  \/ WakeThread \/ PrintRace \/ FreeModule \/ Unloaded
  \/ \E t \in Thread : mykthread(t)

Spec == Init /\ [][Next]_vars

\* The threads run, and a thread that waits for the mutex is not passed over
\* for ever.  Nobody has to unload the module.
FairSpec ==
  /\ Spec
  /\ WF_vars(WakeThread)
  /\ \A t \in Thread : WF_vars(mykthread(t)) /\ SF_vars(LockMutex(t))

-----------------------------------------------------------------------------
(* Properties *)

AllDone == \A t \in Thread : pc[t] = "done"

\* The increments done so far: each thread's own, numbered from 1.
DoneBy(t) == 1 .. s32i[t]
Increments == Cardinality({p \in Thread \X (1 .. IRT_TIME) : p[2] \in DoneBy(p[1])})

(***************************************************************************)
(* The type invariant; the owner of the mutex is the one thread between    *)
(* mutex_lock() and mutex_unlock() (multi_mutex/main.c lines 23-25).       *)
(***************************************************************************)
TypeOK ==
  /\ program \in Program
  /\ mpc \in {"wake", "loaded", "printed", "unloaded"}
  /\ s32i \in [Thread -> 0 .. IRT_TIME]
  /\ \A t \in Thread :
       (program = "mutex" /\ pc[t] \in {"load", "store", "unlock"}) <=> MYMUTEX = t

(***************************************************************************)
(* The atomic and the mutex version lose no increment, at any moment, and  *)
(* a print of IRT_TIME times the number of threads, the 4,000,000 that the *)
(* studio asks for, is not possible before the last increment.             *)
(***************************************************************************)
NoneLost ==
  program # "race" =>
    /\ race = Increments
    /\ printed = Total => \A t \in Thread : s32i[t] = IRT_TIME

(***************************************************************************)
(* What the racy version can end with: never more than the increments, but *)
(* as little as 2, however many there are: a thread that loaded the first  *)
(* value stores over the work of all others, and one that then loads the   *)
(* result for its last increment stores over the rest.                     *)
(***************************************************************************)
LeastRace == IF Threads = 1 \/ IRT_TIME = 1 THEN IRT_TIME ELSE 2
RaceAtLeast == AllDone => race >= LeastRace
RaceWithinBounds == race <= Increments /\ RaceAtLeast

\* All of it: owner of the mutex, exact counters, and the bounds of the race.
Safety == TypeOK /\ NoneLost /\ RaceWithinBounds

(***************************************************************************)
(* Unless the module is unloaded, every thread finishes its loop: nobody   *)
(* is left waiting for the mutex.                                          *)
(***************************************************************************)
ThreadsFinish == <>(AllDone \/ mpc \in {"printed", "unloaded"})
=============================================================================
