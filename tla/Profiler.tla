------------------------------ MODULE Profiler ------------------------------
(***************************************************************************)
(* lab02: the scheduler profiler.  main() (src/main.c) creates             *)
(* s32pthpercore threads on every core, pinned and with a scheduling       *)
(* policy and a priority, and joins them.  Each one waits at a barrier     *)
(* until all have been created, then works for s32round rounds, taking the *)
(* next index of the cabin under a lock in each.                           *)
(*                                                                         *)
(* The barrier and the lock are chosen when the program is built; policy,  *)
(* rounds and priorities when it is started; Config holds the combinations *)
(* to consider.  The barrier is barrier_wait() (module SpinBarrier), the      *)
(* condition variable of CUSTOM_BARRIER, or pthread_barrier_wait(); the    *)
(* lock is a pthread mutex or a pthread spin lock.                         *)
(*                                                                         *)
(* Linux decides who runs, and that is where this program can hang: a core *)
(* runs a thread of the highest priority among its runnable ones, under    *)
(* SCHED_FIFO the first of them in its queue, and a thread that spins      *)
(* stays runnable.  main() itself is not a real-time thread; it gets the   *)
(* share of the processor that real-time throttling leaves it.             *)
(***************************************************************************)
EXTENDS Integers, FiniteSets, Sequences, SequencesExt

CONSTANTS
  PCPUcnt,          \* processors on line
  s32pthpercore,    \* threads per core, from exp.cfg
  s32cnt,           \* length of the cabin, from the command line
  MaxSpurious,      \* bound: wake-ups of the condition variable by nobody
  Config            \* the builds and configurations to consider

ASSUME SizeAssumption ==
  /\ PCPUcnt \in Nat \ {0} /\ s32pthpercore \in Nat \ {0}
  /\ s32cnt \in Nat \ {0} /\ MaxSpurious \in Nat

\* as32prio[0] and as32prio[1] are a tuple of two.
ASSUME ConfigAssumption ==
  Config \subseteq [policy  : {"OTHER", "FIFO", "RR"}, as32prio : Int \X Int,
                    s32round : Nat \ {0},
                    barrier : {"spin", "sleep", "pthread"},
                    lock    : {"mutex", "spin"}]

Core   == 0 .. PCPUcnt - 1
s32threadcnt == PCPUcnt * s32pthpercore
Thread == 0 .. s32threadcnt - 1
Nobody == -1

VARIABLES
  config,           \* the build and configuration of this process
  mpc,              \* main(): create, join, returned or exited
  pc,               \* where each thread is in work_fxn()
  rq,               \* the runnable threads of each core, in queue order
  gs32remain,       \* CUSTOM_BARRIER: threads still to come
  gmutex_barrier,   \* CUSTOM_BARRIER: owner of the mutex
  spurious,         \* CUSTOM_BARRIER: wake-ups by nobody so far
  cabinlock,        \* owner of gmutex_cabinidx or gspin_cabinidx
  gs32cabinidx,     \* next index of the cabin
  s32idx,           \* the index a thread has taken
  rounds,           \* rounds each thread has finished
  picks             \* history: how often each index has been taken

VARIABLES gs32bar, gs32passed, s32passed_old, bpc, calls, opened

B == INSTANCE SpinBarrier WITH Modulus <- 2, MaxCalls <- 1

bvars == <<gs32bar, gs32passed, s32passed_old, bpc, calls, opened>>
svars == <<gs32remain, gmutex_barrier, spurious>>
cvars == <<cabinlock, gs32cabinidx, s32idx, rounds, picks>>
vars  == <<config, mpc, pc, rq, svars, cvars, bvars>>

Location == {"none", "barrier", "barcount", "barwait", "woken", "barrelock",
             "bartest", "barunlock", "pick", "readidx", "advance", "unlock",
             "cube", "exited"}

Init ==
  /\ config \in Config
  /\ mpc = "create"
  /\ pc = [t \in Thread |-> "none"]
  /\ rq = [c \in Core |-> << >>]
  /\ gs32remain = s32threadcnt
  /\ gmutex_barrier = Nobody
  /\ spurious = 0
  /\ cabinlock = Nobody
  /\ gs32cabinidx = 0
  /\ s32idx = [t \in Thread |-> 0]
  /\ rounds = [t \in Thread |-> 0]
  /\ picks = [i \in 0 .. s32cnt - 1 |-> 0]
  /\ B!Init

-----------------------------------------------------------------------------
(* The scheduler, as the threads experience it *)

\* Thread idx = row * PCPUcnt + core of the creation loops.
coreid(t) == t % PCPUcnt

\* Mutant: the two priorities of exp.cfg are swapped.
prio_Swapped(t) == IF t \div PCPUcnt < s32pthpercore \div 2
                   THEN config.as32prio[2] ELSE config.as32prio[1]

\* The first half of the rows has as32prio[0], the others as32prio[1].
prio(t) == IF t \div PCPUcnt < s32pthpercore \div 2
           THEN config.as32prio[1] ELSE config.as32prio[2]

Queue(t) == rq[coreid(t)]

Runnable(t) == Contains(Queue(t), t)

\* u runs before t on their core: a higher priority, or first in the FIFO.
Before(u, t) ==
  \/ prio(u) > prio(t)
  \/ /\ config.policy = "FIFO"
     /\ prio(u) = prio(t)
     /\ \E i, j \in 1 .. Len(Queue(t)) :
          i < j /\ Queue(t)[i] = u /\ Queue(t)[j] = t

\* May the scheduler let t take its next step?  (Nice values delay, not stop.)
CanRun(t) ==
  /\ mpc \notin {"returned", "exited"}
  /\ Runnable(t)
  /\ config.policy # "OTHER" =>
       ~ \E u \in Thread : coreid(u) = coreid(t) /\ Runnable(u) /\ Before(u, t)

Goto(t, from, to) ==
  /\ pc[t] = from
  /\ CanRun(t)
  /\ pc' = [pc EXCEPT ![t] = to]

Enqueued(q, t) == [q EXCEPT ![coreid(t)] = Append(@, t)]
Dequeued(q, t) ==
  [q EXCEPT ![coreid(t)] = RemoveAt(@, CHOOSE i \in 1 .. Len(@) : @[i] = t)]

\* The threads that sleep for the mutex they ask for at loc.
Sleeping(loc) == {t \in Thread : pc[t] \in loc /\ ~Runnable(t)}

\* An unlock wakes one of the sleepers, if there is one; it will try again.
WakeOne(q, sleepers) ==
  IF sleepers = {} THEN rq' = q ELSE \E u \in sleepers : rq' = Enqueued(q, u)

-----------------------------------------------------------------------------
(* main() *)

\* The next of the created threads: those of the first rows come first.
NextThread == Cardinality({t \in Thread : pc[t] # "none"})

Create ==
  /\ mpc = "create"
  /\ NextThread \in Thread
  /\ pc' = [pc EXCEPT ![NextThread] = "barrier"]
  /\ rq' = Enqueued(rq, NextThread)
  /\ UNCHANGED <<config, mpc, svars, cvars, bvars>>

\* set_pthread_schedinfo_attr() or pthread_create() fails: exit(), which ends
\* the threads created so far, wherever they are.
CreateFails ==
  /\ mpc = "create"
  /\ NextThread \in Thread
  /\ mpc' = "exited"
  /\ UNCHANGED <<config, pc, rq, svars, cvars, bvars>>

StartJoining ==
  /\ mpc = "create"
  /\ NextThread \notin Thread
  /\ mpc' = "join"
  /\ UNCHANGED <<config, pc, rq, svars, cvars, bvars>>

\* All threads are joined, then barrier and lock are destroyed.
JoinAndCleanUp ==
  /\ mpc = "join"
  /\ \A t \in Thread : pc[t] = "exited"
  /\ mpc' = "returned"
  /\ UNCHANGED <<config, pc, rq, svars, cvars, bvars>>

Main == Create \/ CreateFails \/ StartJoining \/ JoinAndCleanUp

-----------------------------------------------------------------------------
(* The barrier of work_fxn() *)

\* CUSTOM_SPIN_BARRIER: a thread stays runnable all through barrier_wait().
SpinBarrierStep(t) ==
  /\ config.barrier = "spin"
  /\ pc[t] = "barrier"
  /\ CanRun(t)
  /\ \/ /\ B!ReadPassed(t) \/ B!Arrive(t) \/ B!OpenBarrier(t) \/ B!SpinEnds(t)
        /\ UNCHANGED pc
     \/ B!Return(t) /\ pc' = [pc EXCEPT ![t] = "pick"]
  /\ UNCHANGED <<config, mpc, rq, svars, cvars>>

\* pthread_barrier_wait(): the last one releases the others, who sleep.
PthreadBarrierWait(t) ==
  /\ config.barrier = "pthread"
  /\ pc[t] = "barrier"
  /\ CanRun(t)
  /\ IF \A u \in Thread \ {t} : pc[u] = "barwait"
     THEN /\ pc' = [u \in Thread |-> IF u = t THEN "pick" ELSE "woken"]
          /\ UNCHANGED rq
     ELSE /\ pc' = [pc EXCEPT ![t] = "barwait"]
          /\ rq' = Dequeued(rq, t)
  /\ UNCHANGED <<config, mpc, svars, cvars, bvars>>

\* A mutex is free and taken, or the caller sleeps until an unlock.
TakeBarrierMutex(t, from, to) ==
  \/ /\ gmutex_barrier = Nobody
     /\ Goto(t, from, to)
     /\ gmutex_barrier' = t
     /\ UNCHANGED <<config, mpc, rq, gs32remain, spurious, cvars, bvars>>
  \/ /\ gmutex_barrier # Nobody
     /\ pc[t] = from
     /\ CanRun(t)
     /\ rq' = Dequeued(rq, t)
     /\ UNCHANGED <<config, mpc, pc, svars, cvars, bvars>>

\* CUSTOM_BARRIER: pthread_mutex_lock(&gmutex_barrier)
SleepBarrierEnter(t) ==
  /\ config.barrier = "sleep"
  /\ TakeBarrierMutex(t, "barrier", "barcount")

\* Mutant: pthread_cond_signal in place of pthread_cond_broadcast.
SleepBarrierCount_Signal(t) ==
  /\ gs32remain' = gs32remain - 1
  /\ IF gs32remain' = 0
     THEN /\ pc[t] = "barcount" /\ CanRun(t)
          /\ \/ \E u \in Thread :
                  /\ pc[u] = "barwait"
                  /\ pc' = [pc EXCEPT ![t] = "barunlock", ![u] = "woken"]
             \/ /\ \A u \in Thread : pc[u] # "barwait"
                /\ pc' = [pc EXCEPT ![t] = "barunlock"]
          /\ UNCHANGED <<rq, gmutex_barrier>>
     ELSE /\ Goto(t, "barcount", "barwait")
          /\ gmutex_barrier' = Nobody
          /\ WakeOne(Dequeued(rq, t), Sleeping({"barrier", "barrelock"}))
  /\ UNCHANGED <<config, mpc, spurious, cvars, bvars>>

\* gs32remain--; the last one broadcasts, the others wait and free the mutex.
SleepBarrierCount(t) ==
  /\ gs32remain' = gs32remain - 1
  /\ IF gs32remain' = 0
     THEN /\ pc[t] = "barcount" /\ CanRun(t)
          /\ pc' = [u \in Thread |-> IF u = t THEN "barunlock"
                                     ELSE IF pc[u] = "barwait" THEN "woken"
                                     ELSE pc[u]]
          /\ UNCHANGED <<rq, gmutex_barrier>>
     ELSE /\ Goto(t, "barcount", "barwait")
          /\ gmutex_barrier' = Nobody
          /\ WakeOne(Dequeued(rq, t), Sleeping({"barrier", "barrelock"}))
  /\ UNCHANGED <<config, mpc, spurious, cvars, bvars>>

\* pthread_cond_wait() takes the mutex again before it returns.
SleepBarrierRelock(t) == TakeBarrierMutex(t, "barrelock", "bartest")

\* Mutant: "if" in place of "while" around pthread_cond_wait().
SleepBarrierTest_Once(t) ==
  /\ Goto(t, "bartest", "barunlock")
  /\ UNCHANGED <<config, mpc, rq, svars, cvars, bvars>>

\* while(0 != gs32remain): leave the loop, or wait again.
SleepBarrierTest(t) ==
  IF gs32remain = 0
  THEN /\ Goto(t, "bartest", "barunlock")
       /\ UNCHANGED <<config, mpc, rq, svars, cvars, bvars>>
  ELSE /\ Goto(t, "bartest", "barwait")
       /\ gmutex_barrier' = Nobody
       /\ WakeOne(Dequeued(rq, t), Sleeping({"barrier", "barrelock"}))
       /\ UNCHANGED <<config, mpc, gs32remain, spurious, cvars, bvars>>

SleepBarrierLeave(t) ==
  /\ Goto(t, "barunlock", "pick")
  /\ gmutex_barrier' = Nobody
  /\ WakeOne(rq, Sleeping({"barrier", "barrelock"}))
  /\ UNCHANGED <<config, mpc, gs32remain, spurious, cvars, bvars>>

\* The kernel makes the released sleepers runnable one at a time.
WakeUp(t) ==
  /\ mpc \notin {"returned", "exited"}
  /\ pc[t] = "woken"
  /\ pc' = [pc EXCEPT ![t] = IF config.barrier = "sleep" THEN "barrelock"
                             ELSE "pick"]
  /\ rq' = Enqueued(rq, t)
  /\ UNCHANGED <<config, mpc, svars, cvars, bvars>>

\* pthread_cond_wait() may also end without a broadcast, MaxSpurious times.
SpuriousWakeUp(t) ==
  /\ mpc \notin {"returned", "exited"}
  /\ config.barrier = "sleep"
  /\ pc[t] = "barwait"
  /\ spurious < MaxSpurious
  /\ spurious' = spurious + 1
  /\ pc' = [pc EXCEPT ![t] = "barrelock"]
  /\ rq' = Enqueued(rq, t)
  /\ UNCHANGED <<config, mpc, gs32remain, gmutex_barrier, cvars, bvars>>

-----------------------------------------------------------------------------
(* The rounds of work_fxn() *)

\* Mutant: the index is taken without the lock.
LockCabin_NoLock(t) ==
  /\ Goto(t, "pick", "readidx")
  /\ UNCHANGED <<config, mpc, rq, svars, cvars, bvars>>

\* A free lock is taken; for a mutex that is not free the caller sleeps, for a
\* spin lock (USE_SPINLOCK) it goes on trying and stays runnable.
LockCabin(t) ==
  \/ /\ cabinlock = Nobody
     /\ Goto(t, "pick", "readidx")
     /\ cabinlock' = t
     /\ UNCHANGED <<config, mpc, rq, svars, bvars>>
     /\ UNCHANGED <<gs32cabinidx, s32idx, rounds, picks>>
  \/ /\ cabinlock # Nobody
     /\ config.lock = "mutex"
     /\ pc[t] = "pick"
     /\ CanRun(t)
     /\ rq' = Dequeued(rq, t)
     /\ UNCHANGED <<config, mpc, pc, svars, cvars, bvars>>

ReadIndex(t) ==
  /\ Goto(t, "readidx", "advance")
  /\ s32idx' = [s32idx EXCEPT ![t] = gs32cabinidx]
  /\ UNCHANGED <<config, mpc, rq, svars, bvars>>
  /\ UNCHANGED <<cabinlock, gs32cabinidx, rounds, picks>>

AdvanceIndex(t) ==
  /\ Goto(t, "advance", "unlock")
  /\ gs32cabinidx' = (gs32cabinidx + 1) % s32cnt
  /\ picks' = [picks EXCEPT ![s32idx[t]] = @ + 1]
  /\ UNCHANGED <<config, mpc, rq, svars, bvars, cabinlock, s32idx, rounds>>

UnlockCabin(t) ==
  /\ Goto(t, "unlock", "cube")
  /\ cabinlock' = Nobody
  /\ WakeOne(rq, Sleeping({"pick"}))
  /\ UNCHANGED <<config, mpc, svars, bvars>>
  /\ UNCHANGED <<gs32cabinidx, s32idx, rounds, picks>>

\* The iterations on the number taken, then the next round or the end.
Cube(t) ==
  /\ rounds' = [rounds EXCEPT ![t] = @ + 1]
  /\ IF rounds[t] + 1 < config.s32round
     THEN Goto(t, "cube", "pick") /\ UNCHANGED rq
     ELSE Goto(t, "cube", "exited") /\ rq' = Dequeued(rq, t)
  /\ UNCHANGED <<config, mpc, svars, bvars>>
  /\ UNCHANGED <<cabinlock, gs32cabinidx, s32idx, picks>>

Barrier(t) ==
  \/ SpinBarrierStep(t) \/ PthreadBarrierWait(t) \/ SleepBarrierEnter(t)
  \/ SleepBarrierCount(t) \/ SleepBarrierRelock(t) \/ SleepBarrierTest(t)
  \/ SleepBarrierLeave(t)

Work(t) ==
  \/ LockCabin(t) \/ ReadIndex(t) \/ AdvanceIndex(t) \/ UnlockCabin(t)
  \/ Cube(t)

work_fxn(t) == Barrier(t) \/ Work(t)

Ended == mpc \in {"returned", "exited"}

Next == Main \/ \E t \in Thread : work_fxn(t) \/ WakeUp(t) \/ SpuriousWakeUp(t)

Spec == Init /\ [][Next]_vars

(***************************************************************************)
(* A thread the scheduler may run takes a step: round robin within one     *)
(* priority, the fair share of SCHED_OTHER, and the processor is never     *)
(* idle under SCHED_FIFO.  main() gets its share, released sleepers wake.  *)
(***************************************************************************)
FairSpec ==
  /\ Spec
  /\ WF_vars(Main)
  /\ \A t \in Thread : WF_vars(work_fxn(t)) /\ WF_vars(WakeUp(t))

-----------------------------------------------------------------------------
(* Properties *)

Working == {"pick", "readidx", "advance", "unlock", "cube", "exited"}

TypeOK ==
  /\ config \in Config
  /\ mpc \in {"create", "join", "returned", "exited"}
  /\ pc \in [Thread -> Location]
  /\ gs32remain \in 0 .. s32threadcnt
  /\ {gmutex_barrier, cabinlock} \subseteq Thread \cup {Nobody}
  /\ gs32cabinidx \in 0 .. s32cnt - 1
  /\ \A c \in Core : IsInjective(rq[c])
  /\ \A t \in Thread : Runnable(t) => pc[t] \notin {"none", "woken", "exited"}

(***************************************************************************)
(* No thread takes a number before every thread has been created and has   *)
(* arrived at the barrier, whichever barrier is built in (lines 174-195;   *)
(* Requirement/Lab02_Linux_Scheduler_Profiling.html: the threads wait      *)
(* "until all other threads have been successfully spawned and pinned").   *)
(***************************************************************************)
Arrived(t) ==
  CASE config.barrier = "spin"    -> calls[t] = 1
    [] config.barrier = "sleep"   -> pc[t] \notin {"none", "barrier", "barcount"}
    [] config.barrier = "pthread" -> pc[t] \notin {"none", "barrier"}

WorkAfterAllArrived ==
  (\E t \in Thread : pc[t] \in Working) => \A u \in Thread : Arrived(u)

\* The two together: what work_fxn() may rely on when it takes a number.
Safety == TypeOK /\ WorkAfterAllArrived

(***************************************************************************)
(* The threads take the indexes of the cabin in turn: none is skipped or   *)
(* taken twice in a lap, whoever is preempted between the read and the     *)
(* advance of gs32cabinidx (lines 206-207).                                *)
(***************************************************************************)
PicksInTurn ==
  \A i \in DOMAIN picks :
    picks[i] = picks[s32cnt - 1] + (IF i < gs32cabinidx THEN 1 ELSE 0)

(***************************************************************************)
(* A spinning thread keeps its core from threads it runs before.  Nothing  *)
(* of the kind can happen if nobody spins, if there is one thread per      *)
(* core, under SCHED_OTHER, or under SCHED_RR with one priority.           *)
(***************************************************************************)
SafeConfig ==
  LET onePriority == config.as32prio[1] = config.as32prio[2]
  IN  \/ config.policy = "OTHER"
      \/ config.barrier # "spin" /\ config.lock = "mutex"
      \/ s32pthpercore = 1
      \/ config.policy = "RR" /\ onePriority
      \/ config.barrier # "spin" /\ onePriority

(***************************************************************************)
(* In these the thread created first on a core spins at the barrier and    *)
(* runs before one that has yet to arrive.                                 *)
(***************************************************************************)
DoomedConfig ==
  /\ config.barrier = "spin"
  /\ s32pthpercore > 1
  /\ config.policy = "FIFO" => config.as32prio[1] >= config.as32prio[2]
  /\ config.policy = "RR" => config.as32prio[1] > config.as32prio[2]
  /\ config.policy # "OTHER"

(***************************************************************************)
(* The safe builds and configurations finish: every thread passes the      *)
(* barrier, no wake-up of barrier, condition variable or mutex is missed,  *)
(* and main() joins them all (or fails to create one and exits).           *)
(***************************************************************************)
SafeConfigEnds == SafeConfig => <>Ended

(***************************************************************************)
(* In the doomed ones no thread ever gets to work: the "infinite loop      *)
(* waiting at barrier" of lab02/readme.txt, line 55, for every schedule.   *)
(***************************************************************************)
DoomedNeverWorks == DoomedConfig => \A t \in Thread : pc[t] \notin Working

(***************************************************************************)
(* lab02/readme.txt, line 56: "SCHED_RR goes well in both sleep barrier    *)
(* and spin barrier case".                                                 *)
(***************************************************************************)
RRGoesWell == config.policy = "RR" => <>Ended
=============================================================================
