---------------------------- MODULE ProfilerProofs --------------------------
(***************************************************************************)
(* Proofs about the profiler of lab02, for any number of cores and of      *)
(* threads on each, and for all builds and configurations: nobody works    *)
(* before all threads have been created and have arrived; each runnable    *)
(* thread is once in a run queue; the cabin's indexes are taken in turn;   *)
(* and the configurations that hang at the barrier do so for certain.      *)
(***************************************************************************)
EXTENDS Profiler, FiniteSetTheorems, TLAPS

\* The proofs about barrier_wait(), for these threads and a single use.
BP == INSTANCE SpinBarrierProofs WITH Modulus <- 2, MaxCalls <- 1

\* The product of two positive numbers; the threads are numbered from 0.
LEMMA ThreadFacts == /\ s32threadcnt \in Nat /\ s32threadcnt >= 1
                     /\ IsFiniteSet(Thread) /\ Thread # {} /\ Thread \subseteq Nat
                     /\ Cardinality(Thread) = s32threadcnt
<1>1. PCPUcnt \in Nat /\ PCPUcnt >= 1 /\ s32pthpercore \in Nat /\ s32pthpercore >= 1
  BY SizeAssumption
<1>2. \A a, b \in Nat : a >= 1 /\ b >= 1 => a * b \in Nat /\ a * b >= 1
  OBVIOUS
<1>3. s32threadcnt \in Nat /\ s32threadcnt >= 1
  BY <1>1, <1>2 DEF s32threadcnt
<1>4. 0 \in Thread /\ Thread \subseteq Nat
  BY <1>3 DEF Thread
<1>5. IsFiniteSet(Thread) /\ Cardinality(Thread) = s32threadcnt
  BY <1>3, FS_Interval DEF Thread
<1> QED
  BY <1>3, <1>4, <1>5

-----------------------------------------------------------------------------
(* The spin barrier: its actions here are those of SpinBarrier *)

LEMMA BarrierAssumptions ==
  BP!ThreadAssumption /\ BP!ModulusAssumption /\ BP!MaxCallsAssumption
  BY ThreadFacts DEF IsFiniteSet, BP!IsFiniteSet

BarrierAction(t) ==
  B!ReadPassed(t) \/ B!Arrive(t) \/ B!OpenBarrier(t) \/ B!SpinEnds(t) \/ B!Return(t)

LEMMA SameActions ==
  ASSUME NEW t \in Thread, BarrierAction(t) PROVE BP!barrier_wait(t)
<1>1. B!ReadPassed(t) => BP!ReadPassed(t)
  BY DEF B!ReadPassed, BP!ReadPassed, B!Goto, BP!Goto
<1>2. B!gs32MAX_THREAD = BP!gs32MAX_THREAD
  BY DEF B!gs32MAX_THREAD, BP!gs32MAX_THREAD, B!Cardinality, BP!Cardinality
<1>3. B!Arrive(t) => BP!Arrive(t)
  BY <1>2 DEF B!Arrive, BP!Arrive, B!Goto, BP!Goto
<1>4. B!OpenBarrier(t) => BP!OpenBarrier(t)
  BY DEF B!OpenBarrier, BP!OpenBarrier, B!Goto, BP!Goto, B!Increment, BP!Increment
<1>5. B!SpinEnds(t) => BP!SpinEnds(t)
  BY DEF B!SpinEnds, BP!SpinEnds, B!Goto, BP!Goto
<1>6. B!Return(t) => BP!Return(t)
  BY DEF B!Return, BP!Return, B!Goto, BP!Goto
<1> QED
  BY <1>1, <1>3, <1>4, <1>5, <1>6 DEF BarrierAction, BP!barrier_wait

LEMMA BarrierStep == ASSUME BP!IInv, NEW t \in Thread, BarrierAction(t) PROVE BP!IInv'
<1>1. BP!Next
  BY SameActions DEF BP!Next
<1> QED
  BY <1>1, BarrierAssumptions, BP!StepInv

LEMMA BarrierInit == B!Init => BP!IInv
<1>1. BP!Init => BP!IInv
  BY BarrierAssumptions, BP!InitInv
<1> QED
  BY <1>1 DEF B!Init, BP!Init

-----------------------------------------------------------------------------
(* The inductive invariant *)

Types ==
  /\ config \in Config
  /\ config.barrier \in {"spin", "sleep", "pthread"}
  /\ pc \in [Thread -> Location]
  /\ gs32remain \in Int

\* The threads are created in the order of their numbers.
InOrder == \E n \in 0 .. s32threadcnt : \A t \in Thread : pc[t] = "none" <=> t >= n

\* Each barrier has its own statements.
Places ==
  \A t \in Thread :
    /\ config.barrier = "spin" =>
         pc[t] \notin {"barcount", "barwait", "woken", "barrelock", "bartest",
                      "barunlock"}
    /\ config.barrier = "pthread" =>
         pc[t] \notin {"barcount", "barrelock", "bartest", "barunlock"}

\* CUSTOM_SPIN_BARRIER: every thread uses the barrier once, before it works.
Spin ==
  /\ BP!IInv
  /\ \A t \in Thread :
       /\ calls[t] \in {0, 1}
       /\ bpc[t] = "arrive" => calls[t] = 0
       /\ bpc[t] \notin {"out", "arrive"} => calls[t] = 1
       /\ config.barrier = "spin" /\ pc[t] \in Working => bpc[t] = "out" /\ calls[t] = 1

\* pthread_barrier_wait() releases nobody before the last one has come.
Pthread ==
  config.barrier = "pthread" /\ (\E t \in Thread : pc[t] \in Working \cup {"woken"}) =>
    \A u \in Thread : pc[u] \notin {"none", "barrier"}

\* CUSTOM_BARRIER: gs32remain is the number of threads still to come, and only
\* a thread that has seen it 0 leaves.
ToCome == {t \in Thread : pc[t] \in {"none", "barrier", "barcount"}}
Sleep ==
  config.barrier = "sleep" =>
    /\ gs32remain = Cardinality(ToCome)
    /\ \A t \in Thread : pc[t] \in Working \cup {"barunlock"} => gs32remain = 0

WInv == Types /\ InOrder /\ Places /\ Spin /\ Pthread /\ Sleep

LEMMA InitInv == Init => WInv
<1> SUFFICES ASSUME Init PROVE WInv
  OBVIOUS
<1>1. Types
  BY ThreadFacts, ConfigAssumption DEF Init, Types, Location
<1>2. InOrder
  <2>1. 0 \in 0 .. s32threadcnt /\ \A t \in Thread : t >= 0
    BY ThreadFacts
  <2>2. \A t \in Thread : pc[t] = "none" <=> t >= 0
    BY <2>1 DEF Init
  <2> QED
    BY <2>1, <2>2 DEF InOrder
<1>3. Places /\ Pthread
  BY DEF Init, Places, Pthread, Working
<1>4. Spin
  BY BarrierInit DEF Init, Spin, Working, B!Init
<1>5. Sleep
  <2>1. ToCome = Thread
    BY DEF Init, ToCome
  <2> QED
    BY <2>1, ThreadFacts DEF Init, Sleep, Working
<1> QED
  BY <1>1, <1>2, <1>3, <1>4, <1>5 DEF WInv

-----------------------------------------------------------------------------
(* The steps *)

\* A step that leaves program counters, count and barrier alone.
LEMMA QuietStep ==
  ASSUME WInv, UNCHANGED <<config, pc, gs32remain, bvars>>
  PROVE  WInv'
<1>1. BP!IInv'
  <2>1. UNCHANGED BP!bvars
    BY DEF bvars, BP!bvars
  <2> QED
    BY <2>1, BarrierAssumptions, BP!StepInv DEF WInv, Spin
<1> QED
  BY <1>1 DEF WInv, Types, InOrder, Places, Spin, Pthread, Sleep, ToCome, bvars

\* A thread goes from one statement to another, on the same side of the barrier.
Within(from, to) ==
  \/ from \in Working /\ to \in Working
  \/ /\ from \in {"barwait", "woken", "barrelock", "bartest"}
     /\ to \in {"barwait", "barrelock", "bartest"}
     /\ config.barrier = "sleep"
  \/ from = "barrier" /\ to = "barcount" /\ config.barrier = "sleep"
  \/ from = "barunlock" /\ to = "pick"
  \/ from = "bartest" /\ to = "barunlock" /\ gs32remain = 0
  \/ from = "woken" /\ to = "pick" /\ config.barrier # "sleep"

LEMMA MoveStep ==
  ASSUME WInv, NEW t \in Thread, NEW from, NEW to, pc[t] = from, Within(from, to),
         pc' = [pc EXCEPT ![t] = to], UNCHANGED <<config, gs32remain, bvars>>
  PROVE  WInv'
<1> USE DEF WInv, Within, Working, Types, Location
<1>1. Types'
  OBVIOUS
<1>2. from # "none" /\ to # "none"
  OBVIOUS
<1>3. InOrder'
  BY <1>2 DEF InOrder
<1>4. Places'
  BY DEF Places
<1>5. BP!IInv'
  <2>1. UNCHANGED BP!bvars
    BY DEF bvars, BP!bvars
  <2> QED
    BY <2>1, BarrierAssumptions, BP!StepInv DEF Spin
<1>6. Spin'
  BY <1>5 DEF Spin, Places, bvars
<1>7. Pthread'
  BY DEF Pthread, Places
<1>8. Sleep'
  <2>1. ToCome' = ToCome
    BY DEF ToCome
  <2> QED
    BY <2>1 DEF Sleep
<1> QED
  BY <1>1, <1>3, <1>4, <1>6, <1>7, <1>8

\* The first n threads have been created, and the next one is number n.
LEMMA NextFacts ==
  ASSUME WInv
  PROVE  NextThread \in Nat /\ \A t \in Thread : pc[t] = "none" <=> t >= NextThread
<1>1. PICK n \in 0 .. s32threadcnt : \A t \in Thread : pc[t] = "none" <=> t >= n
  BY DEF WInv, InOrder
<1>2. {t \in Thread : pc[t] # "none"} = 0 .. n - 1
  BY <1>1, ThreadFacts DEF Thread
<1>3. n \in Nat /\ 0 \in Int /\ n - 1 \in Int
  BY ThreadFacts
<1>4. Cardinality(0 .. n - 1) = n
  BY <1>3, FS_Interval
<1> QED
  BY <1>1, <1>2, <1>3, <1>4 DEF NextThread

LEMMA CreateStep == ASSUME WInv, Create PROVE WInv'
<1> USE DEF WInv, Working, Types, Location
<1> DEFINE n == NextThread
<1>1. n \in Nat /\ \A t \in Thread : pc[t] = "none" <=> t >= n
  BY NextFacts
<1>2. /\ n \in Thread /\ pc[n] = "none" /\ pc' = [pc EXCEPT ![n] = "barrier"]
      /\ UNCHANGED <<config, gs32remain, bvars>>
  BY <1>1, ThreadFacts DEF Create, svars
<1> HIDE DEF n
<1>3. Types'
  BY <1>2
<1>4. InOrder'
  <2>1. n + 1 \in 0 .. s32threadcnt
    BY <1>2, ThreadFacts DEF Thread
  <2>2. \A t \in Thread : t \in Nat /\ (t >= n + 1 <=> t >= n /\ t # n)
    BY <1>1, ThreadFacts
  <2>3. \A t \in Thread : pc'[t] = "none" <=> t >= n + 1
    BY <1>1, <1>2, <2>2
  <2> QED
    BY <2>1, <2>3 DEF InOrder
<1>5. Places'
  BY <1>2 DEF Places
<1>6. BP!IInv'
  <2>1. UNCHANGED BP!bvars
    BY <1>2 DEF bvars, BP!bvars
  <2> QED
    BY <2>1, BarrierAssumptions, BP!StepInv DEF Spin
<1>7. Spin'
  BY <1>2, <1>6 DEF Spin, bvars
<1>8. Pthread'
  BY <1>2 DEF Pthread
<1>9. Sleep'
  <2>1. ToCome' = ToCome
    BY <1>2 DEF ToCome
  <2> QED
    BY <1>2, <2>1 DEF Sleep
<1> QED
  BY <1>3, <1>4, <1>5, <1>7, <1>8, <1>9

\* barrier_wait(): a thread that returns has been counted.
LEMMA SpinStep == ASSUME WInv, NEW t \in Thread, SpinBarrierStep(t) PROVE WInv'
<1> USE DEF WInv, Working, Types, Location
<1>1. /\ BarrierAction(t) /\ config.barrier = "spin" /\ pc[t] = "barrier"
      /\ UNCHANGED <<config, gs32remain>>
  BY DEF SpinBarrierStep, BarrierAction, svars
<1>2. \/ UNCHANGED pc
      \/ B!Return(t) /\ pc' = [pc EXCEPT ![t] = "pick"]
  BY DEF SpinBarrierStep
<1>3. BP!IInv'
  BY <1>1, BarrierStep DEF Spin
<1>4. Types'
  BY <1>1, <1>2
<1>5. InOrder'
  BY <1>1, <1>2 DEF InOrder
<1>6. Places'
  BY <1>1, <1>2 DEF Places
<1>7. Spin'
  <2>1. bpc \in [Thread -> BP!Location] /\ calls \in [Thread -> Nat]
    BY DEF Spin, BP!IInv, BP!TypeOK
  <2> QED
    BY <1>1, <1>2, <1>3, <2>1
       DEF Spin, BarrierAction, B!ReadPassed, B!Arrive, B!OpenBarrier, B!SpinEnds,
           B!Return, B!Goto, BP!Location
<1>8. Pthread' /\ Sleep'
  BY <1>1 DEF Pthread, Sleep
<1> QED
  BY <1>4, <1>5, <1>6, <1>7, <1>8

LEMMA PthreadStep == ASSUME WInv, NEW t \in Thread, PthreadBarrierWait(t) PROVE WInv'
<1> USE DEF WInv, Working, Types, Location
<1>1. /\ config.barrier = "pthread" /\ pc[t] = "barrier"
      /\ UNCHANGED <<config, gs32remain, bvars>>
  BY DEF PthreadBarrierWait, svars
<1>2. \/ /\ \A u \in Thread \ {t} : pc[u] = "barwait"
         /\ pc' = [u \in Thread |-> IF u = t THEN "pick" ELSE "woken"]
      \/ pc' = [pc EXCEPT ![t] = "barwait"]
  BY DEF PthreadBarrierWait
<1>3. Types'
  BY <1>1, <1>2
<1>4. InOrder'
  BY <1>1, <1>2 DEF InOrder
<1>5. Places'
  BY <1>1, <1>2 DEF Places
<1>6. BP!IInv'
  <2>1. UNCHANGED BP!bvars
    BY <1>1 DEF bvars, BP!bvars
  <2> QED
    BY <2>1, BarrierAssumptions, BP!StepInv DEF Spin
<1>7. Spin'
  BY <1>1, <1>6 DEF Spin, bvars
<1>8. Pthread'
  BY <1>1, <1>2 DEF Pthread
<1>9. Sleep'
  BY <1>1 DEF Sleep
<1> QED
  BY <1>3, <1>4, <1>5, <1>7, <1>8, <1>9

\* gs32remain--: one thread less to come; the last one lets the others go.
LEMMA CountStep == ASSUME WInv, NEW t \in Thread, SleepBarrierCount(t) PROVE WInv'
<1> USE DEF WInv, Working, Types, Location
<1>1. /\ pc[t] = "barcount" /\ gs32remain' = gs32remain - 1
      /\ UNCHANGED <<config, bvars>>
  BY DEF SleepBarrierCount, Goto
<1>2. config.barrier = "sleep"
  BY <1>1 DEF Places
<1>3. \/ /\ gs32remain' = 0
         /\ pc' = [u \in Thread |-> IF u = t THEN "barunlock"
                                    ELSE IF pc[u] = "barwait" THEN "woken" ELSE pc[u]]
      \/ gs32remain' # 0 /\ pc' = [pc EXCEPT ![t] = "barwait"]
  BY DEF SleepBarrierCount, Goto
<1>4. Types'
  BY <1>1, <1>3
<1>5. InOrder'
  BY <1>1, <1>3 DEF InOrder
<1>6. Places'
  BY <1>1, <1>2 DEF Places
<1>7. BP!IInv'
  <2>1. UNCHANGED BP!bvars
    BY <1>1 DEF bvars, BP!bvars
  <2> QED
    BY <2>1, BarrierAssumptions, BP!StepInv DEF Spin
<1>8. Spin'
  BY <1>1, <1>2, <1>7 DEF Spin, bvars
<1>9. Pthread'
  BY <1>1, <1>2 DEF Pthread
<1>10. Sleep'
  <2>1. t \in ToCome /\ ToCome' = ToCome \ {t}
    BY <1>1, <1>3 DEF ToCome
  <2>2. IsFiniteSet(ToCome)
    BY ThreadFacts, FS_Subset DEF ToCome
  <2>3. Cardinality(ToCome') = Cardinality(ToCome) - 1 /\ Cardinality(ToCome) \in Nat
    BY <2>1, <2>2, FS_RemoveElement, FS_CardinalityType
  <2>4. gs32remain # 0
    BY <1>2, <2>1, <2>2, FS_EmptySet DEF Sleep
  <2>5. \A u \in Thread : pc[u] \notin Working \cup {"barunlock"}
    BY <1>2, <2>4 DEF Sleep
  <2>6. gs32remain' = 0 \/ \A u \in Thread : pc'[u] \notin Working \cup {"barunlock"}
    BY <1>3, <2>5
  <2> QED
    BY <1>1, <1>2, <2>3, <2>6 DEF Sleep
<1> QED
  BY <1>4, <1>5, <1>6, <1>8, <1>9, <1>10

\* The other statements of work_fxn() are moves, or leave a sleeper where it is.
LEMMA ThreadStep ==
  ASSUME WInv, NEW t \in Thread, work_fxn(t) \/ WakeUp(t) \/ SpuriousWakeUp(t)
  PROVE  WInv'
<1> USE DEF Goto, svars, cvars
<1>1. ASSUME NEW from, NEW to, TakeBarrierMutex(t, from, to), Within(from, to)
      PROVE  WInv'
  BY <1>1, MoveStep, QuietStep DEF TakeBarrierMutex
<1>2. CASE SleepBarrierEnter(t)
  BY <1>1, <1>2 DEF SleepBarrierEnter, Within
<1>3. CASE SleepBarrierRelock(t)
  <2>1. CASE config.barrier = "sleep"
    BY <1>1, <1>3, <2>1 DEF SleepBarrierRelock, Within
  <2>2. CASE config.barrier # "sleep"
    BY <1>3, <2>2 DEF SleepBarrierRelock, TakeBarrierMutex, WInv, Types, Places
  <2> QED
    BY <2>1, <2>2
<1>4. CASE SleepBarrierTest(t)
  <2>1. pc[t] = "bartest" /\ config.barrier = "sleep"
    BY <1>4 DEF SleepBarrierTest, WInv, Types, Places
  <2> QED
    BY <1>4, <2>1, MoveStep DEF SleepBarrierTest, Within
<1>5. CASE SleepBarrierLeave(t)
  BY <1>5, MoveStep DEF SleepBarrierLeave, Within
<1>6. CASE WakeUp(t)
  BY <1>6, MoveStep DEF WakeUp, Within
<1>7. CASE SpuriousWakeUp(t)
  BY <1>7, MoveStep DEF SpuriousWakeUp, Within
<1>8. CASE LockCabin(t)
  BY <1>8, MoveStep, QuietStep DEF LockCabin, Within, Working
<1>9. CASE ReadIndex(t) \/ AdvanceIndex(t) \/ UnlockCabin(t)
  BY <1>9, MoveStep DEF ReadIndex, AdvanceIndex, UnlockCabin, Within, Working
<1>10. CASE Cube(t)
  BY <1>10, MoveStep DEF Cube, Within, Working
<1> QED
  BY <1>2, <1>3, <1>4, <1>5, <1>6, <1>7, <1>8, <1>9, <1>10, SpinStep, PthreadStep,
     CountStep DEF work_fxn, Barrier, Work

LEMMA StepInv == WInv /\ [Next]_vars => WInv'
<1> SUFFICES ASSUME WInv, [Next]_vars PROVE WInv'
  OBVIOUS
<1>1. CASE Main
  BY <1>1, CreateStep, QuietStep
     DEF Main, CreateFails, StartJoining, JoinAndCleanUp, svars
<1>2. CASE UNCHANGED vars
  BY <1>2, QuietStep DEF vars, svars
<1> QED
  BY <1>1, <1>2, ThreadStep DEF Next

LEMMA InvTells == WInv => WorkAfterAllArrived
<1> SUFFICES ASSUME WInv, NEW t \in Thread, pc[t] \in Working, NEW u \in Thread
             PROVE  Arrived(u)
  BY DEF WorkAfterAllArrived
<1> USE DEF WInv, Arrived
<1>1. CASE config.barrier = "spin"
  <2>1. calls[t] = 1 /\ bpc[t] = "out"
    BY <1>1 DEF Spin
  <2>2. /\ BP!ThreadInStep(t) /\ BP!ThreadInStep(u)
        /\ bpc[u] \in BP!Location /\ opened \in Nat
    BY DEF Spin, BP!IInv, BP!TypeOK
  <2>3. opened = 1
    BY <2>1, <2>2 DEF BP!ThreadInStep
  <2>4. calls[u] = 1
    BY <2>2, <2>3 DEF BP!ThreadInStep, BP!Location, Spin
  <2> QED
    BY <1>1, <2>4
<1>2. CASE config.barrier = "sleep"
  <2>1. Cardinality(ToCome) = 0
    BY <1>2 DEF Sleep
  <2>2. ToCome = {}
    BY <2>1, ThreadFacts, FS_Subset, FS_EmptySet DEF ToCome
  <2> QED
    BY <1>2, <2>2 DEF ToCome
<1>3. CASE config.barrier = "pthread"
  BY <1>3 DEF Pthread
<1> QED
  BY <1>1, <1>2, <1>3 DEF Types

(***************************************************************************)
(* No thread of the profiler takes a number before every thread has been   *)
(* created and has arrived, with barrier_wait(), with the condition        *)
(* variable and its spurious wake-ups, and with pthread_barrier_wait().    *)
(***************************************************************************)
THEOREM WorkAfterAllArrivedHolds == Spec => []WorkAfterAllArrived
  BY InitInv, StepInv, InvTells, PTL DEF Spec

-----------------------------------------------------------------------------
(* The run queues *)

\* Every thread at most once in its queue.
Queues(q) == q \in [Core -> Seq(Thread)] /\ \A c \in Core : IsInjective(q[c])
In(q, t)  == Contains(q[coreid(t)], t)

LEMMA CoreFacts == /\ \A t \in Thread : coreid(t) \in Core
                   /\ PCPUcnt \in Nat /\ PCPUcnt >= 1
<1>1. PCPUcnt \in Nat /\ PCPUcnt >= 1
  BY SizeAssumption
<1>2. \A t \in Nat : t % PCPUcnt \in 0 .. PCPUcnt - 1
  BY <1>1
<1> QED
  BY <1>1, <1>2, ThreadFacts DEF coreid, Core

LEMMA EnqueueFacts ==
  ASSUME NEW q, Queues(q), NEW t \in Thread, ~In(q, t)
  PROVE  /\ Queues(Enqueued(q, t))
         /\ \A u \in Thread : In(Enqueued(q, t), u) <=> In(q, u) \/ u = t
<1> DEFINE s == q[coreid(t)]
<1>1. coreid(t) \in Core /\ s \in Seq(Thread) /\ IsInjective(s)
  BY CoreFacts DEF Queues
<1>2. /\ Append(s, t) \in Seq(Thread) /\ Len(Append(s, t)) = Len(s) + 1
      /\ Append(s, t)[Len(s) + 1] = t /\ Len(s) \in Nat
      /\ \A i \in 1 .. Len(s) : Append(s, t)[i] = s[i]
  BY <1>1
<1>3. Enqueued(q, t) = [q EXCEPT ![coreid(t)] = Append(s, t)]
  BY DEF Enqueued
<1>4. \A i \in 1 .. Len(s) : s[i] # t
  BY DEF In, Contains
<1>5. IsInjective(Append(s, t))
  BY <1>1, <1>2, <1>4 DEF IsInjective
<1>6. Queues(Enqueued(q, t))
  BY <1>1, <1>2, <1>3, <1>5 DEF Queues
<1>7. ASSUME NEW u \in Thread PROVE In(Enqueued(q, t), u) <=> In(q, u) \/ u = t
  <2>1. Contains(Append(s, t), u) <=> Contains(s, u) \/ u = t
    BY <1>2 DEF Contains
  <2>2. CASE coreid(u) = coreid(t)
    BY <2>1, <2>2, <1>1, <1>3 DEF In, Queues
  <2>3. CASE coreid(u) # coreid(t)
    BY <2>3, <1>1, <1>3, CoreFacts DEF In, Queues
  <2> QED
    BY <2>2, <2>3
<1> QED
  BY <1>6, <1>7

LEMMA Concatenation ==
  ASSUME NEW S, NEW a \in Seq(S), NEW b \in Seq(S)
  PROVE  /\ a \o b \in Seq(S) /\ Len(a \o b) = Len(a) + Len(b)
         /\ \A i \in 1 .. Len(a) + Len(b) :
              (a \o b)[i] = IF i <= Len(a) THEN a[i] ELSE b[i - Len(a)]
  OBVIOUS

LEMMA DequeueFacts ==
  ASSUME NEW q, Queues(q), NEW t \in Thread, In(q, t)
  PROVE  /\ Queues(Dequeued(q, t))
         /\ \A u \in Thread : In(Dequeued(q, t), u) <=> In(q, u) /\ u # t
<1> DEFINE s == q[coreid(t)]
<1> DEFINE k == CHOOSE i \in 1 .. Len(s) : s[i] = t
<1> DEFINE a == SubSeq(s, 1, k - 1)
<1> DEFINE b == SubSeq(s, k + 1, Len(s))
<1> DEFINE r == a \o b
<1>1. coreid(t) \in Core /\ s \in Seq(Thread) /\ IsInjective(s) /\ Len(s) \in Nat
  BY CoreFacts DEF Queues
<1>2. k \in 1 .. Len(s) /\ s[k] = t
  BY DEF In, Contains
<1>3. Dequeued(q, t) = [q EXCEPT ![coreid(t)] = r]
  BY DEF Dequeued, RemoveAt
<1> HIDE DEF k
<1>4. /\ a \in Seq(Thread) /\ Len(a) = k - 1
      /\ \A i \in 1 .. k - 1 : a[i] = s[i]
  BY <1>1, <1>2
<1>5. /\ b \in Seq(Thread) /\ Len(b) = Len(s) - k
      /\ \A i \in 1 .. Len(s) - k : b[i] = s[k + i]
  BY <1>1, <1>2
<1> HIDE DEF a, b
<1>6. /\ r \in Seq(Thread) /\ Len(r) = Len(s) - 1
      /\ \A i \in 1 .. Len(r) : r[i] = IF i < k THEN s[i] ELSE s[i + 1]
  <2>1. /\ r \in Seq(Thread) /\ Len(r) = Len(a) + Len(b)
        /\ \A i \in 1 .. Len(r) : r[i] = IF i <= Len(a) THEN a[i] ELSE b[i - Len(a)]
    <3>1. a \in Seq(Thread) /\ b \in Seq(Thread)
      BY <1>4, <1>5
    <3>2. /\ r \in Seq(Thread) /\ Len(r) = Len(a) + Len(b)
          /\ \A i \in 1 .. Len(a) + Len(b) :
               r[i] = IF i <= Len(a) THEN a[i] ELSE b[i - Len(a)]
      BY <3>1, Concatenation
    <3> HIDE DEF r
    <3> QED
      BY <3>2
  <2>2. Len(r) = Len(s) - 1
    BY <2>1, <1>1, <1>2, <1>4, <1>5
  <2>3. ASSUME NEW i \in 1 .. Len(r) PROVE r[i] = IF i < k THEN s[i] ELSE s[i + 1]
    <3>1. CASE i < k
      BY <2>1, <2>2, <3>1, <1>1, <1>2, <1>4
    <3>2. CASE i >= k
      <4>1. i - (k - 1) \in 1 .. Len(s) - k /\ k + (i - (k - 1)) = i + 1
        BY <2>2, <3>2, <1>1, <1>2
      <4>2. r[i] = b[i - (k - 1)]
        BY <2>1, <3>2, <1>1, <1>2, <1>4
      <4> QED
        BY <3>2, <4>1, <4>2, <1>5, <1>2
    <3> QED
      BY <3>1, <3>2, <1>1, <1>2
  <2> QED
    BY <2>1, <2>2, <2>3
<1> HIDE DEF r
<1>7. IsInjective(r)
  BY <1>1, <1>2, <1>6 DEF IsInjective
<1>8. Queues(Dequeued(q, t))
  BY <1>1, <1>3, <1>6, <1>7 DEF Queues
<1>9. ASSUME NEW u \in Thread PROVE Contains(r, u) <=> Contains(s, u) /\ u # t
  <2>1. ASSUME NEW i \in 1 .. Len(r), r[i] = u PROVE Contains(s, u) /\ u # t
    <3>1. i \in 1 .. Len(s) /\ i + 1 \in 1 .. Len(s)
      BY <1>1, <1>2, <1>6
    <3> QED
      BY <2>1, <3>1, <1>1, <1>2, <1>6 DEF Contains, IsInjective
  <2>2. ASSUME NEW i \in 1 .. Len(s), s[i] = u, u # t PROVE Contains(r, u)
    <3>1. CASE i < k
      BY <2>2, <3>1, <1>1, <1>2, <1>6 DEF Contains
    <3>2. CASE i > k
      <4>1. i - 1 \in 1 .. Len(r) /\ r[i - 1] = s[i - 1 + 1]
        BY <3>2, <1>1, <1>2, <1>6
      <4>2. i - 1 + 1 = i
        BY <2>2
      <4> QED
        BY <2>2, <4>1, <4>2 DEF Contains
    <3> QED
      BY <2>2, <3>1, <3>2, <1>1, <1>2
  <2> QED
    BY <2>1, <2>2 DEF Contains
<1>10. ASSUME NEW u \in Thread PROVE In(Dequeued(q, t), u) <=> In(q, u) /\ u # t
  <2>1. CASE coreid(u) = coreid(t)
    BY <2>1, <1>1, <1>3, <1>9 DEF In, Queues
  <2>2. CASE coreid(u) # coreid(t)
    BY <2>2, <1>1, <1>3, CoreFacts DEF In, Queues
  <2> QED
    BY <2>1, <2>2
<1> QED
  BY <1>8, <1>10

LEMMA WakeOneFacts ==
  ASSUME NEW q, Queues(q), NEW sleepers \in SUBSET Thread,
         \A u \in sleepers : ~In(q, u), WakeOne(q, sleepers)
  PROVE  /\ Queues(rq')
         /\ \A u \in Thread : In(rq', u) => In(q, u) \/ u \in sleepers
<1>1. CASE sleepers = {}
  BY <1>1 DEF WakeOne
<1>2. CASE sleepers # {}
  BY <1>2, EnqueueFacts DEF WakeOne
<1> QED
  BY <1>1, <1>2

\* A step that leaves the queues alone and lets nobody fall asleep.
Asleep == {"none", "barwait", "woken", "exited"}
Queued == Queues(rq) /\ \A t \in Thread : Runnable(t) => pc[t] \notin Asleep

LEMMA SameQueues ==
  ASSUME Queued, UNCHANGED rq,
         \A u \in Thread : Runnable(u) /\ pc'[u] \in Asleep => pc[u] \in Asleep
  PROVE  Queued'
  BY DEF Queued, Runnable, Queue, Queues, In


\* A step of t that leaves the queue or not, and then may wake a sleeper.
LEMMA QueuesChange ==
  ASSUME Queued, NEW t \in Thread, Runnable(t), NEW q, q \in {rq, Dequeued(rq, t)},
         NEW loc, loc \cap Asleep = {}, rq' = q \/ WakeOne(q, Sleeping(loc)),
         \A u \in Thread \ {t} : pc'[u] = pc[u],
         pc'[t] \in Asleep => q = Dequeued(rq, t)
  PROVE  Queued'
<1>1. In(rq, t) /\ Queues(rq) /\ pc[t] \notin Asleep
  BY DEF Queued, Runnable, Queue, In
<1>2. Queues(q) /\ \A u \in Thread : In(q, u) => In(rq, u)
  BY <1>1, DequeueFacts
<1>3. q = Dequeued(rq, t) => ~In(q, t)
  BY <1>1, DequeueFacts
<1>4. \A u \in Sleeping(loc) : u \in Thread /\ ~In(rq, u) /\ pc[u] \notin Asleep
  BY DEF Sleeping, Runnable, Queue, In
<1>5. Queues(rq') /\ \A u \in Thread : In(rq', u) => In(q, u) \/ u \in Sleeping(loc)
  <2>1. CASE rq' = q
    BY <2>1, <1>2
  <2>2. CASE WakeOne(q, Sleeping(loc))
    BY <2>2, <1>2, <1>4, WakeOneFacts DEF Sleeping
  <2> QED
    BY <2>1, <2>2
<1>6. ASSUME NEW u \in Thread, In(rq', u) PROVE pc'[u] \notin Asleep
  <2>1. CASE u = t
    BY <2>1, <1>1, <1>3, <1>4, <1>5, <1>6
  <2>2. CASE u # t
    BY <2>2, <1>2, <1>4, <1>5, <1>6 DEF Queued, Runnable, Queue, In
  <2> QED
    BY <2>1, <2>2
<1> QED
  BY <1>5, <1>6 DEF Queued, Runnable, Queue, In

\* A sleeper that becomes runnable.
LEMMA QueuesGrow ==
  ASSUME Queued, NEW t \in Thread, pc[t] \in Asleep, rq' = Enqueued(rq, t),
         \A u \in Thread \ {t} : pc'[u] = pc[u], pc'[t] \notin Asleep
  PROVE  Queued'
<1>1. Queues(rq) /\ ~In(rq, t)
  BY DEF Queued, Runnable, Queue, In
<1>2. Queues(rq') /\ \A u \in Thread : In(rq', u) <=> In(rq, u) \/ u = t
  BY <1>1, EnqueueFacts
<1> QED
  BY <1>2 DEF Queued, Runnable, Queue, In

LEMMA QueuedInit == Init => Queued
<1> SUFFICES ASSUME Init PROVE Queued
  OBVIOUS
<1>1. << >> \in Seq(Thread) /\ IsInjective(<< >>) /\ Len(<< >>) = 0
  BY DEF IsInjective
<1> QED
  BY <1>1, CoreFacts DEF Init, Queued, Queues, Runnable, Queue, Contains

LEMMA QueuedStep == ASSUME WInv, Queued, [Next]_vars PROVE Queued'
<1> USE DEF WInv, Types, Goto, CanRun, Asleep
<1>1. CASE Create
  <2>1. NextThread \in Thread /\ pc[NextThread] = "none"
    BY <1>1, NextFacts, ThreadFacts DEF Create
  <2> QED
    BY <1>1, <2>1, QueuesGrow DEF Create
<1>2. CASE CreateFails \/ StartJoining \/ JoinAndCleanUp
  BY <1>2, SameQueues DEF CreateFails, StartJoining, JoinAndCleanUp
<1>3. ASSUME NEW t \in Thread, SpinBarrierStep(t) PROVE Queued'
  BY <1>3, SameQueues DEF SpinBarrierStep
<1>4. ASSUME NEW t \in Thread, PthreadBarrierWait(t) PROVE Queued'
  <2>1. CASE \A u \in Thread \ {t} : pc[u] = "barwait"
    <3>1. UNCHANGED rq /\ \A u \in Thread : pc'[u] \in Asleep => pc[u] \in Asleep
      BY <1>4, <2>1 DEF PthreadBarrierWait
    <3> QED
      BY <3>1, SameQueues
  <2>2. CASE rq' = Dequeued(rq, t) /\ pc' = [pc EXCEPT ![t] = "barwait"]
    <3>1. Runnable(t) /\ {} \cap Asleep = {}
      BY <1>4 DEF PthreadBarrierWait
    <3> QED
      BY <2>2, <3>1, QueuesChange
  <2> QED
    BY <1>4, <2>1, <2>2 DEF PthreadBarrierWait
<1>5. ASSUME NEW t \in Thread, NEW from, NEW to, TakeBarrierMutex(t, from, to),
             to \notin Asleep
      PROVE  Queued'
  <2>1. Runnable(t) /\ {} \cap Asleep = {}
    BY <1>5 DEF TakeBarrierMutex
  <2>2. CASE rq' = rq
    BY <1>5, <2>1, <2>2, QueuesChange DEF TakeBarrierMutex
  <2>3. CASE rq' # rq
    BY <1>5, <2>1, <2>3, QueuesChange DEF TakeBarrierMutex
  <2> QED
    BY <2>2, <2>3
<1>6. ASSUME NEW t \in Thread, SleepBarrierCount(t) PROVE Queued'
  <2>1. CASE gs32remain' = 0
    <3>1. UNCHANGED rq /\ \A u \in Thread : pc'[u] \in Asleep => pc[u] \in Asleep
      BY <1>6, <2>1 DEF SleepBarrierCount
    <3> QED
      BY <3>1, SameQueues
  <2>2. CASE gs32remain' # 0
    <3>1. /\ Runnable(t) /\ pc' = [pc EXCEPT ![t] = "barwait"]
          /\ WakeOne(Dequeued(rq, t), Sleeping({"barrier", "barrelock"}))
      BY <1>6, <2>2 DEF SleepBarrierCount
    <3>2. {"barrier", "barrelock"} \cap Asleep = {}
      OBVIOUS
    <3> QED
      BY <3>1, <3>2, QueuesChange
  <2> QED
    BY <2>1, <2>2
<1>7. ASSUME NEW t \in Thread, SleepBarrierTest(t) PROVE Queued'
  <2>1. CASE gs32remain = 0
    BY <1>7, <2>1, SameQueues DEF SleepBarrierTest
  <2>2. CASE gs32remain # 0
    <3>1. /\ Runnable(t) /\ pc' = [pc EXCEPT ![t] = "barwait"]
          /\ WakeOne(Dequeued(rq, t), Sleeping({"barrier", "barrelock"}))
      BY <1>7, <2>2 DEF SleepBarrierTest
    <3>2. {"barrier", "barrelock"} \cap Asleep = {}
      OBVIOUS
    <3> QED
      BY <3>1, <3>2, QueuesChange
  <2> QED
    BY <2>1, <2>2
<1>8. ASSUME NEW t \in Thread, SleepBarrierLeave(t) PROVE Queued'
  <2>1. /\ Runnable(t) /\ pc' = [pc EXCEPT ![t] = "pick"]
        /\ WakeOne(rq, Sleeping({"barrier", "barrelock"}))
    BY <1>8 DEF SleepBarrierLeave
  <2>2. {"barrier", "barrelock"} \cap Asleep = {} /\ rq \in {rq, Dequeued(rq, t)}
    OBVIOUS
  <2> QED
    BY <2>1, <2>2, QueuesChange
<1>9. ASSUME NEW t \in Thread, WakeUp(t) \/ SpuriousWakeUp(t) PROVE Queued'
  BY <1>9, QueuesGrow DEF WakeUp, SpuriousWakeUp
<1>10. ASSUME NEW t \in Thread, LockCabin(t) PROVE Queued'
  <2>1. CASE UNCHANGED rq
    BY <1>10, <2>1, SameQueues DEF LockCabin, cvars
  <2>2. CASE rq' # rq
    <3>1. Runnable(t) /\ pc' = pc /\ rq' = Dequeued(rq, t) /\ {} \cap Asleep = {}
      BY <1>10, <2>2 DEF LockCabin
    <3> QED
      BY <3>1, QueuesChange
  <2> QED
    BY <2>1, <2>2
<1>11. ASSUME NEW t \in Thread, ReadIndex(t) \/ AdvanceIndex(t) PROVE Queued'
  BY <1>11, SameQueues DEF ReadIndex, AdvanceIndex
<1>12. ASSUME NEW t \in Thread, UnlockCabin(t) PROVE Queued'
  <2>1. /\ Runnable(t) /\ pc' = [pc EXCEPT ![t] = "cube"]
        /\ WakeOne(rq, Sleeping({"pick"}))
    BY <1>12 DEF UnlockCabin
  <2>2. {"pick"} \cap Asleep = {} /\ rq \in {rq, Dequeued(rq, t)}
    OBVIOUS
  <2> QED
    BY <2>1, <2>2, QueuesChange
<1>13. ASSUME NEW t \in Thread, Cube(t) PROVE Queued'
  <2>1. CASE UNCHANGED rq /\ pc' = [pc EXCEPT ![t] = "pick"]
    BY <2>1, SameQueues
  <2>2. CASE rq' = Dequeued(rq, t) /\ pc' = [pc EXCEPT ![t] = "exited"]
    <3>1. Runnable(t) /\ {} \cap Asleep = {}
      BY <1>13 DEF Cube
    <3> QED
      BY <2>2, <3>1, QueuesChange
  <2> QED
    BY <1>13, <2>1, <2>2 DEF Cube
<1>14. CASE UNCHANGED vars
  BY <1>14, SameQueues DEF vars
<1> QED
  BY <1>1, <1>2, <1>3, <1>4, <1>5, <1>6, <1>7, <1>8, <1>9, <1>10, <1>11, <1>12, <1>13,
     <1>14 DEF Next, Main, work_fxn, Barrier, Work, SleepBarrierEnter, SleepBarrierRelock

-----------------------------------------------------------------------------
(* The cabin *)

Holding == {"readidx", "advance", "unlock"}

Cabin ==
  /\ gs32cabinidx \in 0 .. s32cnt - 1
  /\ s32idx \in [Thread -> 0 .. s32cnt - 1]
  /\ picks \in [0 .. s32cnt - 1 -> Nat]
  /\ cabinlock \in Thread \cup {Nobody}
  /\ \A t \in Thread : pc[t] \in Holding <=> cabinlock = t
  /\ \A t \in Thread : pc[t] = "advance" => s32idx[t] = gs32cabinidx
  /\ PicksInTurn

LEMMA CabinInit == Init => Cabin
  BY SizeAssumption, ThreadFacts DEF Init, Cabin, PicksInTurn, Holding, Nobody

\* A step that goes on outside the lock, or within it.
LEMMA SameCabin ==
  ASSUME Cabin, UNCHANGED cvars,
         \A u \in Thread : pc'[u] = pc[u] \/ {pc[u], pc'[u]} \cap Holding = {}
  PROVE  Cabin'
  BY DEF Cabin, PicksInTurn, cvars, Holding

LEMMA CabinStep == ASSUME WInv, Cabin, [Next]_vars PROVE Cabin'
<1> USE DEF WInv, Types, Goto, Holding
<1>1. CASE Main
  <2>1. NextThread \in Thread => pc[NextThread] = "none"
    BY NextFacts, ThreadFacts
  <2> QED
    BY <1>1, <2>1, SameCabin DEF Main, Create, CreateFails, StartJoining, JoinAndCleanUp
<1>2. ASSUME NEW t \in Thread, SpinBarrierStep(t) \/ PthreadBarrierWait(t) PROVE Cabin'
  BY <1>2, SameCabin DEF SpinBarrierStep, PthreadBarrierWait
<1>3. ASSUME NEW t \in Thread, SleepBarrierEnter(t) \/ SleepBarrierRelock(t) PROVE Cabin'
  BY <1>3, SameCabin DEF SleepBarrierEnter, SleepBarrierRelock, TakeBarrierMutex
<1>4. ASSUME NEW t \in Thread, SleepBarrierCount(t) \/ SleepBarrierTest(t)
                               \/ SleepBarrierLeave(t)
      PROVE  Cabin'
  BY <1>4, SameCabin DEF SleepBarrierCount, SleepBarrierTest, SleepBarrierLeave
<1>5. ASSUME NEW t \in Thread, WakeUp(t) \/ SpuriousWakeUp(t) PROVE Cabin'
  BY <1>5, SameCabin DEF WakeUp, SpuriousWakeUp
<1>6. ASSUME NEW t \in Thread, LockCabin(t) PROVE Cabin'
  <2>1. CASE cabinlock = Nobody
    <3>1. /\ pc[t] = "pick" /\ pc' = [pc EXCEPT ![t] = "readidx"] /\ cabinlock' = t
          /\ UNCHANGED <<gs32cabinidx, s32idx, picks>>
      BY <1>6, <2>1 DEF LockCabin
    <3>2. \A u \in Thread : u # Nobody
      BY ThreadFacts DEF Nobody
    <3>3. \A u \in Thread : pc'[u] \in Holding <=> cabinlock' = u
      BY <2>1, <3>1, <3>2 DEF Cabin
    <3>4. \A u \in Thread : pc'[u] = "advance" => s32idx'[u] = gs32cabinidx'
      BY <3>1 DEF Cabin
    <3> QED
      BY <3>1, <3>3, <3>4 DEF Cabin, PicksInTurn
  <2>2. CASE cabinlock # Nobody
    BY <1>6, <2>2, SameCabin DEF LockCabin
  <2> QED
    BY <2>1, <2>2
<1>7. ASSUME NEW t \in Thread, ReadIndex(t) PROVE Cabin'
  BY <1>7 DEF ReadIndex, Cabin, PicksInTurn
<1>8. ASSUME NEW t \in Thread, AdvanceIndex(t) PROVE Cabin'
  <2>1. /\ pc[t] = "advance" /\ pc' = [pc EXCEPT ![t] = "unlock"]
        /\ gs32cabinidx' = (gs32cabinidx + 1) % s32cnt
        /\ picks' = [picks EXCEPT ![gs32cabinidx] = @ + 1]
        /\ UNCHANGED <<cabinlock, s32idx>>
    BY <1>8 DEF AdvanceIndex, Cabin
  <2>2. gs32cabinidx' = IF gs32cabinidx = s32cnt - 1 THEN 0 ELSE gs32cabinidx + 1
    <3>1. \A n \in Nat \ {0} : \A i \in 0 .. n - 1 :
            (i + 1) % n = IF i = n - 1 THEN 0 ELSE i + 1
      OBVIOUS
    <3> QED
      BY <2>1, <3>1, SizeAssumption DEF Cabin
  <2>3. PicksInTurn'
    BY <2>1, <2>2, SizeAssumption DEF Cabin, PicksInTurn
  <2>4. \A u \in Thread : pc'[u] # "advance"
    BY <2>1 DEF Cabin
  <2> QED
    BY <2>1, <2>2, <2>3, <2>4, SizeAssumption DEF Cabin
<1>9. ASSUME NEW t \in Thread, UnlockCabin(t) PROVE Cabin'
  BY <1>9, ThreadFacts DEF UnlockCabin, Cabin, PicksInTurn, Nobody
<1>10. ASSUME NEW t \in Thread, Cube(t) PROVE Cabin'
  BY <1>10 DEF Cube, Cabin, PicksInTurn
<1>11. CASE UNCHANGED vars
  BY <1>11, SameCabin DEF vars
<1> QED
  BY <1>1, <1>2, <1>3, <1>4, <1>5, <1>6, <1>7, <1>8, <1>9, <1>10, <1>11
     DEF Next, work_fxn, Barrier, Work

(***************************************************************************)
(* The indexes of the cabin are taken in turn, for any number of threads   *)
(* and any length of the cabin, whoever is preempted between the read of   *)
(* gs32cabinidx and its advance: the lock makes the two one step.          *)
(***************************************************************************)
THEOREM PicksInTurnHolds == Spec => []PicksInTurn
<1>1. WInv /\ Cabin /\ [Next]_vars => (WInv /\ Cabin)'
  BY StepInv, CabinStep
<1>2. Cabin => PicksInTurn
  BY DEF Cabin
<1> QED
  BY <1>1, <1>2, InitInv, CabinInit, PTL DEF Spec

-----------------------------------------------------------------------------
(* The rest of the type invariant *)

Rest ==
  /\ mpc \in {"create", "join", "returned", "exited"}
  /\ gmutex_barrier \in Thread \cup {Nobody}
  /\ config.barrier # "sleep" => gs32remain = s32threadcnt

LEMMA RestStep == ASSUME WInv, Rest, [Next]_vars PROVE Rest'
<1> USE DEF Rest, svars
<1>1. CASE Main
  BY <1>1 DEF Main, Create, CreateFails, StartJoining, JoinAndCleanUp
<1>2. ASSUME NEW t \in Thread, SpinBarrierStep(t) \/ PthreadBarrierWait(t)
                               \/ WakeUp(t) \/ SpuriousWakeUp(t) \/ Work(t)
      PROVE  Rest'
  BY <1>2 DEF SpinBarrierStep, PthreadBarrierWait, WakeUp, SpuriousWakeUp, Work,
              LockCabin, ReadIndex, AdvanceIndex, UnlockCabin, Cube
<1>3. ASSUME NEW t \in Thread, SleepBarrierEnter(t) \/ SleepBarrierRelock(t) PROVE Rest'
  BY <1>3 DEF SleepBarrierEnter, SleepBarrierRelock, TakeBarrierMutex
<1>4. ASSUME NEW t \in Thread, SleepBarrierCount(t) PROVE Rest'
  BY <1>4 DEF SleepBarrierCount, Goto, WInv, Types, Places
<1>5. ASSUME NEW t \in Thread, SleepBarrierTest(t) \/ SleepBarrierLeave(t) PROVE Rest'
  BY <1>5 DEF SleepBarrierTest, SleepBarrierLeave
<1>6. CASE UNCHANGED vars
  BY <1>6 DEF vars
<1> QED
  BY <1>1, <1>2, <1>3, <1>4, <1>5, <1>6 DEF Next, work_fxn, Barrier

LEMMA RemainBounds == WInv /\ Rest => gs32remain \in 0 .. s32threadcnt
<1>1. ToCome \subseteq Thread
  BY DEF ToCome
<1>2. Cardinality(ToCome) \in Nat /\ Cardinality(ToCome) <= s32threadcnt
  BY <1>1, ThreadFacts, FS_Subset, FS_CardinalityType
<1> QED
  BY <1>2, ThreadFacts DEF WInv, Sleep, Rest

(***************************************************************************)
(* All that work_fxn() may rely on when it takes a number: everybody has   *)
(* arrived, the locks have one owner, gs32remain stays within the number   *)
(* of threads, and each runnable thread is once in the queue of its core.  *)
(***************************************************************************)
THEOREM SafetyHolds == Spec => []Safety
<1> DEFINE Inv == WInv /\ Queued /\ Cabin /\ Rest
<1>1. Init => Rest
  BY DEF Init, Rest
<1>2. Init => Inv
  BY <1>1, InitInv, QueuedInit, CabinInit
<1>3. Inv /\ [Next]_vars => Inv'
  BY StepInv, QueuedStep, CabinStep, RestStep
<1>4. Inv => TypeOK
  BY RemainBounds DEF WInv, Types, Queued, Queues, Asleep, Cabin, Rest, TypeOK
<1>5. Inv => Safety
  BY <1>4, InvTells DEF Safety
<1> QED
  BY <1>2, <1>3, <1>5, PTL DEF Spec

-----------------------------------------------------------------------------
(* The builds and configurations that hang *)

\* The last thread of core 0.
LastOfCore == (s32pthpercore - 1) * PCPUcnt

LEMMA DivFacts ==
  ASSUME NEW a \in Nat, NEW n \in Nat, n >= 1
  PROVE  /\ a * n \in Nat /\ (a * n) % n = 0 /\ (a * n) \div n = a
         /\ 0 % n = 0 /\ 0 \div n = 0
  OBVIOUS

LEMMA LastFacts ==
  ASSUME s32pthpercore > 1
  PROVE  /\ LastOfCore \in Thread /\ 0 \in Thread /\ LastOfCore # 0
         /\ coreid(LastOfCore) = 0 /\ coreid(0) = 0 /\ 0 \in Core
         /\ prio(LastOfCore) = config.as32prio[2] /\ prio(0) = config.as32prio[1]
<1> DEFINE p == s32pthpercore
<1>1. p \in Nat /\ p > 1 /\ PCPUcnt \in Nat /\ PCPUcnt >= 1
  BY SizeAssumption
<1>2. /\ LastOfCore \in Nat /\ coreid(LastOfCore) = 0 /\ coreid(0) = 0
      /\ LastOfCore \div PCPUcnt = p - 1 /\ 0 \div PCPUcnt = 0
  BY <1>1, DivFacts DEF LastOfCore, coreid
<1>3. LastOfCore = s32threadcnt - PCPUcnt /\ LastOfCore >= 1
  <2>1. \A a, n \in Nat : a >= 1 /\ n >= 1 => a * n >= 1
    OBVIOUS
  <2>2. \A a, n \in Nat : (a - 1) * n = n * a - n
    OBVIOUS
  <2> QED
    BY <1>1, <2>1, <2>2 DEF LastOfCore, s32threadcnt
<1>4. LastOfCore \in Thread /\ 0 \in Thread /\ LastOfCore # 0 /\ 0 \in Core
  BY <1>1, <1>2, <1>3, ThreadFacts DEF Thread, Core
<1>5. ~ (p - 1 < p \div 2) /\ 0 < p \div 2
  BY <1>1
<1> QED
  BY <1>2, <1>4, <1>5 DEF prio

\* The first thread of core 0 stays at the head of its queue, and the last one
\* never arrives.
Doomed ==
  DoomedConfig =>
    /\ \A t \in Thread : pc[t] \in {"none", "barrier"}
    /\ IF pc[0] = "none" THEN rq[0] = << >> ELSE rq[0] # << >> /\ rq[0][1] = 0
    /\ calls[LastOfCore] = 0 /\ bpc[LastOfCore] = "out"

LEMMA DoomedInit == Init => Doomed
  BY LastFacts DEF Init, Doomed, DoomedConfig, B!Init

\* What runs first on core 0 keeps the last thread from its first step.
LEMMA LastWaits ==
  ASSUME WInv, Queued, Doomed, DoomedConfig PROVE ~CanRun(LastOfCore)
<1>1. /\ LastOfCore \in Thread /\ 0 \in Thread /\ 0 \in Core
      /\ coreid(LastOfCore) = 0 /\ coreid(0) = 0 /\ LastOfCore # 0
      /\ prio(LastOfCore) = config.as32prio[2] /\ prio(0) = config.as32prio[1]
  BY LastFacts DEF DoomedConfig
<1> SUFFICES ASSUME Runnable(LastOfCore), config.policy # "OTHER"
             PROVE  Runnable(0) /\ Before(0, LastOfCore)
  BY <1>1 DEF CanRun, DoomedConfig
<1>2. Queue(0) = rq[0] /\ Queue(LastOfCore) = rq[0] /\ rq[0] \in Seq(Thread)
  BY <1>1 DEF Queue, Queued, Queues
<1>3. PICK j \in 1 .. Len(rq[0]) : rq[0][j] = LastOfCore
  BY <1>2 DEF Runnable, Contains
<1>4. pc[LastOfCore] # "none"
  BY <1>1 DEF Queued, Asleep
<1>5. pc[0] # "none"
  BY <1>1, <1>4, NextFacts, ThreadFacts
<1>6. 1 \in 1 .. Len(rq[0]) /\ rq[0][1] = 0 /\ 1 < j
  BY <1>1, <1>2, <1>3, <1>5 DEF Doomed
<1>7. Runnable(0)
  BY <1>2, <1>6 DEF Runnable, Contains
<1>8. config.as32prio \in Int \X Int /\ config.policy \in {"OTHER", "FIFO", "RR"}
  BY ConfigAssumption DEF WInv, Types
<1>9. \/ prio(0) > prio(LastOfCore)
      \/ config.policy = "FIFO" /\ prio(0) = prio(LastOfCore)
  BY <1>1, <1>8 DEF DoomedConfig
<1> QED
  BY <1>2, <1>3, <1>6, <1>7, <1>9 DEF Before

LEMMA DoomedStep == ASSUME WInv, WInv', Queued, Doomed, [Next]_vars PROVE Doomed'
<1>1. config' = config
  BY DEF Next, vars, Main, Create, CreateFails, StartJoining, JoinAndCleanUp, work_fxn,
         Barrier, Work, SpinBarrierStep, PthreadBarrierWait, SleepBarrierEnter,
         SleepBarrierCount, SleepBarrierRelock, SleepBarrierTest, SleepBarrierLeave,
         TakeBarrierMutex, LockCabin, ReadIndex, AdvanceIndex, UnlockCabin, Cube,
         WakeUp, SpuriousWakeUp
<1> SUFFICES ASSUME DoomedConfig PROVE Doomed'
  BY <1>1 DEF Doomed, DoomedConfig
<1>2. /\ LastOfCore \in Thread /\ 0 \in Thread /\ 0 \in Core
      /\ coreid(0) = 0 /\ LastOfCore # 0
  BY LastFacts DEF DoomedConfig
<1>3. pc \in [Thread -> Location] /\ config.barrier = "spin"
  BY DEF WInv, Types, DoomedConfig
<1>4. CASE Create
  <2>1. NextThread \in Thread /\ pc[NextThread] = "none" /\ rq[0] \in Seq(Thread)
        /\ rq \in [Core -> Seq(Thread)] /\ coreid(NextThread) \in Core
    BY <1>2, <1>4, NextFacts, ThreadFacts, CoreFacts DEF Create, Queued, Queues
  <2>2. pc'[0] # "none" /\ \A t \in Thread : pc'[t] \in {"none", "barrier"}
    <3>1. pc[0] = "none" => NextThread = 0
      BY <1>2, NextFacts, ThreadFacts
    <3> QED
      BY <1>2, <1>3, <1>4, <2>1, <3>1 DEF Create, Doomed
  <2>3. rq'[0] # << >> /\ rq'[0][1] = 0
    <3>1. CASE pc[0] = "none"
      <4>1. NextThread = 0 /\ rq[0] = << >>
        BY <1>2, <3>1, NextFacts, ThreadFacts DEF Doomed
      <4>2. rq'[0] = Append(<< >>, 0)
        BY <1>2, <1>4, <2>1, <4>1 DEF Create, Enqueued
      <4> QED
        BY <4>2
    <3>2. CASE pc[0] # "none"
      <4>1. rq[0] # << >> /\ rq[0][1] = 0
        BY <3>2 DEF Doomed
      <4>2. rq'[0] = rq[0] \/ rq'[0] = Append(rq[0], NextThread)
        BY <1>2, <1>4, <2>1 DEF Create, Enqueued
      <4> QED
        BY <2>1, <4>1, <4>2
    <3> QED
      BY <3>1, <3>2
  <2>4. UNCHANGED bvars
    BY <1>4 DEF Create
  <2> QED
    BY <2>2, <2>3, <2>4 DEF Doomed, bvars
<1>5. CASE CreateFails \/ StartJoining \/ JoinAndCleanUp \/ UNCHANGED vars
  BY <1>5 DEF CreateFails, StartJoining, JoinAndCleanUp, vars, Doomed, bvars
<1>6. ASSUME NEW t \in Thread, SpinBarrierStep(t) PROVE Doomed'
  <2>1. t # LastOfCore /\ UNCHANGED rq /\ pc[t] = "barrier"
    BY <1>6, LastWaits DEF SpinBarrierStep
  <2>2. /\ calls \in [Thread -> Nat] /\ bpc \in [Thread -> BP!Location]
    BY DEF WInv, Spin, BP!IInv, BP!TypeOK
  <2>3. calls'[LastOfCore] = 0 /\ bpc'[LastOfCore] = "out"
    BY <1>2, <1>6, <2>1, <2>2
       DEF SpinBarrierStep, Doomed, B!ReadPassed, B!Arrive, B!OpenBarrier, B!SpinEnds,
           B!Return, B!Goto
  <2>4. \A u \in Thread : pc'[u] \notin Working
    <3>1. WorkAfterAllArrived'
      BY InvTells, PTL
    <3> QED
      BY <1>1, <1>2, <1>3, <2>3, <3>1 DEF WorkAfterAllArrived, Arrived
  <2>5. UNCHANGED pc
    BY <1>2, <1>3, <1>6, <2>1, <2>4 DEF SpinBarrierStep, Working
  <2> QED
    BY <2>1, <2>3, <2>5 DEF Doomed
<1>7. ASSUME NEW t \in Thread, work_fxn(t) \/ WakeUp(t) \/ SpuriousWakeUp(t),
             ~SpinBarrierStep(t)
      PROVE  FALSE
  BY <1>3, <1>7 DEF Doomed, work_fxn, Barrier, Work, PthreadBarrierWait,
         SleepBarrierEnter, SleepBarrierCount, SleepBarrierRelock, SleepBarrierTest,
         SleepBarrierLeave, TakeBarrierMutex, LockCabin, ReadIndex, AdvanceIndex,
         UnlockCabin, Cube, WakeUp, SpuriousWakeUp, Goto
<1> QED
  BY <1>4, <1>5, <1>6, <1>7 DEF Next, Main

(***************************************************************************)
(* The "infinite loop waiting at barrier" of lab02/readme.txt, line 55, is *)
(* certain, for any number of cores and threads: in these builds and       *)
(* configurations no thread ever gets to work, however it is scheduled.    *)
(***************************************************************************)
THEOREM DoomedNeverWorksHolds == Spec => []DoomedNeverWorks
<1> DEFINE Inv == WInv /\ Queued /\ Doomed
<1>1. Init => Inv
  BY InitInv, QueuedInit, DoomedInit
<1>2. Inv /\ [Next]_vars => Inv'
  BY StepInv, QueuedStep, DoomedStep
<1>3. Inv => DoomedNeverWorks
  BY DEF Doomed, DoomedNeverWorks, Working
<1> QED
  BY <1>1, <1>2, <1>3, PTL DEF Spec
=============================================================================
