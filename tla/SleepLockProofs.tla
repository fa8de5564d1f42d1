--------------------------- MODULE SleepLockProofs --------------------------
(***************************************************************************)
(* Proofs about studio11/sleeplock.c for a team of any size: what holds in *)
(* spite of the unconditional stores (mutual exclusion and refinement of   *)
(* Mutex), and that a lost lock is lost for ever, and lost only by the     *)
(* store of -1 of line 36.                                                 *)
(***************************************************************************)
EXTENDS SleepLock, TLAPS

-----------------------------------------------------------------------------
(* The inductive invariant *)

LEMMA InitInv == Init => IInv
  BY DEF Init, IInv, TypeOK, Location, WordBelowOne, HeldWordNotPositive,
         MutualExclusion, Holder, UNLOCKED

LEMMA StepInv == IInv /\ [Next]_vars => IInv'
<1> SUFFICES ASSUME IInv, [Next]_vars PROVE IInv'
  OBVIOUS
<1> USE DEF IInv, TypeOK, Location, WordBelowOne, HeldWordNotPositive,
            MutualExclusion, Holder, UNLOCKED, SLEEPING, Goto
\* The word was 1, so nobody was inside: t is the only one now.
<1>1. ASSUME NEW t \in Thread, SubFetchLocks(t) PROVE IInv'
  <2>1. gs32curlock = 1 /\ \A u \in Thread : u \notin Holder
    BY <1>1 DEF SubFetchLocks
  <2>2. \A u \in Thread : u \in Holder' <=> u = t
    BY <1>1, <2>1 DEF SubFetchLocks
  <2> QED
    BY <1>1, <2>1, <2>2 DEF SubFetchLocks
<1>2. ASSUME NEW t \in Thread, SubFetchFails(t) PROVE IInv'
  BY <1>2 DEF SubFetchFails
<1>3. ASSUME NEW t \in Thread, StoreMinusOne(t) PROVE IInv'
  BY <1>3 DEF StoreMinusOne
<1>4. ASSUME NEW t \in Thread, FutexWait(t) PROVE IInv'
  BY <1>4 DEF FutexWait
<1>5. ASSUME NEW t \in Thread, SpuriousWake(t) PROVE IInv'
  BY <1>5 DEF SpuriousWake
<1>6. ASSUME NEW t \in Thread, CriticalSection(t) PROVE IInv'
  BY <1>6 DEF CriticalSection
\* The only holder leaves, so nobody is inside when the word becomes 1.
<1>7. ASSUME NEW t \in Thread, AddFetchReleases(t) PROVE IInv'
  <2>1. \A u \in Thread : u \notin Holder'
    BY <1>7 DEF AddFetchReleases
  <2> QED
    BY <1>7, <2>1 DEF AddFetchReleases
<1>8. ASSUME NEW t \in Thread, AddFetchContended(t) PROVE IInv'
  BY <1>8 DEF AddFetchContended
<1>9. ASSUME NEW t \in Thread, StoreOne(t) PROVE IInv'
  <2>1. \A u \in Thread : u \notin Holder'
    BY <1>9 DEF StoreOne
  <2> QED
    BY <1>9, <2>1 DEF StoreOne
<1>10. ASSUME NEW t \in Thread, FutexWake(t) PROVE IInv'
  BY <1>10 DEF FutexWake
<1>11. CASE MainReturns
  BY <1>11 DEF MainReturns
<1>12. CASE UNCHANGED vars
  BY <1>12 DEF vars
<1> QED
  BY <1>1, <1>2, <1>3, <1>4, <1>5, <1>6, <1>7, <1>8, <1>9, <1>10, <1>11, <1>12
     DEF Next, Step, Terminated

(***************************************************************************)
(* The invariant of lock() and unlock(): at most one thread inside, a word *)
(* of at most 1, and not positive while somebody is inside.                *)
(***************************************************************************)
THEOREM Invariance == Spec => []IInv
  BY InitInv, StepInv, PTL DEF Spec

-----------------------------------------------------------------------------
(* Refinement of Mutex *)

LEMMA InitRefines == Init => M!Init
  BY DEF Init, M!Init, abstractPhase, PhaseOf

LEMMA StepRefines == IInv /\ [Next]_vars => [M!Next]_abstractPhase
<1> SUFFICES ASSUME IInv, [Next]_vars PROVE [M!Next]_abstractPhase
  OBVIOUS
<1> USE DEF IInv, TypeOK, Location, Goto, abstractPhase, PhaseOf
<1>1. ASSUME NEW t \in Thread, SubFetchLocks(t) PROVE M!Next
  <2>1. \A u \in Thread : u \notin Holder
    BY <1>1 DEF SubFetchLocks, HeldWordNotPositive
  <2>2. \A u \in Thread : abstractPhase[u] # "critical"
    BY <2>1 DEF Holder
  <2>3. abstractPhase[t] = "waiting"
    BY <1>1 DEF SubFetchLocks
  <2>4. abstractPhase' = [abstractPhase EXCEPT ![t] = "critical"]
    BY <1>1 DEF SubFetchLocks
  <2> QED
    BY <2>2, <2>3, <2>4 DEF M!Next, M!Acquire
<1>2. ASSUME NEW t \in Thread, AddFetchReleases(t) \/ StoreOne(t) PROVE M!Next
  <2>1. abstractPhase[t] = "critical"
    BY <1>2 DEF AddFetchReleases, StoreOne
  <2>2. abstractPhase' = [abstractPhase EXCEPT ![t] = "done"]
    BY <1>2 DEF AddFetchReleases, StoreOne
  <2> QED
    BY <2>1, <2>2 DEF M!Next, M!Release
<1>3. ASSUME NEW t \in Thread,
             \/ SubFetchFails(t) \/ StoreMinusOne(t) \/ FutexWait(t)
             \/ SpuriousWake(t) \/ CriticalSection(t) \/ AddFetchContended(t)
      PROVE  UNCHANGED abstractPhase
  BY <1>3 DEF SubFetchFails, StoreMinusOne, FutexWait, SpuriousWake,
              CriticalSection, AddFetchContended
<1>4. ASSUME NEW t \in Thread, FutexWake(t) PROVE UNCHANGED abstractPhase
  BY <1>4 DEF FutexWake
<1>5. CASE MainReturns
  BY <1>5 DEF MainReturns
<1>6. CASE UNCHANGED vars
  BY <1>6 DEF vars
<1> QED
  BY <1>1, <1>2, <1>3, <1>4, <1>5, <1>6 DEF Next, Step, Terminated

(***************************************************************************)
(* sleeplock.c implements Mutex: a decrement that returns 0 is an Acquire, *)
(* the increment to 1 or the store of 1 a Release, and everything else,    *)
(* the race that loses the lock included, is invisible.                    *)
(***************************************************************************)
THEOREM Refinement == Spec => RefinesMutex
  BY InitRefines, StepRefines, Invariance, PTL DEF Spec, RefinesMutex, M!Spec

-----------------------------------------------------------------------------
(* The lost lock *)

(***************************************************************************)
(* No step makes the word of a lost lock positive again: only unlock()     *)
(* adds, and nobody is left to call it (lines 56 and 62).                  *)
(***************************************************************************)
THEOREM LostForEverHolds == Spec => LostForEver
<1>1. IInv /\ [Next]_vars => [Lost => Lost']_vars
  <2> SUFFICES ASSUME IInv, [Next]_vars, Lost PROVE Lost'
    OBVIOUS
  <2> USE DEF IInv, TypeOK, Location, Goto, Lost, Holder, UNLOCKED, SLEEPING
  <2>1. ASSUME NEW t \in Thread, Step(t) \/ SpuriousWake(t) PROVE Lost'
    BY <2>1 DEF Step, SubFetchLocks, SubFetchFails, StoreMinusOne, FutexWait,
                SpuriousWake, CriticalSection, AddFetchReleases,
                AddFetchContended, StoreOne, FutexWake
  <2>2. CASE MainReturns
    BY <2>2 DEF MainReturns
  <2>3. CASE UNCHANGED vars
    BY <2>3 DEF vars
  <2> QED
    BY <2>1, <2>2, <2>3 DEF Next, Terminated
<1> QED
  BY <1>1, Invariance, PTL DEF Spec, LostForEver

(***************************************************************************)
(* The step that loses the lock is the store of -1 of a waiter (line 36):  *)
(* every other step from a sound word leaves it sound.                     *)
(***************************************************************************)
THEOREM OnlyStoreLosesHolds == Spec => OnlyStoreLoses
<1>1. IInv /\ [Next]_vars =>
        [~Lost /\ Lost' => \E t \in Thread : StoreMinusOne(t)]_vars
  <2> SUFFICES ASSUME IInv, [Next]_vars, ~Lost,
                      ~ \E t \in Thread : StoreMinusOne(t)
               PROVE  ~Lost' \/ UNCHANGED vars
    OBVIOUS
  <2> USE DEF IInv, TypeOK, Location, Goto, Lost, Holder, UNLOCKED, SLEEPING,
              MutualExclusion, HeldWordNotPositive, WordBelowOne
  <2>1. ASSUME NEW t \in Thread, SubFetchLocks(t) PROVE ~Lost'
    BY <2>1 DEF SubFetchLocks
  \* The decrement fails on a word that was not positive: somebody holds it.
  <2>2. ASSUME NEW t \in Thread, SubFetchFails(t) PROVE ~Lost'
    <3>1. PICK u \in Thread : u \in Holder
      BY <2>2 DEF SubFetchFails
    <3>2. u \in Holder'
      BY <2>2, <3>1 DEF SubFetchFails
    <3> QED
      BY <3>2
  <2>3. ASSUME NEW t \in Thread,
               FutexWait(t) \/ SpuriousWake(t) \/ FutexWake(t)
        PROVE  ~Lost'
    <3>1. Holder' = Holder /\ gs32curlock' = gs32curlock
      BY <2>3 DEF FutexWait, SpuriousWake, FutexWake
    <3> QED
      BY <3>1 DEF Lost
  <2>4. ASSUME NEW t \in Thread, CriticalSection(t) \/ AddFetchContended(t)
        PROVE  ~Lost'
    <3>1. t \in Holder'
      BY <2>4 DEF CriticalSection, AddFetchContended
    <3> QED
      BY <3>1
  <2>5. ASSUME NEW t \in Thread, AddFetchReleases(t) \/ StoreOne(t)
        PROVE  ~Lost'
    BY <2>5 DEF AddFetchReleases, StoreOne
  <2>6. CASE MainReturns
    BY <2>6 DEF MainReturns
  <2> QED
    BY <2>1, <2>2, <2>3, <2>4, <2>5, <2>6 DEF Next, Step, Terminated
<1> QED
  BY <1>1, Invariance, PTL DEF Spec, OnlyStoreLoses
=============================================================================
