--------------------------- MODULE SpinLockProofs ---------------------------
(***************************************************************************)
(* Proofs about studio11/spinlock.c for a team of any size and on either   *)
(* kind of platform: mutual exclusion, refinement of Mutex, and what the   *)
(* error branch of unlock() can mean.                                      *)
(***************************************************************************)
EXTENDS SpinLock, TLAPS

-----------------------------------------------------------------------------
(* The inductive invariant *)

LEMMA InitInv == Init => IInv
  BY DEF Init, IInv, TypeOK, Location, ExpectedIsUnlock, MutualExclusion,
         LockWordTellsHolder, Holder, LOCK, UNLOCK

\* One step per action; only the two successful exchanges change the holder.
LEMMA StepInv == IInv /\ [Next]_vars => IInv'
<1> SUFFICES ASSUME IInv, [Next]_vars PROVE IInv'
  OBVIOUS
<1> USE DEF IInv, TypeOK, Location, ExpectedIsUnlock, MutualExclusion,
            LockWordTellsHolder, Holder, LOCK, UNLOCK, Goto
<1>1. ASSUME NEW t \in Thread, LockCasSucceeds(t) PROVE IInv'
  <2>1. gs32curlock = UNLOCK /\ \A u \in Thread : u \notin Holder
    BY <1>1 DEF LockCasSucceeds
  <2>2. \A u \in Thread : u \in Holder' <=> u = t
    BY <1>1, <2>1 DEF LockCasSucceeds
  <2>3. TypeOK' /\ ExpectedIsUnlock'
    BY <1>1 DEF LockCasSucceeds
  <2> QED
    BY <1>1, <2>2, <2>3 DEF LockCasSucceeds
<1>2. ASSUME NEW t \in Thread, LockCasFails(t) PROVE IInv'
  BY <1>2 DEF LockCasFails
<1>3. ASSUME NEW t \in Thread, ResetExpected(t) PROVE IInv'
  BY <1>3 DEF ResetExpected
<1>4. ASSUME NEW t \in Thread, CriticalSection(t) PROVE IInv'
  BY <1>4 DEF CriticalSection
<1>5. ASSUME NEW t \in Thread, UnlockCasSucceeds(t) PROVE IInv'
  <2>1. \A u \in Thread : u \notin Holder'
    BY <1>5 DEF UnlockCasSucceeds
  <2>2. TypeOK' /\ ExpectedIsUnlock'
    BY <1>5 DEF UnlockCasSucceeds
  <2> QED
    BY <1>5, <2>1, <2>2 DEF UnlockCasSucceeds
<1>6. ASSUME NEW t \in Thread, UnlockCasFails(t) PROVE IInv'
  BY <1>6 DEF UnlockCasFails
<1>7. ASSUME NEW t \in Thread, ErrorExit(t) PROVE IInv'
  BY <1>7 DEF ErrorExit
<1>8. CASE MainReturns
  BY <1>8 DEF MainReturns
<1>9. CASE UNCHANGED vars
  BY <1>9 DEF vars
<1> QED
  BY <1>1, <1>2, <1>3, <1>4, <1>5, <1>6, <1>7, <1>8, <1>9
     DEF Next, Step, Terminated

(***************************************************************************)
(* The invariant of lock() and unlock(): types, the expected value of a    *)
(* thread about to try, mutual exclusion, and the meaning of the lock word.*)
(***************************************************************************)
THEOREM Invariance == Spec => []IInv
  BY InitInv, StepInv, PTL DEF Spec

(***************************************************************************)
(* No two threads are in the critical section of spinlock.c together.      *)
(***************************************************************************)
THEOREM MutualExclusionHolds == Spec => []MutualExclusion
<1>1. IInv => MutualExclusion
  BY DEF IInv
<1> QED
  BY <1>1, Invariance, PTL

-----------------------------------------------------------------------------
(* Refinement of Mutex *)

LEMMA InitRefines == Init => M!Init
  BY DEF Init, M!Init, abstractPhase, PhaseOf

\* Acquire is the successful exchange of lock(), Release that of unlock().
LEMMA StepRefines == IInv /\ [Next]_vars => [M!Next]_abstractPhase
<1> SUFFICES ASSUME IInv, [Next]_vars PROVE [M!Next]_abstractPhase
  OBVIOUS
<1> USE DEF IInv, TypeOK, Location, Goto, abstractPhase, PhaseOf
<1>1. ASSUME NEW t \in Thread, LockCasSucceeds(t) PROVE M!Next
  <2>1. \A u \in Thread : u \notin Holder
    BY <1>1 DEF LockCasSucceeds, ExpectedIsUnlock, LockWordTellsHolder,
                LOCK, UNLOCK
  <2>2. \A u \in Thread : abstractPhase[u] # "critical"
    BY <2>1 DEF Holder
  <2>3. abstractPhase[t] = "waiting"
    BY <1>1 DEF LockCasSucceeds
  <2>4. abstractPhase' = [abstractPhase EXCEPT ![t] = "critical"]
    BY <1>1 DEF LockCasSucceeds
  <2> QED
    BY <2>2, <2>3, <2>4 DEF M!Next, M!Acquire
<1>2. ASSUME NEW t \in Thread, LockCasFails(t) PROVE UNCHANGED abstractPhase
  BY <1>2 DEF LockCasFails
<1>3. ASSUME NEW t \in Thread, ResetExpected(t) PROVE UNCHANGED abstractPhase
  BY <1>3 DEF ResetExpected
<1>4. ASSUME NEW t \in Thread, CriticalSection(t) PROVE UNCHANGED abstractPhase
  BY <1>4 DEF CriticalSection
<1>5. ASSUME NEW t \in Thread, UnlockCasSucceeds(t) PROVE M!Next
  <2>1. abstractPhase[t] = "critical"
    BY <1>5 DEF UnlockCasSucceeds
  <2>2. abstractPhase' = [abstractPhase EXCEPT ![t] = "done"]
    BY <1>5 DEF UnlockCasSucceeds
  <2> QED
    BY <2>1, <2>2 DEF M!Next, M!Release
<1>6. ASSUME NEW t \in Thread, UnlockCasFails(t) PROVE UNCHANGED abstractPhase
  BY <1>6 DEF UnlockCasFails
<1>7. ASSUME NEW t \in Thread, ErrorExit(t) PROVE UNCHANGED abstractPhase
  BY <1>7 DEF ErrorExit
<1>8. CASE MainReturns
  BY <1>8 DEF MainReturns
<1>9. CASE UNCHANGED vars
  BY <1>9 DEF vars
<1> QED
  BY <1>1, <1>2, <1>3, <1>4, <1>5, <1>6, <1>7, <1>8, <1>9
     DEF Next, Step, Terminated

(***************************************************************************)
(* spinlock.c implements Mutex: every step of the team is an Acquire, a    *)
(* Release, or invisible to the threads that only know lock() and unlock().*)
(***************************************************************************)
THEOREM Refinement == Spec => RefinesMutex
  BY InitRefines, StepRefines, Invariance, PTL DEF Spec, RefinesMutex, M!Spec

-----------------------------------------------------------------------------
(* The ends of the process *)

\* What is known of the process once it has ended, with what carries it.
EndInv ==
  /\ status = "returned" => \A t \in Thread : pc[t] = "done"
  /\ status = "exited" => \E t \in Thread : pc[t] = "error"

(***************************************************************************)
(* main() returns with the word free; exit(-1) is reached only with the    *)
(* word still LOCK, so the message of line 49 is wrong whenever printed.   *)
(***************************************************************************)
THEOREM ExitLeavesLockHeldHolds == Spec => []ExitLeavesLockHeld
<1>1. Init => EndInv
  BY DEF Init, EndInv
<1>2. IInv /\ EndInv /\ [Next]_vars => EndInv'
  <2> SUFFICES ASSUME IInv, EndInv, [Next]_vars PROVE EndInv'
    OBVIOUS
  <2> USE DEF EndInv, IInv, TypeOK, Location, Goto
  <2>1. ASSUME NEW t \in Thread, Step(t) PROVE EndInv'
    BY <2>1 DEF Step, LockCasSucceeds, LockCasFails, ResetExpected,
                CriticalSection, UnlockCasSucceeds, UnlockCasFails, ErrorExit
  <2>2. CASE MainReturns
    BY <2>2 DEF MainReturns
  <2>3. CASE UNCHANGED vars
    BY <2>3 DEF vars
  <2> QED
    BY <2>1, <2>2, <2>3 DEF Next, Terminated
<1>3. IInv /\ EndInv => ExitLeavesLockHeld
  BY DEF IInv, TypeOK, EndInv, ExitLeavesLockHeld, LockWordTellsHolder, Holder,
         LOCK, UNLOCK
<1> QED
  BY <1>1, <1>2, <1>3, Invariance, PTL DEF Spec

(***************************************************************************)
(* With a strong compare-exchange, which the assignment asks for, no       *)
(* thread ever reaches the error branch of unlock() (lines 47-51).         *)
(***************************************************************************)
THEOREM StrongCasNeverErrsHolds == Spec => []StrongCasNeverErrs
<1>1. Init => StrongCasNeverErrs
  BY DEF Init, StrongCasNeverErrs
<1>2. IInv /\ StrongCasNeverErrs /\ [Next]_vars => StrongCasNeverErrs'
  <2> SUFFICES ASSUME IInv, StrongCasNeverErrs, [Next]_vars
               PROVE StrongCasNeverErrs'
    OBVIOUS
  <2> USE DEF StrongCasNeverErrs, IInv, TypeOK, Location, Goto
  <2>1. ASSUME NEW t \in Thread, UnlockCasFails(t) PROVE StrongCasNeverErrs'
    BY <2>1 DEF UnlockCasFails, LockWordTellsHolder, Holder
  <2>2. ASSUME NEW t \in Thread, Step(t), ~UnlockCasFails(t)
        PROVE StrongCasNeverErrs'
    BY <2>2 DEF Step, LockCasSucceeds, LockCasFails, ResetExpected,
                CriticalSection, UnlockCasSucceeds, ErrorExit
  <2>3. CASE MainReturns
    BY <2>3 DEF MainReturns
  <2>4. CASE UNCHANGED vars
    BY <2>4 DEF vars
  <2> QED
    BY <2>1, <2>2, <2>3, <2>4 DEF Next, Terminated
<1> QED
  BY <1>1, <1>2, Invariance, PTL DEF Spec
=============================================================================
