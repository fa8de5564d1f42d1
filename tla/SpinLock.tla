------------------------------ MODULE SpinLock ------------------------------
(***************************************************************************)
(* studio11/spinlock.c: a spin lock on one word, taken and released with   *)
(* __atomic_compare_exchange and used once by every thread of an OpenMP    *)
(* team.  The source passes 1 for the builtin's "weak" argument (lines 29  *)
(* and 46), so on the target, whose compare-exchange is a load-exclusive   *)
(* and a store-exclusive, it may fail although the word has the expected   *)
(* value.  WeakMayFail says whether the platform has such failures (ARM)   *)
(* or not (x86).  A failed compare-exchange overwrites its "expected"      *)
(* argument with the value it read, spurious failures included.            *)
(***************************************************************************)
CONSTANTS
  Thread,        \* the OpenMP team
  WeakMayFail    \* can a weak compare-exchange fail on an equal word?

ASSUME WeakMayFailAssumption == WeakMayFail \in BOOLEAN

VARIABLES
  gs32curlock,   \* the lock word
  s32unlock,     \* lock()'s local "expected" value, per thread
  pc,            \* next statement of each thread
  status         \* the process: running, returned from main, or exit(-1)

vars == <<gs32curlock, s32unlock, pc, status>>

LOCK   == 1
UNLOCK == 0

Location == {"cas", "reset", "critical", "unlock", "error", "done"}

Init ==
  /\ gs32curlock = UNLOCK
  /\ s32unlock = [t \in Thread |-> UNLOCK]
  /\ pc = [t \in Thread |-> "cas"]
  /\ status = "running"

Goto(t, from, to) ==
  /\ status = "running"
  /\ pc[t] = from
  /\ pc' = [pc EXCEPT ![t] = to]

-----------------------------------------------------------------------------
(* lock() *)

\* The exchange stores LOCK and the loop ends.
LockCasSucceeds(t) ==
  /\ Goto(t, "cas", "critical")
  /\ gs32curlock = s32unlock[t]
  /\ gs32curlock' = LOCK
  /\ UNCHANGED <<s32unlock, status>>

\* The exchange fails, by comparison or spuriously, and overwrites expected.
LockCasFails(t) ==
  /\ Goto(t, "cas", "reset")
  /\ gs32curlock # s32unlock[t] \/ WeakMayFail
  /\ s32unlock' = [s32unlock EXCEPT ![t] = gs32curlock]
  /\ UNCHANGED <<gs32curlock, status>>

\* Mutant: the loop body is empty and the overwritten value is used again.
ResetExpected_Forgotten(t) ==
  /\ Goto(t, "reset", "cas")
  /\ UNCHANGED <<gs32curlock, s32unlock, status>>

\* The loop body: expected is UNLOCK again before the next attempt.
ResetExpected(t) ==
  /\ Goto(t, "reset", "cas")
  /\ s32unlock' = [s32unlock EXCEPT ![t] = UNLOCK]
  /\ UNCHANGED <<gs32curlock, status>>

-----------------------------------------------------------------------------
(* critical_section() and unlock() *)

CriticalSection(t) ==
  /\ Goto(t, "critical", "unlock")
  /\ UNCHANGED <<gs32curlock, s32unlock, status>>

UnlockCasSucceeds(t) ==
  /\ Goto(t, "unlock", "done")
  /\ gs32curlock = LOCK
  /\ gs32curlock' = UNLOCK
  /\ UNCHANGED <<s32unlock, status>>

\* Mutant: "print out an error message and return", without releasing.
UnlockCasFails_Returns(t) ==
  /\ Goto(t, "unlock", "done")
  /\ gs32curlock # LOCK \/ WeakMayFail
  /\ UNCHANGED <<gs32curlock, s32unlock, status>>

\* There is no retry: any failure goes to the error branch.
UnlockCasFails(t) ==
  /\ Goto(t, "unlock", "error")
  /\ gs32curlock # LOCK \/ WeakMayFail
  /\ UNCHANGED <<gs32curlock, s32unlock, status>>

\* exit(-1) ends the process and with it the whole team.
ErrorExit(t) ==
  /\ status = "running"
  /\ pc[t] = "error"
  /\ status' = "exited"
  /\ UNCHANGED <<gs32curlock, s32unlock, pc>>

-----------------------------------------------------------------------------
(* main(): the parallel region ends when every thread has left its body. *)

\* Mutant: main does not wait for the team.
MainReturns_NoJoin ==
  /\ status = "running"
  /\ status' = "returned"
  /\ UNCHANGED <<gs32curlock, s32unlock, pc>>

MainReturns ==
  /\ status = "running"
  /\ \A t \in Thread : pc[t] = "done"
  /\ status' = "returned"
  /\ UNCHANGED <<gs32curlock, s32unlock, pc>>

\* The process is gone.
Terminated ==
  /\ status # "running"
  /\ UNCHANGED vars

Step(t) ==
  \/ LockCasSucceeds(t) \/ LockCasFails(t) \/ ResetExpected(t)
  \/ CriticalSection(t)
  \/ UnlockCasSucceeds(t) \/ UnlockCasFails(t) \/ ErrorExit(t)

Next ==
  \/ \E t \in Thread : Step(t)
  \/ MainReturns
  \/ Terminated

Spec == Init /\ [][Next]_vars

(***************************************************************************)
(* Every runnable thread is scheduled, and a thread that keeps finding the *)
(* word UNLOCK when it tries wins some attempt: an exclusive store does    *)
(* not fail for ever.                                                      *)
(***************************************************************************)
FairSpec ==
  /\ Spec
  /\ \A t \in Thread : WF_vars(Step(t)) /\ SF_vars(LockCasSucceeds(t))
  /\ WF_vars(MainReturns)

-----------------------------------------------------------------------------
(* Properties *)

TypeOK ==
  /\ gs32curlock \in {LOCK, UNLOCK}
  /\ s32unlock \in [Thread -> {LOCK, UNLOCK}]
  /\ pc \in [Thread -> Location]
  /\ status \in {"running", "returned", "exited"}

\* The threads between the return of lock() and the release of the word.
Holder == {t \in Thread : pc[t] \in {"critical", "unlock", "error"}}

(***************************************************************************)
(* At most one thread of the team is between the compare-exchange that     *)
(* ends lock() (line 29) and the one that releases the word (line 46),     *)
(* whatever the order of attempts, failures and resets of "expected".      *)
(***************************************************************************)
MutualExclusion == \A t, u \in Holder : t = u

(***************************************************************************)
(* The word is LOCK exactly while some thread is inside: unlock() never    *)
(* frees a lock that somebody else holds, and no failed attempt leaves the *)
(* lock taken without an owner (lines 29 and 46).                          *)
(***************************************************************************)
LockWordTellsHolder == gs32curlock = LOCK <=> Holder # {}

(***************************************************************************)
(* The inductive invariant: a thread about to try has UNLOCK as its        *)
(* expected value (line 34 undoes what the failed attempt wrote).          *)
(***************************************************************************)
ExpectedIsUnlock == \A t \in Thread : pc[t] = "cas" => s32unlock[t] = UNLOCK

IInv ==
  /\ TypeOK
  /\ ExpectedIsUnlock
  /\ MutualExclusion
  /\ LockWordTellsHolder

(***************************************************************************)
(* main() returns 0 only when nobody is inside and the word is free again; *)
(* the process leaves by exit(-1) only with the lock still held, so the    *)
(* message "Cannot unlock" (line 49) is never about an unlocked word.      *)
(***************************************************************************)
ExitLeavesLockHeld ==
  /\ status = "returned" => gs32curlock = UNLOCK
  /\ status = "exited" => gs32curlock = LOCK

(***************************************************************************)
(* Without spurious failures the error branch of unlock() (lines 47-51) is *)
(* dead code.                                                              *)
(***************************************************************************)
StrongCasNeverErrs == ~WeakMayFail => \A t \in Thread : pc[t] # "error"

(***************************************************************************)
(* What the assignment says of unlock(): it is called by the holder, so    *)
(* its compare-exchange fails only for a caller that does not hold the     *)
(* lock (Requirement/Studio11_Build_Your_Own_Locks.html, "we only expect   *)
(* the unlock function to be called when we already hold the lock").       *)
(***************************************************************************)
ErrorMeansNotLocked == \A t \in Thread : pc[t] = "error" => gs32curlock # LOCK

(***************************************************************************)
(* Deadlock freedom of the team: the process ends, by returning after      *)
(* every thread has been inside or by the error exit of unlock().          *)
(***************************************************************************)
Termination == <>(status # "running")

(***************************************************************************)
(* The lock of spinlock.c behaves as the mutex it is meant to be.          *)
(***************************************************************************)
PhaseOf(t) ==
  IF pc[t] \in {"cas", "reset"} THEN "waiting"
  ELSE IF pc[t] = "done" THEN "done" ELSE "critical"

abstractPhase == [t \in Thread |-> PhaseOf(t)]

M == INSTANCE Mutex WITH phase <- abstractPhase

RefinesMutex == M!Spec
=============================================================================
