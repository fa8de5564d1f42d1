------------------------------ MODULE SleepLock -----------------------------
(***************************************************************************)
(* studio11/sleeplock.c: a lock on one word whose waiters sleep in a       *)
(* futex.  The word is meant to be 1 when unlocked, 0 when locked and      *)
(* negative when somebody sleeps.  Each atomic builtin and each system     *)
(* call is a step of its own, so everything may happen between the         *)
(* decrement and the store of -1 (lines 33 and 36), between that store and *)
(* FUTEX_WAIT (line 37), and between the increment, the store of 1 and     *)
(* FUTEX_WAKE of unlock() (lines 56, 62 and 63).                           *)
(***************************************************************************)
EXTENDS Integers

CONSTANT Thread          \* the OpenMP team

VARIABLES
  gs32curlock,           \* the lock word
  pc,                    \* next statement of each thread
  status                 \* the process: running, or returned from main

vars == <<gs32curlock, pc, status>>

UNLOCKED == 1
SLEEPING == -1           \* what lock() stores and FUTEX_WAIT compares with

Location == {"sub", "store", "wait", "asleep",
             "critical", "add", "storeone", "wake", "done"}

Init ==
  /\ gs32curlock = UNLOCKED
  /\ pc = [t \in Thread |-> "sub"]
  /\ status = "running"

Goto(t, from, to) ==
  /\ pc[t] = from
  /\ pc' = [pc EXCEPT ![t] = to]

-----------------------------------------------------------------------------
(* lock() *)

\* Mutant: the test on the decremented value is off by one.
SubFetchLocks_OffByOne(t) ==
  /\ Goto(t, "sub", "critical")
  /\ gs32curlock - 1 >= -1
  /\ gs32curlock' = gs32curlock - 1
  /\ UNCHANGED status

\* The decrement finds the word positive: the caller has the lock.
SubFetchLocks(t) ==
  /\ Goto(t, "sub", "critical")
  /\ gs32curlock - 1 >= 0
  /\ gs32curlock' = gs32curlock - 1
  /\ UNCHANGED status

SubFetchFails(t) ==
  /\ Goto(t, "sub", "store")
  /\ gs32curlock - 1 < 0
  /\ gs32curlock' = gs32curlock - 1
  /\ UNCHANGED status

\* A plain store, whatever the word has become since the decrement.
StoreMinusOne(t) ==
  /\ Goto(t, "store", "wait")
  /\ gs32curlock' = SLEEPING
  /\ UNCHANGED status

\* FUTEX_WAIT sleeps only if the word still is -1; both cases end in a retry.
FutexWait(t) ==
  /\ Goto(t, "wait", IF gs32curlock = SLEEPING THEN "asleep" ELSE "sub")
  /\ UNCHANGED <<gs32curlock, status>>

\* Mutant: a thread that wakes up leaves the loop instead of retrying.
SpuriousWake_LeavesLoop(t) ==
  /\ Goto(t, "asleep", "critical")
  /\ UNCHANGED <<gs32curlock, status>>

\* The kernel may also end FUTEX_WAIT on its own; it never has to.
SpuriousWake(t) ==
  /\ Goto(t, "asleep", "sub")
  /\ UNCHANGED <<gs32curlock, status>>

-----------------------------------------------------------------------------
(* critical_section() and unlock() *)

CriticalSection(t) ==
  /\ Goto(t, "critical", "add")
  /\ UNCHANGED <<gs32curlock, status>>

\* The increment gives 1: nobody came in the meantime, nobody is woken.
AddFetchReleases(t) ==
  /\ Goto(t, "add", "done")
  /\ gs32curlock + 1 = UNLOCKED
  /\ gs32curlock' = gs32curlock + 1
  /\ UNCHANGED status

\* Mutant: the contended path wakes without storing 1.
AddFetchContended_NoStore(t) ==
  /\ Goto(t, "add", "wake")
  /\ gs32curlock + 1 # UNLOCKED
  /\ gs32curlock' = gs32curlock + 1
  /\ UNCHANGED status

AddFetchContended(t) ==
  /\ Goto(t, "add", "storeone")
  /\ gs32curlock + 1 # UNLOCKED
  /\ gs32curlock' = gs32curlock + 1
  /\ UNCHANGED status

StoreOne(t) ==
  /\ Goto(t, "storeone", "wake")
  /\ gs32curlock' = UNLOCKED
  /\ UNCHANGED status

\* Mutant: FUTEX_WAKE of one thread.
FutexWake_One(t) ==
  /\ pc[t] = "wake"
  /\ \/ \E u \in Thread :
          /\ pc[u] = "asleep"
          /\ pc' = [pc EXCEPT ![t] = "done", ![u] = "sub"]
     \/ /\ \A u \in Thread : pc[u] # "asleep"
        /\ pc' = [pc EXCEPT ![t] = "done"]
  /\ UNCHANGED <<gs32curlock, status>>

\* Mutant: the woken threads return from lock() without trying again.
FutexWake_LeaveLoop(t) ==
  /\ pc[t] = "wake"
  /\ pc' = [u \in Thread |-> IF u = t THEN "done"
                             ELSE IF pc[u] = "asleep" THEN "critical" ELSE pc[u]]
  /\ UNCHANGED <<gs32curlock, status>>

\* FUTEX_WAKE of INT_MAX: every thread asleep on the word.
FutexWake(t) ==
  /\ pc[t] = "wake"
  /\ pc' = [u \in Thread |-> IF u = t THEN "done"
                             ELSE IF pc[u] = "asleep" THEN "sub" ELSE pc[u]]
  /\ UNCHANGED <<gs32curlock, status>>

-----------------------------------------------------------------------------
(* main() *)

MainReturns ==
  /\ status = "running"
  /\ \A t \in Thread : pc[t] = "done"
  /\ status' = "returned"
  /\ UNCHANGED <<gs32curlock, pc>>

Terminated ==
  /\ status = "returned"
  /\ UNCHANGED vars

Step(t) ==
  \/ SubFetchLocks(t) \/ SubFetchFails(t) \/ StoreMinusOne(t) \/ FutexWait(t)
  \/ CriticalSection(t)
  \/ AddFetchReleases(t) \/ AddFetchContended(t) \/ StoreOne(t) \/ FutexWake(t)

Next ==
  \/ \E t \in Thread : Step(t) \/ SpuriousWake(t)
  \/ MainReturns
  \/ Terminated

Spec == Init /\ [][Next]_vars

\* Every runnable thread is scheduled; nothing obliges a spurious wake-up.
FairSpec ==
  /\ Spec
  /\ \A t \in Thread : WF_vars(Step(t))
  /\ WF_vars(MainReturns)

-----------------------------------------------------------------------------
(* Properties *)

TypeOK ==
  /\ gs32curlock \in Int
  /\ pc \in [Thread -> Location]
  /\ status \in {"running", "returned"}

\* From the return of lock() to the store or increment that frees the word.
Holder == {t \in Thread : pc[t] \in {"critical", "add", "storeone"}}

Asleep == {t \in Thread : pc[t] = "asleep"}

(***************************************************************************)
(* At most one thread is between the decrement that ends lock() (line 33)  *)
(* and the step of unlock() that makes the word 1 (lines 56 and 62).       *)
(***************************************************************************)
MutualExclusion == \A t, u \in Holder : t = u

(***************************************************************************)
(* The word never exceeds 1, however the unconditional stores of waiters   *)
(* and of unlock() fall between the increments and decrements, and it is   *)
(* not positive while somebody is inside.                                  *)
(***************************************************************************)
WordBelowOne == gs32curlock <= UNLOCKED

HeldWordNotPositive == Holder # {} => gs32curlock <= 0

IInv ==
  /\ TypeOK
  /\ WordBelowOne
  /\ HeldWordNotPositive
  /\ MutualExclusion

(***************************************************************************)
(* The lock is lost: nobody holds it and the word says it is taken.  A     *)
(* waiter that stores -1 (line 36) after the holder stored 1 (line 62)     *)
(* brings this about.                                                      *)
(***************************************************************************)
Lost == Holder = {} /\ gs32curlock <= 0

(***************************************************************************)
(* A lost lock stays lost: decrements, stores of -1 and wake-ups of the    *)
(* remaining threads never make the word positive again (lines 33-37).     *)
(***************************************************************************)
LostForEver == [][Lost => Lost']_vars

(***************************************************************************)
(* Only the unconditional store of -1 (line 36) can lose the lock.         *)
(***************************************************************************)
OnlyStoreLoses ==
  [][~Lost /\ Lost' => \E t \in Thread : StoreMinusOne(t)]_vars

(***************************************************************************)
(* As long as the lock is not lost the protocol completes: no sleeper is   *)
(* forgotten by FUTEX_WAKE and every thread of the team has its turn.      *)
(***************************************************************************)
CompletesUnlessLost == <>(status = "returned" \/ Lost)

(***************************************************************************)
(* What the assignment says of the sleep lock: a thread that fails to take *)
(* it "sleeps until it is later woken up"                                  *)
(* (Requirement/Studio11_Build_Your_Own_Locks.html).                       *)
(***************************************************************************)
SleepersAreWoken == \A t \in Thread : (t \in Asleep) ~> (t \notin Asleep)

(***************************************************************************)
(* The sleep lock behaves as a mutex: what it can lose is progress, never  *)
(* exclusion.                                                              *)
(***************************************************************************)
PhaseOf(t) ==
  IF pc[t] \in {"critical", "add", "storeone"} THEN "critical"
  ELSE IF pc[t] \in {"wake", "done"} THEN "done" ELSE "waiting"

abstractPhase == [t \in Thread |-> PhaseOf(t)]

M == INSTANCE Mutex WITH phase <- abstractPhase

RefinesMutex == M!Spec
=============================================================================
