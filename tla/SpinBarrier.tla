----------------------------- MODULE SpinBarrier ----------------------------
(***************************************************************************)
(* barrier_wait() of lab02/src/main.c (CUSTOM_SPIN_BARRIER): a sense       *)
(* counting spin barrier on two shared integers.  gs32bar counts the       *)
(* arrivals of the current use, gs32passed the uses that are over; a       *)
(* thread remembers gs32passed before it arrives and spins until it moves. *)
(* The last one to arrive resets gs32bar and then increments gs32passed,   *)
(* in that order (the barrier builtin between them keeps it), and the      *)
(* others may leave and come back while it is still about to return.       *)
(*                                                                         *)
(* gs32passed has a fixed width and wraps around: Modulus is 2^32 in the   *)
(* program.  The work of lab02 uses the barrier once; MaxCalls lets every  *)
(* thread use it that many times, as the two counters are made for.        *)
(***************************************************************************)
EXTENDS Integers, FiniteSets

CONSTANTS
  Thread,       \* gs32MAX_THREAD threads use the barrier
  Modulus,      \* number of values of gs32passed
  MaxCalls      \* bound: how often each thread calls barrier_wait()

ASSUME ThreadAssumption == IsFiniteSet(Thread) /\ Thread # {}
ASSUME ModulusAssumption == Modulus \in Nat /\ Modulus >= 2
ASSUME MaxCallsAssumption == MaxCalls \in Nat

VARIABLES
  gs32bar,         \* arrivals of the current use
  gs32passed,      \* uses that are over, modulo Modulus
  s32passed_old,   \* the local copy of gs32passed, per thread
  bpc,             \* where each thread is in barrier_wait()
  calls,           \* history: arrivals of each thread
  opened           \* history: uses that are over

bvars == <<gs32bar, gs32passed, s32passed_old, bpc, calls, opened>>

gs32MAX_THREAD == Cardinality(Thread)

Location == {"out", "arrive", "spin", "reset", "bump", "return"}

Init ==
  /\ gs32bar = 0
  /\ gs32passed = 0
  /\ s32passed_old = [t \in Thread |-> 0]
  /\ bpc = [t \in Thread |-> "out"]
  /\ calls = [t \in Thread |-> 0]
  /\ opened = 0

Goto(t, from, to) ==
  /\ bpc[t] = from
  /\ bpc' = [bpc EXCEPT ![t] = to]

\* gs32passed++
Increment(x) == IF x = Modulus - 1 THEN 0 ELSE x + 1

-----------------------------------------------------------------------------
(* barrier_wait() *)

\* The call: gs32passed is read before gs32bar is incremented.
ReadPassed(t) ==
  /\ Goto(t, "out", "arrive")
  /\ calls[t] < MaxCalls
  /\ s32passed_old' = [s32passed_old EXCEPT ![t] = gs32passed]
  /\ UNCHANGED <<gs32bar, gs32passed, calls, opened>>

\* Mutant: one arrival too few makes a thread the last one.
Arrive_OffByOne(t) ==
  /\ Goto(t, "arrive", IF gs32bar = gs32MAX_THREAD - 2 THEN "reset" ELSE "spin")
  /\ gs32bar' = gs32bar + 1
  /\ calls' = [calls EXCEPT ![t] = @ + 1]
  /\ UNCHANGED <<gs32passed, s32passed_old, opened>>

\* The atomic fetch-and-add tells the last thread from the others.
Arrive(t) ==
  /\ Goto(t, "arrive", IF gs32bar = gs32MAX_THREAD - 1 THEN "reset" ELSE "spin")
  /\ gs32bar' = gs32bar + 1
  /\ calls' = [calls EXCEPT ![t] = @ + 1]
  /\ UNCHANGED <<gs32passed, s32passed_old, opened>>

\* Mutant: the last thread opens the barrier before it resets gs32bar.
OpenBarrier_BumpFirst(t) ==
  \/ /\ Goto(t, "reset", "bump")
     /\ gs32passed' = Increment(gs32passed)
     /\ opened' = opened + 1
     /\ UNCHANGED <<gs32bar, s32passed_old, calls>>
  \/ /\ Goto(t, "bump", "return")
     /\ gs32bar' = 0
     /\ UNCHANGED <<gs32passed, s32passed_old, calls, opened>>

\* Mutant: gs32bar is never reset.
OpenBarrier_NoReset(t) ==
  /\ Goto(t, "reset", "return")
  /\ gs32passed' = Increment(gs32passed)
  /\ opened' = opened + 1
  /\ UNCHANGED <<gs32bar, s32passed_old, calls>>

\* The last thread: gs32bar = 0, then gs32passed++.
OpenBarrier(t) ==
  \/ /\ Goto(t, "reset", "bump")
     /\ gs32bar' = 0
     /\ UNCHANGED <<gs32passed, s32passed_old, calls, opened>>
  \/ /\ Goto(t, "bump", "return")
     /\ gs32passed' = Increment(gs32passed)
     /\ opened' = opened + 1
     /\ UNCHANGED <<gs32bar, s32passed_old, calls>>

\* Not the last thread: the spin loop ends once gs32passed has moved.
SpinEnds(t) ==
  /\ Goto(t, "spin", "return")
  /\ gs32passed # s32passed_old[t]
  /\ UNCHANGED <<gs32bar, gs32passed, s32passed_old, calls, opened>>

Return(t) ==
  /\ Goto(t, "return", "out")
  /\ UNCHANGED <<gs32bar, gs32passed, s32passed_old, calls, opened>>

barrier_wait(t) ==
  ReadPassed(t) \/ Arrive(t) \/ OpenBarrier(t) \/ SpinEnds(t) \/ Return(t)

AllReturned == \A t \in Thread : bpc[t] = "out" /\ calls[t] = MaxCalls

Terminated == AllReturned /\ UNCHANGED bvars

Next == Terminated \/ \E t \in Thread : barrier_wait(t)

Spec == Init /\ [][Next]_bvars

\* Every thread is scheduled: one thread per core, or a fair scheduler.
FairSpec == Spec /\ \A t \in Thread : WF_bvars(barrier_wait(t))

-----------------------------------------------------------------------------
(* Properties *)

TypeOK ==
  /\ gs32bar \in Nat
  /\ gs32passed \in 0 .. Modulus - 1
  /\ s32passed_old \in [Thread -> 0 .. Modulus - 1]
  /\ bpc \in [Thread -> Location]
  /\ calls \in [Thread -> Nat]
  /\ opened \in Nat

\* The threads counted in the use of the barrier that is not over.
Arrived == {t \in Thread : calls[t] = opened + 1}

\* The last thread of the current use, while it opens the barrier.
Last == {t \in Thread : bpc[t] \in {"reset", "bump"}}

(***************************************************************************)
(* A thread outside is in step with the barrier, a thread about to arrive  *)
(* still has the current gs32passed (line 45 before line 47), and one that *)
(* spins either waits for this use with the current value or was released  *)
(* with the previous one, which differs even when the counter wraps.       *)
(***************************************************************************)
ThreadInStep(t) ==
  /\ bpc[t] \in {"out", "arrive", "return"} => calls[t] = opened
  /\ bpc[t] = "arrive" => s32passed_old[t] = gs32passed
  /\ bpc[t] = "spin" =>
       \/ calls[t] = opened + 1 /\ s32passed_old[t] = gs32passed
       \/ calls[t] = opened /\ Increment(s32passed_old[t]) = gs32passed
  /\ bpc[t] \in {"reset", "bump"} => calls[t] = opened + 1

(***************************************************************************)
(* gs32bar is the number of arrivals until the last one comes; the last    *)
(* one is alone, everybody has arrived when it resets gs32bar (line 50)    *)
(* and nobody has arrived again when it increments gs32passed (line 53).   *)
(***************************************************************************)
CountMatches ==
  /\ Last = {} => gs32bar = Cardinality(Arrived) /\ gs32bar < gs32MAX_THREAD
  /\ \A t \in Last :
       /\ Arrived = Thread
       /\ \A u \in Thread : u # t => bpc[u] = "spin"
       /\ bpc[t] = "bump" => gs32bar = 0

IInv ==
  /\ TypeOK
  /\ \A t \in Thread : ThreadInStep(t)
  /\ CountMatches

(***************************************************************************)
(* Every thread passes the barrier MaxCalls times: no arrival is lost and  *)
(* no thread is left spinning by a reuse of the counters (lines 43-64).    *)
(***************************************************************************)
Termination == <>AllReturned

(***************************************************************************)
(* barrier_wait() is a reusable barrier: nobody leaves use n before all    *)
(* have entered use n, and one step (line 53) opens it for all.            *)
(***************************************************************************)
InsideBarrier ==
  {t \in Thread : bpc[t] \in {"spin", "reset", "bump", "return"}}

A == INSTANCE Barrier WITH entered <- calls, inside <- InsideBarrier

RefinesBarrier == A!Spec
=============================================================================
