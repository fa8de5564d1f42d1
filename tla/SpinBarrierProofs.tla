-------------------------- MODULE SpinBarrierProofs -------------------------
(***************************************************************************)
(* Proofs about barrier_wait() of lab02/src/main.c for any finite set of   *)
(* threads, any number of uses and any width (at least two values) of      *)
(* gs32passed: the inductive invariant, and that the two counters          *)
(* implement the reusable barrier of module Barrier.                       *)
(***************************************************************************)
EXTENDS SpinBarrier, FiniteSetTheorems, TLAPS

\* Cardinality(Thread) is a positive number.
LEMMA ThreadCount == gs32MAX_THREAD \in Nat /\ gs32MAX_THREAD > 0
  BY ThreadAssumption, FS_CardinalityType, FS_EmptySet DEF gs32MAX_THREAD

\* A set of threads has as many members as Thread only if it is Thread.
LEMMA SubsetCount ==
  ASSUME NEW S \in SUBSET Thread
  PROVE  /\ IsFiniteSet(S)
         /\ Cardinality(S) \in Nat
         /\ Cardinality(S) <= gs32MAX_THREAD
         /\ Cardinality(S) = gs32MAX_THREAD => S = Thread
  BY ThreadAssumption, FS_Subset, FS_CardinalityType DEF gs32MAX_THREAD

\* The wrapping increment stays in range and moves the value: M >= 2.
LEMMA IncrementMoves ==
  ASSUME NEW x \in 0 .. Modulus - 1
  PROVE  Increment(x) \in 0 .. Modulus - 1 /\ Increment(x) # x
  BY ModulusAssumption DEF Increment

-----------------------------------------------------------------------------
(* The inductive invariant *)

LEMMA InitInv == Init => IInv
<1> SUFFICES ASSUME Init PROVE IInv
  OBVIOUS
<1>1. TypeOK
  BY ModulusAssumption DEF Init, TypeOK, Location
<1>2. \A t \in Thread : ThreadInStep(t)
  BY DEF Init, ThreadInStep
<1>3. Arrived = {} /\ Last = {}
  BY DEF Init, Arrived, Last
<1>4. CountMatches
  BY <1>3, ThreadCount, FS_EmptySet DEF Init, CountMatches
<1> QED
  BY <1>1, <1>2, <1>4 DEF IInv

\* Steps that neither arrive nor open change neither Arrived nor Last.
LEMMA QuietStep ==
  ASSUME IInv, NEW t \in Thread, ReadPassed(t) \/ SpinEnds(t) \/ Return(t)
  PROVE  IInv'
<1> USE DEF IInv, TypeOK, Location, Goto
<1>1. TypeOK'
  BY DEF ReadPassed, SpinEnds, Return
<1>2. \A u \in Thread : ThreadInStep(u)'
  BY DEF ReadPassed, SpinEnds, Return, ThreadInStep
<1>3. Arrived' = Arrived /\ Last' = Last
  BY DEF ReadPassed, SpinEnds, Return, Arrived, Last
<1>4. gs32bar' = gs32bar
  BY DEF ReadPassed, SpinEnds, Return
\* With a last thread everybody else spins on the current value.
<1>5. Last = {}
  <2> SUFFICES ASSUME NEW l \in Last PROVE FALSE
    OBVIOUS
  <2>1. l \in Thread /\ l # t
    BY DEF Last, ReadPassed, SpinEnds, Return
  <2>2. bpc[t] = "spin" /\ calls[t] = opened + 1
    BY <2>1 DEF CountMatches, Arrived
  <2>3. s32passed_old[t] = gs32passed
    BY <2>2 DEF ThreadInStep
  <2> QED
    BY <2>2, <2>3 DEF ReadPassed, SpinEnds, Return
<1>6. CountMatches'
  BY <1>3, <1>4, <1>5 DEF CountMatches
<1> QED
  BY <1>1, <1>2, <1>6

\* The fetch-and-add of line 47, the last arrival or another one.
LEMMA ArriveStep ==
  ASSUME IInv, NEW t \in Thread, Arrive(t)
  PROVE  IInv'
<1> USE DEF IInv, TypeOK, Location, Goto
<1>1. TypeOK'
  BY DEF Arrive
<1>2. \A u \in Thread : ThreadInStep(u)'
  BY DEF Arrive, ThreadInStep
<1>3. Last = {}
  BY DEF Arrive, CountMatches, Last
<1>4. gs32bar = Cardinality(Arrived) /\ gs32bar < gs32MAX_THREAD
  BY <1>3 DEF CountMatches
<1>5. t \notin Arrived /\ Arrived' = Arrived \cup {t}
  BY DEF Arrive, ThreadInStep, Arrived
<1>6. gs32bar' = Cardinality(Arrived')
  <2>1. IsFiniteSet(Arrived)
    BY SubsetCount DEF Arrived
  <2>2. Cardinality(Arrived \cup {t}) = Cardinality(Arrived) + 1
    BY <1>5, <2>1, FS_AddElement
  <2> QED
    BY <1>4, <1>5, <2>2 DEF Arrive
<1>7. CASE gs32bar = gs32MAX_THREAD - 1
  <2>1. Arrived' = Thread
    <3>1. Arrived' \in SUBSET Thread
      BY <1>5 DEF Arrived
    <3>2. gs32bar' = gs32MAX_THREAD
      BY <1>7, ThreadCount DEF Arrive
    <3> DEFINE S == Arrived'
    <3>3. S \in SUBSET Thread /\ Cardinality(S) = gs32MAX_THREAD
      BY <1>6, <3>1, <3>2
    <3> HIDE DEF S
    <3>4. S = Thread
      BY <3>3, SubsetCount
    <3> QED
      BY <3>4 DEF S
  <2>2. Last' = {t}
    BY <1>3, <1>7 DEF Arrive, Last
  \* Whoever has arrived and is not the last one spins.
  <2>3. \A u \in Thread : u # t => bpc'[u] = "spin"
    <3> SUFFICES ASSUME NEW u \in Thread, u # t PROVE bpc'[u] = "spin"
      OBVIOUS
    <3>1. calls[u] = opened + 1
      BY <2>1 DEF Arrive, Arrived
    <3>2. bpc[u] = "spin"
      BY <1>3, <3>1 DEF ThreadInStep, Last
    <3> QED
      BY <3>2 DEF Arrive
  <2>4. bpc'[t] = "reset"
    BY <1>7 DEF Arrive
  <2> QED
    BY <1>1, <1>2, <2>1, <2>2, <2>3, <2>4 DEF CountMatches
<1>8. CASE gs32bar # gs32MAX_THREAD - 1
  <2>1. Last' = {}
    BY <1>3, <1>8 DEF Arrive, Last
  <2>2. gs32bar' < gs32MAX_THREAD
    BY <1>4, <1>8, ThreadCount DEF Arrive
  <2> QED
    BY <1>1, <1>2, <1>6, <2>1, <2>2 DEF CountMatches
<1> QED
  BY <1>7, <1>8

\* The reset of line 50: nobody else can move, all the others spin.
LEMMA ResetStep ==
  ASSUME IInv, NEW t \in Thread, OpenBarrier(t), bpc[t] = "reset"
  PROVE  IInv'
<1> USE DEF IInv, TypeOK, Location, Goto
<1>1. TypeOK'
  BY DEF OpenBarrier
<1>2. \A u \in Thread : ThreadInStep(u)'
  BY DEF OpenBarrier, ThreadInStep
<1>3. t \in Last
  BY DEF Last
<1>4. Arrived' = Thread
  BY <1>3 DEF OpenBarrier, CountMatches, Arrived
<1>5. \A u \in Thread : u # t => bpc'[u] = "spin"
  BY <1>3 DEF OpenBarrier, CountMatches
<1>6. Last' = {t}
  BY <1>5 DEF OpenBarrier, Last
<1> QED
  BY <1>1, <1>2, <1>4, <1>5, <1>6 DEF CountMatches, OpenBarrier

\* The increment of line 53 ends the use: everybody is released.
LEMMA BumpStep ==
  ASSUME IInv, NEW t \in Thread, OpenBarrier(t), bpc[t] = "bump"
  PROVE  IInv'
<1> USE DEF IInv, TypeOK, Location, Goto
<1>1. TypeOK'
  BY IncrementMoves DEF OpenBarrier
<1>2. t \in Last
  BY DEF Last
<1>3. /\ gs32bar = 0
      /\ \A u \in Thread : calls[u] = opened + 1
      /\ \A u \in Thread : u # t => bpc[u] = "spin"
  BY <1>2 DEF CountMatches, Arrived
<1>4. \A u \in Thread : u # t => s32passed_old[u] = gs32passed
  BY <1>3 DEF ThreadInStep
<1>5. \A u \in Thread : ThreadInStep(u)'
  BY <1>3, <1>4 DEF OpenBarrier, ThreadInStep
<1>6. Last' = {}
  BY <1>3 DEF OpenBarrier, Last
<1>7. Arrived' = {}
  BY <1>3 DEF OpenBarrier, Arrived
<1>8. gs32bar' = 0
  BY <1>3 DEF OpenBarrier
<1> QED
  BY <1>1, <1>5, <1>6, <1>7, <1>8, FS_EmptySet, ThreadCount DEF CountMatches

LEMMA StepInv == IInv /\ [Next]_bvars => IInv'
<1> SUFFICES ASSUME IInv, [Next]_bvars PROVE IInv'
  OBVIOUS
<1>1. ASSUME NEW t \in Thread, OpenBarrier(t) PROVE IInv'
  <2>1. bpc[t] = "reset" \/ bpc[t] = "bump"
    BY <1>1 DEF OpenBarrier, Goto
  <2> QED
    BY <1>1, <2>1, ResetStep, BumpStep
<1>2. CASE UNCHANGED bvars
  BY <1>2 DEF bvars, IInv, TypeOK, ThreadInStep, CountMatches, Arrived, Last
<1> QED
  BY <1>1, <1>2, QuietStep, ArriveStep DEF Next, barrier_wait, Terminated

(***************************************************************************)
(* gs32bar counts the arrivals, at most one thread opens the barrier, and  *)
(* no thread inside can mistake one use for another, however wide          *)
(* gs32passed is.                                                          *)
(***************************************************************************)
THEOREM Invariance == Spec => []IInv
  BY InitInv, StepInv, PTL DEF Spec

-----------------------------------------------------------------------------
(* Refinement of Barrier *)

LEMMA InitRefines == Init => A!Init
  BY DEF Init, A!Init, InsideBarrier

LEMMA StepRefines == IInv /\ [Next]_bvars => [A!Next]_(A!vars)
<1> SUFFICES ASSUME IInv, [Next]_bvars PROVE [A!Next]_(A!vars)
  OBVIOUS
<1> USE DEF IInv, TypeOK, Location, Goto, InsideBarrier
<1>1. ASSUME NEW t \in Thread, ReadPassed(t) PROVE UNCHANGED A!vars
  BY <1>1 DEF ReadPassed, A!vars
<1>2. ASSUME NEW t \in Thread, Arrive(t) PROVE A!Enter(t)
  BY <1>2 DEF Arrive, A!Enter
<1>3. ASSUME NEW t \in Thread, OpenBarrier(t), bpc[t] = "reset"
      PROVE  UNCHANGED A!vars
  BY <1>3 DEF OpenBarrier, A!vars
<1>4. ASSUME NEW t \in Thread, OpenBarrier(t), bpc[t] = "bump" PROVE A!Open
  <2>1. t \in Last
    BY <1>4 DEF Last
  <2>2. InsideBarrier = Thread /\ \A u \in Thread : calls[u] = opened + 1
    BY <1>4, <2>1 DEF CountMatches, Arrived
  <2> QED
    BY <1>4, <2>2 DEF OpenBarrier, A!Open
<1>5. ASSUME NEW t \in Thread, SpinEnds(t) PROVE UNCHANGED A!vars
  BY <1>5 DEF SpinEnds, A!vars
<1>6. ASSUME NEW t \in Thread, Return(t) PROVE A!Leave(t)
  <2>1. calls[t] = opened
    BY <1>6 DEF Return, ThreadInStep
  <2> QED
    BY <1>6, <2>1 DEF Return, A!Leave
<1>7. CASE UNCHANGED bvars
  BY <1>7 DEF bvars, A!vars
<1>8. ASSUME NEW t \in Thread, OpenBarrier(t) PROVE [A!Next]_(A!vars)
  <2>1. bpc[t] = "reset" \/ bpc[t] = "bump"
    BY <1>8 DEF OpenBarrier
  <2> QED
    BY <1>3, <1>4, <1>8, <2>1 DEF A!Next
<1> QED
  BY <1>1, <1>2, <1>5, <1>6, <1>7, <1>8
     DEF Next, barrier_wait, Terminated, A!Next

(***************************************************************************)
(* barrier_wait() implements the reusable barrier: an arrival enters, the  *)
(* increment of gs32passed opens, a return leaves.                         *)
(***************************************************************************)
THEOREM Refinement == Spec => RefinesBarrier
  BY InitRefines, StepRefines, Invariance, PTL DEF Spec, RefinesBarrier, A!Spec
=============================================================================
