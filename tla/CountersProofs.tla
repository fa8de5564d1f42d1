--------------------------- MODULE CountersProofs ---------------------------
(***************************************************************************)
(* Proofs about the counting modules of studio10, for any number of        *)
(* threads and of increments: who owns the mutex, what the counter is in   *)
(* the versions that lose nothing, and the least and the most that it can  *)
(* be in the one that does.                                                *)
(***************************************************************************)
EXTENDS Counters, FiniteSetTheorems, TLAPS

-----------------------------------------------------------------------------
(* The inductive invariant *)

Types ==
  /\ program \in Program
  /\ mpc \in {"wake", "loaded", "printed", "unloaded"}
  /\ row \in Thread
  /\ pc \in [Thread -> {"new", "loop", "load", "store", "unlock", "done"}]
  /\ s32i \in [Thread -> 0 .. IRT_TIME]
  /\ reg \in [Thread -> Nat]
  /\ race \in Nat
  /\ MYMUTEX \in Thread \cup {Nobody}

\* Where the loop of each version is, and how far.
Loop ==
  \A t \in Thread :
    /\ pc[t] \in {"load", "store"} => s32i[t] < IRT_TIME
    /\ pc[t] = "done" => s32i[t] = IRT_TIME
    /\ program = "atomic" => pc[t] # "store"
    /\ program # "mutex" => pc[t] \notin {"load", "unlock"}

Owner ==
  \A t \in Thread :
    (program = "mutex" /\ pc[t] \in {"load", "store", "unlock"}) <=> MYMUTEX = t

\* A thread that has incremented before finds, and stores, more than the first
\* value; the only thread there is loses nothing.
Least ==
  /\ \A t \in Thread : s32i[t] >= 1 => race >= 1
  /\ \A t \in Thread : pc[t] = "store" /\ s32i[t] >= 1 => reg[t] >= 1
  /\ IRT_TIME >= 2 /\ (\A t \in Thread : s32i[t] = IRT_TIME) => race >= 2
  /\ Threads = 1 => race = s32i[0] /\ (pc[0] = "store" => reg[0] = race)

CInv == Types /\ Loop /\ Owner /\ Least

-----------------------------------------------------------------------------
(* The steps *)

LEMMA ThreadFacts == /\ 0 \in Thread /\ Thread \subseteq Int /\ Nobody \notin Thread
                     /\ Threads = 1 => Thread = {0}
  BY ThreadsAssumption DEF Thread, Nobody

LEMMA InitInv == Init => CInv
  BY ThreadFacts, IrtTimeAssumption DEF Init, CInv, Types, Loop, Owner, Least

\* One step per action; the stores are those of StoreRace and AtomicAdd.
LEMMA StepInv == CInv /\ [Next]_vars => CInv'
<1> SUFFICES ASSUME CInv, [Next]_vars PROVE CInv'
  OBVIOUS
<1> USE ThreadFacts, IrtTimeAssumption DEF CInv, Goto, module
<1>1. CASE WakeThread
  <2>1. row' \in Thread
    BY <1>1, ThreadsAssumption DEF WakeThread, Types, Thread
  <2>2. Types'
    BY <2>1, <1>1 DEF Types, WakeThread
  <2>3. Loop'
    BY <2>1, <1>1 DEF Types, Loop, WakeThread
  <2>4. Owner'
    BY <2>1, <1>1 DEF Types, Loop, Owner, WakeThread
  <2>5. Least'
    BY <2>1, <1>1 DEF Types, Loop, Least, WakeThread
  <2> QED
    BY <2>2, <2>3, <2>4, <2>5
<1>2. CASE PrintRace
  <2>1. Types'
    BY <1>2 DEF Types, PrintRace
  <2>2. Loop'
    BY <1>2 DEF Types, Loop, PrintRace
  <2>3. Owner'
    BY <1>2 DEF Types, Loop, Owner, PrintRace
  <2>4. Least'
    BY <1>2 DEF Types, Loop, Least, PrintRace
  <2> QED
    BY <2>1, <2>2, <2>3, <2>4
<1>3. CASE FreeModule
  <2>1. Types'
    BY <1>3 DEF Types, FreeModule
  <2>2. Loop'
    BY <1>3 DEF Types, Loop, FreeModule
  <2>3. Owner'
    BY <1>3 DEF Types, Loop, Owner, FreeModule
  <2>4. Least'
    BY <1>3 DEF Types, Loop, Least, FreeModule
  <2> QED
    BY <2>1, <2>2, <2>3, <2>4
<1>4. ASSUME NEW t \in Thread, AtomicAdd(t) PROVE CInv'
  <2>1. Types'
    BY <1>4 DEF Types, AtomicAdd
  <2>2. Loop'
    BY <1>4 DEF Types, Loop, AtomicAdd
  <2>3. Owner'
    BY <1>4 DEF Types, Loop, Owner, AtomicAdd
  <2>4. Least'
    BY <1>4 DEF Types, Loop, Least, AtomicAdd
  <2> QED
    BY <2>1, <2>2, <2>3, <2>4
<1>5. ASSUME NEW t \in Thread, LockMutex(t) PROVE CInv'
  <2>1. Types'
    BY <1>5 DEF Types, LockMutex
  <2>2. Loop'
    BY <1>5 DEF Types, Loop, LockMutex
  <2>3. Owner'
    BY <1>5 DEF Types, Loop, Owner, LockMutex
  <2>4. Least'
    BY <1>5 DEF Types, Loop, Least, LockMutex
  <2> QED
    BY <2>1, <2>2, <2>3, <2>4
<1>6. ASSUME NEW t \in Thread, LoadRace(t) PROVE CInv'
  <2>1. Types'
    BY <1>6 DEF Types, LoadRace
  <2>2. Loop'
    BY <1>6 DEF Types, Loop, LoadRace
  <2>3. Owner'
    BY <1>6 DEF Types, Loop, Owner, LoadRace
  <2>4. Least'
    BY <1>6 DEF Types, Loop, Least, LoadRace
  <2> QED
    BY <2>1, <2>2, <2>3, <2>4
<1>7. ASSUME NEW t \in Thread, StoreRace(t) PROVE CInv'
  <2>1. Types'
    <3>1. s32i[t] < IRT_TIME
      BY <1>7 DEF StoreRace, Loop
    <3>2. s32i' \in [Thread -> 0 .. IRT_TIME] /\ race' \in Nat
      BY <1>7, <3>1 DEF StoreRace, Types
    <3>3. pc' \in [Thread -> {"new", "loop", "load", "store", "unlock", "done"}]
      BY <1>7 DEF StoreRace, Types
    <3> QED
      BY <1>7, <3>2, <3>3 DEF StoreRace, Types
  <2>2. Loop'
    BY <1>7 DEF Types, Loop, StoreRace
  <2>3. Owner'
    BY <1>7 DEF Types, Loop, Owner, StoreRace
  <2>4. Least'
    BY <1>7 DEF Types, Loop, Least, StoreRace
  <2> QED
    BY <2>1, <2>2, <2>3, <2>4
<1>8. ASSUME NEW t \in Thread, UnlockMutex(t) PROVE CInv'
  <2>1. Types'
    BY <1>8 DEF Types, UnlockMutex
  <2>2. Loop'
    BY <1>8 DEF Types, Loop, UnlockMutex
  <2>3. Owner'
    BY <1>8 DEF Types, Loop, Owner, UnlockMutex
  <2>4. Least'
    BY <1>8 DEF Types, Loop, Least, UnlockMutex
  <2> QED
    BY <2>1, <2>2, <2>3, <2>4
<1>9. ASSUME NEW t \in Thread, Return(t) PROVE CInv'
  <2>1. Types'
    BY <1>9 DEF Types, Return
  <2>2. Loop'
    BY <1>9 DEF Types, Loop, Return
  <2>3. Owner'
    BY <1>9 DEF Types, Loop, Owner, Return
  <2>4. Least'
    BY <1>9 DEF Types, Loop, Least, Return
  <2> QED
    BY <2>1, <2>2, <2>3, <2>4
<1>10. CASE UNCHANGED vars
  BY <1>10 DEF vars, Types, Loop, Owner, Least
<1> QED
  BY <1>1, <1>2, <1>3, <1>4, <1>5, <1>6, <1>7, <1>8, <1>9, <1>10
     DEF Next, Unloaded, mykthread

LEMMA Invariance == Spec => []CInv
  BY InitInv, StepInv, PTL DEF Spec

(***************************************************************************)
(* In the mutex version the owner of MYMUTEX is the one thread between     *)
(* mutex_lock() and mutex_unlock(), for any number of threads, and no      *)
(* thread does more than IRT_TIME increments.                              *)
(***************************************************************************)
THEOREM TypeOKHolds == Spec => []TypeOK
<1>1. CInv => TypeOK
  BY DEF CInv, Types, Owner, TypeOK
<1> QED
  BY <1>1, Invariance, PTL

-----------------------------------------------------------------------------
(* The increments done, as a set *)

AllIncrements == Thread \X (1 .. IRT_TIME)
Done == {p \in AllIncrements : p[2] \in DoneBy(p[1])}

LEMMA IncrementCount ==
  /\ IsFiniteSet(AllIncrements) /\ Cardinality(AllIncrements) = Total
  /\ IsFiniteSet(Done) /\ Increments \in Nat
  /\ Increments = Total => Done = AllIncrements
<1>1. IsFiniteSet(Thread) /\ Cardinality(Thread) = Threads
  BY FS_Interval, ThreadsAssumption DEF Thread
<1>2. IsFiniteSet(1 .. IRT_TIME) /\ Cardinality(1 .. IRT_TIME) = IRT_TIME
  BY FS_Interval, IrtTimeAssumption
<1>3. IsFiniteSet(AllIncrements) /\ Cardinality(AllIncrements) = Total
  BY <1>1, <1>2, FS_Product DEF AllIncrements, Total
<1>4. Done \in SUBSET AllIncrements /\ Increments = Cardinality(Done)
  BY DEF Done, AllIncrements, Increments
<1> QED
  BY <1>3, <1>4, FS_Subset, FS_CardinalityType

\* One more increment of one thread is one more in all.
LEMMA OneMore ==
  ASSUME Types, NEW t \in Thread, s32i[t] < IRT_TIME,
         s32i' = [s32i EXCEPT ![t] = @ + 1]
  PROVE  Increments' = Increments + 1
<1> DEFINE new == <<t, s32i[t] + 1>>
<1>1. s32i[t] \in 0 .. IRT_TIME /\ s32i[t] + 1 \in 1 .. IRT_TIME
  BY IrtTimeAssumption DEF Types
<1>2. new \in AllIncrements /\ new \notin Done
  BY <1>1, IrtTimeAssumption DEF AllIncrements, Done, DoneBy
<1>3. ASSUME NEW p \in AllIncrements
      PROVE  p[2] \in DoneBy(p[1])' <=> p[2] \in DoneBy(p[1]) \/ p = new
  <2>1. PICK u \in Thread, k \in 1 .. IRT_TIME : p = <<u, k>>
    BY DEF AllIncrements
  <2>2. CASE u = t
    BY <2>1, <2>2, <1>1, IrtTimeAssumption DEF Types, DoneBy
  <2>3. CASE u # t
    BY <2>1, <2>3 DEF Types, DoneBy
  <2> QED
    BY <2>2, <2>3
<1>4. Done' = Done \cup {new}
  BY <1>2, <1>3 DEF Done, AllIncrements
<1>5. Increments = Cardinality(Done) /\ Increments' = Cardinality(Done')
  BY DEF Done, AllIncrements, Increments
<1> QED
  BY <1>2, <1>4, <1>5, IncrementCount, FS_AddElement

\* What a thread has loaded was the counter then, and still is under the mutex.
Loaded ==
  /\ race <= Increments
  /\ \A t \in Thread : reg[t] <= Increments
  /\ program = "mutex" => \A t \in Thread : pc[t] = "store" => reg[t] = race

NInv == Loaded /\ NoneLost

LEMMA CountInit == Init => NInv
<1> SUFFICES ASSUME Init PROVE NInv
  OBVIOUS
<1>1. Done = {}
  BY ThreadsAssumption, IrtTimeAssumption DEF Init, Done, AllIncrements, DoneBy
<1>2. Increments = 0
  BY <1>1, FS_EmptySet DEF Done, AllIncrements, Increments
<1>3. printed # Total
  BY ThreadsAssumption, IrtTimeAssumption DEF Init, Nobody, Total
<1> QED
  BY <1>2, <1>3 DEF Init, NInv, Loaded, NoneLost

\* A step that leaves the increments alone leaves their number alone.
LEMMA SameCount == UNCHANGED s32i => Increments' = Increments
  BY DEF Increments, DoneBy

LEMMA CountStep == CInv /\ NInv /\ [Next]_vars => NInv'
<1> SUFFICES ASSUME CInv, NInv, [Next]_vars PROVE NInv'
  OBVIOUS
<1> USE ThreadFacts, IrtTimeAssumption, IncrementCount, SameCount DEF CInv, NInv, Goto, module
<1>1. CASE WakeThread
  BY <1>1 DEF WakeThread, Types, Loaded, NoneLost
<1>2. CASE PrintRace
  <2>1. Loaded'
    BY <1>2 DEF PrintRace, Loaded
  <2>2. ASSUME program # "race", race = Total PROVE \A t \in Thread : s32i[t] = IRT_TIME
    <3>1. Done = AllIncrements
      BY <2>2 DEF NoneLost
    <3>2. ASSUME NEW t \in Thread PROVE s32i[t] = IRT_TIME
      <4>1. <<t, IRT_TIME>> \in Done
        BY <3>1 DEF AllIncrements
      <4> QED
        BY <4>1 DEF Done, DoneBy, Types
    <3> QED
      BY <3>2
  <2>3. NoneLost'
    BY <1>2, <2>2 DEF PrintRace, NoneLost
  <2> QED
    BY <2>1, <2>3
<1>3. CASE FreeModule
  BY <1>3 DEF FreeModule, Loaded, NoneLost
<1>4. ASSUME NEW t \in Thread, AtomicAdd(t) PROVE NInv'
  <2>1. Increments' = Increments + 1
    BY <1>4, OneMore DEF AtomicAdd
  <2>2. Loaded'
    BY <1>4, <2>1 DEF AtomicAdd, Loaded, Types
  <2>3. NoneLost'
    BY <1>4, <2>1 DEF AtomicAdd, NoneLost
  <2> QED
    BY <2>2, <2>3
<1>5. ASSUME NEW t \in Thread, LockMutex(t) PROVE NInv'
  BY <1>5 DEF LockMutex, Types, Loaded, NoneLost
<1>6. ASSUME NEW t \in Thread, LoadRace(t) PROVE NInv'
  BY <1>6 DEF LoadRace, Types, Loaded, NoneLost
<1>7. ASSUME NEW t \in Thread, StoreRace(t) PROVE NInv'
  <2>1. s32i[t] < IRT_TIME
    BY <1>7 DEF StoreRace, Loop
  <2>2. Increments' = Increments + 1
    BY <1>7, <2>1, OneMore DEF StoreRace
  <2>3. program = "mutex" => reg[t] = race /\ \A u \in Thread \ {t} : pc[u] # "store"
    BY <1>7 DEF StoreRace, Owner, Loaded, Types
  <2>4. Loaded'
    BY <1>7, <2>2, <2>3 DEF StoreRace, Loaded, Types
  <2>5. program # "race" => program = "mutex"
    BY <1>7, ProgramAssumption DEF StoreRace, Loop, Types
  <2>6. program # "race" => race' = Increments'
    BY <1>7, <2>2, <2>3, <2>5 DEF StoreRace, NoneLost
  <2>7. program # "race" => printed # Total
    BY <2>1 DEF NoneLost
  <2>8. NoneLost'
    BY <1>7, <2>6, <2>7 DEF StoreRace, NoneLost
  <2> QED
    BY <2>4, <2>8
<1>8. ASSUME NEW t \in Thread, UnlockMutex(t) PROVE NInv'
  BY <1>8 DEF UnlockMutex, Types, Loaded, NoneLost
<1>9. ASSUME NEW t \in Thread, Return(t) PROVE NInv'
  BY <1>9 DEF Return, Types, Loaded, NoneLost
<1>10. CASE UNCHANGED vars
  BY <1>10 DEF vars, Loaded, NoneLost
<1> QED
  BY <1>1, <1>2, <1>3, <1>4, <1>5, <1>6, <1>7, <1>8, <1>9, <1>10
     DEF Next, Unloaded, mykthread

(***************************************************************************)
(* The versions with the atomic counter and with the mutex lose nothing,   *)
(* for any number of threads and increments, and print the full count only *)
(* after the last increment.                                               *)
(***************************************************************************)
THEOREM NoneLostHolds == Spec => []NoneLost
<1>1. Spec => []NInv
  BY CountInit, CountStep, Invariance, PTL DEF Spec
<1> QED
  BY <1>1, PTL DEF NInv

(***************************************************************************)
(* All that is checked of the counters: the owner of the mutex, no lost    *)
(* increment but in multi_race, and there never more than the increments   *)
(* and in the end at least 2 (or IRT_TIME, for a single thread or single   *)
(* increments); TLC finds runs that end with 2.                            *)
(***************************************************************************)
THEOREM SafetyHolds == Spec => []Safety
<1>1. CInv => RaceAtLeast
  <2> SUFFICES ASSUME CInv, AllDone PROVE race >= LeastRace
    BY DEF RaceAtLeast
  <2>1. \A t \in Thread : s32i[t] = IRT_TIME
    BY DEF CInv, Loop, AllDone
  <2> QED
    BY <2>1, ThreadFacts, IrtTimeAssumption DEF CInv, Types, Least, LeastRace
<1>2. CInv /\ NInv => Safety
  BY <1>1 DEF CInv, NInv, Types, Owner, Loaded, Safety, TypeOK, RaceWithinBounds
<1> QED
  BY <1>2, CountInit, CountStep, Invariance, PTL DEF Spec
=============================================================================
