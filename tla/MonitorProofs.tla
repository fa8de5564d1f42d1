---------------------------- MODULE MonitorProofs ---------------------------
(***************************************************************************)
(* Proofs about the kernel monitor of lab01, both versions, for any number *)
(* of threads and any period of the timer.                                 *)
(***************************************************************************)
EXTENDS Monitor, TLAPS

-----------------------------------------------------------------------------
(* The inductive invariant *)

Types ==
  /\ program \in Program /\ Program \subseteq {"single", "multi"}
  /\ row \in Own /\ cb \in Own
  /\ ipc \in IF program = "single"
             THEN {"run", "runwake", "assign", "loaded", "stop", "join", "unloaded"}
             ELSE {"start", "create", "bind", "wake", "loaded", "stop", "join",
                   "cancel", "unloaded"}
  /\ timer \in {"off", "armed", "firing"}
  /\ fault \in {"none", "null", "freed"}
  /\ early \in BOOLEAN
  /\ gpkthmykth \in [Task -> BOOLEAN]
  /\ pc \in [Task -> {"none", "new", "start", "test", "schedule", "print",
                      "setstate", "cancel", "exited"}]
  /\ state \in [Task -> {"R", "S", "U"}]
  /\ should_stop \in [Task -> BOOLEAN]
  /\ bound \in [Task -> BOOLEAN]
  /\ freed \in [Task -> BOOLEAN]

\* The array index belongs to the block of statements that uses it.
Rows == ipc \notin {"create", "bind", "wake", "stop", "join"} => row = 0

\* Which tasks exist, whose pointers are stored, and which are gone.
Created ==
  \A k \in Task :
    /\ pc[k] # "none" => k \in Own
    /\ gpkthmykth[k] => pc[k] # "none"
    /\ ipc = "create" /\ k < row => gpkthmykth[k]
    /\ ipc \notin {"start", "create", "run", "runwake", "assign"} /\ k \in Own =>
         gpkthmykth[k]
    /\ ipc \in {"runwake", "assign"} /\ k \in Own => pc[k] # "none"

Gone ==
  \A k \in Task :
    /\ freed[k] => pc[k] = "exited"
    /\ freed[k] => IF program = "single" THEN ipc = "unloaded"
                   ELSE ipc \in Unloading \cup {"unloaded"}
    /\ ipc \in {"stop", "join"} /\ k < row => pc[k] = "exited"
    /\ ipc \in {"cancel", "unloaded"} /\ k \in Own => pc[k] = "exited"

\* The timer is off outside the time for which its owner has started it.
Timer ==
  /\ program = "single" /\ timer # "off" =>
       pc[0] \in {"test", "schedule", "print", "setstate", "cancel"}
  /\ program = "multi" => \A k \in Task : pc[k] \notin {"start", "cancel"}
  /\ program = "multi" /\ ipc = "unloaded" => timer = "off"

\* Without an early tick the threads sleep until they are bound.
Late ==
  ~early =>
    /\ fault # "null"
    /\ ipc \in Loading => timer # "firing"
    /\ program = "multi" =>
         \A k \in Task :
           /\ ipc \in {"start", "create", "bind"} =>
                state[k] = "U" /\ pc[k] \in {"none", "new"}
           /\ ipc = "bind" /\ k < row => bound[k]
           /\ ipc \notin {"start", "create", "bind"} => bound[k]

MInv == Types /\ Rows /\ Created /\ Gone /\ Timer /\ FaultsOnlyAtTheEnds /\ Late

-----------------------------------------------------------------------------
(* The steps *)

LEMMA Sizes == /\ Task \subseteq Nat /\ 0 \in Task /\ Own \subseteq Task /\ 0 \in Own
               /\ Last \in Nat /\ Own = 0 .. Last
               /\ program # "single" => Own = Task
  BY TasksAssumption DEF Task, Own, Last

\* The next row of a block, or the first of the next block.
LEMMA Rowing == ASSUME row \in Own
                PROVE  /\ row < Last => row + 1 \in Own
                       /\ \A k \in Own : k < row + 1 <=> k < row \/ k = row
                       /\ row >= Last => \A k \in Own : k < row \/ k = row
  BY Sizes

LEMMA InitInv == Init => MInv
<1> SUFFICES ASSUME Init PROVE MInv
  OBVIOUS
<1> USE Sizes, ProgramAssumption
<1>1. Types
  BY DEF Init, Types
<1> QED
  BY <1>1 DEF Init, MInv, Types, Rows, Created, Gone, Timer,
              FaultsOnlyAtTheEnds, Late, Loading, Unloading

\* One step per action of the loader, the interrupt and the threads.
LEMMA StepInv == MInv /\ [Next]_vars => MInv'
<1> SUFFICES ASSUME MInv, [Next]_vars PROVE MInv'
  OBVIOUS
<1>0. row \in Own /\ (program = "single" \/ program = "multi")
  BY DEF MInv, Types
<1> USE <1>0, Sizes, Rowing DEF MInv, Advance, Goto, Wake, loader, tasks, hrtimer,
   Own, Last,
        Loading, Unloading
<1>1. CASE UNCHANGED vars
  BY <1>1 DEF vars, Types, Rows, Created, Gone, Timer, FaultsOnlyAtTheEnds, Late
<1>2. CASE fault = "none" /\ StartTimer
  <2>1. Types'
    BY <1>2 DEF Types, StartTimer
  <2>2. Rows'
    BY <1>2 DEF Types, Rows, StartTimer
  <2>3. Created'
    BY <1>2 DEF Types, Rows, Created, StartTimer
  <2>4. Gone'
    BY <1>2 DEF Types, Rows, Created, Gone, StartTimer
  <2>5. Timer'
    BY <1>2 DEF Types, Created, Gone, Timer, StartTimer
  <2>6. FaultsOnlyAtTheEnds'
    BY <1>2 DEF Types, Created, Gone, Timer, FaultsOnlyAtTheEnds, StartTimer
  <2>7. Late'
    BY <1>2 DEF Types, Rows, Created, Late, StartTimer
  <2> QED
    BY <2>1, <2>2, <2>3, <2>4, <2>5, <2>6, <2>7 DEF MInv
<1>3. CASE fault = "none" /\ Create
  <2>1. Types'
    BY <1>3 DEF Types, Create
  <2>2. Rows'
    BY <1>3 DEF Types, Rows, Create
  <2>3. Created'
    BY <1>3 DEF Types, Rows, Created, Create
  <2>4. Gone'
    BY <1>3 DEF Types, Rows, Created, Gone, Create
  <2>5. Timer'
    BY <1>3 DEF Types, Created, Gone, Timer, Create
  <2>6. FaultsOnlyAtTheEnds'
    BY <1>3 DEF Types, Created, Gone, Timer, FaultsOnlyAtTheEnds, Create
  <2>7. Late'
    BY <1>3 DEF Types, Rows, Created, Late, Create
  <2> QED
    BY <2>1, <2>2, <2>3, <2>4, <2>5, <2>6, <2>7 DEF MInv
<1>4. CASE fault = "none" /\ Bind
  <2>1. Types'
    BY <1>4 DEF Types, Bind
  <2>2. Rows'
    BY <1>4 DEF Types, Rows, Bind
  <2>3. Created'
    BY <1>4 DEF Types, Rows, Created, Bind
  <2>4. Gone'
    BY <1>4 DEF Types, Rows, Created, Gone, Bind
  <2>5. Timer'
    BY <1>4 DEF Types, Created, Gone, Timer, Bind
  <2>6. FaultsOnlyAtTheEnds'
    BY <1>4 DEF Types, Created, Gone, Timer, FaultsOnlyAtTheEnds, Bind
  <2>7. Late'
    BY <1>4 DEF Types, Rows, Created, Late, Bind
  <2> QED
    BY <2>1, <2>2, <2>3, <2>4, <2>5, <2>6, <2>7 DEF MInv
<1>5. CASE fault = "none" /\ WakeUp
  <2>1. Types'
    BY <1>5 DEF Types, WakeUp
  <2>2. Rows'
    BY <1>5 DEF Types, Rows, WakeUp
  <2>3. Created'
    BY <1>5 DEF Types, Rows, Created, WakeUp
  <2>4. Gone'
    BY <1>5 DEF Types, Rows, Created, Gone, WakeUp
  <2>5. Timer'
    BY <1>5 DEF Types, Created, Gone, Timer, WakeUp
  <2>6. FaultsOnlyAtTheEnds'
    BY <1>5 DEF Types, Created, Gone, Timer, FaultsOnlyAtTheEnds, WakeUp
  <2>7. Late'
    BY <1>5 DEF Types, Rows, Created, Late, WakeUp
  <2> QED
    BY <2>1, <2>2, <2>3, <2>4, <2>5, <2>6, <2>7 DEF MInv
<1>6. CASE fault = "none" /\ SingleInit
  <2>1. Types'
    BY <1>6 DEF Types, SingleInit, KthreadRun
  <2>2. Rows'
    BY <1>6 DEF Types, Rows, SingleInit, KthreadRun
  <2>3. Created'
    BY <1>6 DEF Types, Rows, Created, SingleInit, KthreadRun
  <2>4. Gone'
    BY <1>6 DEF Types, Rows, Created, Gone, SingleInit, KthreadRun
  <2>5. Timer'
    BY <1>6 DEF Types, Created, Gone, Timer, SingleInit, KthreadRun
  <2>6. FaultsOnlyAtTheEnds'
    BY <1>6 DEF Types, Created, Gone, Timer, FaultsOnlyAtTheEnds, SingleInit,
       KthreadRun
  <2>7. Late'
    BY <1>6 DEF Types, Rows, Created, Late, SingleInit, KthreadRun
  <2> QED
    BY <2>1, <2>2, <2>3, <2>4, <2>5, <2>6, <2>7 DEF MInv
<1>7. CASE fault = "none" /\ Unload
  <2>1. Types'
    BY <1>7 DEF Types, Unload
  <2>2. Rows'
    BY <1>7 DEF Types, Rows, Unload
  <2>3. Created'
    BY <1>7 DEF Types, Rows, Created, Unload
  <2>4. Gone'
    <3>1. row = 0 /\ \A k \in Task : ~ k < row
      BY <1>7 DEF Unload, Rows
    <3> QED
      BY <1>7, <3>1 DEF Types, Rows, Created, Gone, Unload
  <2>5. Timer'
    BY <1>7 DEF Types, Created, Gone, Timer, Unload
  <2>6. FaultsOnlyAtTheEnds'
    BY <1>7 DEF Types, Created, Gone, Timer, FaultsOnlyAtTheEnds, Unload
  <2>7. Late'
    BY <1>7 DEF Types, Rows, Created, Late, Unload
  <2> QED
    BY <2>1, <2>2, <2>3, <2>4, <2>5, <2>6, <2>7 DEF MInv
<1>8. CASE fault = "none" /\ StopThread
  <2>1. Types'
    BY <1>8 DEF Types, StopThread
  <2>2. Rows'
    BY <1>8 DEF Types, Rows, StopThread
  <2>3. Created'
    BY <1>8 DEF Types, Rows, Created, StopThread
  <2>4. Gone'
    BY <1>8 DEF Types, Rows, Created, Gone, StopThread
  <2>5. Timer'
    BY <1>8 DEF Types, Created, Gone, Timer, StopThread
  <2>6. FaultsOnlyAtTheEnds'
    BY <1>8 DEF Types, Created, Gone, Timer, FaultsOnlyAtTheEnds, StopThread
  <2>7. Late'
    BY <1>8 DEF Types, Rows, Created, Late, StopThread
  <2> QED
    BY <2>1, <2>2, <2>3, <2>4, <2>5, <2>6, <2>7 DEF MInv
<1>9. CASE fault = "none" /\ JoinThread
  <2>1. Types'
    BY <1>9 DEF Types, JoinThread
  <2>2. Rows'
    BY <1>9 DEF Types, Rows, JoinThread
  <2>3. Created'
    BY <1>9 DEF Types, Rows, Created, JoinThread
  <2>4. Gone'
    BY <1>9 DEF Types, Rows, Created, Gone, JoinThread
  <2>5. Timer'
    BY <1>9 DEF Types, Created, Gone, Timer, JoinThread
  <2>6. FaultsOnlyAtTheEnds'
    BY <1>9 DEF Types, Created, Gone, Timer, FaultsOnlyAtTheEnds, JoinThread
  <2>7. Late'
    BY <1>9 DEF Types, Rows, Created, Late, JoinThread
  <2> QED
    BY <2>1, <2>2, <2>3, <2>4, <2>5, <2>6, <2>7 DEF MInv
<1>10. CASE fault = "none" /\ CancelTimer
  <2>1. Types'
    BY <1>10 DEF Types, CancelTimer
  <2>2. Rows'
    BY <1>10 DEF Types, Rows, CancelTimer
  <2>3. Created'
    BY <1>10 DEF Types, Rows, Created, CancelTimer
  <2>4. Gone'
    BY <1>10 DEF Types, Rows, Created, Gone, CancelTimer
  <2>5. Timer'
    BY <1>10 DEF Types, Created, Gone, Timer, CancelTimer
  <2>6. FaultsOnlyAtTheEnds'
    BY <1>10 DEF Types, Created, Gone, Timer, FaultsOnlyAtTheEnds, CancelTimer
  <2>7. Late'
    BY <1>10 DEF Types, Rows, Created, Late, CancelTimer
  <2> QED
    BY <2>1, <2>2, <2>3, <2>4, <2>5, <2>6, <2>7 DEF MInv
<1>11. CASE fault = "none" /\ Expire
  <2>1. Types'
    BY <1>11 DEF Types, Expire
  <2>2. Rows'
    BY <1>11 DEF Types, Rows, Expire
  <2>3. Created'
    BY <1>11 DEF Types, Rows, Created, Expire
  <2>4. Gone'
    BY <1>11 DEF Types, Rows, Created, Gone, Expire
  <2>5. Timer'
    BY <1>11 DEF Types, Created, Gone, Timer, Expire
  <2>6. FaultsOnlyAtTheEnds'
    BY <1>11 DEF Types, Created, Gone, Timer, FaultsOnlyAtTheEnds, Expire
  <2>7. Late'
    BY <1>11 DEF Types, Rows, Created, Late, Expire
  <2> QED
    BY <2>1, <2>2, <2>3, <2>4, <2>5, <2>6, <2>7 DEF MInv
<1>12. CASE fault = "none" /\ CallbackWake
  <2>1. Types'
    BY <1>12 DEF Types, CallbackWake
  <2>2. Rows'
    BY <1>12 DEF Types, Rows, CallbackWake
  <2>3. Created'
    BY <1>12 DEF Types, Rows, Created, CallbackWake
  <2>4. Gone'
    BY <1>12 DEF Types, Rows, Created, Gone, CallbackWake
  <2>5. Timer'
    BY <1>12 DEF Types, Created, Gone, Timer, CallbackWake
  <2>6. FaultsOnlyAtTheEnds'
    BY <1>12 DEF Types, Created, Gone, Timer, FaultsOnlyAtTheEnds, CallbackWake
  <2>7. Late'
    BY <1>12 DEF Types, Rows, Created, Late, CallbackWake
  <2> QED
    BY <2>1, <2>2, <2>3, <2>4, <2>5, <2>6, <2>7 DEF MInv
<1>13. ASSUME NEW k \in Task, fault = "none", FirstRun(k) PROVE MInv'
  <2>1. Types'
    BY <1>13 DEF Types, FirstRun
  <2>2. Rows'
    BY <1>13 DEF Types, Rows, FirstRun
  <2>3. Created'
    BY <1>13 DEF Types, Rows, Created, FirstRun
  <2>4. Gone'
    BY <1>13 DEF Types, Rows, Created, Gone, FirstRun
  <2>5. Timer'
    BY <1>13 DEF Types, Created, Gone, Timer, FirstRun
  <2>6. FaultsOnlyAtTheEnds'
    BY <1>13 DEF Types, Created, Gone, Timer, FaultsOnlyAtTheEnds, FirstRun
  <2>7. Late'
    BY <1>13 DEF Types, Rows, Created, Late, FirstRun
  <2> QED
    BY <2>1, <2>2, <2>3, <2>4, <2>5, <2>6, <2>7 DEF MInv
<1>14. ASSUME NEW k \in Task, fault = "none", StartOwnTimer(k) PROVE MInv'
  <2>1. Types'
    BY <1>14 DEF Types, StartOwnTimer
  <2>2. Rows'
    BY <1>14 DEF Types, Rows, StartOwnTimer
  <2>3. Created'
    BY <1>14 DEF Types, Rows, Created, StartOwnTimer
  <2>4. Gone'
    BY <1>14 DEF Types, Rows, Created, Gone, StartOwnTimer
  <2>5. Timer'
    BY <1>14 DEF Types, Created, Gone, Timer, StartOwnTimer
  <2>6. FaultsOnlyAtTheEnds'
    BY <1>14 DEF Types, Created, Gone, Timer, FaultsOnlyAtTheEnds, StartOwnTimer
  <2>7. Late'
    BY <1>14 DEF Types, Rows, Created, Late, StartOwnTimer
  <2> QED
    BY <2>1, <2>2, <2>3, <2>4, <2>5, <2>6, <2>7 DEF MInv
<1>15. ASSUME NEW k \in Task, fault = "none", TestStop(k) PROVE MInv'
  <2>1. Types'
    BY <1>15 DEF Types, TestStop
  <2>2. Rows'
    BY <1>15 DEF Types, Rows, TestStop
  <2>3. Created'
    BY <1>15 DEF Types, Rows, Created, TestStop
  <2>4. Gone'
    BY <1>15 DEF Types, Rows, Created, Gone, TestStop
  <2>5. Timer'
    BY <1>15 DEF Types, Created, Gone, Timer, TestStop
  <2>6. FaultsOnlyAtTheEnds'
    BY <1>15 DEF Types, Created, Gone, Timer, FaultsOnlyAtTheEnds, TestStop
  <2>7. Late'
    BY <1>15 DEF Types, Rows, Created, Late, TestStop
  <2> QED
    BY <2>1, <2>2, <2>3, <2>4, <2>5, <2>6, <2>7 DEF MInv
<1>16. ASSUME NEW k \in Task, fault = "none", Schedule(k) PROVE MInv'
  <2>1. Types'
    BY <1>16 DEF Types, Schedule
  <2>2. Rows'
    BY <1>16 DEF Types, Rows, Schedule
  <2>3. Created'
    BY <1>16 DEF Types, Rows, Created, Schedule
  <2>4. Gone'
    BY <1>16 DEF Types, Rows, Created, Gone, Schedule
  <2>5. Timer'
    BY <1>16 DEF Types, Created, Gone, Timer, Schedule
  <2>6. FaultsOnlyAtTheEnds'
    BY <1>16 DEF Types, Created, Gone, Timer, FaultsOnlyAtTheEnds, Schedule
  <2>7. Late'
    BY <1>16 DEF Types, Rows, Created, Late, Schedule
  <2> QED
    BY <2>1, <2>2, <2>3, <2>4, <2>5, <2>6, <2>7 DEF MInv
<1>17. ASSUME NEW k \in Task, fault = "none", PrintSwitches(k) PROVE MInv'
  <2>1. Types'
    BY <1>17 DEF Types, PrintSwitches
  <2>2. Rows'
    BY <1>17 DEF Types, Rows, PrintSwitches
  <2>3. Created'
    BY <1>17 DEF Types, Rows, Created, PrintSwitches
  <2>4. Gone'
    BY <1>17 DEF Types, Rows, Created, Gone, PrintSwitches
  <2>5. Timer'
    BY <1>17 DEF Types, Created, Gone, Timer, PrintSwitches
  <2>6. FaultsOnlyAtTheEnds'
    BY <1>17 DEF Types, Created, Gone, Timer, FaultsOnlyAtTheEnds, PrintSwitches
  <2>7. Late'
    BY <1>17 DEF Types, Rows, Created, Late, PrintSwitches
  <2> QED
    BY <2>1, <2>2, <2>3, <2>4, <2>5, <2>6, <2>7 DEF MInv
<1>18. ASSUME NEW k \in Task, fault = "none", SetState(k) PROVE MInv'
  <2>1. Types'
    BY <1>18 DEF Types, SetState
  <2>2. Rows'
    BY <1>18 DEF Types, Rows, SetState
  <2>3. Created'
    BY <1>18 DEF Types, Rows, Created, SetState
  <2>4. Gone'
    BY <1>18 DEF Types, Rows, Created, Gone, SetState
  <2>5. Timer'
    BY <1>18 DEF Types, Created, Gone, Timer, SetState
  <2>6. FaultsOnlyAtTheEnds'
    BY <1>18 DEF Types, Created, Gone, Timer, FaultsOnlyAtTheEnds, SetState
  <2>7. Late'
    BY <1>18 DEF Types, Rows, Created, Late, SetState
  <2> QED
    BY <2>1, <2>2, <2>3, <2>4, <2>5, <2>6, <2>7 DEF MInv
<1>19. ASSUME NEW k \in Task, fault = "none", CancelOwnTimer(k) PROVE MInv'
  <2>1. Types'
    BY <1>19 DEF Types, CancelOwnTimer
  <2>2. Rows'
    BY <1>19 DEF Types, Rows, CancelOwnTimer
  <2>3. Created'
    BY <1>19 DEF Types, Rows, Created, CancelOwnTimer
  <2>4. Gone'
    BY <1>19 DEF Types, Rows, Created, Gone, CancelOwnTimer
  <2>5. Timer'
    BY <1>19 DEF Types, Created, Gone, Timer, CancelOwnTimer
  <2>6. FaultsOnlyAtTheEnds'
    BY <1>19 DEF Types, Created, Gone, Timer, FaultsOnlyAtTheEnds, CancelOwnTimer
  <2>7. Late'
    BY <1>19 DEF Types, Rows, Created, Late, CancelOwnTimer
  <2> QED
    BY <2>1, <2>2, <2>3, <2>4, <2>5, <2>6, <2>7 DEF MInv
<1> QED
  BY <1>1, <1>2, <1>3, <1>4, <1>5, <1>6, <1>7, <1>8, <1>9, <1>10, <1>11, <1>12,
     <1>13, <1>14, <1>15, <1>16, <1>17, <1>18, <1>19
     DEF Next, Running, HelloInit, HelloExit, mykthread

LEMMA Invariance == Spec => []MInv
  BY InitInv, StepInv, PTL DEF Spec

(***************************************************************************)
(* A loaded monitor does not fault, whatever its period and however many   *)
(* threads it has: a callback meets a null pointer only during             *)
(* hello_init(), and a freed task only during hello_exit() of the version  *)
(* that stops its threads before its timer.                                *)
(***************************************************************************)
THEOREM SafetyHolds == Spec => []Safety
<1>1. MInv => Safety
  BY Sizes DEF MInv, Types, Created, Gone, FaultsOnlyAtTheEnds, Safety, TypeOK,
     Loading, Unloading
<1> QED
  BY <1>1, Invariance, PTL

(***************************************************************************)
(* When the kernel frees the code, the timer is off and every thread has   *)
(* ended, in both versions and wherever hello_exit() met the threads.      *)
(***************************************************************************)
THEOREM NothingLeftBehindHolds == Spec => []NothingLeftBehind
<1>1. MInv => NothingLeftBehind
  BY Sizes DEF MInv, Types, Gone, Timer, NothingLeftBehind
<1> QED
  BY <1>1, Invariance, PTL

(***************************************************************************)
(* Unless the timer expires before hello_init() is done, no thread runs    *)
(* before it is bound to its core and no callback meets a missing task.    *)
(***************************************************************************)
THEOREM BoundUnlessEarlyHolds == Spec => []BoundUnlessEarly
<1>1. MInv => BoundUnlessEarly
  BY DEF MInv, Types, Late, BoundUnlessEarly
<1> QED
  BY <1>1, Invariance, PTL
=============================================================================
