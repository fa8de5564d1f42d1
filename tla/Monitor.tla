------------------------------- MODULE Monitor ------------------------------
(***************************************************************************)
(* lab01: a kernel module whose threads sleep until a periodic hrtimer     *)
(* wakes them, in two versions.  "multi" (multi_thread/main.c) starts the  *)
(* timer and then creates, binds and wakes one thread per core; "single"   *)
(* (single_thread/main.c) has one thread that starts and cancels the timer *)
(* itself.  Loading and unloading, the timer interrupt and the threads     *)
(* interleave at every statement that touches a task or the timer.         *)
(*                                                                         *)
(* The timer may expire whenever it is armed: log_sec and log_nsec are     *)
(* parameters and may be as short as the user likes.  Creating a thread    *)
(* succeeds.  A fault in the interrupt handler stops the machine.          *)
(***************************************************************************)
EXTENDS Integers

CONSTANTS
  Tasks,        \* threads of the multi version: one per core, 4 in the code
  Program       \* the versions to consider

ASSUME TasksAssumption == Tasks \in Nat \ {0}
ASSUME ProgramAssumption == Program \subseteq {"single", "multi"}

VARIABLES
  program,      \* the version that is loaded
  ipc, row,     \* hello_init() and hello_exit(): next statement, array index
  gpkthmykth,   \* the task pointers: is one stored?
  pc,           \* where each thread is in mykthread()
  state,        \* task state: R running, S interruptible, U new
  should_stop,  \* kthread_stop() has been called
  bound,        \* kthread_bind() has succeeded
  freed,        \* the task is gone
  timer, cb,    \* off, armed or firing; the callback's next task
  fault,        \* what stopped the machine
  early         \* history: the timer expired before hello_init() was done

loader == <<ipc, row, gpkthmykth>>
tasks  == <<pc, state, should_stop, bound, freed>>
hrtimer == <<timer, cb>>
vars   == <<program, loader, tasks, hrtimer, fault, early>>

Task == 0 .. Tasks - 1
Own  == IF program = "single" THEN {0} ELSE Task    \* those of this version
Last == IF program = "single" THEN 0 ELSE Tasks - 1

Loading   == {"start", "create", "bind", "wake", "run", "runwake", "assign"}
Unloading == {"stop", "join", "cancel"}

Init ==
  /\ program \in Program
  /\ ipc = (IF program = "single" THEN "run" ELSE "start") /\ row = 0
  /\ gpkthmykth = [k \in Task |-> FALSE]
  /\ pc = [k \in Task |-> "none"]
  /\ state = [k \in Task |-> "U"]
  /\ should_stop = [k \in Task |-> FALSE]
  /\ bound = [k \in Task |-> FALSE]
  /\ freed = [k \in Task |-> FALSE]
  /\ timer = "off" /\ cb = 0
  /\ fault = "none" /\ early = FALSE

\* One more row of a block of statements, then the next block.
Advance(from, to) ==
  /\ ipc = from
  /\ IF row < Last THEN ipc' = from /\ row' = row + 1
                   ELSE ipc' = to /\ row' = 0

Goto(k, from, to) ==
  /\ pc[k] = from
  /\ pc' = [pc EXCEPT ![k] = to]

\* wake_up_process(): no effect on a task that runs or has ended.
Wake(k) == state' = [state EXCEPT ![k] = "R"]

-----------------------------------------------------------------------------
(* hello_init() of the multi version *)

StartTimer ==
  /\ ipc = "start" /\ ipc' = "create"
  /\ timer' = "armed"
  /\ UNCHANGED <<program, row, gpkthmykth, tasks, cb, fault, early>>

\* Mutant: kthread_run() in place of kthread_create().
Create_Runs ==
  /\ Advance("create", "bind")
  /\ gpkthmykth' = [gpkthmykth EXCEPT ![row] = TRUE]
  /\ Goto(row, "none", "new")
  /\ Wake(row)
  /\ UNCHANGED <<program, should_stop, bound, freed, hrtimer, fault, early>>

Create ==
  /\ Advance("create", "bind")
  /\ gpkthmykth' = [gpkthmykth EXCEPT ![row] = TRUE]
  /\ Goto(row, "none", "new")
  /\ UNCHANGED <<program, state, should_stop, bound, freed, hrtimer>>
  /\ UNCHANGED <<fault, early>>

\* kthread_bind() only warns when the thread is no longer new.
Bind ==
  /\ Advance("bind", "wake")
  /\ bound' = [bound EXCEPT ![row] = state[row] = "U"]
  /\ UNCHANGED <<program, gpkthmykth, pc, state, should_stop, freed>>
  /\ UNCHANGED <<hrtimer, fault, early>>

WakeUp ==
  /\ Advance("wake", "loaded")
  /\ Wake(row)
  /\ UNCHANGED <<program, gpkthmykth, pc, should_stop, bound, freed>>
  /\ UNCHANGED <<hrtimer, fault, early>>

-----------------------------------------------------------------------------
(* hello_init() of the single version: kthread_run() creates, wakes, and    *)
(* returns the task, which is then stored.                                  *)

KthreadRun ==
  \/ /\ ipc = "run" /\ ipc' = "runwake"
     /\ Goto(0, "none", "new")
     /\ UNCHANGED <<state, gpkthmykth>>
  \/ /\ ipc = "runwake" /\ ipc' = "assign"
     /\ Wake(0)
     /\ UNCHANGED <<pc, gpkthmykth>>
  \/ /\ ipc = "assign" /\ ipc' = "loaded"
     /\ gpkthmykth' = [gpkthmykth EXCEPT ![0] = TRUE]
     /\ UNCHANGED <<pc, state>>

SingleInit ==
  /\ KthreadRun
  /\ UNCHANGED <<program, row, should_stop, bound, freed, hrtimer, fault, early>>

-----------------------------------------------------------------------------
(* hello_exit() of both versions *)

Unload ==
  /\ ipc = "loaded" /\ ipc' = "stop"
  /\ UNCHANGED <<program, row, gpkthmykth, tasks, hrtimer, fault, early>>

\* kthread_stop(): tells and wakes the thread ...
StopThread ==
  /\ ipc = "stop" /\ ipc' = "join"
  /\ should_stop' = [should_stop EXCEPT ![row] = TRUE]
  /\ Wake(row)
  /\ UNCHANGED <<program, row, gpkthmykth, pc, bound, freed, hrtimer, fault, early>>

\* ... waits until it has ended, and drops the last reference to its task.
JoinThread ==
  /\ ipc = "join"
  /\ pc[row] = "exited"
  /\ IF row < Last THEN ipc' = "stop" /\ row' = row + 1
     ELSE /\ ipc' = IF program = "single" THEN "unloaded" ELSE "cancel"
          /\ row' = 0
  /\ freed' = [freed EXCEPT ![row] = TRUE]
  /\ UNCHANGED <<program, gpkthmykth, pc, state, should_stop, bound>>
  /\ UNCHANGED <<hrtimer, fault, early>>

\* Mutant: the multi version leaves its timer running.
CancelTimer_Forgotten ==
  /\ ipc = "cancel" /\ ipc' = "unloaded"
  /\ UNCHANGED <<program, row, gpkthmykth, tasks, hrtimer, fault, early>>

\* hrtimer_cancel() waits for a running callback.
CancelTimer ==
  /\ ipc = "cancel" /\ ipc' = "unloaded"
  /\ timer # "firing"
  /\ timer' = "off"
  /\ UNCHANGED <<program, row, gpkthmykth, tasks, cb, fault, early>>

HelloInit == StartTimer \/ Create \/ Bind \/ WakeUp \/ SingleInit
HelloExit == StopThread \/ JoinThread \/ CancelTimer

-----------------------------------------------------------------------------
(* mycallback() *)

\* The interrupt; hrtimer_forward() sets the next expiry.
Expire ==
  /\ timer = "armed" /\ timer' = "firing"
  /\ cb' = 0
  /\ early' = (early \/ ipc \in Loading)
  /\ UNCHANGED <<program, loader, tasks, fault>>

\* Mutant: only the first thread is woken.
CallbackWake_FirstOnly ==
  /\ timer = "firing"
  /\ gpkthmykth[0] /\ ~freed[0]
  /\ Wake(0)
  /\ timer' = "armed"
  /\ UNCHANGED <<program, loader, pc, should_stop, bound, freed, cb, fault, early>>

\* wake_up_process() of the next task: one that is not there yet is a null
\* pointer, one that is gone may still look like a task or may not.
CallbackWake ==
  /\ timer = "firing"
  /\ \/ /\ ~gpkthmykth[cb]
        /\ fault' = "null"
        /\ UNCHANGED state
     \/ /\ gpkthmykth[cb] /\ freed[cb]
        /\ fault' \in {"none", "freed"}
        /\ UNCHANGED state
     \/ /\ gpkthmykth[cb] /\ ~freed[cb]
        /\ Wake(cb)
        /\ UNCHANGED fault
  /\ IF cb < Last THEN cb' = cb + 1 /\ UNCHANGED timer
                  ELSE cb' = 0 /\ timer' = "armed"
  /\ UNCHANGED <<program, loader, pc, should_stop, bound, freed, early>>

-----------------------------------------------------------------------------
(* mykthread() *)

\* A thread that was stopped before it ever ran does not run at all.
FirstRun(k) ==
  /\ state[k] = "R"
  /\ Goto(k, "new", IF should_stop[k] THEN "exited"
                    ELSE IF program = "single" THEN "start" ELSE "test")
  /\ UNCHANGED <<program, loader, state, should_stop, bound, freed>>
  /\ UNCHANGED <<hrtimer, fault, early>>

\* The single version's thread starts the timer.
StartOwnTimer(k) ==
  /\ Goto(k, "start", "test")
  /\ timer' = "armed"
  /\ UNCHANGED <<program, loader, state, should_stop, bound, freed, cb, fault, early>>

\* Mutant: an endless loop in place of kthread_should_stop().
TestStop_Forgotten(k) ==
  /\ Goto(k, "test", "schedule")
  /\ UNCHANGED <<program, loader, state, should_stop, bound, freed>>
  /\ UNCHANGED <<hrtimer, fault, early>>

TestStop(k) ==
  /\ Goto(k, "test", IF ~should_stop[k] THEN "schedule"
                     ELSE IF program = "single" THEN "cancel" ELSE "exited")
  /\ UNCHANGED <<program, loader, state, should_stop, bound, freed>>
  /\ UNCHANGED <<hrtimer, fault, early>>

\* schedule() comes back at once unless the thread has changed its state and
\* nobody has woken it since.
Schedule(k) ==
  /\ state[k] = "R"
  /\ Goto(k, "schedule", "print")
  /\ UNCHANGED <<program, loader, state, should_stop, bound, freed>>
  /\ UNCHANGED <<hrtimer, fault, early>>

PrintSwitches(k) ==
  /\ Goto(k, "print", "setstate")
  /\ UNCHANGED <<program, loader, state, should_stop, bound, freed>>
  /\ UNCHANGED <<hrtimer, fault, early>>

\* set_current_state(TASK_INTERRUPTIBLE), before the test of the loop.
SetState(k) ==
  /\ Goto(k, "setstate", "test")
  /\ state' = [state EXCEPT ![k] = "S"]
  /\ UNCHANGED <<program, loader, should_stop, bound, freed, hrtimer, fault, early>>

\* Mutant: the single version's thread leaves the timer running.
CancelOwnTimer_Forgotten(k) ==
  /\ Goto(k, "cancel", "exited")
  /\ UNCHANGED <<program, loader, state, should_stop, bound, freed>>
  /\ UNCHANGED <<hrtimer, fault, early>>

CancelOwnTimer(k) ==
  /\ Goto(k, "cancel", "exited")
  /\ timer # "firing"
  /\ timer' = "off"
  /\ UNCHANGED <<program, loader, state, should_stop, bound, freed, cb, fault, early>>

mykthread(k) ==
  \/ FirstRun(k) \/ StartOwnTimer(k) \/ TestStop(k) \/ Schedule(k)
  \/ PrintSwitches(k) \/ SetState(k) \/ CancelOwnTimer(k)

-----------------------------------------------------------------------------
Running == HelloInit \/ HelloExit \/ Unload \/ Expire \/ CallbackWake
           \/ \E k \in Task : mykthread(k)

\* After the unload, or after a fault.
Ended == ipc = "unloaded" \/ fault # "none"

Next ==
  \/ fault = "none" /\ Running
  \/ Ended /\ UNCHANGED vars

Spec == Init /\ [][Next]_vars

\* Loader, threads and interrupt handlers go on, and hrtimer_cancel(), which
\* tries again and again, once meets a timer whose callback is not running.
\* Neither the user who unloads the module nor the timer is promised to come.
FairSpec ==
  /\ Spec
  /\ WF_vars(fault = "none" /\ (HelloInit \/ HelloExit))
  /\ WF_vars(fault = "none" /\ CallbackWake)
  /\ SF_vars(fault = "none" /\ CancelTimer)
  /\ \A k \in Task :
       /\ WF_vars(fault = "none" /\ mykthread(k))
       /\ SF_vars(fault = "none" /\ CancelOwnTimer(k))

-----------------------------------------------------------------------------
(* Properties *)

\* The type invariant.  A task is freed only after its thread has ended.
TypeOK ==
  /\ program \in Program
  /\ ipc \in Loading \cup Unloading \cup {"loaded", "unloaded"}
  /\ row \in Own /\ cb \in Own
  /\ timer \in {"off", "armed", "firing"}
  /\ fault \in {"none", "null", "freed"}
  /\ \A k \in Task :
       /\ state[k] \in {"R", "S", "U"}
       /\ gpkthmykth[k] => pc[k] # "none"
       /\ freed[k] => pc[k] = "exited"
       /\ pc[k] # "none" => k \in Own

(***************************************************************************)
(* When the machine can fault: on a null pointer only while hello_init()   *)
(* still runs, on a freed task only in hello_exit() of the multi version,  *)
(* which stops the threads (lines 88-91) before the timer (line 94).  The  *)
(* single version, whose thread cancels the timer, unloads without fault,  *)
(* and a loaded module of either version is safe whatever the period.      *)
(***************************************************************************)
FaultsOnlyAtTheEnds ==
  /\ fault = "null" => ipc \in Loading
  /\ fault = "freed" => program = "multi" /\ ipc \in Unloading

\* The two together, the states a loaded or unloading module can be in.
Safety == TypeOK /\ FaultsOnlyAtTheEnds

(***************************************************************************)
(* Nothing of the module is in use once its code is gone: the timer that   *)
(* lives in its data is off and its threads have ended, also when a thread *)
(* was stopped before it first ran.                                        *)
(***************************************************************************)
NothingLeftBehind ==
  ipc = "unloaded" => timer = "off" /\ \A k \in Own : pc[k] = "exited"

(***************************************************************************)
(* Unless the timer expires while the module is being loaded (a period     *)
(* shorter than hello_init(), or a slow one), no callback meets a missing  *)
(* task, and every thread of the multi version enters its loop bound to    *)
(* its core (Lab01: "one pinned to each core in the system").              *)
(***************************************************************************)
BoundUnlessEarly ==
  ~early => /\ fault # "null"
            /\ program = "multi" =>
                 \A k \in Task : pc[k] \notin {"none", "new"} => bound[k]

(***************************************************************************)
(* An unload that has begun ends, with or without further ticks: no thread *)
(* sleeps through kthread_stop() between lines 40 and 47, and hrtimer_     *)
(* cancel() does not wait for ever.                                        *)
(***************************************************************************)
UnloadEnds == (ipc = "stop") ~> Ended

(***************************************************************************)
(* While the module stays loaded and the timer keeps ticking, every thread *)
(* prints again and again: a wake-up that arrives between the print and    *)
(* set_current_state() (lines 43-47) is lost, but not the next ones.       *)
(***************************************************************************)
KeepsMonitoring ==
  ([]<>(timer = "firing") /\ <>[](ipc = "loaded")) =>
    \A k \in Task : []<>(pc[k] = "print" \/ k \notin Own)
=============================================================================
