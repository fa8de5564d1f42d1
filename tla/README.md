# Specifications of the CSE522S studios and labs

TLA+ models, model-checking configurations and proofs for the programs of this
repository: studios and labs of an operating systems course, written in C for Linux
on a Raspberry Pi 3 (four ARM cores). Paths below are relative to the repository (`src/`).

## 1. Inventory

The repository is a set of small programs that share nothing but their style. The ones
with logic of their own are concurrent: threads, processes, interrupt callbacks or signal
handlers around a few shared words.

| Part | State it keeps | Operations | Interaction | What is hard | What makes it correct |
|---|---|---|---|---|---|
| studio11/spinlock.c | the lock word, a local copy of the expected value | `lock`, `unlock` | OpenMP threads on one word | weak compare-exchange, overwritten expected value, `exit()` of one thread for all | exclusion; the word says who holds it; the team finishes |
| studio11/sleeplock.c | the lock word | `lock`, `unlock` | threads, futex queue of the kernel | a decrement and a store that do not belong together, sleep and wake | exclusion; sleepers are woken |
| lab02 `barrier_wait` | `gs32bar`, `gs32passed`, a local copy | `barrier_wait` | threads on two words | the order of reset and increment; reuse (which the program, with one use, does not need) | nobody leaves before all arrived; everybody leaves |
| lab02 `main`, `work_fxn` | thread table, barrier, cabin index and its lock | create, wait, take a number, work, join | main and worker threads, Linux scheduler | spinning under SCHED_FIFO/RR, creation that fails half way, spurious wake-ups | no work before all threads exist; numbers in turn; the program ends |
| lab02 parsing.c, profiling.c, first half of `main` | the configuration `gstrArg`, the threads created | parse arguments and exp.cfg, set attributes, create, fail | fills what the profiler runs with | unchecked `fscanf`, an int product, a short exp.cfg | threads run with a sound configuration; a run that succeeds has made every thread |
| studio15/share_mem | named object with three guards and an array | leader: create, copy in, wait, unlink; follower: open, copy out, unlink | two processes, shared memory | notifications that are reset by the one who waits, kills, stale objects | the copy is whole; both end |
| lab01 single/multi thread | hrtimer, task pointers | load, timer callback, thread loop, unload | timer interrupt, kernel threads, module loader | timer before threads, stop before cancel | no callback on a missing or freed task |
| studio10 race/atomic/mutex | one counter, four tasks | load, count, unload | four kernel threads | lost updates, unload while running | the count at the end |
| GPIO_Prj/led_toggle_module | timer, period, pin level | load, toggle, set period, unload | timer interrupt, sysfs, registers shared with the program below | handler re-arms itself while it is deleted | no handler after unload |
| GPIO_Prj/led_toggle_user | registers of the pin | map, set and read back levels, unmap | the same registers, without a lock | two read-modify-writes of one word | the pin has the function its user has set |
| studio07 kobj, family_reader | three integers; a pid | show, store | sysfs readers and writers, exiting processes | stores before validation, shared pid, walk without references | a rejected write changes nothing; ancestors only |
| studio07 fork, tree; studio09 busyloop_rtfork | loop counter, unwritten output | fork, exec, exit | processes, copies of memory | children that stay in the loop, output written twice | the number and shape of the processes |
| studio08/12 period_task.c | job index, records | timer signal, work, report | POSIX timer, signals, SCHED_FIFO | coalesced signals, array bound, int overflow | jobs in order; an honest count of misses |
| studio12 signal programs | loop index, marks, count | handler, loop, report | signals | index past the end, a signal between any two statements | what was interrupted is reported |
| studio13 pipe and FIFO | byte stream | open, read, write, close | processes, kills | end of file, several writers, junk | what was written is printed; the reader ends |
| studio14 sockets | receive buffer, backlog | accept, read, print; connect, write | client and server processes, kills | buffer reuse and growth, stale names, resets | what is printed is what was sent |
| studio03/04 sort | array | partition, recurse | none | inclusive bound, unsigned temporary | sorted, with its own numbers |
| studio03 parallel_dense_mm2.c | C, the stamps, the records | multiply, stamp, record, verify, report | OpenMP threads on one C | shared stamps, lost additions, unsigned square | the verdict and the times mean something |
| studio02/05, workload.c, other loops of studio03/04/09 | none | print, call, loop | none | - | - |

`PROJECT.json` lists these parts with what is modelled of each, and the hazards with the
line where each one bites.

## 2. Modules

| Module | Models | Composes or refines |
|---|---|---|
| `Mutex` | abstract: threads outside, inside, gone; at most one inside | |
| `SpinLock` | studio11/spinlock.c | refines `Mutex` |
| `SleepLock` | studio11/sleeplock.c | refines `Mutex` |
| `Barrier` | abstract: a barrier used again and again | |
| `SpinBarrier` | `barrier_wait()` of lab02 | refines `Barrier` |
| `Profiler`, `MCProfiler` | `main()` and `work_fxn()` of lab02 under the Linux scheduler | INSTANCE of `SpinBarrier` |
| `ShmTransfer` | studio15/share_mem leader and follower | |
| `Monitor` | lab01, both versions of the kernel monitor | |
| `Counters` | studio10, the three versions of the counting module | |
| `PeriodicTask` | studio08/period_task.c (studio12 has a copy) | |
| `Sigint` | print5000.c, print5000_2.c, dense_mm_sig.c of studio12 | |
| `LedModule` | GPIO_Prj: the kernel module and the program, on one set of registers | |
| `Sysfs` | studio07: kobj and family_reader | |
| `Pipes` | studio13: pipe, FIFO, FIFO_wr | |
| `Sockets` | studio14: servers and clients of AF_Local and AF_INET | |
| `Sort` | sort.c of studio03 (studio04 has a copy) | |
| `ParallelMM` | parallel_dense_mm2.c of studio03 | |
| `ProfilerInput` | parsing.c, profiling.c and `main()` of lab02 up to the running threads | hands over to `Profiler` |
| `Forks` | fork.c and tree.c of studio07, busyloop_rtfork.c of studio09 | |
| `Programs`, `MCPrograms` | the ten modules above, one running in each behaviour | EXTENDS `PeriodicTask`, INSTANCEs of the others |
| `SpinLockProofs`, `SleepLockProofs`, `SpinBarrierProofs`, `ProfilerProofs`, `ShmTransferProofs`, `MonitorProofs`, `CountersProofs`, `ProgramsProofs` | theorems | EXTEND the modules they are about |

The ten programs of the second half share no state, so `Programs` chooses one per behaviour
and leaves the variables of the others alone. Its behaviours are those of ten specifications; that
they are checked together only saves configurations. `Programs` also has the assumptions on the
constants of the ten, `MCPrograms` the values that TLC needs. `Profiler` is the
other composition: there the components do interact.

### Correspondence with the code

Every atomic builtin, every access to a shared `volatile` and every system call is an
action of its own; purely local statements are part of the action before or after them.
Program counters (`pc`, `bpc`, `lpc`, `fpc`, `mpc`) name the next statement. Definitions
whose name ends in `_Something` and whose comment starts with "Mutant" are deliberate
errors, kept to show that the properties notice them; no specification uses them.

* **SpinLock.** `LockCasSucceeds`/`LockCasFails`/`ResetExpected` are lines 29-35,
  `UnlockCasSucceeds`/`UnlockCasFails`/`ErrorExit` lines 46-51. A failing exchange stores the
  word into the thread's `s32unlock`, as the builtin does. `WeakMayFail` says whether the weak
  exchange may fail although the values agree, as load/store exclusive pairs on ARM can.
  `exit(-1)` ends all threads where they are.
* **SleepLock.** `SubFetchLocks`/`SubFetchFails` (line 33), `StoreMinusOne` (36), `FutexWait`
  (37: sleeps only if the word is -1, else retries), `SpuriousWake`, `AddFetchReleases`/
  `AddFetchContended` (56-57), `StoreOne` (62), `FutexWake` (63: wakes all).
* **SpinBarrier.** `ReadPassed` (45), `Arrive` (47), `OpenBarrier` (50 and 53, two steps),
  `SpinEnds` (58). `gs32passed` counts modulo `Modulus`, which is 2^32 in the program.
  `calls` and `opened` are history for the properties.
* **Profiler.** `Create`, `CreateFails`, `StartJoining`, `JoinAndCleanUp` are `main()`. The
  barrier is one of three: `SpinBarrierStep` runs `SpinBarrier`'s actions,
  `PthreadBarrierWait` the library's barrier, `SleepBarrier...` the mutex and condition
  variable of lines 176-189 with signal, re-lock and re-test apart. `LockCabin` to `Cube` are
  the rounds of lines 197-223; a contended mutex takes the caller off the run queue, a
  spin lock does not. `Config` holds what the Makefile, the command line and exp.cfg
  choose. The scheduler is external and is `CanRun`: on each core a runnable thread steps
  only if no runnable thread of higher priority is there and, under SCHED_FIFO, none of
  equal priority before it in the queue. SCHED_OTHER lets every runnable thread step.
* **ShmTransfer.** One action per statement that touches the object or its name. The object
  has a number and a name may refer to it or not, so that unlinking, an object left by a
  killed run, and an object that is mapped but not named are different states. `memcpy` and
  the follower's copy are two steps each, so that a torn copy would be seen. `Kill` may
  strike between any two statements; `lost` records the notifications that were
  overwritten.
* **Monitor.** `program` says which version is loaded. `StartTimer`, `Create`, `Bind`, `WakeUp` are
  `hello_init()` of multi_thread/main.c, one row of each block at a time; `KthreadRun` is that of
  single_thread/main.c, with the creation, the wake-up and the store of the pointer apart.
  `StopThread`/`JoinThread` are the two halves of `kthread_stop()`. `Expire` and `CallbackWake` are
  the interrupt, one `wake_up_process()` per step. A task has a state (`R`, `S` after
  `set_current_state(TASK_INTERRUPTIBLE)`, `U` when new) and may be `freed`; a callback that
  meets a null pointer faults, one that meets a freed task faults or goes unnoticed.
* **Counters.** `program` says which version is loaded. `LoadRace` and `StoreRace` are the two
  halves of `race++`, `AtomicAdd` the one step of the atomic version. `PrintRace` is
  `hello_exit()`; `FreeModule` then takes the code away, and a thread that is still in it faults.
* **PeriodicTask.** `Start` to `TimerSettime` are `main()` of lines 149-263, with the
  reading of the clock for the timer (235) and for `start_time` (245) apart, since they differ
  when somebody takes the processor in between. `EnterWork`, `FinishWork` and `PrintRes` are
  `work()` and `print_res()`. `Elapse` is one millisecond: it lets the timer expire and merges the
  signal with one that is pending. `count`, `step` and `misses` keep the widths of the code: a
  long long put into an int, an int product and an unsigned sum. The deadline of a release is the
  next release of the timer, `first` + (*k*+1)·period (`LateBy`); `print_res()` has no such clock and
  takes `start_time` instead.
* **Sigint.** The handler is one step, as its signal is blocked, and may come between any two
  steps of `main()`: after `i` has become `size` as well (`PrintLine`, `LeaveLoop`), and between the
  test of a mark and the increment (`TestMark`, `Increment`). `dense_mm_sig.c` may end when
  `sigaction()` fails (`SigactionFails`) or at its command line (`ReadArguments`). `hits` is history.
* **LedModule.** `set_gpio_mode()` is `ClearMode`, `LoadMode`, `StoreMode`: `&=` always leaves the
  field cleared and needs one step, `|=` is a load and a store, and the other party may come
  between. The module is `InitPin` to `FreeModule`; the handler is `Expire`, `Toggle`, `Rearm`,
  on any core and also while `DelTimer` is called, which does not wait for it. The program is `Map`,
  `SetLevel`, `ReadLevel`, `Unmap`.
* **Sysfs.** `foo_store` and `b_store` are one step each: they touch one word. `fam_reader_store` is
  `Convert` (47-48), `FindPid` (52), `Walk` and `EndWalk` (58-76), because writers share the pid
  and processes exit between these (`ProcessExits`, external). The directory has one name for both modules:
  `Load` of the second fails.
* **Pipes.** The three readers share `CopyItem` and `EndOfFile`; `rd` and `own` are the ends
  the reader holds, `writer` says who holds a write end. The kernel's rules (end of file, broken
  pipe, opening waits for the other end) are in the guards. `WriteJunk` is a program that is not
  in the repository.
* **Sockets.** `pcBuf` has the length the code has given it; `ReadChar` stores and then grows,
  as the loop does, `PrintText` shows the buffer up to its first NUL, `WriteText` sends one
  character more than it should. `EndServer` is what the kernel does with connections
  and backlog of a process that ends; until then a client may connect, also when the server has left
  its loop. `met` is history: the server, by the number of its start, that a client connected to.
* **Sort.** One step of `quicksort` is one call, taken from a stack of slices in place of the
  recursion; the loop of `partition` is a recursive function over the slice (`Walk`), `swap` keeps the truncation of its
  unsigned temporary. The pivot is any that `rand()` can give. `Generate` starts with a size that
  has been read: the test of `argc` and a `malloc()` that fails are left out.
* **ParallelMM.** One cell stands for all. `LoadCell` and `StoreCell` are the two halves of `+=`,
  `StampBefore`, `StampAfter` and `Record` the lines around them; `First` is OpenMP's static
  schedule. `Elapsed` has the factor of the code. The size whose square is 0 has no elements: the loops of
  the threads, and that of the verification, then use memory outside of the matrices (`Outside`).
* **ProfilerInput.** `parsing_input` stops at the first error in the order of the code,
  `parsing_cfgfile` replaces as many numbers as the file has, `s32threadcnt` is an int product,
  `CreateThread` tests array bound, pinning, policy, priority and creation in the order of `main()`.
  An error is its number; the texts are left out.
* **Forks.** A process has its loop counter, its children and whether it holds unwritten
  output; `Fork` copies them, `Exec` starts anew, `Exit` writes what is held.

## 3. Runs

| Run | Instance | Shows |
|---|---|---|
| `spinlock_ok` | 4 threads, weak exchange | inductive invariant (exclusion, meaning of the word, expected value), refinement of `Mutex`, the word at exit, the program ends |
| `spinlock_unlock` | 3 threads | **violation**: a holder of the lock reaches the error exit of `unlock()` |
| `sleeplock_ok` | 4 threads | inductive invariant, refinement of `Mutex`, a lost lock stays lost, only the store of -1 loses it, otherwise all finish |
| `sleeplock_wakeup` | 2 threads | **violation**: a sleeper nobody wakes |
| `barrier_ok` | 3 threads, 3 uses, counter modulo 2 | inductive invariant, refinement of `Barrier`, all uses end |
| `profiler_ok` | 2 cores x 2 threads, 3 numbers, 37 configurations, 1 spurious wake-up | no work before all arrived, numbers in turn, safe configurations end, doomed ones never work |
| `profiler_rr` | shipped priorities, SCHED_RR | **violation**: the spin barrier hangs |
| `shm_ok` | 3 leader runs, 3 follower runs, 2 kills | copies are whole, the leader waits for the copy, the ways to hang are the listed ones |
| `shm_lost` | 1 run each, no kill | **violation**: both wait for ever |
| `monitor_ok` | 3 threads (multi), 1 thread (single) | faults only while loading or, in the multi version, unloading; nothing survives the unload; threads are bound unless the timer was early; unload ends; the monitor goes on |
| `counters_ok` | 3 threads, 3 increments | nothing is lost in the atomic and the mutex version; the racy one ends with 2 to 9; threads finish |
| `programs_ok` | ten programs, one per behaviour (699 645 states) | one folded property per program, below |

`Safety` of `Profiler`, `ShmTransfer`, `Monitor`, `Counters` and `PeriodicTask` is the conjunction of the
type invariant and the safety invariants that the module names. `programs_ok` checks:

* `Safety`, `HonestReport` (`PeriodicTask`): jobs are in order and apart, none ahead of its release;
  records fit if the duration is at most `MAX` periods. The report's deadlines are later than the timer's by
  what the others took between lines 235 and 245 (the skew). As long as that is less than a job, the
  misses printed are at least the releases that were late, or lost, by more than the skew, and exactly
  these if no signal was coalesced and no deadline leaves the range of ticks; without skew they
  are at least all the releases missed. A miss by no more than the skew may be hidden. For a
  period whose ticks are no int, every job is a miss until the deadlines fall below zero.
* `SignalsTold` (`Sigint`): what was interrupted is reported, nothing else; the int behind the
  array is written exactly when a signal came at `i = size`.
* `NoStrayTimer`, `PinMode` (`LedModule`): the timer survives only if its handler ran during
  `del_timer()`; the function of the pin is lost only if module and program set theirs at once (once
  they have, nothing is promised any more).
* `FilesAreSound` (`Sysfs`): only a rejected write to `foo` puts a number there that nobody wrote;
  the walk faults only after an exit and starts at another pid only after another writer.
* `AllIsPrinted`, `ReaderEnds` (`Pipes`): all that was written is printed, but for writers that
  came after the end of file; numbers repeat only after junk; a reader that reads ends.
* `ConnectionsTold` (`Sockets`): every text is printed whole, a killed client makes the previous
  text appear again; a client that ends with nothing had the very server it connected to stopped,
  a later start is no excuse.
* `SortsOneMore` (`Sort`): sorted, together with the double behind the array; the array keeps its
  numbers exactly if none is greater than that one.
* `RunIsMeasured` (`ParallelMM`): the verification passes several multiplications only if they
  have lost additions, and aborts no single one (but it aborts for a count of 0, as the proof
  brought out); records are right, but for the factor, if iterations did not overlap; memory
  outside is used only at the size whose square wraps.
* `InputIsSound` (`ProfilerInput`): threads get what `Profiler` assumes; a short exp.cfg ends a
  real-time run with an error; the arrays are left only if the number of threads is no int.
* `ForksAreSound` (`Forks`): the tree is full but for failures, loops of children end, and output is
  repeated for each process exactly if it is no terminal.

The four violations are real behaviours of the programs, each against a line of the
course text or of a readme that `PROJECT.json` quotes under "findings":

* the error branch of `unlock()` is reachable by the rightful owner (weak exchange);
* the sleep lock loses a release when the store of -1 comes late: exclusion is safe, progress
  is not, and the loss is permanent;
* "SCHED_RR goes well" is true only with equal priorities, while exp.cfg ships 2 and 1;
* leader and follower each reset a flag after having allowed the other to set it.

Further disagreements that the passing runs state in the positive, as properties that say exactly when
something goes wrong:

* studio11/spinlock.c:50 ends the process where the course text asks for a return;
* lab02/src/main.c:175 tests a macro that the readme spells differently;
* studio08/period_task.c:74: the report counts every job after a coalesced signal as a miss;
* studio08/period_task.c:245: the report measures from a clock read later than the one the timer is set
  by, and hides misses by no more than the difference;
* studio03/parallel_dense_mm2.c:96 counts ten seconds for one;
* studio14/AF_INET/src/client.c:55 takes an error of `read()` for a character;
* studio03/test_programs/sort.c:107 sorts one element more than there is;
* studio07/kobj/main.c:48 stores before it has tested.

### Bounds

* Four threads for the locks: one per core of the machine. The proofs remove the bound.
* Three threads and three uses for the barrier, with a counter of only two values: a thread can
  still be leaving use *n* when the others arrive in *n+1*, and the counter wraps. lab02 uses its
  barrier once and its counter never wraps: that `barrier_wait()` could be used again is a
  property of the function, not a hazard of the program. The proofs remove all three bounds.
* Two cores with two threads each is the smallest instance with both neighbours on one core
  and threads on another one; rows of threads get both priorities. Three numbers for four
  threads make the index wrap. `MaxSpurious` = 1 suffices to enter the loop at line 184 again.
  Priorities are equal, falling and rising: the code and the scheduler only compare them.
  One round is used for the whole product of configurations, two for the shipped priorities.
* Leader and follower run three times each with up to two kills: a run that is killed, one that
  inherits its object, and one after that.
* Three threads of the multi version: one before, at and after the array index of any loop.
  Ticks are not counted, so they need no bound.
* Three counting threads with three increments: one thread's first load, another's complete loop
  and the last increment of a third are what the smallest result, 2, takes. TLC finds 2.
* `PeriodicTask`: `MAX` = 3 records, 1 to 5 jobs for durations 1 and 9 with periods 2, 3 and 5, so that the
  array overflows, fits exactly and has room. `COUNT_LIMIT` = 8 is passed by the nine jobs of period 1,
  whose number, as an int, is negative. `MaxStolen` = 4 ms, more than `SECOND` = 2, covers a timer
  that is set too late, a late start, and lost releases. `INT_LIMIT` = 4 makes the period 5 overflow, `Uptime` = 9 keeps the
  sum positive, 0 makes it wrap.
* `Sigint`: a loop of 3, 3 signals: one in each loop and one at the end of the first.
* `LedModule`: 2 rounds of the program (first and last differ), periods 0 (rejected), 10 (the
  limit) and 2000. The module is loaded once.
* `Sysfs`: two writers, two calls, four processes; numbers 2 and 4, the pids of a process whose
  parent is the swapper and of a grandchild of init.
* `Pipes`: two writers with two items, a channel of two: full, empty, and one still open.
* `Sockets`: two clients, two starts of the server, buffers of 2: the texts with their NUL and
  the byte after it are 2, 3, 4 and 5 long: the buffer grows once or twice, and a text may end
  where the buffer does.
  `CONNECT_RETRY` = 2.
* `Sort`: up to 3 elements of 3 values, strays below, between and above, each with a fraction:
  a pivot, equal numbers on both sides, and empty slices all occur.
* `ParallelMM`: 2 threads, 0 to 3 multiplications (one thread has two), 2 products per cell,
  sizes at and above the limit, seconds of 3 ticks.
* `ProfilerInput`: 2 processors, `IntLimit` = 8: four rows are the first whose product is no
  int; counts from -1, all lengths of exp.cfg from 0 to 3.
* `Forks`: trees of 0 to 2 levels (7 processes), 0 to 4 busy loops.

### Fairness

* Locks and barrier: weak fairness of each thread (one thread per core, Linux runs them
  all). `SpinLock` adds strong fairness of `LockCasSucceeds`: an exchange that keeps finding
  the word unlocked succeeds at last, since an exclusive store does not fail spuriously for ever.
  Every thread locks once, so this hides no starvation by others. `SpuriousWake` gets no
  fairness of its own: nothing promises a sleeper a wake-up by nobody.
* `Profiler`: weak fairness of each thread's enabled step, where `CanRun` is part of the
  guard: a thread the scheduler never allows is never promised anything. `main()` is an
  ordinary thread; it gets processor time next to spinning real-time threads through the
  kernel's real-time throttling. Released sleepers become runnable.
* `ShmTransfer`: weak fairness of leader and follower once started; nobody has to be started
  or killed.
* `Counters`: weak fairness of the threads, strong fairness of taking the mutex, which Linux
  hands over in order; nobody has to unload the module.
* `Monitor`: weak fairness of loader, threads and callback, strong fairness of
  `hrtimer_cancel()`, which retries until the callback is not running. The timer is not
  promised to expire, nor the user to unload: `UnloadEnds` does not rely on a tick, and
  `KeepsMonitoring` has the ticks as its premise.
* `Programs` (`FairProgramsSpec`): weak fairness of the reader, of the child's start and of each writer of studio13,
  which are ordinary processes. Nobody has to be killed, and a reader that waits in `open()` is
  promised no writer: `ReaderEnds` begins at `read()`. The other programs have safety properties only.

### Deadlock

It is checked where the program must not stop (`SpinLock`, `SpinBarrier`, and `SleepLock`,
where a sleeper may always wake spuriously but need not). `Monitor` may always tick or has ended,
`Counters` may always be unloaded. `Profiler` and `ShmTransfer` do stop: some configurations
hang, and a leader may wait for a follower nobody starts. The programs of `Programs` end.

### What the profiler's runs say

TLC was also run over each combination of build, policy and priorities alone, two cores by two threads: a hang is
possible exactly in those outside `SafeConfig`. In `DoomedConfig` (spin barrier under SCHED_FIFO
unless the later threads have the higher priority, or under SCHED_RR when the earlier threads
have it) no schedule gets any thread past the barrier. Between the two lie combinations that
hang or not with the order of creation and arrival, among them `USE_SPINLOCK` with two
priorities, whatever the barrier: a preempted owner and a spinning thread on its core.

## 4. Proofs

All theorems hold for any set of threads (finite and non-empty for the barrier); the
assumptions are those of the modules (`WeakMayFailAssumption`, `ThreadAssumption`,
`ModulusAssumption`, `MaxCallsAssumption`, the sizes, versions and configurations that
`Profiler`, `Monitor` and `Counters` assume, and the types of the inputs that `PeriodicTask` and `Programs`
assume), which TLC evaluates for every instance. Every safety invariant that a run
checks is the subject of a theorem.

* **SpinLock.** `Invariance`: `IInv` is inductive. Exclusion alone is not: a step of
  `LockCasSucceeds` keeps it only because the word is `LOCK` whenever somebody is inside
  (`LockWordTellsHolder`) and because the expected value was reset (`ExpectedIsUnlock`).
  From it follow `MutualExclusionHolds`, `ExitLeavesLockHeldHolds`,
  `StrongCasNeverErrsHolds` and `Refinement`: every step is a step of `Mutex` or none.
* **SleepLock.** `Invariance` needs that the word is at most 1 (`WordBelowOne`) and not positive
  while somebody is inside (`HeldWordNotPositive`): then the decrements that fail and the
  stores of -1, which may come at any time, never make a second owner. `LostForEverHolds`
  and `OnlyStoreLosesHolds` describe the lost release exactly; `Refinement` shows that it
  costs progress only.
* **SpinBarrier.** `Invariance` relates the two words to the histories: `gs32bar` counts the
  threads that arrived in the current use, the thread between the reset and the increment
  is alone, and a spinning thread's copy differs from the counter by at most one use, which
  makes equality a sound test for any `Modulus` of at least 2. `CountMatches` needs the
  cardinality lemmas `ThreadCount`, `SubsetCount` and `IncrementMoves`. `Refinement` maps the
  increment of `gs32passed` to the opening of the abstract barrier.
* **Profiler.** `WorkAfterAllArrivedHolds`, for any number of cores, threads and configurations. The
  invariant `WInv` says that threads are created in order (`InOrder`) and, for each barrier, what
  a thread past it implies: for the spin barrier, `BP!IInv`, the invariant of `SpinBarrierProofs` with one
  use, which `BarrierStep` reuses (`Spin`); for the library's barrier, that everybody has
  arrived (`Pthread`); for the sleeping one, that `gs32remain` is the number of threads
  still to come, and zero for one that has left its loop (`Sleep`). The scheduler's guard is never
  used there: a scheduler can delay, not break it. `PicksInTurnHolds` adds that the index of the
  cabin is read and advanced by the owner of its lock (`Cabin`); `SafetyHolds` that a thread
  is at most once in the queue of its core, and never while it sleeps (`Queued`, from lemmas about
  `Enqueued` and `Dequeued`). `DoomedNeverWorksHolds` does use the scheduler: in these
  configurations the first thread of core 0 keeps the head of the queue, or outranks the
  last one, spins for it and so keeps it from ever arriving (`Doomed`), for any number of cores and of
  threads per core.
* **ShmTransfer.** `SafetyHolds` and `LeaderLeavesAfterCopyHolds`, for any number of runs and kills.
  The invariant `IInv` says what a follower that is told to copy may rely on (`Told`, `Whole`): both
  halves of the array are of one run, and a leader with the same object is not writing nor about to. A leader
  that has seen, or will see, `delete_guard` set has its run among those delivered (`Answered`).
  `Runs` keeps the numbers of runs and objects apart; every store into an object goes through the
  lemma `Update`.
* **Monitor.** `SafetyHolds`, `NothingLeftBehindHolds` and `BoundUnlessEarlyHolds`, for any number of
  threads. `MInv` adds to the properties how far loading and unloading have come for each thread: whose
  pointers are set (`Created`), who has ended and may be freed (`Gone`), that the single version's
  timer lives within its thread and the multi version's ends with the unload (`Timer`), and, for `Late`, that
  without an early tick every thread is bound before it is woken.
* **Counters.** `TypeOKHolds`: the owner of the mutex is the one thread between lock and unlock.
  `NoneLostHolds`: the counter is the number of increments done, which is the cardinality of a
  set of pairs, so that an increment adds one element and no sum over threads is needed (`OneMore`).
  `SafetyHolds` adds the bounds of the racy version: it never exceeds the increments, and ends with at
  least 2 if there are two threads and two increments or more, whatever is lost. The invariant
  (`Least`): once a thread has stored, the counter is positive for good; so whoever stores for the
  second time has loaded at least 1. The last store of all is its thread's last, at least its
  second, and leaves at least 2.
* **Programs.** One section for each program. `...Frame` shows that the other nine leave its
  variables alone, so that an invariant of the program is one of `ProgramsSpec`.
    * *Periodic task* (`PeriodInv`). A pending signal belongs to a release that is due (`PendingIsDue`),
      no record is ahead of the clock (`RecordsArePast`), and a job that works has its time still to go
      (`JobTakesItsTime`). The skew of the two clocks is time stolen before the timer is armed
      (`SkewIsStolen`). For `HonestReportHolds` the releases late by more than the skew are mapped into
      the jobs counted, one to one if no signal was lost; a lost release puts each later job, which takes
      longer than the skew, behind the deadline it is compared with.
    * *Signal programs* (`SigIInv`). `SigMarked` and `SigTold` divide the signals by the statement they came
      before, and say which part of them the second loop has passed.
    * *LED*. `NoStrayTimerHolds` is inductive by itself. `PinModeHolds` needs what each step of
      `set_gpio_mode()` has already done to the field (`LedFunction`), and that only one party is in there
      while `overlap` is false (`LedAlone`).
    * *Sysfs* (`SysIInv`). Parents of the living are alive or the swapper, since orphans get init
      (`SysParentsAreAlive`); a walk stands at the last pid it has printed, and at a living process
      unless somebody exited (`SysWalks`).
    * *Pipes* (`PipIInv`). After the end of file nobody holds a write end, nor is anything in the
      channel, but of writers that came late (`PipNoneButLate`).
    * *Sockets* (`SocIInv`). What a client has sent is on the connection or already in the buffer, in order
      (`SocOnTheWay`), up to the NUL and the byte that is sent after it; an idle buffer shows the text
      printed last (`SocKept`); who is connected is served, waits in the backlog, or the
      server has ended (`SocAttended`).
    * *Matrix multiplication* (`MMInv`). The additions made are a set of pairs of iteration and
      product (`MMStored`); the cell is at most its cardinality, and equal to it while no two
      iterations have met (`MMAlone`). That each iteration belongs to exactly one thread is
      proved of OpenMP's static schedule (`MMShares`, `MMSomeOwner`, `MMOneOwner`).
    * *Profiler input* (`InpIInv`). What the parser let pass is in range (`InpChecked`), numbers missing
      in exp.cfg leave the initial values (`InpMissing`), and threads are created in turn with the
      priority of their half (`InpCreated`).
    * *Forking programs* (`ForksInv`). Each process has forked as often as it has children (`Forked`), and a
      child stands one level below its parent (`ForDescend`). That the tree is full
      takes a labelling: each process has a set of levels as its label, which tells the parent's label and
      whether it is the first child or the second (`ForLabels`). No two processes share a label; when all
      have exited, every non-empty set of levels is one (`ForEveryLabel`), so there are
      2^(levels+1) - 1 processes.
    * *Sort* (`SrtSortInv`). Two numbers that are not in order are both in one of the slices on the stack
      (`SrtOrdered`), and these lie apart, from below to above (`SrtStacked`). The array is `Before`
      rearranged by a bijection, up to dropped fractions (`SrtRearranged`), so only one number can have
      a fraction (`SrtOneFraction`) and dropping it breaks no order. The loop of `partition()` is a
      recursive function: that it exists, and what it has reached at each index, is shown with the least
      index at which it would fail (`SrtLoopExists`, `SrtWalkDivides`). That
      the array keeps its own numbers is counted with the same bijection (`SrtSameCounts`,
      `SrtOwnNumbers`). What lies behind the array is assumed to be a number that an
      unsigned can hold (`SortAssumption`): the conversion of others is undefined.
These proofs assume what the modules assume of their constants, nothing of the instance. The
theorems are about the specification without fairness or imply it, so they hold with fairness too.

Only model-checked: liveness (`Termination`, `CompletesUnlessLost`, `SafeConfigEnds`, `ThreadsFinish`,
`FollowerEnds`, `LeaderEnds`, `UnloadEnds`, `KeepsMonitoring`, `ReaderEnds`), which is outside what the
prover handles.

What the proofs changed in the model: `VerifyTellsLost` held for counts from 1 and failed for 0, where the
program aborts although nothing was computed wrongly; the count 0 is now an instance, too.
`HonestReport` needs that no deadline wraps at `TICK_LIMIT`, which no instance had come near. The
number of threads of `ParallelMM` is a constant of its own instead of the size of a set.

## 5. Not modelled

* Memory reordering. The lock words are accessed with acquire/release builtins and the barrier
  with full barriers, so the step order is the program's. The guards of studio15 are plain
  `volatile` words: on the ARM cores the stores of `memcpy` and of the guard could be seen
  in another order. `ShmTransfer` assumes they are not.
* The data: array contents, the cubing workload, printing. Numbers of the cabin are their index.
* `DISABLE_PIN_CORE` in lab02: threads that migrate.
* In `ShmTransfer`, a failing `malloc` or `ftruncate`, and two leaders at a time.
* In `Monitor`, a failing `kthread_create()`, whose result the code does not look at.
* studio14/AF_INET/src/network_util.c: it includes `updatepara.h`, which the repository does not have,
  so no program contains it. A connection that breaks in the middle of a message is left out, too.
* The show functions of studio07, the delays and the printing of GPIO_Prj, `sleep()` in tree.c.
* Programs without interaction or branches worth a state: studio02, studio05, busy_loop.c, busyloop.c,
  busyloop_rt.c, dense_mm.c, sing.c, the clock queries of studio03, the allocation and printing
  programs of studio04, workload.c of studio11.
* Identical copies of files that are modelled once: studio12/period_task.c (of studio08's),
  studio07/kobject_example.c (of kobj/main.c), studio07/family_reader.c (of family_reader/main.c),
  studio07/fork_n_tree/, sort.c of studio04, studio03/test_programs/parallel_dense_mm2.c.

## 6. Plan

Done: 1. `Mutex`, `SpinLock`, `SleepLock` with proofs; 2. `Barrier`, `SpinBarrier` with proofs;
3. `Profiler`; 4. `ShmTransfer`; 5. `Monitor`; 6. `Counters`, each with the
proof of its safety; 7. `LedModule`, `Sysfs`; 8. `PeriodicTask`, `Sigint`; 9. `Sockets`, `Pipes`;
10. `Sort`, `ParallelMM`; 11. `ProfilerInput`, `Forks`; 12. `Programs`, `MCPrograms`; 13. `ProgramsProofs`.

Left:

14. Stores of studio15 that other cores see in another order: a store buffer for each process
    in `ShmTransfer`.
