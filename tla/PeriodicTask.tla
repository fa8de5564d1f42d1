---------------------------- MODULE PeriodicTask ----------------------------
(***************************************************************************)
(* studio08/period_task.c (studio12 has a copy): a real-time task that a   *)
(* POSIX timer releases with a signal once a period.  The handler, work(), *)
(* does the job and records when it was dispatched and when it finished;   *)
(* after count jobs the next signal makes it print how many jobs missed    *)
(* their deadline, and exit.                                               *)
(*                                                                         *)
(* A timer has at most one signal pending: when it expires again before    *)
(* the handler has been entered, that release is lost.  The handler blocks *)
(* its own signal.  Tasks of higher priority may take the processor at any *)
(* time.  The unit of time is a millisecond, MHZ ticks of rdtsc().         *)
(***************************************************************************)
EXTENDS Integers, Sequences, FiniteSets

CONSTANTS
  Arguments,    \* the command lines to consider: wcet, period, duration
  Uptime,       \* what rdtsc() may say when the program starts
  MAX,          \* length of data[], 20000 in the code
  COUNT_LIMIT,  \* the first number of jobs that is no int, 2^31
  SECOND,       \* 1000 in the code
  INT_LIMIT,    \* the first period whose product with MHZ is no int: 651
  TICK_LIMIT,   \* values of a ticks variable, 2^64 / MHZ
  MaxStolen     \* bound: milliseconds the others take

\* main() rejects a command line with a value that is not positive.
ASSUME ArgumentsAssumption ==
  Arguments \subseteq [wcet : Nat \ {0}, period : Nat \ {0}, duration : Nat \ {0}]
ASSUME LimitsAssumption ==
  /\ Uptime \subseteq Nat /\ MaxStolen \in Nat
  /\ {MAX, COUNT_LIMIT, SECOND, INT_LIMIT, TICK_LIMIT} \subseteq Nat \ {0}

VARIABLES
  arg,          \* the command line of this run
  pc,           \* next statement of main() or work()
  now,          \* time since boot
  first,        \* when the timer is to expire first
  start_time,   \* what print_res() takes for that
  expiries,     \* expiries of the timer so far
  pending,      \* the expiry whose signal is pending
  idx,          \* job index
  left,         \* what remains of the job, or of sleep(2)
  data,         \* the records, each with the expiry it answers
  miss,         \* what print_res() has printed
  stolen        \* time the others have taken

timer   == <<first, expiries, pending>>
records == <<idx, data>>
vars == <<arg, pc, now, start_time, timer, left, records, miss, stolen>>

None == -1

\* The globals before main() has read the command line.
NoArguments == [wcet |-> 0, period |-> 0, duration |-> 0]

Init ==
  /\ arg = NoArguments /\ pc = "start"
  /\ now = 0
  /\ first = 0 /\ start_time = 0
  /\ expiries = 0 /\ pending = None
  /\ idx = 0 /\ left = 0 /\ data = << >> /\ miss = None
  /\ stolen = 0

\* What an int with the given limit keeps of a number.
Wrapped(n, limit) == ((n + limit) % (2 * limit)) - limit

\* Mutant: the duration is divided without taking one off first.
count_OneMore == Wrapped(arg.duration \div arg.period + 1, COUNT_LIMIT)

\* The number of jobs to execute: a long long, put into an int.
count == Wrapped((arg.duration - 1) \div arg.period + 1, COUNT_LIMIT)

\* When the k-th expiry is due.
Release(k) == first + k * arg.period

-----------------------------------------------------------------------------
(* main() *)

\* The command line is read; without the privileges for a real-time policy the
\* program fails.
Start ==
  /\ pc = "start" /\ pc' \in {"gettime", "failed"}
  /\ arg' \in Arguments /\ now' \in Uptime
  /\ UNCHANGED <<start_time, timer, left, records, miss, stolen>>

\* The timer is to start one second from now ...
ClockGettime ==
  /\ pc = "gettime" /\ pc' = "stamp"
  /\ first' = now + SECOND
  /\ UNCHANGED <<arg, now, start_time, expiries, pending, left, records, miss, stolen>>

\* ... and start_time is one second from a later now.
ReadRdtsc ==
  /\ pc = "stamp" /\ pc' = "arm"
  /\ start_time' = now + SECOND
  /\ UNCHANGED <<arg, now, timer, left, records, miss, stolen>>

\* The start time is absolute: a timer that is set too late expires at once.
TimerSettime ==
  /\ pc = "arm" /\ pc' = "suspend"
  /\ IF now < first THEN UNCHANGED timer
     ELSE /\ pending' = 0
          /\ expiries' = (now - first) \div arg.period + 1
          /\ UNCHANGED first
  /\ UNCHANGED <<arg, now, start_time, left, records, miss, stolen>>

-----------------------------------------------------------------------------
(* work() *)

\* A signal ends sigsuspend().  A job more than data[] has records for is
\* recorded in the memory behind it, and what follows is undefined.
EnterWork ==
  /\ pc = "suspend" /\ pending # None
  /\ pending' = None
  /\ IF idx >= count THEN pc' = "sleep" /\ left' = 2 * SECOND /\ UNCHANGED data
     ELSE IF idx >= MAX THEN pc' = "outside" /\ UNCHANGED <<left, data>>
     ELSE /\ pc' = "work"
          /\ left' = arg.wcet
          /\ data' = Append(data, [release |-> pending, dispatch |-> now,
                                   finish |-> None])
  /\ UNCHANGED <<arg, now, start_time, first, expiries, idx, miss, stolen>>

FinishWork ==
  /\ pc = "work" /\ left = 0
  /\ pc' = "suspend"
  /\ data' = [data EXCEPT ![idx + 1].finish = now]
  /\ idx' = idx + 1
  /\ UNCHANGED <<arg, now, start_time, timer, left, miss, stolen>>

\* period*MHZ is an int product.
step == Wrapped(arg.period, INT_LIMIT)

\* Mutant: a job may take until the deadline of the one after it.
misses_OneLater ==
  Cardinality({i \in 1 .. count :
    data[i].finish > (start_time + (i + 1) * step) % TICK_LIMIT})

\* print_res() takes the i-th record for the i-th release; ticks are unsigned.
misses ==
  Cardinality({i \in 1 .. count :
    data[i].finish > (start_time + i * step) % TICK_LIMIT})

PrintRes ==
  /\ pc = "sleep" /\ left = 0
  /\ pc' = "exited"
  /\ miss' = misses
  /\ UNCHANGED <<arg, now, start_time, timer, left, records, stolen>>

-----------------------------------------------------------------------------
(* Time and the timer *)

Waits == pc = "suspend" /\ pending = None
Ended == pc \in {"failed", "exited", "outside"}

\* One millisecond, in which the task gets done so much of its work.
Elapse(done) ==
  /\ now' = now + 1
  /\ left' = left - done
  /\ IF pc \in {"suspend", "work", "sleep"} /\ now' = Release(expiries)
     THEN /\ expiries' = expiries + 1
          /\ pending' = IF pending = None THEN expiries ELSE pending
     ELSE UNCHANGED <<expiries, pending>>
  /\ UNCHANGED <<arg, pc, first, start_time, records, miss>>

\* The task waits, works or sleeps, or the others have the processor.
Tick ==
  \/ /\ Waits
     /\ Elapse(0) /\ UNCHANGED stolen
  \/ /\ pc \in {"work", "sleep"} /\ left > 0
     /\ Elapse(1) /\ UNCHANGED stolen
  \/ /\ ~Waits /\ ~Ended /\ pc # "sleep"
     /\ stolen < MaxStolen /\ stolen' = stolen + 1
     /\ Elapse(0)

Main == Start \/ ClockGettime \/ ReadRdtsc \/ TimerSettime
work == EnterWork \/ FinishWork \/ PrintRes

Next == Main \/ work \/ Tick \/ (Ended /\ UNCHANGED vars)

Spec == Init /\ [][Next]_vars

-----------------------------------------------------------------------------
(* Properties *)

TypeOK ==
  /\ arg \in Arguments \cup {NoArguments}
  /\ pc \in {"start", "gettime", "stamp", "arm", "suspend", "work", "sleep",
             "failed", "exited", "outside"}
  /\ {now, first, start_time, expiries, idx, left, stolen} \subseteq Nat
  /\ {pending, miss} \subseteq Nat \cup {None}
  /\ data \in Seq([release : Nat, dispatch : Nat, finish : Nat \cup {None}])
  /\ Len(data) = IF pc = "work" THEN idx + 1 ELSE idx

(***************************************************************************)
(* The records are one for each job, in order and apart in time, none made *)
(* before the release it answers, and each release is answered once (the   *)
(* handler of lines 114-133 is neither entered twice nor ahead of time).   *)
(***************************************************************************)
JobsInOrder ==
  \A i \in 1 .. Len(data) :
    /\ data[i].release < expiries
    /\ data[i].dispatch >= Release(data[i].release)
    /\ i <= idx => data[i].finish >= data[i].dispatch + arg.wcet
    /\ i > 1 => /\ data[i].release > data[i - 1].release
                /\ data[i].dispatch >= data[i - 1].finish

(***************************************************************************)
(* A duration of no more than MAX periods never leads to a record behind   *)
(* the end of data[] (lines 126, 130 and 211).                             *)
(***************************************************************************)
RecordsFit == arg.duration <= MAX * arg.period => pc # "outside"

Safety == TypeOK /\ JobsInOrder /\ RecordsFit

\* The releases that got no job, or one that ended more than d after the deadline.
\* The deadline of a release is the next one (line 65).
LateBy(d) ==
  {k \in 0 .. count - 1 :
     ~ \E i \in 1 .. Len(data) :
         data[i].release = k /\ data[i].finish <= Release(k) + arg.period + d}

MissedReleases == LateBy(0)

NoneLost == \A i \in 1 .. Len(data) : data[i].release = i - 1

(***************************************************************************)
(* The timer and the report take their start from two clocks (lines 235    *)
(* and 245): the report's is later by what the others took in between, and *)
(* hides a miss by no more than that.  As long as it is less than a job    *)
(* (and a period's product with MHZ is an int), print_res() reports every  *)
(* other missed release; and exactly these if no release was lost and the  *)
(* deadlines stay within ticks.  Without skew these are all the releases   *)
(* missed.  A lost release moves all later jobs to the deadline of the     *)
(* release before.  A longer period makes every job a miss, until the      *)
(* deadlines fall below zero (line 88).                                    *)
(***************************************************************************)
HonestReport ==
  pc = "exited" =>
    LET skew == start_time - first IN
    /\ skew \in 0 .. stolen
    /\ skew < arg.wcet /\ step = arg.period =>
         /\ miss >= Cardinality(LateBy(skew))
         /\ NoneLost /\ start_time + count * step < TICK_LIMIT
              => miss = Cardinality(LateBy(skew))
         /\ skew = 0 => miss >= Cardinality(MissedReleases)
    /\ skew < arg.wcet /\ step < 0 /\ count >= 0 /\ start_time + count * step >= 0
         => miss = count
=============================================================================
