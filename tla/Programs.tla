------------------------------ MODULE Programs ------------------------------
(***************************************************************************)
(* The programs and modules of the studios that run by themselves: in each *)
(* behaviour one of them runs, the state of the others stays as it is.     *)
(***************************************************************************)
EXTENDS PeriodicTask

CONSTANTS
  size, Work, MaxSent,                                           \* Sigint
  Written, Rounds,                                               \* LedModule
  Writers,                                                       \* Sysfs and Pipes
  Numbers, Garbage, Processes, Parents, MaxWrites,               \* Sysfs
  Setups, Child, Items, Capacity,                                \* Pipes
  Families, Clients, Texts, Quit, BUF_LEN, CONNECT_RETRY, MaxStarts, \* Sockets
  ArraySizes, Values, Strays,                                    \* Sort
  number, MatrixSizes, Counts, SqrtMax, SEC, MIN_INIT, Now, MaxTime, \* ParallelMM
  PCPUcnt, InputArguments, CfgFiles, RTPriorities, IntLimit,     \* ProfilerInput
  Commands                                                       \* Forks

\* print5000: the size of called[].
ASSUME SigintAssumption == size \in Nat

\* Sysfs: there is init, and the parents of the processes are among them, or the
\* swapper.
ASSUME SysfsAssumption ==
  1 \in Processes /\ Parents \in [Processes -> Processes \cup {0}]

\* Pipes: the three programs, and how often a writer writes.
ASSUME PipesAssumption ==
  Setups \subseteq {"Pipe", "FIFO", "FIFO_wr"} /\ Items \in Nat

\* ParallelMM: the matrix size is unsigned; a count below 0 would be as good as 0.
ASSUME MMAssumption ==
  /\ number \in Nat \ {0}
  /\ MatrixSizes \subseteq Nat /\ Counts \subseteq Nat
  /\ SqrtMax \in Nat \ {0} /\ SEC \in Nat \ {0}
  /\ MIN_INIT \in Nat /\ Now \in Nat /\ MaxTime \in Nat

\* ProfilerInput: strtol() and fscanf() give integers; no real-time priority is 0.
ASSUME InputAssumption ==
  /\ PCPUcnt \in Nat \ {0} /\ IntLimit \in Nat \ {0} /\ RTPriorities \subseteq Nat \ {0}
  /\ InputArguments \subseteq [policy : {"RR", "FIFO", "OTHER", "unknown"},
                               round : Int, iter : Int, cnt : Int]
  /\ CfgFiles \subseteq Seq(Int)

\* Sort: rand() gives whole numbers; all of them fit in an unsigned.
ASSUME SortAssumption ==
  /\ ArraySizes \subseteq Nat /\ Strays \subseteq Nat
  /\ \A v \in Values : v \in Nat /\ v % 10 = 0

\* Forks: the three programs; atoi() gives an integer.
ASSUME ForksAssumption ==
  \A c \in Commands : c[1] \in {"fork", "tree", "busyloop_rtfork"} /\ c[2] \in Int

VARIABLES
  program,      \* the one that runs
  sigPc, i, called, reported, gs32total, sigPrinted, sigPending, sent, hits, code,
  module, handler, user, round, armed, gs32Period, gs32isoff, GPFSEL, latch, call,
  s32mode, loaded, s32temp, raced, overlap,
  dir, value, accepted, rejected, fam_reader, sysPc, sysText, task, path, alive,
  real_parent, calls, overtaken, met_exit,
  setup, file, reader, rd, own, came, writer, pipeLeft, channel, output, stale,
  junk, late,
  family, sockFile, server, starts, retries, conn, backlog, pcBuf, s32idx, client,
  text, met, wire, hung, printed, sockOutput,
  array_size, A, Before, slices,
  matrix_size, s32cnt, main, mmPc, s32i, mmLeft, reg, C, mmNow, strBefore, strAfter,
  ps32record, s32min, s32max, began, mixed,
  mpc, pthread, gstrArg, numbers, threads, s32ret,
  command, commandArg, terminal, procs, shown

SignalsVars == <<sigPc, i, called, reported, gs32total, sigPrinted, sigPending,
             sent, hits, code>>
LedVars == <<module, handler, user, round, armed, gs32Period, gs32isoff, GPFSEL,
             latch, call, s32mode, loaded, s32temp, raced, overlap>>
FilesVars == <<dir, value, accepted, rejected, fam_reader, sysPc, sysText, task,
             path, alive, real_parent, calls, overtaken, met_exit>>
StreamsVars == <<setup, file, reader, rd, own, came, writer, pipeLeft, channel,
             output, stale, junk, late>>
NetVars == <<family, sockFile, server, starts, retries, conn, backlog, pcBuf,
             s32idx, client, text, met, wire, hung, printed, sockOutput>>
SortingVars == <<array_size, A, Before, slices>>
MMVars == <<matrix_size, s32cnt, main, mmPc, s32i, mmLeft, reg, C, mmNow, strBefore,
             strAfter, ps32record, s32min, s32max, began, mixed>>
InputVars == <<mpc, pthread, gstrArg, numbers, threads, s32ret>>
ForkingVars == <<command, commandArg, terminal, procs, shown>>

Signals == INSTANCE Sigint WITH pc <- sigPc, printed <- sigPrinted, pending <- sigPending
Led     == INSTANCE LedModule
Files   == INSTANCE Sysfs WITH pc <- sysPc, text <- sysText
Streams == INSTANCE Pipes WITH left <- pipeLeft
Net     == INSTANCE Sockets WITH file <- sockFile, output <- sockOutput
Sorting == INSTANCE Sort WITH Sizes <- ArraySizes, calls <- slices
MM      == INSTANCE ParallelMM WITH
             Sizes <- MatrixSizes, pc <- mmPc, left <- mmLeft, now <- mmNow
Input   == INSTANCE ProfilerInput WITH Arguments <- InputArguments
Forking == INSTANCE Forks WITH program <- command, arg <- commandArg

\* Sockets: a buffer that is not empty, and texts that strlen() takes as a whole.
ASSUME SocketsAssumption ==
  /\ BUF_LEN \in Nat \ {0} /\ Net!None \notin Clients
  /\ Families \subseteq {"AF_Local", "AF_INET"}
  /\ \A s \in Texts : s \in Seq(Net!Set(s)) /\ Net!NUL \notin Net!Set(s)

Program == {"period_task", "signals", "led", "sysfs", "pipes", "sockets", "sort", "mm",
            "input", "forks"}

ProgramsInit ==
  /\ program \in Program
  /\ Init /\ Signals!Init /\ Led!Init /\ Files!Init /\ Streams!Init /\ Net!Init
  /\ Sorting!Init /\ MM!Init /\ Input!Init /\ Forking!Init

\* A step of program p.
Runs(p, action) ==
  /\ program = p /\ action /\ UNCHANGED program
  /\ IF p = "period_task" THEN TRUE ELSE UNCHANGED vars
  /\ IF p = "signals" THEN TRUE ELSE UNCHANGED SignalsVars
  /\ IF p = "led" THEN TRUE ELSE UNCHANGED LedVars
  /\ IF p = "sysfs" THEN TRUE ELSE UNCHANGED FilesVars
  /\ IF p = "pipes" THEN TRUE ELSE UNCHANGED StreamsVars
  /\ IF p = "sockets" THEN TRUE ELSE UNCHANGED NetVars
  /\ IF p = "sort" THEN TRUE ELSE UNCHANGED SortingVars
  /\ IF p = "mm" THEN TRUE ELSE UNCHANGED MMVars
  /\ IF p = "input" THEN TRUE ELSE UNCHANGED InputVars
  /\ IF p = "forks" THEN TRUE ELSE UNCHANGED ForkingVars

ProgramsNext ==
  \/ Runs("period_task", Next) \/ Runs("signals", Signals!Next) \/ Runs("led", Led!Next)
  \/ Runs("sysfs", Files!Next) \/ Runs("pipes", Streams!Next) \/ Runs("sockets", Net!Next)
  \/ Runs("sort", Sorting!Next) \/ Runs("mm", MM!Next)
  \/ Runs("input", Input!Next) \/ Runs("forks", Forking!Next)

allvars == <<program, vars, SignalsVars, LedVars, FilesVars, StreamsVars, NetVars,
            SortingVars, MMVars, InputVars, ForkingVars>>

ProgramsSpec == ProgramsInit /\ [][ProgramsNext]_allvars

\* The processes of studio13 run and are not killed at every turn.
FairProgramsSpec ==
  /\ ProgramsSpec
  /\ WF_allvars(Runs("pipes", Streams!Reader))
  /\ WF_allvars(Runs("pipes", Streams!StartChild))
  /\ \A w \in Writers : WF_allvars(Runs("pipes", Streams!Writer(w)))

-----------------------------------------------------------------------------
\* Each property is stated, and explained, in the module of the program.

\* Every signal print5000 or dense_mm got is reported, and none is made up.
SignalsTold == Signals!SignalsTold

\* The LED module leaves no timer behind but the one del_timer() just missed.
NoStrayTimer == Led!NoStrayTimer

\* The mode of the pin is lost only if module and program set theirs at once.
PinMode == Led!PinMode

\* Writes that succeed decide baz and bar, and foo but for rejected ones; the walk
\* of fam_reader tells the parents, unless somebody exits or writes.
FilesAreSound == Files!FilesAreSound

\* What comes through the pipe or FIFO is printed, and junk where it is told.
AllIsPrinted == Streams!AllIsPrinted

\* The reader ends once every writer has ended, where it can.
ReaderEnds == Streams!ReaderEnds

\* The texts and messages of studio14 arrive, or the server has stopped.
ConnectionsTold == Net!ConnectionsTold

\* quicksort() sorts one element more than there is.
SortsOneMore == Sorting!SortsOneMore

\* The comparison with D and the records tell of what ran alone only.
RunIsMeasured == MM!RunIsMeasured

\* The threads of the profiler get a configuration they can run with.
InputIsSound == Input!InputIsSound

\* There are the processes that were asked for, and what they print.
ForksAreSound == Forking!ForksAreSound
=============================================================================
