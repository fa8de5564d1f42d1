------------------------------- MODULE Sysfs -------------------------------
(***************************************************************************)
(* studio07: two kernel modules with files in sysfs.  kobj/main.c keeps an *)
(* integer behind each of foo, baz and bar; a write to the file of         *)
(* family_reader/main.c makes the kernel print the ancestors of the pid    *)
(* that is written.  Both name their directory "kobject_example".          *)
(*                                                                         *)
(* Each writer has the file open for itself, so the store functions run    *)
(* side by side, and processes exit meanwhile.                             *)
(***************************************************************************)
EXTENDS Integers, Sequences

CONSTANTS
  Writers,      \* who writes to the files
  Numbers,      \* the numbers they write
  Garbage,      \* what an uninitialized int may hold
  Processes,    \* pids of the processes there are
  Parents,      \* parents at the start: a function from Processes
  MaxWrites     \* bound: calls of fam_reader_store()

VARIABLES
  dir,          \* the module that owns the directory, or "none"
  value,        \* foo, baz and bar
  accepted,     \* history: what was written to each with success
  rejected,     \* history: a write to foo was rejected
  fam_reader,   \* the pid last written
  pc,           \* where each writer is in fam_reader_store()
  text,         \* history: what it has written
  task,         \* pstTrTemp, the process it looks at
  path,         \* the pids it has printed
  alive,        \* the processes that have not exited
  real_parent,  \* the parent of each process
  calls,        \* calls of fam_reader_store()
  overtaken,    \* history: another writer has changed fam_reader meanwhile
  met_exit      \* history: a process has exited during the walk

kobj   == <<value, accepted, rejected>>
family == <<fam_reader, pc, text, task, path, calls, overtaken, met_exit>>
procs  == <<alive, real_parent>>
vars == <<dir, kobj, family, procs>>

Files   == {"foo", "baz", "bar"}
Modules == {"kobj", "family_reader"}
Junk    == -1        \* a text that kstrtoint() rejects
Swapper == 0         \* the process without a pid structure, its own parent

Init ==
  /\ dir = "none"
  /\ value = [f \in Files |-> 0]
  /\ accepted = [f \in Files |-> {0}] /\ rejected = FALSE
  /\ fam_reader = 0
  /\ pc = [w \in Writers |-> "idle"] /\ text = [w \in Writers |-> 0]
  /\ task = [w \in Writers |-> 0] /\ path = [w \in Writers |-> << >>]
  /\ alive = Processes /\ real_parent = Parents
  /\ calls = 0
  /\ overtaken = [w \in Writers |-> FALSE]
  /\ met_exit = [w \in Writers |-> FALSE]

-----------------------------------------------------------------------------
(* Loading and unloading: example_init() and example_exit() of both *)

\* The directory cannot be made twice, and its files may fail to be made: then
\* it is removed again.
Load(m) ==
  /\ dir = "none" /\ dir' \in {m, "none"}
  /\ UNCHANGED <<kobj, family, procs>>

\* Removing the directory waits for the store functions that run; the statics
\* of a module start at zero when it is loaded again.
Unload ==
  /\ dir # "none" /\ \A w \in Writers : pc[w] \in {"idle", "fault"}
  /\ dir' = "none"
  /\ value' = [f \in Files |-> 0]
  /\ accepted' = [f \in Files |-> {0}] /\ rejected' = FALSE
  /\ fam_reader' = 0
  /\ path' = [w \in Writers |-> << >>] /\ text' = [w \in Writers |-> 0]
  /\ UNCHANGED <<pc, task, calls, overtaken, met_exit, procs>>

-----------------------------------------------------------------------------
(* kobj: foo_store() and b_store() *)

\* foo is assigned before the result of kstrtoint() is tested; a rejected text
\* leaves s32val as it was.
foo_store ==
  /\ dir = "kobj"
  /\ \/ \E s32val \in Numbers :
          /\ value' = [value EXCEPT !["foo"] = s32val]
          /\ accepted' = [accepted EXCEPT !["foo"] = @ \cup {s32val}]
          /\ UNCHANGED rejected
     \/ \E s32val \in Garbage :
          /\ value' = [value EXCEPT !["foo"] = s32val]
          /\ rejected' = TRUE
          /\ UNCHANGED accepted
  /\ UNCHANGED <<dir, family, procs>>

b_store(f) ==
  /\ dir = "kobj"
  /\ \E var \in Numbers :
       /\ value' = [value EXCEPT ![f] = var]
       /\ accepted' = [accepted EXCEPT ![f] = @ \cup {var}]
  /\ UNCHANGED <<dir, rejected, family, procs>>

-----------------------------------------------------------------------------
(* family_reader: fam_reader_store() *)

\* A text that is no number leaves fam_reader alone.
Convert(w) ==
  /\ dir = "family_reader" /\ pc[w] = "idle" /\ calls < MaxWrites
  /\ calls' = calls + 1
  /\ \E n \in Numbers \cup {Junk} :
       /\ text' = [text EXCEPT ![w] = n]
       /\ IF n = Junk THEN UNCHANGED <<fam_reader, pc, overtaken>>
          ELSE /\ fam_reader' = n
               /\ pc' = [pc EXCEPT ![w] = "find"]
               /\ overtaken' = [v \in Writers |-> v # w /\ (overtaken[v] \/ pc[v] = "find")]
  /\ path' = [path EXCEPT ![w] = << >>]
  /\ met_exit' = [met_exit EXCEPT ![w] = FALSE]
  /\ UNCHANGED <<dir, kobj, task, procs>>

\* The pid is looked up with the value fam_reader has by now.
FindPid(w) ==
  /\ pc[w] = "find"
  /\ IF fam_reader \in alive
     THEN /\ pc' = [pc EXCEPT ![w] = "walk"]
          /\ task' = [task EXCEPT ![w] = fam_reader]
          /\ path' = [path EXCEPT ![w] = <<fam_reader>>]
     ELSE pc' = [pc EXCEPT ![w] = "idle"] /\ UNCHANGED <<task, path>>
  /\ UNCHANGED <<dir, kobj, fam_reader, text, calls, overtaken, met_exit, procs>>

\* The loop goes to the parent; the memory of a process that has exited is
\* not there any more.
Walk(w) ==
  /\ pc[w] = "walk" /\ task[w] \notin {0, 1}
  /\ IF task[w] \notin alive THEN pc' = [pc EXCEPT ![w] = "fault"] /\ UNCHANGED <<task, path>>
     ELSE /\ task' = [task EXCEPT ![w] = real_parent[@]]
          /\ path' = [path EXCEPT ![w] = Append(@, real_parent[task[w]])]
          /\ UNCHANGED pc
  /\ UNCHANGED <<dir, kobj, fam_reader, text, calls, overtaken, met_exit, procs>>

\* Mutant: only pid 1 ends the loop, and the swapper is its own parent.
EndWalk_AtInit(w) ==
  /\ pc[w] = "walk" /\ task[w] \in {0, 1}
  /\ IF task[w] = 1 THEN pc' = [pc EXCEPT ![w] = "idle"] /\ UNCHANGED path
     ELSE path' = [path EXCEPT ![w] = Append(@, 0)] /\ UNCHANGED pc
  /\ UNCHANGED <<dir, kobj, fam_reader, text, task, calls, overtaken, met_exit, procs>>

EndWalk(w) ==
  /\ pc[w] = "walk" /\ task[w] \in {0, 1}
  /\ pc' = [pc EXCEPT ![w] = "idle"]
  /\ UNCHANGED <<dir, kobj, fam_reader, text, task, path, calls, overtaken, met_exit, procs>>

fam_reader_store(w) == Convert(w) \/ FindPid(w) \/ Walk(w) \/ EndWalk(w)

\* A process exits: its children get init as their parent.
ProcessExits(p) ==
  /\ p \in alive \ {1}
  /\ alive' = alive \ {p}
  /\ real_parent' = [q \in Processes |-> IF real_parent[q] = p THEN 1 ELSE real_parent[q]]
  /\ met_exit' = [w \in Writers |-> met_exit[w] \/ pc[w] = "walk"]
  /\ UNCHANGED <<dir, kobj, fam_reader, pc, text, task, path, calls, overtaken>>

Next ==
  \/ \E m \in Modules : Load(m)
  \/ Unload
  \/ foo_store \/ \E f \in {"baz", "bar"} : b_store(f)
  \/ \E w \in Writers : fam_reader_store(w)
  \/ \E p \in Processes : ProcessExits(p)

Spec == Init /\ [][Next]_vars

-----------------------------------------------------------------------------
(* Properties *)

(***************************************************************************)
(* baz and bar hold only what was written to them and accepted, whatever   *)
(* is written to the other; foo does unless a write to it was rejected     *)
(* (line 48 comes before line 49).                                         *)
(***************************************************************************)
StoresAreSound ==
  \A f \in Files : value[f] \notin accepted[f] => f = "foo" /\ rejected

(***************************************************************************)
(* The walk prints the ancestors of a process up to pid 1 or 0, each once, *)
(* and faults only if a process has exited meanwhile (line 68); it starts  *)
(* at the pid its caller has written, unless another writer has replaced   *)
(* that in the variable they share (lines 48 and 52).                      *)
(***************************************************************************)
WalkIsSound ==
  \A w \in Writers :
    /\ pc[w] = "fault" => met_exit[w]
    /\ path[w] # << >> /\ ~overtaken[w] => path[w][1] = text[w]
    /\ ~met_exit[w] /\ pc[w] = "walk" =>
         \A i \in 1 .. Len(path[w]) - 1 :
           /\ path[w][i] \notin {0, 1}
           /\ path[w][i + 1] = real_parent[path[w][i]]

\* Both: the integers, and the walk.
FilesAreSound == StoresAreSound /\ WalkIsSound
=============================================================================
