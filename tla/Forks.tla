-------------------------------- MODULE Forks --------------------------------
(***************************************************************************)
(* Programs that fork: studio07/fork.c (one child), studio07/tree.c (each  *)
(* process of a level above 0 forks two, which execute the program anew    *)
(* for the level below), and studio09/busyloop_rtfork.c (a number of busy  *)
(* loops on one core, with one priority).                                  *)
(*                                                                         *)
(* A child has a copy of its parent's memory: of the loop counter, and of  *)
(* what printf() has not yet written, which it keeps unless the output is  *)
(* a terminal.  fork() and exec() may fail.                                *)
(***************************************************************************)
EXTENDS Integers, Sequences

CONSTANTS
  Commands      \* the programs, each with the number on its command line: levels,
                \* or processes

VARIABLES
  program, arg,
  terminal,     \* the output is a terminal
  procs,        \* the processes, in the order of their creation
  shown         \* how often what is printed before fork() is in the output

vars == <<program, arg, terminal, procs, shown>>

Failed == -1      \* what fork() returns without a child
Pids == 1 .. Len(procs)

Process(parent, pc, level, i, held) ==
  [parent |-> parent, pc |-> pc, level |-> level, i |-> i, kids |-> << >>, held |-> held]

Init ==
  /\ program = "none" /\ arg = 0 /\ terminal = TRUE
  /\ procs = << >> /\ shown = 0

\* main() up to the first fork().  It ends there with a wrong command line, or when
\* the busy loop does not get its core or priority, before or after it has printed.
\* tree.c has printed nothing, so that its output may as well be a terminal.
Start ==
  /\ program = "none"
  /\ \E c \in Commands : program' = c[1] /\ arg' = c[2]
  /\ terminal' \in IF program' = "tree" THEN {TRUE} ELSE BOOLEAN
  /\ \/ /\ program' # "fork"
        /\ procs' = <<Process(0, "failed", arg', 0, FALSE)>>
        /\ shown' \in {0, 1}
     \/ /\ procs' = <<Process(0, "fork", arg', 0, program' # "tree" /\ ~terminal')>>
        /\ shown' = IF program' # "tree" /\ terminal' THEN 1 ELSE 0

\* How often a process forks.
s32CHDNo(p) ==
  CASE program = "fork" -> 1
    [] program = "tree" -> IF procs[p].level > 0 THEN 2 ELSE 0
    [] program = "busyloop_rtfork" -> arg - 1

\* Mutant: the child stays in the loop.
Kid_Stays(p) ==
  Process(p, IF program = "tree" THEN "exec" ELSE "fork", procs[p].level,
          procs[p].i + 1, procs[p].held)

\* The child: it executes the program anew, or leaves the loop.
Kid(p) ==
  Process(p, IF program = "tree" THEN "exec" ELSE "work", procs[p].level,
          procs[p].i, procs[p].held)

Fork(p) ==
  /\ procs[p].pc = "fork" /\ procs[p].i < s32CHDNo(p)
  /\ LET Parent(kid) == [procs EXCEPT ![p].i = @ + 1, ![p].kids = Append(@, kid)] IN
     \/ procs' = Append(Parent(Len(procs) + 1), Kid(p))
     \/ procs' = Parent(Failed)
  /\ UNCHANGED <<program, arg, terminal, shown>>

\* execlp() starts main() with the level below, or returns and the child fails.
Exec(p) ==
  /\ procs[p].pc = "exec"
  /\ \/ procs' = [procs EXCEPT ![p] = Process(@.parent, "fork", @.level - 1, 0, FALSE)]
     \/ procs' = [procs EXCEPT ![p].pc = "failed"]
  /\ UNCHANGED <<program, arg, terminal, shown>>

\* After the last fork() the process prints, works or sleeps, and exits: what it
\* still holds is written.
Exit(p) ==
  /\ \/ procs[p].pc = "work"
     \/ procs[p].pc = "fork" /\ procs[p].i >= s32CHDNo(p)
  /\ procs' = [procs EXCEPT ![p].pc = "exited", ![p].held = FALSE]
  /\ shown' = IF procs[p].held THEN shown + 1 ELSE shown
  /\ UNCHANGED <<program, arg, terminal>>

Ended == program # "none" /\ \A p \in Pids : procs[p].pc \in {"exited", "failed"}

Next ==
  \/ Start
  \/ \E p \in Pids : Fork(p) \/ Exec(p) \/ Exit(p)
  \/ (Ended /\ UNCHANGED vars)

Spec == Init /\ [][Next]_vars

-----------------------------------------------------------------------------
(* Properties *)

Wrong == \E p \in Pids : procs[p].pc = "failed" \/ \E k \in 1 .. Len(procs[p].kids) :
                           procs[p].kids[k] = Failed

(***************************************************************************)
(* tree.c makes a full binary tree of the levels it was asked for, unless  *)
(* a fork() or exec() fails; then the tree lacks branches, and nothing     *)
(* else.  fork.c and busyloop_rtfork.c have all their children from the    *)
(* first process, as many as were asked for; without the break of line 81  *)
(* it would be twice as many with each.                                    *)
(***************************************************************************)
TreeIsWhole ==
  /\ \A p \in Pids :
       /\ program # "tree" => procs[p].parent \in {0, 1}
       /\ program = "tree" /\ p > 1 => procs[p].level \in 0 .. arg
  /\ Ended =>
       /\ \A p \in Pids : procs[p].pc = "exited" =>
            /\ program = "tree" \/ p = 1 =>
                 Len(procs[p].kids) = IF s32CHDNo(p) > 0 THEN s32CHDNo(p) ELSE 0
            /\ program = "tree" => \A k \in 1 .. Len(procs[p].kids) :
                 LET kid == procs[p].kids[k] IN
                 kid # Failed /\ procs[kid].pc = "exited" =>
                   procs[kid].parent = p /\ procs[kid].level = procs[p].level - 1
       /\ ~Wrong =>
            Len(procs) = CASE program = "fork" -> 2
                           [] program = "tree" -> IF arg > 0 THEN 2 ^ (arg + 1) - 1 ELSE 1
                           [] OTHER -> IF arg > 1 THEN arg ELSE 1

(***************************************************************************)
(* What is printed before fork() comes out once on a terminal, and once    *)
(* for each process in a file or a pipe (fork.c:9, busyloop_rtfork.c:71).  *)
(***************************************************************************)
PrintedForEach ==
  Ended /\ program # "tree" /\ procs[1].pc = "exited" =>
    shown = IF terminal THEN 1 ELSE Len(procs)

\* Both: the processes there are, and what they have printed.
ForksAreSound == TreeIsWhole /\ PrintedForEach
=============================================================================
