----------------------------- MODULE MCPrograms -----------------------------
(***************************************************************************)
(* Instances of the programs for TLC: their inputs, small enough to try    *)
(* all, with what the code treats as special among them.                   *)
(***************************************************************************)
EXTENDS Programs

\* period_task: the last has more jobs than the int of the instance holds.
MCArguments ==
  [wcet : {1, 4}, period : {2, 3, 5}, duration : {1, 9}]
  \cup {[wcet |-> 1, period |-> 1, duration |-> 9]}

\* Sysfs: init, its two children and a grandchild.
MCParents == <<0, 0, 1, 3>>

\* Sockets: nothing, one character, a full buffer, and a text that quits.
MCTexts == {<< >>, <<"a">>, <<"b", "c">>, <<Quit, "d", "e">>}

\* ParallelMM: up to the sizes whose squares an unsigned does not hold.
MCMatrixSizes == {0, 1, 2, SqrtMax, SqrtMax + 1}

\* ProfilerInput: arguments and files that are right, wrong, and too short.
MCInputArguments ==
  [policy : {"RR", "FIFO", "OTHER", "unknown"}, round : {0, 2}, iter : {0, 3}, cnt : {0, 1}]

MCCfgFiles ==
  {<< >>} \cup {<<n>> : n \in -1 .. 3}
  \cup {<<n, prio>> : n \in -1 .. 4, prio \in {0, 5}}
  \cup {<<n, prio, prio2>> : n \in {0, 1, 2, 3, 4, 8}, prio \in {0, 5}, prio2 \in {0, 7, 100}}

\* Forks: the programs, with no process or level, one, and several.
MCCommands ==
  {<<"fork", 0>>, <<"tree", 0>>, <<"tree", 1>>, <<"tree", 2>>}
  \cup {<<"busyloop_rtfork", n>> : n \in 0 .. 4}
=============================================================================
