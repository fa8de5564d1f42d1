----------------------------- MODULE MCProfiler -----------------------------
(***************************************************************************)
(* Instances of Profiler for TLC: every build and policy with equal,       *)
(* falling and rising priorities, and what the repository ships.           *)
(***************************************************************************)
EXTENDS Profiler

Barriers == {"spin", "sleep", "pthread"}
Locks    == {"mutex", "spin"}

\* SCHED_OTHER takes the priorities as nice values, which decide nothing here.
OneRound ==
  {c \in [policy : {"OTHER", "FIFO", "RR"}, s32round : {1},
          as32prio : {<<1, 1>>, <<2, 1>>, <<1, 2>>},
          barrier : Barriers, lock : Locks] :
     /\ c.policy = "OTHER" => c.as32prio = <<1, 1>>
     /\ c.barrier = "sleep" => c.lock = "mutex"}

\* exp.cfg says "2 2 1": two threads per core, priorities 2 and 1.
ShippedPriorities(policies, barriers) ==
  [policy : policies, s32round : {2}, as32prio : {<<2, 1>>},
   barrier : barriers, lock : {"mutex"}]

AllConfigs == OneRound \cup ShippedPriorities({"FIFO"}, {"spin", "pthread"})

ShippedConfigs == ShippedPriorities({"RR"}, Barriers)
=============================================================================
