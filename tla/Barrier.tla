------------------------------- MODULE Barrier ------------------------------
(***************************************************************************)
(* What barrier_wait() of lab02/src/main.c promises, and the reusable      *)
(* barrier it counts in gs32passed: a thread that has entered for the n-th *)
(* time leaves only after all threads have entered n times.  The barrier   *)
(* opens in one step; threads then leave in any order, and may enter again *)
(* while others are still on their way out.                                *)
(***************************************************************************)
EXTENDS Naturals

CONSTANT Thread

VARIABLES
  entered,     \* how often each thread has entered
  inside,      \* the threads that have entered and not left
  opened       \* how often the barrier has opened

vars == <<entered, inside, opened>>

Init ==
  /\ entered = [t \in Thread |-> 0]
  /\ inside = {}
  /\ opened = 0

Enter(t) ==
  /\ t \notin inside
  /\ inside' = inside \cup {t}
  /\ entered' = [entered EXCEPT ![t] = @ + 1]
  /\ UNCHANGED opened

Open ==
  /\ inside = Thread
  /\ \A t \in Thread : entered[t] = opened + 1
  /\ opened' = opened + 1
  /\ UNCHANGED <<entered, inside>>

Leave(t) ==
  /\ t \in inside
  /\ entered[t] <= opened
  /\ inside' = inside \ {t}
  /\ UNCHANGED <<entered, opened>>

Next == Open \/ \E t \in Thread : Enter(t) \/ Leave(t)

Spec == Init /\ [][Next]_vars
=============================================================================
