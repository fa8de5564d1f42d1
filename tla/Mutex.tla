------------------------------- MODULE Mutex --------------------------------
(***************************************************************************)
(* What lock() and unlock() of studio11 promise to the OpenMP team that    *)
(* calls them (spinlock.c and sleeplock.c share main(), lines 65-79 and    *)
(* 78-92): every thread of the team enters the critical section once, and  *)
(* never while another one is inside.  How a thread waits is left open.    *)
(***************************************************************************)
CONSTANT Thread          \* the OpenMP team, one thread per processor

VARIABLE phase           \* where each thread is in the parallel region

Phase == {"waiting", "critical", "done"}

Init == phase = [t \in Thread |-> "waiting"]

\* lock() returns to t only when nobody is inside.
Acquire(t) ==
  /\ phase[t] = "waiting"
  /\ \A u \in Thread : phase[u] # "critical"
  /\ phase' = [phase EXCEPT ![t] = "critical"]

Release(t) ==
  /\ phase[t] = "critical"
  /\ phase' = [phase EXCEPT ![t] = "done"]

Next == \E t \in Thread : Acquire(t) \/ Release(t)

Spec == Init /\ [][Next]_phase
=============================================================================
