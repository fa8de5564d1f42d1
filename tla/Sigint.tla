------------------------------- MODULE Sigint -------------------------------
(***************************************************************************)
(* studio12: programs that are interrupted with Control-C.  print5000.c    *)
(* (and print5000_2.c, which calls write() in place of printf()) marks the *)
(* values of its loop counter at which the handler ran, and reports them   *)
(* in a second loop over the same counter.  dense_mm_sig.c counts the      *)
(* signals while it multiplies matrices.                                   *)
(*                                                                         *)
(* A signal that arrives while one is pending merges with it.  The handler *)
(* runs with its own signal blocked, so it is one step.                    *)
(***************************************************************************)
EXTENDS Integers, FiniteSets

CONSTANTS
  size,         \* 5000 in the code
  Work,         \* steps of the matrix multiplication
  MaxSent       \* bound: signals the user sends

VARIABLES
  code,         \* the program, once it is known: "print5000" or "dense_mm_sig"
  pc,           \* where main() is
  i,            \* the loop counter
  called,       \* the indices marked; size is the int behind the array
  reported,     \* what the second loop has printed
  gs32total,    \* signals counted
  printed,      \* the count dense_mm_sig has printed
  pending,      \* a signal is pending
  sent,         \* signals sent
  hits          \* history: for each loop, the values of i that were interrupted

vars == <<code, pc, i, called, reported, gs32total, printed, pending, sent, hits>>

None == -1

Init ==
  /\ code = "none" /\ pc = "start"
  /\ i = 0 /\ called = {} /\ reported = {}
  /\ gs32total = 0 /\ printed = None
  /\ pending = FALSE /\ sent = 0
  /\ hits = [p \in {"print", "test", "next"} |-> {}]

Ended == pc \in {"killed", "exited"}

-----------------------------------------------------------------------------
(* The user and the handlers *)

Send ==
  /\ ~Ended /\ sent < MaxSent
  /\ sent' = sent + 1 /\ pending' = TRUE
  /\ UNCHANGED <<code, pc, i, called, reported, gs32total, printed, hits>>

\* Without a handler the signal ends the process.
DefaultAction ==
  /\ pending /\ pc = "start"
  /\ pending' = FALSE /\ pc' = "killed"
  /\ UNCHANGED <<code, i, called, reported, gs32total, printed, sent, hits>>

\* Mutant: i is not volatile, so memory still has its first value.
sigint_handler_NotVolatile ==
  /\ pending /\ code = "print5000" /\ pc \in {"print", "test", "next"}
  /\ pending' = FALSE
  /\ called' = called \cup {0}
  /\ hits' = [hits EXCEPT ![pc] = @ \cup {i}]
  /\ UNCHANGED <<code, pc, i, reported, gs32total, printed, sent>>

sigint_handler ==
  /\ pending /\ code = "print5000" /\ pc \in {"print", "test", "next"}
  /\ pending' = FALSE
  /\ called' = called \cup {i}
  /\ hits' = [hits EXCEPT ![pc] = @ \cup {i}]
  /\ UNCHANGED <<code, pc, i, reported, gs32total, printed, sent>>

work ==
  /\ pending /\ code = "dense_mm_sig" /\ pc \in {"arguments", "multiply", "return"}
  /\ pending' = FALSE
  /\ gs32total' = gs32total + 1
  /\ UNCHANGED <<code, pc, i, called, reported, printed, sent, hits>>

-----------------------------------------------------------------------------
(* main() *)

\* sigaction(); i is still 0.
Sigaction ==
  /\ pc = "start"
  /\ \/ code' = "print5000" /\ pc' = "print"
     \/ code' = "dense_mm_sig" /\ pc' = "arguments"
  /\ UNCHANGED <<i, called, reported, gs32total, printed, pending, sent, hits>>

\* print5000 does not test for its failure; dense_mm_sig ends.
SigactionFails ==
  /\ pc = "start"
  /\ code' = "dense_mm_sig" /\ pc' = "exited"
  /\ UNCHANGED <<i, called, reported, gs32total, printed, pending, sent, hits>>

\* dense_mm_sig generates its matrices, or rejects the command line.
ReadArguments ==
  /\ pc = "arguments" /\ pc' \in {"multiply", "exited"}
  /\ UNCHANGED <<code, i, called, reported, gs32total, printed, pending, sent, hits>>

\* The first loop prints i and increments it ...
PrintLine ==
  /\ pc = "print" /\ i < size
  /\ i' = i + 1
  /\ UNCHANGED <<code, pc, called, reported, gs32total, printed, pending, sent, hits>>

\* ... and is left when i is size; until then a signal finds that value.
LeaveLoop ==
  /\ pc = "print" /\ i = size
  /\ pc' = "test" /\ i' = 0
  /\ UNCHANGED <<code, called, reported, gs32total, printed, pending, sent, hits>>

\* The second loop tests the mark at i ...
TestMark ==
  /\ pc = "test" /\ i < size
  /\ pc' = "next"
  /\ reported' = reported \cup ({i} \cap called)
  /\ UNCHANGED <<code, i, called, gs32total, printed, pending, sent, hits>>

Increment ==
  /\ pc = "next"
  /\ pc' = "test" /\ i' = i + 1
  /\ UNCHANGED <<code, called, reported, gs32total, printed, pending, sent, hits>>

\* ... and the program ends.
Return ==
  /\ pc = "test" /\ i = size
  /\ pc' = "exited"
  /\ UNCHANGED <<code, i, called, reported, gs32total, printed, pending, sent, hits>>

Multiply ==
  /\ pc = "multiply" /\ i < Work
  /\ i' = i + 1
  /\ UNCHANGED <<code, pc, called, reported, gs32total, printed, pending, sent, hits>>

PrintCount ==
  /\ pc = "multiply" /\ i = Work
  /\ pc' = "return"
  /\ printed' = gs32total
  /\ UNCHANGED <<code, i, called, reported, gs32total, pending, sent, hits>>

ReturnCount ==
  /\ pc = "return"
  /\ pc' = "exited"
  /\ UNCHANGED <<code, i, called, reported, gs32total, printed, pending, sent, hits>>

Next ==
  \/ Send \/ DefaultAction \/ sigint_handler \/ work
  \/ Sigaction \/ SigactionFails \/ ReadArguments
  \/ PrintLine \/ LeaveLoop \/ TestMark \/ Increment \/ Return
  \/ Multiply \/ PrintCount \/ ReturnCount
  \/ (Ended /\ UNCHANGED vars)

Spec == Init /\ [][Next]_vars

-----------------------------------------------------------------------------
(* Properties *)

(***************************************************************************)
(* When print5000 ends, it has reported every line that was interrupted,   *)
(* and no other: an index hit in the second loop counts if it was hit      *)
(* before its own test, or had been hit in the first loop.  The int behind *)
(* called[] is written exactly when a signal came while i was size.        *)
(***************************************************************************)
InterruptsReported ==
  /\ code = "print5000" /\ pc = "exited" =>
       reported = (hits["print"] \cup hits["test"]) \ {size}
  /\ size \in called <=> size \in hits["print"] \cup hits["test"]
  /\ called \subseteq 0 .. size

(***************************************************************************)
(* dense_mm_sig counts no signal that was not sent, and loses none but by  *)
(* merging: what was sent is counted, pending, or has ended the process.   *)
(***************************************************************************)
CountIsHonest ==
  code = "dense_mm_sig" =>
    /\ printed <= gs32total
    /\ gs32total + (IF pending THEN 1 ELSE 0) <= sent
    /\ sent > 0 => gs32total > 0 \/ pending \/ pc = "killed"

SignalsTold == InterruptsReported /\ CountIsHonest
=============================================================================
