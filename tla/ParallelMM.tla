----------------------------- MODULE ParallelMM -----------------------------
(***************************************************************************)
(* studio03/parallel_dense_mm2.c: s32cnt times the same multiplication of  *)
(* two matrices, by the threads of an OpenMP loop.  All of them add to the *)
(* same C and stamp their times into the same strBefore and strAfter; a    *)
(* record is the difference of the two.  With VERIFY_PARALLEL, D is        *)
(* computed once more by one thread and compared.                          *)
(*                                                                         *)
(* All cells of C go the same way, so one stands for them; each product is *)
(* counted as 1.  "+=" is a load and a store.  The unit of time is a tick, *)
(* SEC of them a second.                                                   *)
(***************************************************************************)
EXTENDS Integers, FiniteSetsExt

CONSTANTS
  number,       \* of the threads of OpenMP
  Sizes,        \* sizes of the matrices
  Counts,       \* values of s32cnt
  SqrtMax,      \* sqrt_of_UINT32_MAX, 65536: its square is 0 as an unsigned
  SEC,          \* ticks a second
  MIN_INIT,     \* 0x7FFFFFFF in the code, in ticks
  Now,          \* the time when the loop starts
  MaxTime       \* bound: the latest time

Threads == 1 .. number

VARIABLES
  matrix_size, s32cnt,
  main,         \* where the serial part is
  pc,           \* where each thread is in the loop
  s32i,         \* its iteration
  left,         \* products it has yet to add to the cell
  reg,          \* what it has loaded from the cell
  C,            \* the cell
  now,
  strBefore, strAfter,
  ps32record,   \* the records
  s32min, s32max,
  began,        \* history: when each iteration began
  mixed         \* history: iterations whose stamps another one has overwritten

stamps == <<strBefore, strAfter, began, mixed>>
report == <<ps32record, s32min, s32max>>
vars == <<matrix_size, s32cnt, main, pc, s32i, left, reg, C, now, stamps, report>>

None == -1

Init ==
  /\ matrix_size = 0 /\ s32cnt = 0
  /\ main = "start"
  /\ pc = [t \in Threads |-> "idle"]
  /\ s32i = [t \in Threads |-> 0]
  /\ left = [t \in Threads |-> 0] /\ reg = [t \in Threads |-> 0]
  /\ C = 0 /\ now = Now
  /\ strBefore = 0 /\ strAfter = 0
  /\ ps32record = << >>
  /\ s32min = MIN_INIT /\ s32max = 0
  /\ began = << >> /\ mixed = {}

\* The static schedule: thread t gets the iterations First(t) .. First(t + 1) - 1.
First(t) ==
  LET most == s32cnt % number
  IN  (t - 1) * (s32cnt \div number) + (IF t - 1 < most THEN t - 1 ELSE most)

\* An unsigned product.
squared_size == (matrix_size * matrix_size) % (SqrtMax * SqrtMax)

\* The loops use elements of matrices that have none.
NoElements == matrix_size > 0 /\ squared_size = 0

\* The arguments are read and the matrices filled.  A size too large is rejected;
\* a size equal to the limit is not, and its matrices have no elements.
Generate ==
  /\ main = "start"
  /\ matrix_size' \in Sizes /\ s32cnt' \in Counts
  /\ ps32record' = [i \in 0 .. s32cnt' - 1 |-> None] /\ began' = ps32record'
  /\ main' = IF matrix_size' > SqrtMax THEN "rejected" ELSE "loop"
  /\ UNCHANGED <<pc, s32i, left, reg, C, now, strBefore, strAfter, mixed, s32min, s32max>>

\* The threads divide the iterations among them.
Divide ==
  /\ main = "loop" /\ \A t \in Threads : pc[t] = "idle"
  /\ s32i' = [t \in Threads |-> First(t)]
  /\ pc' = [t \in Threads |-> IF First(t) < First(t + 1) THEN "before" ELSE "done"]
  /\ UNCHANGED <<matrix_size, s32cnt, main, left, reg, C, now, stamps, report>>

-----------------------------------------------------------------------------
(* An iteration *)

Goto(t, from, to) == pc[t] = from /\ pc' = [pc EXCEPT ![t] = to]

\* The other iterations that are between their stamps and their record.
Open(t) == {s32i[u] : u \in {v \in Threads \ {t} : pc[v] \notin {"idle", "before", "done"}}}

\* Mutant: the innermost loop runs up to matrix_size.
StampBefore_OneMore(t) ==
  /\ Goto(t, "before", IF NoElements THEN "outside" ELSE "load")
  /\ strBefore' = now
  /\ began' = [began EXCEPT ![s32i[t]] = now]
  /\ left' = [left EXCEPT ![t] = matrix_size + 1]
  /\ mixed' = IF Open(t) = {} THEN mixed ELSE mixed \cup Open(t) \cup {s32i[t]}
  /\ UNCHANGED <<matrix_size, s32cnt, main, s32i, reg, C, now, strAfter, report>>

StampBefore(t) ==
  /\ Goto(t, "before", IF matrix_size = 0 THEN "after"
                       ELSE IF NoElements THEN "outside" ELSE "load")
  /\ strBefore' = now
  /\ began' = [began EXCEPT ![s32i[t]] = now]
  /\ left' = [left EXCEPT ![t] = matrix_size]
  /\ mixed' = IF Open(t) = {} THEN mixed ELSE mixed \cup Open(t) \cup {s32i[t]}
  /\ UNCHANGED <<matrix_size, s32cnt, main, s32i, reg, C, now, strAfter, report>>

LoadCell(t) ==
  /\ Goto(t, "load", "store")
  /\ reg' = [reg EXCEPT ![t] = C]
  /\ UNCHANGED <<matrix_size, s32cnt, main, s32i, left, C, now, stamps, report>>

StoreCell(t) ==
  /\ Goto(t, "store", IF left[t] = 1 THEN "after" ELSE "load")
  /\ C' = reg[t] + 1
  /\ left' = [left EXCEPT ![t] = @ - 1]
  /\ UNCHANGED <<matrix_size, s32cnt, main, s32i, reg, now, stamps, report>>

StampAfter(t) ==
  /\ Goto(t, "after", "record")
  /\ strAfter' = now
  /\ UNCHANGED <<matrix_size, s32cnt, main, s32i, left, reg, C, now, strBefore, began,
                 mixed, report>>

\* tv_sec counts 10e9 nanoseconds: ten seconds for one.
Elapsed(from, to) ==
  (to \div SEC - from \div SEC) * 10 * SEC + ((to % SEC) - (from % SEC))

Record(t) ==
  /\ Goto(t, "record", IF s32i[t] + 1 < First(t + 1) THEN "before" ELSE "done")
  /\ ps32record' = [ps32record EXCEPT ![s32i[t]] = Elapsed(strBefore, strAfter)]
  /\ s32i' = [s32i EXCEPT ![t] = @ + 1]
  /\ UNCHANGED <<matrix_size, s32cnt, main, left, reg, C, now, stamps, s32min, s32max>>

Tick ==
  /\ main = "loop" /\ now < MaxTime
  /\ now' = now + 1
  /\ UNCHANGED <<matrix_size, s32cnt, main, pc, s32i, left, reg, C, stamps, report>>

-----------------------------------------------------------------------------
(* After the loop *)

AllDone == main = "loop" /\ \A t \in Threads : pc[t] = "done"

\* With VERIFY_PARALLEL the program aborts unless C is what one multiplication
\* gives, which is computed now.
Verify ==
  /\ AllDone
  /\ main' = IF NoElements THEN "outside"
             ELSE IF C = matrix_size THEN "verified" ELSE "aborted"
  /\ UNCHANGED <<matrix_size, s32cnt, pc, s32i, left, reg, C, now, stamps, report>>

\* Without, it goes on.
NoVerify ==
  /\ AllDone
  /\ main' = "report"
  /\ UNCHANGED <<matrix_size, s32cnt, pc, s32i, left, reg, C, now, stamps, report>>

Records == {ps32record[i] : i \in DOMAIN ps32record}

\* The least record, if it is at most the first s32min, and the greatest.
Report ==
  /\ main \in {"verified", "report"} /\ main' = "exited"
  /\ s32min' = Min(Records \cup {s32min})
  /\ s32max' = Max(Records \cup {s32max})
  /\ UNCHANGED <<matrix_size, s32cnt, pc, s32i, left, reg, C, now, stamps, ps32record>>

Thread(t) == StampBefore(t) \/ LoadCell(t) \/ StoreCell(t) \/ StampAfter(t) \/ Record(t)
Outside == main = "outside" \/ \E t \in Threads : pc[t] = "outside"
Ended == main \in {"rejected", "aborted", "exited"} \/ Outside

Next ==
  \/ Generate \/ Divide \/ Tick \/ Verify \/ NoVerify \/ Report
  \/ \E t \in Threads : Thread(t)
  \/ (Ended /\ UNCHANGED vars)

Spec == Init /\ [][Next]_vars

-----------------------------------------------------------------------------
(* Properties *)

(***************************************************************************)
(* VERIFY_PARALLEL (lines 101-113) never aborts a single multiplication;   *)
(* it passes several only if they ran at the same time and have lost so    *)
(* many additions that C is left as after one: it confirms no result that  *)
(* is right, and aborts if there was none to confirm.  No element outside  *)
(* of the matrices is used unless the size is the limit itself, whose      *)
(* square is 0 (lines 58-63).                                              *)
(***************************************************************************)
VerifyTellsLost ==
  /\ main = "aborted" => s32cnt # 1
  /\ main = "verified" /\ matrix_size > 0 => s32cnt = 1 \/ mixed # {}
  /\ AllDone => C <= s32cnt * matrix_size /\ (s32cnt = 1 => C = matrix_size)
  /\ Outside => matrix_size = SqrtMax

(***************************************************************************)
(* A record is the time its iteration took, plus nine seconds for each     *)
(* second that began meanwhile (line 96), if no other iteration ran at the *)
(* time; only then are the stamps of lines 86 and 95 its own.  The least   *)
(* record that is reported is the least only if that is below 0x7FFFFFFF.  *)
(***************************************************************************)
TimesAreOwn ==
  /\ \A t \in Threads :
       pc[t] = "record" /\ s32i[t] \notin mixed =>
         Elapsed(strBefore, strAfter) =
           (strAfter - began[s32i[t]]) + 9 * SEC * (strAfter \div SEC - began[s32i[t]] \div SEC)
  /\ main = "exited" =>
       (s32min \in Records <=> \E r \in Records : r <= MIN_INIT)

\* Both: what was computed, and how long it took.
RunIsMeasured == VerifyTellsLost /\ TimesAreOwn
=============================================================================
