-------------------------------- MODULE Sort --------------------------------
(***************************************************************************)
(* studio03/test_programs/sort.c: quicksort of an array of doubles with a  *)
(* random pivot.  quicksort() takes the last index of a slice, and main()  *)
(* calls it with the size of the array: the double behind the array is     *)
(* sorted along.  The numbers of the array are whole (rand()), that double *)
(* may have a fraction, which swap() drops when it passes its temporary,   *)
(* an unsigned.  A number is given in tenths.                              *)
(***************************************************************************)
EXTENDS Integers, Sequences, FiniteSets

CONSTANTS
  Sizes,        \* sizes of the array
  Values,       \* what rand() may return, in tenths
  Strays        \* what may lie behind the array

VARIABLES
  array_size,
  A,            \* the array and the double behind it: A[0], ..., A[array_size]
  Before,       \* history: what that was before
  calls         \* the slices still to be sorted, the next one first

vars == <<array_size, A, Before, calls>>

None == -1

Init ==
  /\ array_size = None
  /\ A = << >> /\ Before = << >> /\ calls = << >>

\* The size is read and the array filled, up to its end.
Generate ==
  /\ array_size = None /\ array_size' \in Sizes
  /\ \E own \in [0 .. array_size' - 1 -> Values], stray \in Strays :
       A' = [i \in 0 .. array_size' |-> IF i = array_size' THEN stray ELSE own[i]]
  /\ Before' = A'
  /\ calls' = << <<0, array_size'>> >>

\* Conversion from double to unsigned.
Truncate(x) == (x \div 10) * 10

\* Mutant: temp is set after *a.
swap_TempLate(S, a, b) == [[S EXCEPT ![a] = S[b]] EXCEPT ![b] = Truncate(S[b])]

\* *a is kept in an unsigned before it goes to b.
swap(S, a, b) == [[S EXCEPT ![a] = S[b]] EXCEPT ![b] = Truncate(S[a])]

\* The loop, before each index and at its end: the array, and the place for the next
\* number that is not greater than pivot_val.
Walk(S, start, end, pivot_val) ==
  LET walk[index \in start .. end] ==
        IF index = start THEN [S |-> S, target |-> start]
        ELSE LET w == walk[index - 1] IN
             IF w.S[index - 1] <= pivot_val
             THEN [S |-> swap(w.S, w.target, index - 1), target |-> w.target + 1]
             ELSE w
  IN  walk

\* Where the slice start .. end is divided, and what it has become by then.
partition(S, start, end, pivot) ==
  LET P == swap(S, pivot, end)
      w == Walk(P, start, end, Truncate(P[end]))[end]
  IN  [A |-> swap(w.S, w.target, end), target |-> w.target]

\* One call: the pivot is any element but the last.
quicksort ==
  /\ calls # << >>
  /\ LET start == Head(calls)[1]
         end == Head(calls)[2]
     IN  IF start >= end THEN calls' = Tail(calls) /\ UNCHANGED A
         ELSE \E pivot \in start .. end - 1 :
                LET p == partition(A, start, end, pivot)
                    lower == IF p.target > start THEN << <<start, p.target - 1>> >> ELSE << >>
                    upper == IF p.target < end THEN << <<p.target + 1, end>> >> ELSE << >>
                IN  A' = p.A /\ calls' = lower \o upper \o Tail(calls)
  /\ UNCHANGED <<array_size, Before>>

Done == array_size # None /\ calls = << >> /\ UNCHANGED vars

Next == Generate \/ quicksort \/ Done

Spec == Init /\ [][Next]_vars

-----------------------------------------------------------------------------
(* Properties *)

Count(S, x) == Cardinality({i \in DOMAIN S : S[i] = x})

SameNumbers(S, T) ==
  \A x \in {S[i] : i \in DOMAIN S} \cup {T[i] : i \in DOMAIN T} : Count(S, x) = Count(T, x)

(***************************************************************************)
(* The array is sorted in the end, with the double behind it as one more   *)
(* number, which at most loses its fraction (line 27): so the array keeps  *)
(* its own numbers if and only if none of them is greater than that        *)
(* double.  No call reaches beyond it.                                     *)
(***************************************************************************)
SortsOneMore ==
  array_size # None =>
  /\ DOMAIN A = 0 .. array_size
  /\ \A k \in 1 .. Len(calls) :
       calls[k][1] \in 0 .. array_size /\ calls[k][2] \in 0 .. array_size
  /\ calls = << >> =>
       LET stray == Before[array_size]
           own == [i \in 0 .. array_size - 1 |-> A[i]]
           ownBefore == [i \in 0 .. array_size - 1 |-> Before[i]]
       IN  /\ \A i \in 1 .. array_size : A[i - 1] <= A[i]
           /\ \/ SameNumbers(A, Before)
              \/ SameNumbers(A, [Before EXCEPT ![array_size] = Truncate(stray)])
           /\ SameNumbers(own, ownBefore) <=> \A i \in DOMAIN own : Before[i] <= stray
=============================================================================
