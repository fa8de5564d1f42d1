---------------------------- MODULE ProgramsProofs ---------------------------
(***************************************************************************)
(* Proofs about the programs that run by themselves, one section each: for *)
(* all the inputs that the assumptions of Programs allow.  An invariant of *)
(* a program is one of all of them, since the others leave it alone.       *)
(***************************************************************************)
EXTENDS Programs, FiniteSetTheorems, WellFoundedInduction, TLAPS

-----------------------------------------------------------------------------
\* A set of natural numbers has a least element.
LEMMA LeastNumber ==
  ASSUME NEW S, S \subseteq Nat, S # {}
  PROVE  \E x \in S : \A y \in S : x <= y
<1>1. \E x \in S : \A y \in S : ~ (<<y, x>> \in OpToRel(<, Nat))
  BY NatLessThanWellFounded, WFMin, Zenon
<1>2. \A x, y \in Nat : x < y => <<x, y>> \in OpToRel(<, Nat)
  BY Zenon DEF OpToRel
<1>3. \A x \in S, y \in S : y < x => <<y, x>> \in OpToRel(<, Nat)
  BY <1>2, Zenon
<1>4. \E x \in S : \A y \in S : ~ (y < x)
  BY <1>1, <1>3, Zenon
<1> QED
  BY <1>4

-----------------------------------------------------------------------------
(* The periodic task *)

LEMMA PeriodFrame == ProgramsSpec => Init /\ [][Next]_vars
<1>1. ProgramsInit => Init
  BY DEF ProgramsInit
<1>2. [ProgramsNext]_allvars => [Next]_vars
  BY DEF ProgramsNext, Runs, allvars, vars, timer, records
<1> QED
  BY <1>1, <1>2, PTL DEF ProgramsSpec

(* The inductive invariant: besides Safety, what is known of the signal that
   is pending, of the job that is running, and of the records so far *)

BeforeTimer ==
  pc \in {"start", "gettime", "stamp", "arm", "failed"} =>
    expiries = 0 /\ pending = None /\ data = << >>

PendingIsDue ==
  pending # None =>
    /\ pending < expiries /\ now >= Release(pending)
    /\ \A j \in 1 .. Len(data) : data[j].release < pending

\* No job has finished in the future, and none is taken before its turn.
RecordsArePast ==
  \A j \in 1 .. Len(data) : data[j].finish <= now /\ data[j].release >= j - 1

JobTakesItsTime == pc = "work" => now + left >= data[idx + 1].dispatch + arg.wcet

ReportIsMade ==
  /\ pc \in {"sleep", "exited"} => idx >= count
  /\ pc = "exited" => miss = misses

\* The report's start is later than the timer's by stolen time only.
SkewIsStolen ==
  /\ pc = "stamp" => now + SECOND - first \in 0 .. stolen
  /\ pc \in {"arm", "suspend", "work", "sleep", "exited", "outside"} =>
       start_time - first \in 0 .. stolen

PeriodInv ==
  /\ TypeOK /\ (pc # "start" => arg \in Arguments)
  /\ BeforeTimer /\ PendingIsDue /\ RecordsArePast /\ JobTakesItsTime
  /\ JobsInOrder /\ RecordsFit /\ ReportIsMade /\ SkewIsStolen

-----------------------------------------------------------------------------
(* Lemmas on the arithmetic *)

LEMMA Quotient ==
  ASSUME NEW a \in Nat, NEW p \in Nat \ {0}
  PROVE  a \div p \in Nat /\ \A m \in Nat : a < m * p => a \div p < m
  OBVIOUS

LEMMA Remainder ==
  ASSUME NEW a \in Nat, NEW p \in Nat \ {0}
  PROVE  a % p \in Nat /\ a % p <= a /\ (a < p => a % p = a)
  OBVIOUS

LEMMA Multiples ==
  ASSUME NEW a \in Nat, NEW b \in Nat, a <= b, NEW p \in Int
  PROVE  (p >= 0 => a * p <= b * p) /\ (p < 0 => b * p <= a * p)
  OBVIOUS

\* An int never holds more than what is put into it, unless that is negative.
LEMMA WrappedInt ==
  ASSUME NEW n \in Int, NEW limit \in Nat \ {0}
  PROVE  Wrapped(n, limit) \in Int /\ (n \in Nat => Wrapped(n, limit) <= n)
<1>1. 2 * limit \in Nat \ {0} /\ n + limit \in Int
  OBVIOUS
<1>2. (n + limit) % (2 * limit) \in Int
  BY <1>1
<1>3. n \in Nat => (n + limit) % (2 * limit) <= n + limit
  BY <1>1, Remainder
<1> QED
  BY <1>2, <1>3 DEF Wrapped

\* The command line has been read: what is computed from it.
LEMMA WhatIsComputed ==
  ASSUME arg \in Arguments, first \in Nat
  PROVE  /\ arg.wcet \in Nat \ {0} /\ arg.period \in Nat \ {0} /\ arg.duration \in Nat \ {0}
         /\ count \in Int /\ step \in Int
         /\ \A k \in Nat : Release(k) \in Nat
         /\ Release(0) = first
         /\ arg.duration <= MAX * arg.period => count <= MAX
<1>1. arg.wcet \in Nat \ {0} /\ arg.period \in Nat \ {0} /\ arg.duration \in Nat \ {0}
  BY ArgumentsAssumption
<1>2. arg.duration - 1 \in Nat /\ MAX \in Nat /\ {COUNT_LIMIT, INT_LIMIT} \subseteq Nat \ {0}
  BY <1>1, LimitsAssumption
<1> DEFINE jobs == (arg.duration - 1) \div arg.period + 1
<1>7. jobs \in Nat /\ (arg.duration <= MAX * arg.period => jobs <= MAX)
  BY <1>1, <1>2, Quotient
<1>8. count = Wrapped(jobs, COUNT_LIMIT)
  BY DEF count
<1> HIDE DEF jobs
<1>3. count \in Int /\ count <= jobs
  BY <1>2, <1>7, <1>8, WrappedInt
<1>4. arg.duration <= MAX * arg.period => count <= MAX
  BY <1>2, <1>3, <1>7
<1>5. step \in Int
  BY <1>1, <1>2, WrappedInt DEF step
<1>6. \A k \in Nat : k * arg.period \in Nat
  BY <1>1
<1> QED
  BY <1>1, <1>3, <1>4, <1>5, <1>6 DEF Release

LEMMA MissesType == ASSUME count \in Int PROVE misses \in Nat
<1> DEFINE M == {j \in 1 .. count : data[j].finish > (start_time + j * step) % TICK_LIMIT}
<1>1. M \in SUBSET (1 .. count)
  OBVIOUS
<1>2. IsFiniteSet(1 .. count)
  BY FS_Interval
<1>3. IsFiniteSet(M)
  BY <1>1, <1>2, FS_Subset
<1> QED
  BY <1>3, FS_CardinalityType DEF misses

LEMMA FieldsOfRecords ==
  ASSUME TypeOK, NEW j \in 1 .. Len(data)
  PROVE  data[j].release \in Nat /\ data[j].dispatch \in Nat /\ data[j].finish \in Int
<1> DEFINE Rec == [release : Nat, dispatch : Nat, finish : Nat \cup {None}]
<1>1. data \in Seq(Rec)
  BY DEF TypeOK
<1>2. data[j] \in Rec
  <2> HIDE DEF Rec
  <2> QED
    BY <1>1
<1> QED
  BY <1>2 DEF None

-----------------------------------------------------------------------------
(* It holds at first, and every step preserves it *)

LEMMA PeriodInit == Init => PeriodInv
<1> SUFFICES ASSUME Init PROVE PeriodInv
  OBVIOUS
<1> USE DEF Init, timer, records, None
<1>1. TypeOK
  BY DEF TypeOK
<1>2. JobsInOrder /\ RecordsFit /\ RecordsArePast
  BY DEF JobsInOrder, RecordsFit, RecordsArePast
<1> QED
  BY <1>1, <1>2 DEF PeriodInv, BeforeTimer, PendingIsDue, JobTakesItsTime, ReportIsMade,
                    SkewIsStolen

LEMMA StartStep == PeriodInv /\ Start => PeriodInv'
<1> SUFFICES ASSUME PeriodInv, Start PROVE PeriodInv'
  OBVIOUS
<1> USE DEF PeriodInv, Start, timer, records, None
<1>1. data = << >> /\ pending = -1 /\ expiries = 0
  BY DEF BeforeTimer
<1>2. TypeOK'
  BY LimitsAssumption DEF TypeOK
<1>3. JobsInOrder' /\ RecordsFit' /\ RecordsArePast'
  BY <1>1 DEF JobsInOrder, RecordsFit, RecordsArePast
<1>4. arg' \in Arguments /\ BeforeTimer' /\ PendingIsDue'
  BY <1>1 DEF BeforeTimer, PendingIsDue
<1> QED
  BY <1>2, <1>3, <1>4 DEF JobTakesItsTime, ReportIsMade, SkewIsStolen

LEMMA ClockGettimeStep == PeriodInv /\ ClockGettime => PeriodInv'
<1> SUFFICES ASSUME PeriodInv, ClockGettime PROVE PeriodInv'
  OBVIOUS
<1> USE DEF PeriodInv, ClockGettime, timer, records, None
<1>1. data = << >> /\ pending = -1 /\ expiries = 0
  BY DEF BeforeTimer
<1>2. TypeOK'
  BY LimitsAssumption DEF TypeOK
<1>3. JobsInOrder' /\ RecordsFit' /\ RecordsArePast'
  BY <1>1 DEF JobsInOrder, RecordsFit, RecordsArePast
<1>4. arg' \in Arguments /\ BeforeTimer' /\ PendingIsDue'
  BY <1>1 DEF BeforeTimer, PendingIsDue
<1>5. SkewIsStolen'
  <2>1. now \in Nat /\ SECOND \in Nat /\ stolen \in Nat
    BY LimitsAssumption DEF TypeOK
  <2>2. pc' = "stamp" /\ stolen' = stolen /\ now' + SECOND - first' = 0
    BY <2>1
  <2> QED
    BY <2>1, <2>2 DEF SkewIsStolen
<1> QED
  BY <1>2, <1>3, <1>4, <1>5 DEF JobTakesItsTime, ReportIsMade

LEMMA ReadRdtscStep == PeriodInv /\ ReadRdtsc => PeriodInv'
<1> SUFFICES ASSUME PeriodInv, ReadRdtsc PROVE PeriodInv'
  OBVIOUS
<1> USE DEF PeriodInv, ReadRdtsc, timer, records, None
<1>1. data = << >> /\ pending = -1 /\ expiries = 0
  BY DEF BeforeTimer
<1>2. TypeOK'
  BY LimitsAssumption DEF TypeOK
<1>3. JobsInOrder' /\ RecordsFit' /\ RecordsArePast'
  BY <1>1 DEF JobsInOrder, RecordsFit, RecordsArePast
<1>4. arg' \in Arguments /\ BeforeTimer' /\ PendingIsDue'
  BY <1>1 DEF BeforeTimer, PendingIsDue
<1>5. SkewIsStolen'
  <2>1. pc' = "arm" /\ now + SECOND - first \in 0 .. stolen
    BY DEF SkewIsStolen
  <2>3. now \in Nat /\ SECOND \in Nat /\ first \in Nat /\ stolen \in Nat
    BY LimitsAssumption DEF TypeOK
  <2>2. start_time' = now + SECOND /\ first' = first /\ stolen' = stolen
    OBVIOUS
  <2> HIDE DEF PeriodInv, ReadRdtsc
  <2> QED
    BY <2>1, <2>2, <2>3 DEF SkewIsStolen
<1> QED
  BY <1>2, <1>3, <1>4, <1>5 DEF JobTakesItsTime, ReportIsMade

LEMMA TimerSettimeStep == PeriodInv /\ TimerSettime => PeriodInv'
<1> SUFFICES ASSUME PeriodInv, TimerSettime PROVE PeriodInv'
  OBVIOUS
<1> USE DEF PeriodInv, TimerSettime, timer, records, None
<1>1. data = << >> /\ pending = -1 /\ expiries = 0
  BY DEF BeforeTimer
<1>2. arg \in Arguments /\ first \in Nat /\ now \in Nat
  BY DEF TypeOK
<1>3. now >= first => (now - first) \div arg.period \in Nat
  BY <1>2, WhatIsComputed, Quotient
<1>4. TypeOK'
  BY <1>1, <1>2, <1>3 DEF TypeOK
<1>5. JobsInOrder' /\ RecordsFit' /\ RecordsArePast'
  BY <1>1 DEF JobsInOrder, RecordsFit, RecordsArePast
<1>6. first' = first /\ arg' = arg /\ now' = now /\ data' = << >>
  BY <1>1
<1>7. Release(0)' = first
  BY <1>2, <1>6, WhatIsComputed DEF Release
<1>8. PendingIsDue'
  BY <1>1, <1>2, <1>3, <1>6, <1>7 DEF PendingIsDue
<1>9. SkewIsStolen'
  BY <1>6 DEF SkewIsStolen
<1> QED
  BY <1>2, <1>4, <1>5, <1>8, <1>9 DEF BeforeTimer, JobTakesItsTime, ReportIsMade

LEMMA EnterWorkStep == PeriodInv /\ EnterWork => PeriodInv'
<1> SUFFICES ASSUME PeriodInv, EnterWork PROVE PeriodInv'
  OBVIOUS
<1>1. /\ TypeOK /\ arg \in Arguments /\ BeforeTimer /\ PendingIsDue /\ RecordsArePast
      /\ JobsInOrder /\ RecordsFit
  BY DEF PeriodInv, EnterWork
<1>2. /\ first \in Nat /\ now \in Nat /\ idx \in Nat /\ expiries \in Nat
      /\ pending \in Nat /\ pending # None /\ Len(data) = idx
  BY <1>1 DEF TypeOK, EnterWork, None
<1>3. /\ pc = "suspend" /\ pending' = None
      /\ arg' = arg /\ first' = first /\ now' = now /\ expiries' = expiries /\ idx' = idx
  BY DEF EnterWork
<1>4. /\ arg.wcet \in Nat \ {0} /\ count \in Int
      /\ arg.duration <= MAX * arg.period => count <= MAX
      /\ \A k \in Nat : Release(k) \in Nat
  BY <1>1, <1>2, WhatIsComputed
<1>5. MAX \in Nat /\ 2 * SECOND \in Nat
  BY LimitsAssumption
<1>6. count' = count /\ \A k : Release(k)' = Release(k)
  BY <1>3 DEF count, Release
<1>7. /\ pending < expiries /\ now >= Release(pending) /\ idx <= pending
      /\ \A j \in 1 .. idx : data[j].release < pending
  <2>1. /\ pending < expiries /\ now >= Release(pending)
        /\ \A j \in 1 .. idx : data[j].release < pending
    <3>1. PendingIsDue
      BY <1>1
    <3> QED
      BY <3>1, <1>2 DEF PendingIsDue
  <2>2. idx > 0 => data[idx].release >= idx - 1 /\ data[idx].release \in Nat
    BY <1>1, <1>2, FieldsOfRecords DEF RecordsArePast
  <2> QED
    BY <2>1, <2>2, <1>2
<1>8. PendingIsDue' /\ BeforeTimer'
  BY <1>3 DEF PendingIsDue, BeforeTimer, EnterWork
<1>13. SkewIsStolen'
  BY DEF PeriodInv, SkewIsStolen, EnterWork
<1>9. ASSUME data' = data, pc' \in {"sleep", "outside"},
             pc' = "sleep" => idx >= count, pc' = "outside" => MAX <= idx /\ ~(idx >= count),
             left' \in Nat
      PROVE  PeriodInv'
  <2>1. TypeOK'
    BY <1>1, <1>2, <1>3, <1>9 DEF TypeOK, EnterWork
  <2>2. JobsInOrder'
    BY <1>1, <1>2, <1>3, <1>6, <1>9 DEF JobsInOrder
  <2>3. RecordsArePast'
    BY <1>1, <1>3, <1>9 DEF RecordsArePast
  <2>4. RecordsFit'
    BY <1>2, <1>3, <1>4, <1>5, <1>9 DEF RecordsFit
  <2> QED
    BY <2>1, <2>2, <2>3, <2>4, <1>1, <1>3, <1>6, <1>8, <1>9, <1>13
    DEF PeriodInv, JobTakesItsTime, ReportIsMade
<1>10. CASE idx >= count
  BY <1>9, <1>10, <1>5 DEF EnterWork
<1>11. CASE ~(idx >= count) /\ idx >= MAX
  BY <1>9, <1>11, <1>1, <1>5 DEF EnterWork, TypeOK
<1>12. CASE ~(idx >= count) /\ ~(idx >= MAX)
  <2> DEFINE Rec == [release : Nat, dispatch : Nat, finish : Nat \cup {None}]
  <2> DEFINE new == [release |-> pending, dispatch |-> now, finish |-> None]
  <2>1. pc' = "work" /\ left' = arg.wcet /\ data' = Append(data, new)
    BY <1>12 DEF EnterWork
  <2>2. new \in Rec
    BY <1>2
  <2>3. /\ Len(data') = idx + 1
        /\ \A j \in 1 .. idx : data'[j] = data[j]
        /\ data'[idx + 1] = new
        /\ data' \in Seq(Rec)
    <3>1. data \in Seq(Rec)
      BY <1>1 DEF TypeOK, Rec
    <3> HIDE DEF Rec, new
    <3> QED
      BY <3>1, <1>2, <2>1, <2>2
  <2> HIDE DEF new
  <2>4. new.release = pending /\ new.dispatch = now /\ new.finish = None
    BY DEF new
  <2>5. TypeOK'
    BY <1>1, <1>2, <1>3, <1>4, <2>1, <2>3 DEF TypeOK, EnterWork
  <2>6. RecordsArePast'
    <3>1. \A j \in 1 .. idx : data'[j].finish <= now /\ data'[j].release >= j - 1
      BY <1>1, <1>2, <2>3 DEF RecordsArePast
    <3>2. data'[idx + 1].finish <= now /\ data'[idx + 1].release >= idx
      BY <1>2, <1>7, <2>3, <2>4 DEF None
    <3>3. \A j \in 1 .. idx + 1 : j \in 1 .. idx \/ j = idx + 1
      BY <1>2
    <3>4. Len(data') = idx + 1 /\ now' = now /\ (idx + 1) - 1 = idx
      BY <1>2, <1>3, <2>3
    <3> QED
      BY <3>1, <3>2, <3>3, <3>4 DEF RecordsArePast
  <2>7. JobsInOrder'
    <3> SUFFICES ASSUME NEW j \in 1 .. idx + 1
                 PROVE  /\ data'[j].release < expiries
                        /\ data'[j].dispatch >= Release(data'[j].release)
                        /\ j <= idx => data'[j].finish >= data'[j].dispatch + arg.wcet
                        /\ j > 1 => /\ data'[j].release > data'[j - 1].release
                                    /\ data'[j].dispatch >= data'[j - 1].finish
      BY <2>3, <1>3, <1>6 DEF JobsInOrder
    <3>1. CASE j \in 1 .. idx
      <4>0. j > 1 => j - 1 \in 1 .. idx
        BY <3>1, <1>2
      <4>1. data'[j] = data[j] /\ (j > 1 => data'[j - 1] = data[j - 1])
        BY <3>1, <4>0, <2>3
      <4> QED
        BY <4>1, <3>1, <1>1, <1>2 DEF JobsInOrder
    <3>2. CASE j = idx + 1
      <4>1. j > 1 => data'[j - 1] = data[idx] /\ idx \in 1 .. idx
        BY <3>2, <2>3, <1>2
      <4> QED
        BY <4>1, <3>2, <1>1, <1>2, <1>7, <2>3, <2>4 DEF RecordsArePast
    <3> QED
      BY <3>1, <3>2, <1>2
  <2>8. JobTakesItsTime'
    <3>1. data'[idx' + 1].dispatch = now
      BY <2>3, <2>4, <1>3
    <3>2. arg.wcet \in Nat /\ arg'.wcet = arg.wcet /\ left' = arg.wcet
      BY <2>1, <1>3, <1>4
    <3>3. now' + left' >= data'[idx' + 1].dispatch + arg'.wcet
      BY <3>1, <3>2, <1>2, <1>3
    <3> QED
      BY <3>3 DEF JobTakesItsTime
  <2> QED
    BY <2>1, <2>5, <2>6, <2>7, <2>8, <1>1, <1>3, <1>8, <1>13 DEF PeriodInv, RecordsFit, ReportIsMade
<1> QED
  BY <1>10, <1>11, <1>12

LEMMA FinishWorkStep == PeriodInv /\ FinishWork => PeriodInv'
<1> SUFFICES ASSUME PeriodInv, FinishWork PROVE PeriodInv'
  OBVIOUS
<1>1. /\ TypeOK /\ arg \in Arguments /\ BeforeTimer /\ PendingIsDue /\ RecordsArePast
      /\ JobsInOrder /\ RecordsFit /\ JobTakesItsTime
  BY DEF PeriodInv, FinishWork
<1>2. /\ pc = "work" /\ left = 0 /\ pc' = "suspend" /\ idx' = idx + 1
      /\ data' = [data EXCEPT ![idx + 1].finish = now]
      /\ arg' = arg /\ first' = first /\ now' = now /\ expiries' = expiries
      /\ pending' = pending
  BY DEF FinishWork, timer
<1> DEFINE Rec == [release : Nat, dispatch : Nat, finish : Nat \cup {None}]
<1>3. now \in Nat /\ idx \in Nat /\ Len(data) = idx + 1 /\ data \in Seq(Rec)
  BY <1>1, <1>2 DEF TypeOK
<1> DEFINE new == [data[idx + 1] EXCEPT !.finish = now]
<1>4. data[idx + 1] \in Rec
  <2> HIDE DEF Rec
  <2> QED
    BY <1>3
<1>5. /\ new \in Rec /\ new.release = data[idx + 1].release
      /\ new.dispatch = data[idx + 1].dispatch /\ new.finish = now
  BY <1>3, <1>4
<1>6. data' = [data EXCEPT ![idx + 1] = new]
  BY <1>2
<1> HIDE DEF new, Rec
<1>7. /\ data' \in Seq(Rec) /\ Len(data') = idx + 1
      /\ \A j \in 1 .. idx : data'[j] = data[j]
      /\ data'[idx + 1] = new
  BY <1>3, <1>5, <1>6
<1>8. \A k : Release(k)' = Release(k)
  BY <1>2 DEF Release
<1>9. \A j \in 1 .. idx + 1 : j \in 1 .. idx \/ j = idx + 1
  BY <1>3
<1>10. \A j \in 1 .. idx + 1 :
         /\ data'[j].release = data[j].release /\ data'[j].dispatch = data[j].dispatch
         /\ j <= idx => data'[j].finish = data[j].finish
  BY <1>3, <1>5, <1>7, <1>9
<1>11. TypeOK'
  BY <1>1, <1>2, <1>3, <1>7 DEF TypeOK, FinishWork, timer, Rec
<1>12. JobsInOrder'
  <2> SUFFICES ASSUME NEW j \in 1 .. idx + 1
               PROVE  /\ data'[j].release < expiries
                      /\ data'[j].dispatch >= Release(data'[j].release)
                      /\ data'[j].finish >= data'[j].dispatch + arg.wcet
                      /\ j > 1 => /\ data'[j].release > data'[j - 1].release
                                  /\ data'[j].dispatch >= data'[j - 1].finish
    BY <1>7, <1>2, <1>8 DEF JobsInOrder
  <2>1. /\ data[j].release < expiries
        /\ data[j].dispatch >= Release(data[j].release)
        /\ j <= idx => data[j].finish >= data[j].dispatch + arg.wcet
        /\ j > 1 => /\ data[j].release > data[j - 1].release
                    /\ data[j].dispatch >= data[j - 1].finish
    BY <1>1, <1>3 DEF JobsInOrder
  <2>2. j > 1 => j - 1 \in 1 .. idx /\ j - 1 \in 1 .. idx + 1 /\ j - 1 <= idx
    BY <1>3
  <2>3. j = idx + 1 => data'[j].finish >= data'[j].dispatch + arg.wcet
    <3>1. now >= data[idx + 1].dispatch + arg.wcet
      BY <1>1, <1>2, <1>3 DEF JobTakesItsTime
    <3> QED
      BY <3>1, <1>5, <1>7
  <2> QED
    BY <2>1, <2>2, <2>3, <1>9, <1>10
<1>13. RecordsArePast'
  <2>1. \A j \in 1 .. idx : data'[j].finish <= now
    BY <1>1, <1>3, <1>7 DEF RecordsArePast
  <2>2. data'[idx + 1].finish <= now
    BY <1>3, <1>5, <1>7
  <2>3. \A j \in 1 .. idx + 1 : data'[j].release >= j - 1
    BY <1>1, <1>3, <1>10 DEF RecordsArePast
  <2> QED
    BY <2>1, <2>2, <2>3, <1>2, <1>7, <1>9 DEF RecordsArePast
<1>14. PendingIsDue'
  BY <1>1, <1>2, <1>3, <1>7, <1>8, <1>10 DEF PendingIsDue
<1>15. SkewIsStolen'
  BY DEF PeriodInv, SkewIsStolen, FinishWork, timer
<1> QED
  BY <1>1, <1>2, <1>11, <1>12, <1>13, <1>14, <1>15
  DEF PeriodInv, BeforeTimer, RecordsFit, JobTakesItsTime, ReportIsMade

LEMMA PrintResStep == PeriodInv /\ PrintRes => PeriodInv'
<1> SUFFICES ASSUME PeriodInv, PrintRes PROVE PeriodInv'
  OBVIOUS
<1> USE DEF PrintRes, timer, records
<1>1. TypeOK /\ arg \in Arguments /\ first \in Nat
  BY DEF PeriodInv, TypeOK
<1>2. misses \in Nat /\ misses' = misses /\ count' = count
  BY <1>1, WhatIsComputed, MissesType DEF misses, count, step
<1>3. TypeOK'
  BY <1>1, <1>2 DEF TypeOK
<1>4. ReportIsMade'
  BY <1>2 DEF PeriodInv, ReportIsMade
<1>5. JobsInOrder' /\ PendingIsDue'
  BY DEF PeriodInv, JobsInOrder, PendingIsDue, Release
<1>6. SkewIsStolen'
  BY DEF PeriodInv, SkewIsStolen
<1> QED
  BY <1>3, <1>4, <1>5, <1>6 DEF PeriodInv, BeforeTimer, RecordsArePast, JobTakesItsTime, RecordsFit

LEMMA TickStep == PeriodInv /\ Tick => PeriodInv'
<1> SUFFICES ASSUME PeriodInv, NEW done \in {0, 1}, done <= left, Elapse(done),
                    stolen' \in Nat, stolen' >= stolen,
                    pc = "stamp" => stolen' = stolen + 1
             PROVE  PeriodInv'
  <2> SUFFICES ASSUME PeriodInv, Tick
               PROVE  /\ stolen' \in Nat /\ stolen' >= stolen
                      /\ pc = "stamp" => stolen' = stolen + 1
                      /\ \E done \in {0, 1} : done <= left /\ Elapse(done)
    OBVIOUS
  <2>1. left \in Nat /\ stolen \in Nat
    BY DEF PeriodInv, TypeOK
  <2> QED
    BY <2>1 DEF Tick, Waits
<1>1. /\ TypeOK /\ BeforeTimer /\ PendingIsDue /\ RecordsArePast
      /\ JobsInOrder /\ RecordsFit /\ JobTakesItsTime /\ ReportIsMade
      /\ (pc # "start" => arg \in Arguments)
  BY DEF PeriodInv
<1>2. /\ now \in Nat /\ left \in Nat /\ expiries \in Nat /\ pending \in Nat \cup {-1}
      /\ idx \in Nat
  BY <1>1 DEF TypeOK, None
<1>3. /\ arg' = arg /\ pc' = pc /\ first' = first /\ start_time' = start_time
      /\ idx' = idx /\ data' = data /\ miss' = miss
      /\ now' = now + 1 /\ left' = left - done
  BY DEF Elapse, records
<1>4. \/ expiries' = expiries /\ pending' = pending
      \/ /\ expiries' = expiries + 1 /\ now' = Release(expiries)
         /\ pc \in {"suspend", "work", "sleep"}
         /\ pending' = IF pending = -1 THEN expiries ELSE pending
  BY DEF Elapse, None
<1>5. (\A k : Release(k)' = Release(k)) /\ count' = count /\ misses' = misses
  BY <1>3 DEF Release, count, misses, step
<1>6. TypeOK'
  BY <1>1, <1>2, <1>3, <1>4 DEF TypeOK, None
<1>7. PendingIsDue'
  <2>1. \A j \in 1 .. Len(data) : data[j].release < expiries
    BY <1>1 DEF JobsInOrder
  <2>2. ASSUME pending # -1
        PROVE  /\ pending < expiries /\ now >= Release(pending) /\ Release(pending) \in Nat
               /\ \A j \in 1 .. Len(data) : data[j].release < pending
    <3>1. arg \in Arguments /\ first \in Nat
      BY <2>2, <1>1 DEF BeforeTimer, TypeOK, None
    <3> QED
      BY <2>2, <3>1, <1>1, <1>2, WhatIsComputed DEF PendingIsDue, None
  <2>3. CASE pending # -1
    <3>1. pending' = pending /\ pending < expiries' /\ now' >= Release(pending)
      BY <2>2, <2>3, <1>2, <1>3, <1>4
    <3> QED
      BY <2>2, <2>3, <3>1, <1>3, <1>5 DEF PendingIsDue, None
  <2>4. CASE pending = -1 /\ expiries' = expiries + 1
    <3>1. pending' = expiries /\ now' = Release(expiries) /\ now' \in Nat
      BY <2>4, <1>2, <1>3, <1>4
    <3>2. pending' < expiries' /\ now' >= Release(pending)'
      BY <2>4, <3>1, <1>2, <1>3 DEF Release
    <3> QED
      BY <2>1, <3>1, <3>2, <1>3 DEF PendingIsDue
  <2> QED
    BY <2>3, <2>4, <1>2, <1>4 DEF PendingIsDue, None
<1>8. JobsInOrder'
  <2>1. \A j \in 1 .. Len(data) : data[j].release < expiries'
    BY <1>1, <1>2, <1>4, FieldsOfRecords DEF JobsInOrder
  <2> QED
    BY <2>1, <1>1, <1>3, <1>5 DEF JobsInOrder
<1>9. RecordsArePast'
  BY <1>1, <1>2, <1>3, FieldsOfRecords DEF RecordsArePast
<1>10. JobTakesItsTime'
  <2>1. now' + left' >= now + left
    BY <1>2, <1>3
  <2>2. pc = "work" => data[idx + 1].dispatch + arg.wcet \in Nat
    <3> SUFFICES ASSUME pc = "work" PROVE data[idx + 1].dispatch + arg.wcet \in Nat
      OBVIOUS
    <3>1. arg \in Arguments /\ first \in Nat /\ Len(data) = idx + 1
      BY <1>1 DEF TypeOK
    <3>2. arg.wcet \in Nat
      BY <3>1, WhatIsComputed
    <3>3. data[idx + 1].dispatch \in Nat
      BY <3>1, <1>1, <1>2, FieldsOfRecords
    <3> QED
      BY <3>2, <3>3
  <2> QED
    BY <2>1, <2>2, <1>1, <1>2, <1>3 DEF JobTakesItsTime
<1>11. SkewIsStolen'
  <2>1. {first, start_time, stolen, SECOND} \subseteq Nat
    BY <1>1, LimitsAssumption DEF TypeOK
  <2>2. SkewIsStolen
    BY DEF PeriodInv
  <2> QED
    BY <2>1, <2>2, <1>2, <1>3 DEF SkewIsStolen
<1> QED
  BY <1>1, <1>3, <1>4, <1>5, <1>6, <1>7, <1>8, <1>9, <1>10, <1>11
  DEF PeriodInv, BeforeTimer, RecordsFit, ReportIsMade

LEMMA PeriodStep == PeriodInv /\ [Next]_vars => PeriodInv'
<1> SUFFICES ASSUME PeriodInv, [Next]_vars PROVE PeriodInv'
  OBVIOUS
<1>1. CASE UNCHANGED vars
  BY <1>1 DEF vars, timer, records, PeriodInv, TypeOK, BeforeTimer, PendingIsDue, RecordsArePast,
              JobTakesItsTime, JobsInOrder, RecordsFit, ReportIsMade, SkewIsStolen, Release,
              count, misses, step
<1> QED
  BY <1>1, StartStep, ClockGettimeStep, ReadRdtscStep, TimerSettimeStep, EnterWorkStep,
     FinishWorkStep, PrintResStep, TickStep DEF Next, Main, work

-----------------------------------------------------------------------------
(* What the report says *)

\* A job ends wcet after the release it answers at the earliest, and that is not
\* an earlier one than its turn.
LEMMA NoJobIsEarly ==
  ASSUME PeriodInv, pc = "exited", start_time < first + arg.wcet, NEW j \in 1 .. count
  PROVE  /\ data[j].finish \in Int /\ data[j].release \in Nat /\ j - 1 <= data[j].release
         /\ data[j].finish > start_time + (j - 1) * arg.period
         /\ j <= data[j].release => data[j].finish > start_time + j * arg.period
<1>1. TypeOK /\ arg \in Arguments /\ JobsInOrder /\ RecordsArePast /\ Len(data) = idx /\ idx >= count
  BY DEF PeriodInv, TypeOK, ReportIsMade
<1>2. first \in Nat /\ start_time \in Nat /\ idx \in Nat
  BY <1>1 DEF TypeOK
<1>3. arg.wcet \in Nat /\ arg.period \in Nat \ {0} /\ count \in Int
  BY <1>1, <1>2, WhatIsComputed
<1>4. j \in 1 .. Len(data) /\ j <= idx
  BY <1>1, <1>2, <1>3
<1>5. data[j].release \in Nat /\ data[j].dispatch \in Nat /\ data[j].finish \in Int
  BY <1>1, <1>4, FieldsOfRecords
<1>6. j - 1 <= data[j].release
  BY <1>1, <1>4, <1>5 DEF RecordsArePast
<1> DEFINE at == data[j].release * arg.period
<1>7. data[j].finish >= data[j].dispatch + arg.wcet /\ data[j].dispatch >= first + at
  BY <1>1, <1>4 DEF JobsInOrder, Release
<1>8. at \in Nat
  BY <1>3, <1>5
<1>9. (j - 1) * arg.period <= at /\ (j <= data[j].release => j * arg.period <= at)
  BY <1>3, <1>5, <1>6, Multiples
<1>10. (j - 1) * arg.period \in Nat /\ j * arg.period \in Nat
  BY <1>3
<1> HIDE DEF at
<1> QED
  BY <1>2, <1>3, <1>5, <1>6, <1>7, <1>8, <1>9, <1>10

LEMMA PeriodReport == PeriodInv => HonestReport
<1> DEFINE skew == start_time - first
           Missed == LateBy(skew)
<1> SUFFICES ASSUME PeriodInv, pc = "exited"
             PROVE  /\ skew \in 0 .. stolen
                    /\ skew < arg.wcet /\ step = arg.period =>
                         /\ miss >= Cardinality(Missed)
                         /\ NoneLost /\ start_time + count * step < TICK_LIMIT
                              => miss = Cardinality(Missed)
                         /\ skew = 0 => miss >= Cardinality(MissedReleases)
                    /\ /\ skew < arg.wcet /\ step < 0
                       /\ count >= 0 /\ start_time + count * step >= 0
                       => miss = count
  BY DEF HonestReport
<1>8. skew \in 0 .. stolen
  BY DEF PeriodInv, SkewIsStolen
<1>1. TypeOK /\ arg \in Arguments /\ JobsInOrder /\ idx >= count /\ miss = misses
  BY DEF PeriodInv, ReportIsMade
<1>2. first \in Nat /\ start_time \in Nat /\ idx \in Nat /\ Len(data) = idx
  BY <1>1 DEF TypeOK
<1>3. arg.period \in Nat \ {0} /\ count \in Int /\ step \in Int /\ TICK_LIMIT \in Nat \ {0}
  BY <1>1, <1>2, WhatIsComputed, LimitsAssumption
<1> DEFINE Late == {j \in 1 .. count : data[j].finish > (start_time + j * step) % TICK_LIMIT}
<1>4. IsFiniteSet(1 .. count) /\ (count >= 0 => Cardinality(1 .. count) = count)
  BY <1>3, FS_Interval
<1>9. skew < arg.wcet => start_time < first + arg.wcet
  <2>1. arg.wcet \in Nat
    BY <1>1, <1>2, WhatIsComputed
  <2> QED
    BY <2>1, <1>2
<1>5. IsFiniteSet(Late) /\ miss = Cardinality(Late)
  <2>1. Late \in SUBSET (1 .. count)
    OBVIOUS
  <2> QED
    BY <2>1, <1>1, <1>4, FS_Subset DEF misses
<1>6. ASSUME skew < arg.wcet, step < 0, count >= 0, start_time + count * step >= 0
      PROVE  miss = count
  <2>1. ASSUME NEW j \in 1 .. count
        PROVE  data[j].finish > (start_time + j * step) % TICK_LIMIT
    <3> DEFINE due == start_time + j * step
    <3>1. j * step \in Int /\ j * step <= 0 /\ count * step <= j * step
      BY <1>3, <1>6, Multiples
    <3>2. due \in Nat /\ due <= start_time
      BY <3>1, <1>2, <1>3, <1>6
    <3>3. due % TICK_LIMIT \in Nat /\ due % TICK_LIMIT <= start_time
      BY <3>2, <1>2, <1>3, Remainder
    <3>4. data[j].finish \in Int /\ data[j].finish > start_time + (j - 1) * arg.period
      BY <1>3, <1>6, <1>9, NoJobIsEarly
    <3>5. (j - 1) * arg.period \in Nat
      BY <1>3
    <3> HIDE DEF due
    <3>6. data[j].finish > due % TICK_LIMIT
      BY <3>3, <3>4, <3>5, <1>2
    <3> QED
      BY <3>6 DEF due
  <2>2. Late = 1 .. count
    BY <2>1
  <2>3. Cardinality(1 .. count) = count
    BY <1>4, <1>6
  <2> HIDE DEF Late
  <2> QED
    BY <2>2, <2>3, <1>5
<1>7. ASSUME skew < arg.wcet, step = arg.period
      PROVE  /\ miss >= Cardinality(Missed)
             /\ NoneLost /\ start_time + count * step < TICK_LIMIT
                  => miss = Cardinality(Missed)
  <2> DEFINE f == [k \in Missed |-> k + 1]
             due(j) == start_time + j * arg.period
  <2>1. ASSUME NEW j \in 1 .. count
        PROVE  /\ due(j) \in Nat /\ due(j) % TICK_LIMIT <= due(j)
               /\ due(j) % TICK_LIMIT \in Nat
               /\ due(count) < TICK_LIMIT => due(j) % TICK_LIMIT = due(j)
    <3>1. j * arg.period \in Nat /\ count * arg.period \in Nat /\ j * arg.period <= count * arg.period
      BY <1>3, Multiples
    <3>2. due(j) \in Nat /\ due(count) \in Nat /\ due(j) <= due(count)
      BY <3>1, <1>2
    <3> HIDE DEF due
    <3> QED
      BY <3>2, <1>3, Remainder
  <2>7. \A k \in Int : Release(k) + arg.period + skew = due(k + 1)
    <3> TAKE k \in Int
    <3>1. k * arg.period \in Int /\ (k + 1) * arg.period = k * arg.period + arg.period
      BY <1>3
    <3> QED
      BY <3>1, <1>2, <1>3 DEF Release
  <2>8. Missed = {k \in 0 .. count - 1 :
                    ~ \E j \in 1 .. Len(data) : data[j].release = k /\ data[j].finish <= due(k + 1)}
    <3> HIDE DEF due
    <3>1. \A k \in 0 .. count - 1 : Release(k) + arg.period + skew = due(k + 1)
      BY <2>7
    <3> HIDE DEF skew
    <3> QED
      BY <3>1 DEF LateBy
  <2> HIDE DEF Missed, skew
  <2>2. Missed \subseteq 0 .. count - 1 /\ \A k \in Missed : k + 1 \in 1 .. count
    BY <1>3, <2>8
  <2>3. ASSUME NEW k \in Missed PROVE k + 1 \in Late
    <3>1. k \in Nat /\ k + 1 \in 1 .. count /\ k + 1 \in 1 .. Len(data)
      BY <2>2, <1>2, <1>3, <1>1
    <3>2. data[k + 1].finish \in Int /\ data[k + 1].release \in Nat /\ k <= data[k + 1].release
      BY <3>1, <1>7, <1>9, NoJobIsEarly
    <3>3. data[k + 1].finish > due(k + 1)
      <4>1. CASE data[k + 1].release = k
        <5>1. ~(data[k + 1].finish <= due(k + 1))
          BY <3>1, <4>1, <2>8
        <5> QED
          BY <5>1, <2>1, <3>1, <3>2
      <4>2. CASE k + 1 <= data[k + 1].release
        BY <4>2, <3>1, <1>7, <1>9, NoJobIsEarly
      <4> QED
        BY <4>1, <4>2, <3>1, <3>2
    <3>4. data[k + 1].finish > due(k + 1) % TICK_LIMIT
      BY <3>1, <3>2, <3>3, <2>1
    <3> QED
      BY <3>1, <3>4, <1>7
  <2>4. f \in Injection(Missed, Late)
    <3>1. Missed \subseteq Int
      BY <2>2
    <3>2. f \in [Missed -> Late]
      BY <2>3
    <3>3. \A a, b \in Missed : f[a] = f[b] => a = b
      BY <3>1
    <3> QED
      BY <3>2, <3>3 DEF Injection, IsInjective
  <2>5. miss >= Cardinality(Missed)
    <3> HIDE DEF f, Late
    <3> QED
      BY <2>4, <1>5, FS_Injection, FS_CardinalityType
  <2>6. ASSUME NoneLost, start_time + count * step < TICK_LIMIT
        PROVE  miss = Cardinality(Missed)
    <3>1. ASSUME NEW j \in Late PROVE j - 1 \in Missed
      <4>1. j \in 1 .. count /\ data[j].finish > due(j) % TICK_LIMIT
        BY <1>7
      <4>2. data[j].finish > due(j)
        BY <4>1, <2>1, <2>6, <1>7
      <4>3. data[j].finish \in Int /\ due(j) \in Nat
        BY <4>1, <2>1, <1>7, <1>9, NoJobIsEarly
      <4>4. ASSUME NEW m \in 1 .. Len(data), data[m].release = j - 1 PROVE m = j
        BY <4>1, <4>4, <2>6, <1>2, <1>3 DEF NoneLost
      <4>5. j - 1 \in 0 .. count - 1 /\ (j - 1) + 1 = j
        BY <4>1, <1>3
      <4> QED
        BY <4>2, <4>3, <4>4, <4>5, <2>8
    <3>2. \A j \in Late : j - 1 \in Missed /\ f[j - 1] = j
      BY <3>1
    <3>3. f \in Surjection(Missed, Late)
      BY <3>2, <2>4 DEF Surjection, Injection
    <3> HIDE DEF f, Late
    <3> QED
      BY <3>3, <2>4, <1>5, FS_Injection
  <2> QED
    BY <2>5, <2>6
<1>10. skew = 0 => MissedReleases = Missed
  BY DEF MissedReleases
<1> QED
  BY <1>6, <1>7, <1>8, <1>10

(***************************************************************************)
(* The records of the jobs are in order, each answers a release of its     *)
(* own, and none is made outside of data[] if the duration is no longer    *)
(* than that: for every command line and every schedule.                   *)
(***************************************************************************)
THEOREM SafetyHolds == ProgramsSpec => []Safety
<1>1. PeriodInv => Safety
  BY DEF PeriodInv, Safety
<1> QED
  BY <1>1, PeriodFrame, PeriodInit, PeriodStep, PTL

(***************************************************************************)
(* print_res() reports every release that was missed by more than the time *)
(* stolen between its two clocks (lines 235 and 245), if that is less than *)
(* a job; exactly these if no release was lost; and every job where the    *)
(* product with MHZ overflows.                                             *)
(***************************************************************************)
THEOREM HonestReportHolds == ProgramsSpec => []HonestReport
  BY PeriodFrame, PeriodInit, PeriodStep, PeriodReport, PTL


-----------------------------------------------------------------------------
(* print5000 and dense_mm_sig *)

LEMMA SigFrame == ProgramsSpec => Signals!Init /\ [][Signals!Next]_SignalsVars
<1>1. ProgramsInit => Signals!Init
  BY DEF ProgramsInit
<1>2. [ProgramsNext]_allvars => [Signals!Next]_SignalsVars
  BY DEF ProgramsNext, Runs, allvars
<1> QED
  BY <1>1, <1>2, PTL DEF ProgramsSpec

LEMMA SigSame == UNCHANGED Signals!vars => UNCHANGED SignalsVars
  BY DEF Signals!vars, SignalsVars

SigLoops == {"print", "test", "next"}

\* The values a variable can have; i stays within its loop.
SigTypes ==
  /\ code \in {"none", "print5000", "dense_mm_sig"}
  /\ i \in Nat /\ gs32total \in Nat /\ sent \in Nat
  /\ sigPending \in BOOLEAN
  /\ sigPrinted \in Nat \cup {Signals!None}
  /\ hits \in [SigLoops -> SUBSET (0 .. size)]
  /\ reported \subseteq 0 .. size

\* Where main() of which program can be, and how far its loop then is.
SigPlace ==
  /\ code = "none" => sigPc \in {"start", "killed"} /\ i = 0
  /\ code = "print5000" => sigPc \in SigLoops \cup {"exited"} /\ i <= size
  /\ code = "dense_mm_sig" => sigPc \in {"arguments", "multiply", "return", "exited"}
  /\ code = "print5000" /\ sigPc = "next" => i < size
  /\ code = "print5000" /\ sigPc = "exited" => i = size

\* What has been interrupted where: before, and after, the test of each index.
SigEarly == hits["print"] \cup hits["test"]
SigMarked ==
  /\ called = SigEarly \cup hits["next"]
  /\ code # "print5000" \/ sigPc = "print" =>
       reported = {} /\ hits["test"] = {} /\ hits["next"] = {}
  /\ code # "print5000" => called = {}

\* The second loop has reported the indices below i that were interrupted before
\* their test, the last one included once it has been tested.
SigTold ==
  code = "print5000" /\ sigPc # "print" =>
    /\ \A j \in hits["next"] : j < i \/ (j = i /\ sigPc = "next")
    /\ hits["next"] \subseteq 0 .. size - 1
    /\ \A j \in 0 .. size :
         j \in reported <=> /\ j \in SigEarly
                            /\ j < i \/ (j = i /\ sigPc = "next")

\* A signal that was sent is counted or pending, has merged, or has killed.
SigCounted ==
  /\ sigPrinted <= gs32total
  /\ gs32total + (IF sigPending THEN 1 ELSE 0) <= sent
  /\ sent > 0 => gs32total > 0 \/ sigPending \/ sigPc = "killed" \/ code = "print5000"

SigIInv == SigTypes /\ SigPlace /\ SigMarked /\ SigTold /\ SigCounted

-----------------------------------------------------------------------------
LEMMA SigInitInv == Signals!Init => SigIInv
<1> USE SigintAssumption
<1> SUFFICES ASSUME Signals!Init PROVE SigIInv
  OBVIOUS
<1>1. hits["print"] = {} /\ hits["test"] = {} /\ hits["next"] = {}
  BY DEF Signals!Init
<1>2. SigTypes /\ SigPlace
  BY DEF Signals!Init, SigTypes, SigPlace, SigLoops, Signals!None
<1>3. SigMarked /\ SigTold
  BY <1>1 DEF Signals!Init, SigMarked, SigEarly, SigTold
<1>4. SigCounted
  BY DEF Signals!Init, SigCounted, Signals!None
<1> QED
  BY <1>2, <1>3, <1>4 DEF SigIInv

\* The handler changes what has been interrupted; the tests what is reported.
LEMMA SigStepInv == SigIInv /\ [Signals!Next]_SignalsVars => SigIInv'
<1> SUFFICES ASSUME SigIInv, [Signals!Next]_SignalsVars PROVE SigIInv'
  OBVIOUS
<1> USE SigintAssumption DEF SigIInv, SigLoops, Signals!None
<1>1. CASE Signals!Send
  <2>2. SigTypes'
    BY <1>1 DEF SigTypes, SigPlace, Signals!Send, Signals!Ended
  <2>3. SigPlace'
    BY <1>1 DEF SigTypes, SigPlace, Signals!Send, Signals!Ended
  <2>4. SigMarked'
    BY <1>1 DEF SigTypes, SigPlace, SigMarked, SigEarly, Signals!Send, Signals!Ended
  <2>5. SigTold'
    BY <1>1 DEF SigTypes, SigPlace, SigMarked, SigTold, SigEarly, Signals!Send, Signals!Ended
  <2>6. SigCounted'
    BY <1>1 DEF SigTypes, SigPlace, SigCounted, Signals!Send, Signals!Ended
  <2> QED
    BY <2>2, <2>3, <2>4, <2>5, <2>6
<1>2. CASE Signals!DefaultAction
  <2>2. SigTypes'
    BY <1>2 DEF SigTypes, SigPlace, Signals!DefaultAction
  <2>3. SigPlace'
    BY <1>2 DEF SigTypes, SigPlace, Signals!DefaultAction
  <2>4. SigMarked'
    BY <1>2 DEF SigTypes, SigPlace, SigMarked, SigEarly, Signals!DefaultAction
  <2>5. SigTold'
    BY <1>2 DEF SigTypes, SigPlace, SigMarked, SigTold, SigEarly, Signals!DefaultAction
  <2>6. SigCounted'
    BY <1>2 DEF SigTypes, SigPlace, SigCounted, Signals!DefaultAction
  <2> QED
    BY <2>2, <2>3, <2>4, <2>5, <2>6
<1>3. CASE Signals!sigint_handler
  <2>0. i \in 0 .. size /\ sigPc \in SigLoops
    BY <1>3 DEF SigTypes, SigPlace, Signals!sigint_handler
  <2>1. hits' \in [SigLoops -> SUBSET (0 .. size)]
    BY <1>3, <2>0 DEF SigTypes, Signals!sigint_handler
  <2>2. SigTypes'
    BY <1>3, <2>1 DEF SigTypes, Signals!sigint_handler
  <2>3. SigPlace'
    BY <1>3 DEF SigTypes, SigPlace, Signals!sigint_handler
  <2>4. SigMarked'
    BY <1>3 DEF SigTypes, SigPlace, SigMarked, SigEarly, Signals!sigint_handler
  <2>5. SigTold'
    BY <1>3 DEF SigTypes, SigPlace, SigMarked, SigTold, SigEarly, Signals!sigint_handler
  <2>6. SigCounted'
    BY <1>3 DEF SigTypes, SigPlace, SigCounted, Signals!sigint_handler
  <2> QED
    BY <2>2, <2>3, <2>4, <2>5, <2>6
<1>4. CASE Signals!work
  <2>1. gs32total' \in Nat /\ sigPending' \in BOOLEAN
    <3>1. gs32total \in Nat
      BY DEF SigTypes
    <3>2. gs32total' = gs32total + 1
      BY <1>4 DEF Signals!work
    <3>3. sigPending' = FALSE
      BY <1>4, Zenon DEF Signals!work
    <3>4. gs32total' \in Nat
      BY <3>1, <3>2
    <3> QED
      BY <3>3, <3>4, Zenon
  <2>2. SigTypes'
    <3>1. UNCHANGED <<code, i, sigPrinted, sent, hits, reported>>
      BY <1>4 DEF Signals!work
    <3> QED
      BY <2>1, <3>1 DEF SigTypes
  <2>3. SigPlace'
    BY <1>4 DEF SigTypes, SigPlace, Signals!work
  <2>4. SigMarked'
    BY <1>4 DEF SigTypes, SigPlace, SigMarked, SigEarly, Signals!work
  <2>5. SigTold'
    BY <1>4 DEF SigTypes, SigPlace, SigMarked, SigTold, SigEarly, Signals!work
  <2>6. SigCounted'
    BY <1>4 DEF SigTypes, SigPlace, SigCounted, Signals!work
  <2> QED
    BY <2>2, <2>3, <2>4, <2>5, <2>6
<1>5. CASE Signals!Sigaction
  <2>2. SigTypes'
    BY <1>5 DEF SigTypes, SigPlace, Signals!Sigaction
  <2>3. SigPlace'
    BY <1>5 DEF SigTypes, SigPlace, Signals!Sigaction
  <2>4. SigMarked'
    BY <1>5 DEF SigTypes, SigPlace, SigMarked, SigEarly, Signals!Sigaction
  <2>5. SigTold'
    BY <1>5 DEF SigTypes, SigPlace, SigMarked, SigTold, SigEarly, Signals!Sigaction
  <2>6. SigCounted'
    BY <1>5 DEF SigTypes, SigPlace, SigCounted, Signals!Sigaction
  <2> QED
    BY <2>2, <2>3, <2>4, <2>5, <2>6
<1>6. CASE Signals!PrintLine
  <2>2. SigTypes'
    BY <1>6 DEF SigTypes, SigPlace, Signals!PrintLine
  <2>3. SigPlace'
    BY <1>6 DEF SigTypes, SigPlace, Signals!PrintLine
  <2>4. SigMarked'
    BY <1>6 DEF SigTypes, SigPlace, SigMarked, SigEarly, Signals!PrintLine
  <2>5. SigTold'
    BY <1>6 DEF SigTypes, SigPlace, SigMarked, SigTold, SigEarly, Signals!PrintLine
  <2>6. SigCounted'
    BY <1>6 DEF SigTypes, SigPlace, SigCounted, Signals!PrintLine
  <2> QED
    BY <2>2, <2>3, <2>4, <2>5, <2>6
<1>7. CASE Signals!LeaveLoop
  <2>2. SigTypes'
    BY <1>7 DEF SigTypes, SigPlace, Signals!LeaveLoop
  <2>3. SigPlace'
    BY <1>7 DEF SigTypes, SigPlace, Signals!LeaveLoop
  <2>4. SigMarked'
    BY <1>7 DEF SigTypes, SigPlace, SigMarked, SigEarly, Signals!LeaveLoop
  <2>5. SigTold'
    BY <1>7 DEF SigTypes, SigPlace, SigMarked, SigTold, SigEarly, Signals!LeaveLoop
  <2>6. SigCounted'
    BY <1>7 DEF SigTypes, SigPlace, SigCounted, Signals!LeaveLoop
  <2> QED
    BY <2>2, <2>3, <2>4, <2>5, <2>6
<1>8. CASE Signals!TestMark
  <2>1. reported' \subseteq 0 .. size
    <3>1. reported \subseteq 0 .. size /\ i \in 0 .. size
      BY <1>8 DEF SigTypes, Signals!TestMark
    <3>2. reported' \subseteq reported \cup {i}
      BY <1>8 DEF Signals!TestMark
    <3> QED
      BY <3>1, <3>2
  <2>2. SigTypes'
    <3>1. UNCHANGED <<code, i, gs32total, sigPrinted, sigPending, sent, hits>>
      BY <1>8 DEF Signals!TestMark
    <3> QED
      BY <2>1, <3>1 DEF SigTypes
  <2>3. SigPlace'
    BY <1>8 DEF SigTypes, SigPlace, Signals!TestMark
  <2>4. SigMarked'
    BY <1>8 DEF SigTypes, SigPlace, SigMarked, SigEarly, Signals!TestMark
  <2>5. SigTold'
    BY <1>8 DEF SigTypes, SigPlace, SigMarked, SigTold, SigEarly, Signals!TestMark
  <2>6. SigCounted'
    BY <1>8 DEF SigTypes, SigPlace, SigCounted, Signals!TestMark
  <2> QED
    BY <2>2, <2>3, <2>4, <2>5, <2>6
<1>9. CASE Signals!Increment
  <2>2. SigTypes'
    BY <1>9 DEF SigTypes, SigPlace, Signals!Increment
  <2>3. SigPlace'
    BY <1>9 DEF SigTypes, SigPlace, Signals!Increment
  <2>4. SigMarked'
    BY <1>9 DEF SigTypes, SigPlace, SigMarked, SigEarly, Signals!Increment
  <2>5. SigTold'
    BY <1>9 DEF SigTypes, SigPlace, SigMarked, SigTold, SigEarly, Signals!Increment
  <2>6. SigCounted'
    BY <1>9 DEF SigTypes, SigPlace, SigCounted, Signals!Increment
  <2> QED
    BY <2>2, <2>3, <2>4, <2>5, <2>6
<1>10. CASE Signals!Return
  <2>2. SigTypes'
    BY <1>10 DEF SigTypes, SigPlace, Signals!Return
  <2>3. SigPlace'
    BY <1>10 DEF SigTypes, SigPlace, Signals!Return
  <2>4. SigMarked'
    BY <1>10 DEF SigTypes, SigPlace, SigMarked, SigEarly, Signals!Return
  <2>5. SigTold'
    BY <1>10 DEF SigTypes, SigPlace, SigMarked, SigTold, SigEarly, Signals!Return
  <2>6. SigCounted'
    BY <1>10 DEF SigTypes, SigPlace, SigCounted, Signals!Return
  <2> QED
    BY <2>2, <2>3, <2>4, <2>5, <2>6
<1>11. CASE Signals!Multiply
  <2>2. SigTypes'
    BY <1>11 DEF SigTypes, SigPlace, Signals!Multiply
  <2>3. SigPlace'
    BY <1>11 DEF SigTypes, SigPlace, Signals!Multiply
  <2>4. SigMarked'
    BY <1>11 DEF SigTypes, SigPlace, SigMarked, SigEarly, Signals!Multiply
  <2>5. SigTold'
    BY <1>11 DEF SigTypes, SigPlace, SigMarked, SigTold, SigEarly, Signals!Multiply
  <2>6. SigCounted'
    BY <1>11 DEF SigTypes, SigPlace, SigCounted, Signals!Multiply
  <2> QED
    BY <2>2, <2>3, <2>4, <2>5, <2>6
<1>12. CASE Signals!PrintCount
  <2>2. SigTypes'
    BY <1>12 DEF SigTypes, SigPlace, Signals!PrintCount
  <2>3. SigPlace'
    BY <1>12 DEF SigTypes, SigPlace, Signals!PrintCount
  <2>4. SigMarked'
    BY <1>12 DEF SigTypes, SigPlace, SigMarked, SigEarly, Signals!PrintCount
  <2>5. SigTold'
    BY <1>12 DEF SigTypes, SigPlace, SigMarked, SigTold, SigEarly, Signals!PrintCount
  <2>6. SigCounted'
    BY <1>12 DEF SigTypes, SigPlace, SigCounted, Signals!PrintCount
  <2> QED
    BY <2>2, <2>3, <2>4, <2>5, <2>6
<1>13. CASE Signals!ReturnCount
  <2>2. SigTypes'
    BY <1>13 DEF SigTypes, SigPlace, Signals!ReturnCount
  <2>3. SigPlace'
    BY <1>13 DEF SigTypes, SigPlace, Signals!ReturnCount
  <2>4. SigMarked'
    BY <1>13 DEF SigTypes, SigPlace, SigMarked, SigEarly, Signals!ReturnCount
  <2>5. SigTold'
    BY <1>13 DEF SigTypes, SigPlace, SigMarked, SigTold, SigEarly, Signals!ReturnCount
  <2>6. SigCounted'
    BY <1>13 DEF SigTypes, SigPlace, SigCounted, Signals!ReturnCount
  <2> QED
    BY <2>2, <2>3, <2>4, <2>5, <2>6
<1>15. CASE Signals!SigactionFails
  <2>2. SigTypes'
    BY <1>15 DEF SigTypes, SigPlace, Signals!SigactionFails
  <2>3. SigPlace'
    BY <1>15 DEF SigTypes, SigPlace, Signals!SigactionFails
  <2>4. SigMarked'
    BY <1>15 DEF SigTypes, SigPlace, SigMarked, SigEarly, Signals!SigactionFails
  <2>5. SigTold'
    BY <1>15 DEF SigTypes, SigPlace, SigMarked, SigTold, SigEarly, Signals!SigactionFails
  <2>6. SigCounted'
    BY <1>15 DEF SigTypes, SigPlace, SigCounted, Signals!SigactionFails
  <2> QED
    BY <2>2, <2>3, <2>4, <2>5, <2>6
<1>16. CASE Signals!ReadArguments
  <2>2. SigTypes'
    BY <1>16 DEF SigTypes, SigPlace, Signals!ReadArguments
  <2>3. SigPlace'
    BY <1>16 DEF SigTypes, SigPlace, Signals!ReadArguments
  <2>4. SigMarked'
    BY <1>16 DEF SigTypes, SigPlace, SigMarked, SigEarly, Signals!ReadArguments
  <2>5. SigTold'
    BY <1>16 DEF SigTypes, SigPlace, SigMarked, SigTold, SigEarly, Signals!ReadArguments
  <2>6. SigCounted'
    BY <1>16 DEF SigTypes, SigPlace, SigCounted, Signals!ReadArguments
  <2> QED
    BY <2>2, <2>3, <2>4, <2>5, <2>6
<1>14. CASE UNCHANGED SignalsVars
  BY <1>14 DEF SignalsVars, SigTypes, SigPlace, SigMarked, SigEarly, SigTold, SigCounted
<1> QED
  BY <1>1, <1>2, <1>3, <1>4, <1>5, <1>6, <1>7, <1>8, <1>9, <1>10, <1>11, <1>12, <1>13, <1>14,
     <1>15, <1>16, SigSame DEF Signals!Next

LEMMA SigInvTells == SigIInv => Signals!SignalsTold
<1> SUFFICES ASSUME SigIInv PROVE Signals!SignalsTold
  OBVIOUS
<1> USE SigintAssumption DEF SigIInv, SigTypes, SigPlace, SigLoops, SigMarked, SigEarly, SigTold
<1>1. ASSUME code = "print5000", sigPc = "exited"
      PROVE  reported = SigEarly \ {size}
  <2>1. SigEarly \subseteq 0 .. size /\ reported \subseteq 0 .. size
    OBVIOUS
  <2>2. i = size /\ sigPc # "print" /\ sigPc # "next"
    BY <1>1
  <2>3. \A j \in 0 .. size : j \in reported <=> j \in SigEarly /\ j < i
    BY <1>1, <2>2
  <2>4. \A j \in 0 .. size : j < i <=> j # size
    BY <2>2
  <2> HIDE DEF SigIInv, SigTypes, SigPlace, SigMarked, SigEarly, SigTold
  <2> QED
    BY <2>1, <2>3, <2>4
<1>2. size \in called <=> size \in SigEarly
  OBVIOUS
<1>3. called \subseteq 0 .. size
  OBVIOUS
<1>4. Signals!InterruptsReported
  BY <1>1, <1>2, <1>3 DEF Signals!InterruptsReported
<1>5. Signals!CountIsHonest
  BY DEF Signals!CountIsHonest, SigCounted
<1> QED
  BY <1>4, <1>5 DEF Signals!SignalsTold

(***************************************************************************)
(* print5000.c reports the lines that were interrupted, and no other, and  *)
(* dense_mm_sig.c counts what it got: whatever the size of called[] and    *)
(* however many signals the user sends.                                    *)
(***************************************************************************)
THEOREM SignalsToldHolds == ProgramsSpec => []SignalsTold
  BY SigInitInv, SigStepInv, SigInvTells, SigFrame, PTL DEF SignalsTold

-----------------------------------------------------------------------------
(* The LED module and program *)

LEMMA LedFrame == ProgramsSpec => Led!Init /\ [][Led!Next]_LedVars
<1>1. ProgramsInit => Led!Init
  BY DEF ProgramsInit
<1>2. [ProgramsNext]_allvars => [Led!Next]_LedVars
  BY DEF ProgramsNext, Runs, allvars
<1> QED
  BY <1>1, <1>2, PTL DEF ProgramsSpec

LEMMA LedSame == UNCHANGED Led!vars => UNCHANGED LedVars
  BY DEF Led!vars, LedVars, Led!timer, Led!program, Led!pin, Led!setmode

(* The timer *)

\* Only del_timer() disarms for good, and it records whether the handler ran.
LEMMA LedTimerStep == Led!NoStrayTimer /\ [Led!Next]_LedVars => Led!NoStrayTimer'
<1> SUFFICES ASSUME Led!NoStrayTimer, [Led!Next]_LedVars PROVE Led!NoStrayTimer'
  OBVIOUS
<1> USE DEF Led!NoStrayTimer
<1>1. CASE UNCHANGED <<module, handler, armed, raced, gs32Period>>
  BY <1>1
<1>2. CASE Led!InitPin \/ Led!InitTimer \/ Led!InitSysfs \/ Led!RemoveSysfs
  BY <1>2 DEF Led!InitPin, Led!InitTimer, Led!InitSysfs, Led!RemoveSysfs, Led!ModuleStep
<1>3. CASE Led!set_period
  BY <1>3 DEF Led!set_period, Led!timer
<1>4. CASE Led!DelTimer
  BY <1>4 DEF Led!DelTimer, Led!ModuleStep
<1>5. CASE Led!ExitPin \/ Led!FreeModule
  BY <1>5 DEF Led!ExitPin, Led!FreeModule, Led!ModuleStep
<1>6. CASE Led!Expire
  BY <1>6 DEF Led!Expire
<1>7. CASE Led!Toggle
  BY <1>7 DEF Led!Toggle
<1>8. CASE Led!Rearm
  BY <1>8 DEF Led!Rearm
<1>9. CASE \E p \in Led!Parties : Led!ClearMode(p) \/ Led!LoadMode(p) \/ Led!StoreMode(p)
  BY <1>1, <1>9 DEF Led!ClearMode, Led!LoadMode, Led!StoreMode, Led!timer
<1>10. ASSUME NEW from, NEW to, Led!UserStep(from, to)
       PROVE  UNCHANGED <<module, handler, armed, raced, gs32Period>>
  BY <1>10 DEF Led!UserStep, Led!timer
<1>11. CASE Led!MapFails \/ Led!Map \/ Led!Unmap \/ Led!Exit
  BY <1>1, <1>10, <1>11 DEF Led!MapFails, Led!Map, Led!Unmap, Led!Exit
<1>12. ASSUME NEW from, NEW val, NEW to, Led!SetLevel(from, val, to) \/ Led!ReadLevel(from, val, to)
       PROVE  Led!NoStrayTimer'
  BY <1>1, <1>10, <1>12 DEF Led!SetLevel, Led!ReadLevel
<1>13. CASE UNCHANGED LedVars
  BY <1>1, <1>13 DEF LedVars, Led!timer
<1> QED
  BY <1>2, <1>3, <1>4, <1>5, <1>6, <1>7, <1>8, <1>9, <1>11, <1>12, <1>13, LedSame DEF Led!Next

(***************************************************************************)
(* del_timer() lets a handler survive the module only if the handler was   *)
(* running when it was called, whatever is written to the period; and the  *)
(* period never falls below 10 ms.                                         *)
(***************************************************************************)
THEOREM NoStrayTimerHolds == ProgramsSpec => []NoStrayTimer
<1>1. Led!Init => Led!NoStrayTimer
  BY DEF Led!Init, Led!NoStrayTimer
<1> QED
  BY <1>1, LedTimerStep, LedFrame, PTL DEF NoStrayTimer

-----------------------------------------------------------------------------
(* The function of the pin *)

LedIdle(p)  == call[p] = "idle"
LedModuleOn == module \notin {"none", "leaving", "freed"}
LedUserOn   == user \notin {"none", "failed", "unmapping", "exited"}

LedTypes ==
  /\ call \in [Led!Parties -> {"idle", "clear", "load", "store"}]
  /\ s32mode \in [Led!Parties -> {Led!INPUT, Led!OUTPUT}]
  /\ loaded \in [Led!Parties -> {Led!INPUT, Led!OUTPUT}]
  /\ GPFSEL \in {Led!INPUT, Led!OUTPUT}

\* What each party sets, and when it calls set_gpio_mode().
LedCalls ==
  /\ ~LedIdle("module") =>
       \/ module = "mapped" /\ s32mode["module"] = Led!OUTPUT
       \/ module = "leaving" /\ s32mode["module"] = Led!INPUT
  /\ ~LedIdle("user") =>
       \/ user = "set 1" /\ s32mode["user"] = Led!OUTPUT
       \/ user = "unmapping" /\ s32mode["user"] = Led!INPUT
  /\ module = "none" => ~armed /\ handler = "none"

\* While only one party is in set_gpio_mode(), nothing comes between its steps.
LedAlone ==
  /\ LedIdle("module") \/ LedIdle("user")
  /\ \A p \in Led!Parties :
       /\ call[p] \in {"load", "store"} => GPFSEL = Led!INPUT
       /\ call[p] = "store" => loaded[p] = Led!INPUT

\* The function of the pin when nobody changes it.
LedFunction ==
  LedIdle("module") /\ LedIdle("user") =>
    /\ ~LedModuleOn /\ ~LedUserOn => GPFSEL = Led!INPUT
    /\ module = "none" /\ LedUserOn => GPFSEL = Led!OUTPUT
    /\ user \in {"none", "failed"} /\ LedModuleOn => GPFSEL = Led!OUTPUT

\* What the program has set and read back.
LedReadBack ==
  module = "none" =>
    /\ s32temp = <<0, 1>>
    /\ user = "get 1" => latch = 1
    /\ user = "get 0" => latch = 0

LedPinInv == LedTypes /\ LedCalls /\ (overlap \/ (LedAlone /\ LedFunction /\ LedReadBack))

LEMMA LedPinInit == Led!Init => LedPinInv
  BY DEF Led!Init, LedPinInv, LedTypes, LedCalls, LedAlone, LedFunction, LedReadBack, LedIdle,
     LedModuleOn,
         LedUserOn, Led!Parties, Led!INPUT, Led!OUTPUT

\* Storing again the level that is there changes nothing.
LEMMA LedSameLevels == /\ [<<0, 1>> EXCEPT ![1 + 1] = 1] = <<0, 1>>
                    /\ [<<0, 1>> EXCEPT ![0 + 1] = 0] = <<0, 1>>
<1>1. 1 + 1 = 2 /\ 0 + 1 = 1
  OBVIOUS
<1>2. DOMAIN <<0, 1>> = {1, 2}
  OBVIOUS
<1> QED
  BY <1>1, <1>2

\* One step per action: only set_gpio_mode() and its three steps touch GPFSEL.
LEMMA LedPinStep == LedPinInv /\ [Led!Next]_LedVars => LedPinInv'
<1> SUFFICES ASSUME LedPinInv, [Led!Next]_LedVars PROVE LedPinInv'
  OBVIOUS
<1> USE DEF LedPinInv, LedTypes, LedCalls, LedAlone, LedFunction, LedReadBack, LedIdle, LedModuleOn,
            LedUserOn, Led!Parties, Led!INPUT, Led!OUTPUT
<1>1. ASSUME NEW p \in Led!Parties, Led!ClearMode(p) PROVE LedPinInv'
  <2>1. LedTypes'
    BY <1>1 DEF Led!ClearMode, Led!timer, Led!program
  <2>2. LedCalls'
    BY <1>1 DEF Led!ClearMode, Led!timer, Led!program
  <2>3. overlap' \/ LedAlone'
    BY <1>1 DEF Led!ClearMode, Led!timer, Led!program
  <2>4. overlap' \/ LedFunction'
    BY <1>1 DEF Led!ClearMode, Led!timer, Led!program
  <2>5. overlap' \/ LedReadBack'
    BY <1>1 DEF Led!ClearMode, Led!timer, Led!program
  <2> QED
    BY <2>1, <2>2, <2>3, <2>4, <2>5
<1>2. ASSUME NEW p \in Led!Parties, Led!LoadMode(p) PROVE LedPinInv'
  <2>1. LedTypes'
    BY <1>2 DEF Led!LoadMode, Led!timer, Led!program
  <2>2. LedCalls'
    BY <1>2 DEF Led!LoadMode, Led!timer, Led!program
  <2>3. overlap' \/ LedAlone'
    BY <1>2 DEF Led!LoadMode, Led!timer, Led!program
  <2>4. overlap' \/ LedFunction'
    BY <1>2 DEF Led!LoadMode, Led!timer, Led!program
  <2>5. overlap' \/ LedReadBack'
    BY <1>2 DEF Led!LoadMode, Led!timer, Led!program
  <2> QED
    BY <2>1, <2>2, <2>3, <2>4, <2>5
<1>3. ASSUME NEW p \in Led!Parties, Led!StoreMode(p) PROVE LedPinInv'
  <2>1. LedTypes'
    BY <1>3 DEF Led!StoreMode, Led!timer, Led!program
  <2>2. LedCalls'
    BY <1>3 DEF Led!StoreMode, Led!timer, Led!program
  <2>3. overlap' \/ LedAlone'
    BY <1>3 DEF Led!StoreMode, Led!timer, Led!program
  <2>4. overlap' \/ LedFunction'
    BY <1>3 DEF Led!StoreMode, Led!timer, Led!program
  <2>5. overlap' \/ LedReadBack'
    BY <1>3 DEF Led!StoreMode, Led!timer, Led!program
  <2> QED
    BY <2>1, <2>2, <2>3, <2>4, <2>5
<1>4. CASE Led!InitPin
  <2>1. LedTypes'
    BY <1>4 DEF Led!InitPin, Led!ModuleStep, Led!set_gpio_mode, Led!program
  <2>2. LedCalls'
    BY <1>4 DEF Led!InitPin, Led!ModuleStep, Led!set_gpio_mode, Led!program
  <2>3. overlap' \/ LedAlone'
    BY <1>4 DEF Led!InitPin, Led!ModuleStep, Led!set_gpio_mode, Led!program
  <2>4. overlap' \/ LedFunction'
    BY <1>4 DEF Led!InitPin, Led!ModuleStep, Led!set_gpio_mode, Led!program
  <2>5. overlap' \/ LedReadBack'
    BY <1>4 DEF Led!InitPin, Led!ModuleStep, Led!set_gpio_mode, Led!program
  <2> QED
    BY <2>1, <2>2, <2>3, <2>4, <2>5
<1>5. CASE Led!InitTimer
  <2>1. LedTypes'
    BY <1>5 DEF Led!InitTimer, Led!ModuleStep, Led!program, Led!setmode
  <2>2. LedCalls'
    BY <1>5 DEF Led!InitTimer, Led!ModuleStep, Led!program, Led!setmode
  <2>3. overlap' \/ LedAlone'
    BY <1>5 DEF Led!InitTimer, Led!ModuleStep, Led!program, Led!setmode
  <2>4. overlap' \/ LedFunction'
    BY <1>5 DEF Led!InitTimer, Led!ModuleStep, Led!program, Led!setmode
  <2>5. overlap' \/ LedReadBack'
    BY <1>5 DEF Led!InitTimer, Led!ModuleStep, Led!program, Led!setmode
  <2> QED
    BY <2>1, <2>2, <2>3, <2>4, <2>5
<1>6. CASE Led!InitSysfs
  <2>1. LedTypes'
    BY <1>6 DEF Led!InitSysfs, Led!ModuleStep, Led!program, Led!setmode
  <2>2. LedCalls'
    BY <1>6 DEF Led!InitSysfs, Led!ModuleStep, Led!program, Led!setmode
  <2>3. overlap' \/ LedAlone'
    BY <1>6 DEF Led!InitSysfs, Led!ModuleStep, Led!program, Led!setmode
  <2>4. overlap' \/ LedFunction'
    BY <1>6 DEF Led!InitSysfs, Led!ModuleStep, Led!program, Led!setmode
  <2>5. overlap' \/ LedReadBack'
    BY <1>6 DEF Led!InitSysfs, Led!ModuleStep, Led!program, Led!setmode
  <2> QED
    BY <2>1, <2>2, <2>3, <2>4, <2>5
<1>7. CASE Led!set_period
  <2>1. LedTypes'
    BY <1>7 DEF Led!set_period, Led!timer, Led!program, Led!pin, Led!setmode
  <2>2. LedCalls'
    BY <1>7 DEF Led!set_period, Led!timer, Led!program, Led!pin, Led!setmode
  <2>3. overlap' \/ LedAlone'
    BY <1>7 DEF Led!set_period, Led!timer, Led!program, Led!pin, Led!setmode
  <2>4. overlap' \/ LedFunction'
    BY <1>7 DEF Led!set_period, Led!timer, Led!program, Led!pin, Led!setmode
  <2>5. overlap' \/ LedReadBack'
    BY <1>7 DEF Led!set_period, Led!timer, Led!program, Led!pin, Led!setmode
  <2> QED
    BY <2>1, <2>2, <2>3, <2>4, <2>5
<1>8. CASE Led!RemoveSysfs
  <2>1. LedTypes'
    BY <1>8 DEF Led!RemoveSysfs, Led!ModuleStep, Led!program, Led!setmode
  <2>2. LedCalls'
    BY <1>8 DEF Led!RemoveSysfs, Led!ModuleStep, Led!program, Led!setmode
  <2>3. overlap' \/ LedAlone'
    BY <1>8 DEF Led!RemoveSysfs, Led!ModuleStep, Led!program, Led!setmode
  <2>4. overlap' \/ LedFunction'
    BY <1>8 DEF Led!RemoveSysfs, Led!ModuleStep, Led!program, Led!setmode
  <2>5. overlap' \/ LedReadBack'
    BY <1>8 DEF Led!RemoveSysfs, Led!ModuleStep, Led!program, Led!setmode
  <2> QED
    BY <2>1, <2>2, <2>3, <2>4, <2>5
<1>9. CASE Led!DelTimer
  <2>1. LedTypes'
    BY <1>9 DEF Led!DelTimer, Led!ModuleStep, Led!program, Led!setmode
  <2>2. LedCalls'
    BY <1>9 DEF Led!DelTimer, Led!ModuleStep, Led!program, Led!setmode
  <2>3. overlap' \/ LedAlone'
    BY <1>9 DEF Led!DelTimer, Led!ModuleStep, Led!program, Led!setmode
  <2>4. overlap' \/ LedFunction'
    BY <1>9 DEF Led!DelTimer, Led!ModuleStep, Led!program, Led!setmode
  <2>5. overlap' \/ LedReadBack'
    BY <1>9 DEF Led!DelTimer, Led!ModuleStep, Led!program, Led!setmode
  <2> QED
    BY <2>1, <2>2, <2>3, <2>4, <2>5
<1>10. CASE Led!ExitPin
  <2>1. LedTypes'
    BY <1>10 DEF Led!ExitPin, Led!ModuleStep, Led!set_gpio_mode, Led!program
  <2>2. LedCalls'
    BY <1>10 DEF Led!ExitPin, Led!ModuleStep, Led!set_gpio_mode, Led!program
  <2>3. overlap' \/ LedAlone'
    BY <1>10 DEF Led!ExitPin, Led!ModuleStep, Led!set_gpio_mode, Led!program
  <2>4. overlap' \/ LedFunction'
    BY <1>10 DEF Led!ExitPin, Led!ModuleStep, Led!set_gpio_mode, Led!program
  <2>5. overlap' \/ LedReadBack'
    BY <1>10 DEF Led!ExitPin, Led!ModuleStep, Led!set_gpio_mode, Led!program
  <2> QED
    BY <2>1, <2>2, <2>3, <2>4, <2>5
<1>11. CASE Led!FreeModule
  <2>1. LedTypes'
    BY <1>11 DEF Led!FreeModule, Led!ModuleStep, Led!program, Led!setmode
  <2>2. LedCalls'
    BY <1>11 DEF Led!FreeModule, Led!ModuleStep, Led!program, Led!setmode
  <2>3. overlap' \/ LedAlone'
    BY <1>11 DEF Led!FreeModule, Led!ModuleStep, Led!program, Led!setmode
  <2>4. overlap' \/ LedFunction'
    BY <1>11 DEF Led!FreeModule, Led!ModuleStep, Led!program, Led!setmode
  <2>5. overlap' \/ LedReadBack'
    BY <1>11 DEF Led!FreeModule, Led!ModuleStep, Led!program, Led!setmode
  <2> QED
    BY <2>1, <2>2, <2>3, <2>4, <2>5
<1>12. CASE Led!Expire
  <2>1. LedTypes'
    BY <1>12 DEF Led!Expire, Led!program, Led!pin, Led!setmode
  <2>2. LedCalls'
    BY <1>12 DEF Led!Expire, Led!program, Led!pin, Led!setmode
  <2>3. overlap' \/ LedAlone'
    BY <1>12 DEF Led!Expire, Led!program, Led!pin, Led!setmode
  <2>4. overlap' \/ LedFunction'
    BY <1>12 DEF Led!Expire, Led!program, Led!pin, Led!setmode
  <2>5. overlap' \/ LedReadBack'
    BY <1>12 DEF Led!Expire, Led!program, Led!pin, Led!setmode
  <2> QED
    BY <2>1, <2>2, <2>3, <2>4, <2>5
<1>13. CASE Led!Toggle
  <2>1. LedTypes'
    BY <1>13 DEF Led!Toggle, Led!program, Led!setmode
  <2>2. LedCalls'
    BY <1>13 DEF Led!Toggle, Led!program, Led!setmode
  <2>3. overlap' \/ LedAlone'
    BY <1>13 DEF Led!Toggle, Led!program, Led!setmode
  <2>4. overlap' \/ LedFunction'
    BY <1>13 DEF Led!Toggle, Led!program, Led!setmode
  <2>5. overlap' \/ LedReadBack'
    BY <1>13 DEF Led!Toggle, Led!program, Led!setmode
  <2> QED
    BY <2>1, <2>2, <2>3, <2>4, <2>5
<1>14. CASE Led!Rearm
  <2>1. LedTypes'
    BY <1>14 DEF Led!Rearm, Led!program, Led!pin, Led!setmode
  <2>2. LedCalls'
    BY <1>14 DEF Led!Rearm, Led!program, Led!pin, Led!setmode
  <2>3. overlap' \/ LedAlone'
    BY <1>14 DEF Led!Rearm, Led!program, Led!pin, Led!setmode
  <2>4. overlap' \/ LedFunction'
    BY <1>14 DEF Led!Rearm, Led!program, Led!pin, Led!setmode
  <2>5. overlap' \/ LedReadBack'
    BY <1>14 DEF Led!Rearm, Led!program, Led!pin, Led!setmode
  <2> QED
    BY <2>1, <2>2, <2>3, <2>4, <2>5
<1>15. CASE Led!MapFails
  <2>1. LedTypes'
    BY <1>15 DEF Led!MapFails, Led!UserStep, Led!timer, Led!setmode
  <2>2. LedCalls'
    BY <1>15 DEF Led!MapFails, Led!UserStep, Led!timer, Led!setmode
  <2>3. overlap' \/ LedAlone'
    BY <1>15 DEF Led!MapFails, Led!UserStep, Led!timer, Led!setmode
  <2>4. overlap' \/ LedFunction'
    BY <1>15 DEF Led!MapFails, Led!UserStep, Led!timer, Led!setmode
  <2>5. overlap' \/ LedReadBack'
    BY <1>15 DEF Led!MapFails, Led!UserStep, Led!timer, Led!setmode
  <2> QED
    BY <2>1, <2>2, <2>3, <2>4, <2>5
<1>16. CASE Led!Map
  <2>1. LedTypes'
    BY <1>16 DEF Led!Map, Led!UserStep, Led!set_gpio_mode, Led!timer
  <2>2. LedCalls'
    BY <1>16 DEF Led!Map, Led!UserStep, Led!set_gpio_mode, Led!timer
  <2>3. overlap' \/ LedAlone'
    BY <1>16 DEF Led!Map, Led!UserStep, Led!set_gpio_mode, Led!timer
  <2>4. overlap' \/ LedFunction'
    BY <1>16 DEF Led!Map, Led!UserStep, Led!set_gpio_mode, Led!timer
  <2>5. overlap' \/ LedReadBack'
    BY <1>16 DEF Led!Map, Led!UserStep, Led!set_gpio_mode, Led!timer
  <2> QED
    BY <2>1, <2>2, <2>3, <2>4, <2>5
<1>17. CASE Led!SetLevel("set 1", 1, "get 1")
  <2>1. LedTypes'
    BY <1>17 DEF Led!SetLevel, Led!UserStep, Led!timer, Led!setmode
  <2>2. LedCalls'
    BY <1>17 DEF Led!SetLevel, Led!UserStep, Led!timer, Led!setmode
  <2>3. overlap' \/ LedAlone'
    BY <1>17 DEF Led!SetLevel, Led!UserStep, Led!timer, Led!setmode
  <2>4. overlap' \/ LedFunction'
    BY <1>17 DEF Led!SetLevel, Led!UserStep, Led!timer, Led!setmode
  <2>5. overlap' \/ LedReadBack'
    BY <1>17 DEF Led!SetLevel, Led!UserStep, Led!timer, Led!setmode
  <2> QED
    BY <2>1, <2>2, <2>3, <2>4, <2>5
<1>18. CASE Led!ReadLevel("get 1", 1, "set 0")
  <2>1. LedTypes'
    BY <1>18 DEF Led!ReadLevel, Led!UserStep, Led!timer, Led!setmode, Led!get_gpio, Led!Levels
  <2>2. LedCalls'
    BY <1>18 DEF Led!ReadLevel, Led!UserStep, Led!timer, Led!setmode, Led!get_gpio, Led!Levels
  <2>3. overlap' \/ LedAlone'
    BY <1>18 DEF Led!ReadLevel, Led!UserStep, Led!timer, Led!setmode, Led!get_gpio, Led!Levels
  <2>4. overlap' \/ LedFunction'
    BY <1>18 DEF Led!ReadLevel, Led!UserStep, Led!timer, Led!setmode, Led!get_gpio, Led!Levels
  <2>5. overlap' \/ LedReadBack'
    <3>1. SUFFICES ASSUME ~overlap, module = "none"
                   PROVE  s32temp' = <<0, 1>> /\ user' \notin {"get 0", "get 1"}
      BY <1>18 DEF Led!ReadLevel, Led!UserStep
    <3>2. Led!get_gpio = {1}
      BY <1>18, <3>1 DEF Led!ReadLevel, Led!UserStep, Led!get_gpio
    <3>3. PICK level \in Led!get_gpio : s32temp' = [s32temp EXCEPT ![1 + 1] = level]
      BY <1>18 DEF Led!ReadLevel
    <3>4. level = 1 /\ s32temp = <<0, 1>>
      BY <3>1, <3>2
    <3>5. s32temp' = <<0, 1>>
      BY <3>3, <3>4, LedSameLevels
    <3> QED
      BY <1>18, <3>5 DEF Led!ReadLevel, Led!UserStep
  <2> QED
    BY <2>1, <2>2, <2>3, <2>4, <2>5
<1>19. CASE Led!SetLevel("set 0", 0, "get 0")
  <2>1. LedTypes'
    BY <1>19 DEF Led!SetLevel, Led!UserStep, Led!timer, Led!setmode
  <2>2. LedCalls'
    BY <1>19 DEF Led!SetLevel, Led!UserStep, Led!timer, Led!setmode
  <2>3. overlap' \/ LedAlone'
    BY <1>19 DEF Led!SetLevel, Led!UserStep, Led!timer, Led!setmode
  <2>4. overlap' \/ LedFunction'
    BY <1>19 DEF Led!SetLevel, Led!UserStep, Led!timer, Led!setmode
  <2>5. overlap' \/ LedReadBack'
    BY <1>19 DEF Led!SetLevel, Led!UserStep, Led!timer, Led!setmode
  <2> QED
    BY <2>1, <2>2, <2>3, <2>4, <2>5
<1>20. CASE Led!ReadLevel("get 0", 0, "set 1")
  <2>1. LedTypes'
    BY <1>20 DEF Led!ReadLevel, Led!UserStep, Led!timer, Led!setmode, Led!get_gpio, Led!Levels
  <2>2. LedCalls'
    BY <1>20 DEF Led!ReadLevel, Led!UserStep, Led!timer, Led!setmode, Led!get_gpio, Led!Levels
  <2>3. overlap' \/ LedAlone'
    BY <1>20 DEF Led!ReadLevel, Led!UserStep, Led!timer, Led!setmode, Led!get_gpio, Led!Levels
  <2>4. overlap' \/ LedFunction'
    BY <1>20 DEF Led!ReadLevel, Led!UserStep, Led!timer, Led!setmode, Led!get_gpio, Led!Levels
  <2>5. overlap' \/ LedReadBack'
    <3>1. SUFFICES ASSUME ~overlap, module = "none"
                   PROVE  s32temp' = <<0, 1>> /\ user' \notin {"get 0", "get 1"}
      BY <1>20 DEF Led!ReadLevel, Led!UserStep
    <3>2. Led!get_gpio = {0}
      BY <1>20, <3>1 DEF Led!ReadLevel, Led!UserStep, Led!get_gpio
    <3>3. PICK level \in Led!get_gpio : s32temp' = [s32temp EXCEPT ![0 + 1] = level]
      BY <1>20 DEF Led!ReadLevel
    <3>4. level = 0 /\ s32temp = <<0, 1>>
      BY <3>1, <3>2
    <3>5. s32temp' = <<0, 1>>
      BY <3>3, <3>4, LedSameLevels
    <3> QED
      BY <1>20, <3>5 DEF Led!ReadLevel, Led!UserStep
  <2> QED
    BY <2>1, <2>2, <2>3, <2>4, <2>5
<1>21. CASE Led!Unmap
  <2>1. LedTypes'
    BY <1>21 DEF Led!Unmap, Led!UserStep, Led!set_gpio_mode, Led!timer
  <2>2. LedCalls'
    BY <1>21 DEF Led!Unmap, Led!UserStep, Led!set_gpio_mode, Led!timer
  <2>3. overlap' \/ LedAlone'
    BY <1>21 DEF Led!Unmap, Led!UserStep, Led!set_gpio_mode, Led!timer
  <2>4. overlap' \/ LedFunction'
    BY <1>21 DEF Led!Unmap, Led!UserStep, Led!set_gpio_mode, Led!timer
  <2>5. overlap' \/ LedReadBack'
    BY <1>21 DEF Led!Unmap, Led!UserStep, Led!set_gpio_mode, Led!timer
  <2> QED
    BY <2>1, <2>2, <2>3, <2>4, <2>5
<1>22. CASE Led!Exit
  <2>1. LedTypes'
    BY <1>22 DEF Led!Exit, Led!UserStep, Led!timer, Led!setmode
  <2>2. LedCalls'
    BY <1>22 DEF Led!Exit, Led!UserStep, Led!timer, Led!setmode
  <2>3. overlap' \/ LedAlone'
    BY <1>22 DEF Led!Exit, Led!UserStep, Led!timer, Led!setmode
  <2>4. overlap' \/ LedFunction'
    BY <1>22 DEF Led!Exit, Led!UserStep, Led!timer, Led!setmode
  <2>5. overlap' \/ LedReadBack'
    BY <1>22 DEF Led!Exit, Led!UserStep, Led!timer, Led!setmode
  <2> QED
    BY <2>1, <2>2, <2>3, <2>4, <2>5
<1>23. CASE UNCHANGED LedVars
  BY <1>23 DEF LedVars, Led!timer, Led!program, Led!pin, Led!setmode
<1> QED
  BY <1>1, <1>2, <1>3, <1>4, <1>5, <1>6, <1>7, <1>8, <1>9, <1>10, <1>11, <1>12, <1>13, <1>14,
     <1>15, <1>16, <1>17, <1>18, <1>19, <1>20, <1>21, <1>22, <1>23, LedSame DEF Led!Next

LEMMA LedPinInvTells == LedPinInv => Led!PinMode
  BY DEF LedPinInv, LedTypes, LedCalls, LedAlone, LedFunction, LedReadBack, LedIdle,
     LedModuleOn, LedUserOn,
         Led!Parties, Led!INPUT, Led!OUTPUT, Led!PinMode, Led!Away, Led!Closed

(***************************************************************************)
(* As long as the module and the program are never in set_gpio_mode() at   *)
(* once, the pin ends as an input, is an output while one of them works    *)
(* alone, and the program reads back the levels it sets: however many      *)
(* rounds it does and whatever the timer handler does meanwhile.           *)
(***************************************************************************)
THEOREM PinModeHolds == ProgramsSpec => []PinMode
  BY LedPinInit, LedPinStep, LedPinInvTells, LedFrame, PTL DEF PinMode

-----------------------------------------------------------------------------
(* The sysfs modules *)

LEMMA SysFrame == ProgramsSpec => Files!Init /\ [][Files!Next]_FilesVars
<1>1. ProgramsInit => Files!Init
  BY DEF ProgramsInit
<1>2. [ProgramsNext]_allvars => [Files!Next]_FilesVars
  BY DEF ProgramsNext, Runs, allvars
<1> QED
  BY <1>1, <1>2, PTL DEF ProgramsSpec

LEMMA SysSame == UNCHANGED Files!vars => UNCHANGED FilesVars
  BY DEF Files!vars, FilesVars, Files!kobj, Files!family, Files!procs

\* The walk of a writer goes on from the last pid it has printed, and as long as
\* nobody exits it meets only processes that are there.

SysTypes ==
  /\ value \in [Files!Files -> Numbers \cup Garbage \cup {0}]
  /\ accepted \in [Files!Files -> SUBSET (Numbers \cup {0})]
  /\ sysPc \in [Writers -> {"idle", "find", "walk", "fault"}]
  /\ sysText \in [Writers -> Numbers \cup {Files!Junk, 0}]
  /\ overtaken \in [Writers -> BOOLEAN] /\ met_exit \in [Writers -> BOOLEAN]
  /\ task \in [Writers -> Processes \cup {0}]
  /\ path \in [Writers -> Seq(Processes \cup {0})]
  /\ alive \subseteq Processes
  /\ real_parent \in [Processes -> Processes \cup {0}]

\* Orphans get init, which does not exit.
SysParentsAreAlive == 1 \in alive /\ \A p \in alive : real_parent[p] \in alive \cup {0}

SysWalks(w) ==
  /\ sysPc[w] = "find" /\ ~overtaken[w] => fam_reader = sysText[w]
  /\ sysPc[w] = "walk" => Len(path[w]) > 0 /\ path[w][Len(path[w])] = task[w]
  /\ sysPc[w] = "walk" /\ ~met_exit[w] => task[w] \in alive \cup {0}

SysAncestors(w) ==
  /\ sysPc[w] = "fault" => met_exit[w]
  /\ path[w] # << >> /\ ~overtaken[w] => path[w][1] = sysText[w]
  /\ ~met_exit[w] /\ sysPc[w] = "walk" =>
       \A j \in 1 .. Len(path[w]) - 1 :
         path[w][j] \notin {0, 1} /\ path[w][j + 1] = real_parent[path[w][j]]

SysIInv ==
  /\ SysTypes /\ Files!StoresAreSound /\ SysParentsAreAlive
  /\ \A w \in Writers : SysWalks(w) /\ SysAncestors(w)

LEMMA SysSInit == Files!Init => SysIInv
<1> SUFFICES ASSUME Files!Init PROVE SysIInv
  OBVIOUS
<1>1. SysTypes
  BY SysfsAssumption DEF Files!Init, SysTypes
<1>2. Files!StoresAreSound
  BY DEF Files!Init, Files!StoresAreSound
<1>3. SysParentsAreAlive
  BY SysfsAssumption DEF Files!Init, SysParentsAreAlive
<1> QED
  BY <1>1, <1>2, <1>3 DEF SysIInv, Files!Init, SysWalks, SysAncestors

\* A step of fam_reader_store(w) leaves the stores, and who is alive, alone.
LEMMA SysWriterStep ==
  ASSUME SysIInv, NEW w \in Writers, UNCHANGED <<Files!kobj, Files!procs>>, SysTypes',
         \A v \in Writers : (SysWalks(v) /\ SysAncestors(v))'
  PROVE  SysIInv'
  BY DEF SysIInv, Files!kobj, Files!procs, Files!StoresAreSound, SysParentsAreAlive

LEMMA SysSStep == SysIInv /\ [Files!Next]_FilesVars => SysIInv'
<1> SUFFICES ASSUME SysIInv, [Files!Next]_FilesVars PROVE SysIInv'
  OBVIOUS
<1>0. SysTypes /\ Files!StoresAreSound /\ SysParentsAreAlive /\ \A v \in Writers : SysWalks(v) /\ SysAncestors(v)
  BY DEF SysIInv
<1>1. CASE UNCHANGED <<Files!kobj, Files!family, Files!procs>>
  BY <1>0, <1>1 DEF Files!kobj, Files!family, Files!procs, SysIInv, SysTypes,
     Files!StoresAreSound, SysParentsAreAlive, SysWalks, SysAncestors
<1>2. CASE Files!Unload
  <2> USE DEF Files!Unload, Files!procs
  <2>1. SysTypes'
    BY <1>0, <1>2 DEF SysTypes
  <2>2. Files!StoresAreSound' /\ SysParentsAreAlive'
    BY <1>0, <1>2 DEF Files!StoresAreSound, SysParentsAreAlive
  <2>3. \A v \in Writers : (SysWalks(v) /\ SysAncestors(v))'
    BY <1>0, <1>2 DEF SysWalks, SysAncestors
  <2> QED
    BY <2>1, <2>2, <2>3 DEF SysIInv
<1>3. CASE Files!foo_store \/ \E f \in {"baz", "bar"} : Files!b_store(f)
  <2> USE DEF Files!family, Files!procs
  <2>1. ASSUME NEW f \in Files!Files, NEW x \in Numbers \cup Garbage,
               value' = [value EXCEPT ![f] = x],
               \/ x \in Numbers /\ accepted' = [accepted EXCEPT ![f] = @ \cup {x}] /\ UNCHANGED rejected
               \/ f = "foo" /\ rejected' = TRUE /\ UNCHANGED accepted,
               UNCHANGED <<dir, Files!family, Files!procs>>
        PROVE  SysIInv'
    <3>1. SysTypes'
      <4>1. value' \in [Files!Files -> Numbers \cup Garbage \cup {0}]
        BY <1>0, <2>1 DEF SysTypes
      <4>2. accepted' \in [Files!Files -> SUBSET (Numbers \cup {0})]
        <5>1. accepted[f] \in SUBSET (Numbers \cup {0})
          BY <1>0 DEF SysTypes
        <5>2. x \in Numbers => accepted[f] \cup {x} \in SUBSET (Numbers \cup {0})
          BY <5>1
        <5> QED
          BY <1>0, <2>1, <5>2 DEF SysTypes
      <4> QED
        BY <1>0, <2>1, <4>1, <4>2 DEF SysTypes
    <3>2. Files!StoresAreSound'
      BY <1>0, <2>1 DEF SysTypes, Files!StoresAreSound
    <3>3. SysParentsAreAlive' /\ \A v \in Writers : (SysWalks(v) /\ SysAncestors(v))'
      BY <1>0, <2>1 DEF SysParentsAreAlive, SysWalks, SysAncestors
    <3> QED
      BY <3>1, <3>2, <3>3 DEF SysIInv
  <2> QED
    BY <1>3, <2>1 DEF Files!foo_store, Files!b_store, Files!Files
<1>4. ASSUME NEW w \in Writers, Files!Convert(w) PROVE SysIInv'
  <2> USE DEF Files!Convert
  <2>1. SysTypes'
    <3>1. PICK n \in Numbers \cup {Files!Junk} :
            /\ sysText' = [sysText EXCEPT ![w] = n]
            /\ IF n = Files!Junk THEN UNCHANGED <<fam_reader, sysPc, overtaken>>
               ELSE /\ sysPc' = [sysPc EXCEPT ![w] = "find"]
                    /\ overtaken' = [v \in Writers |-> v # w /\ (overtaken[v] \/ sysPc[v] = "find")]
      BY <1>4
    <3>2. sysText' \in [Writers -> Numbers \cup {Files!Junk, 0}] /\ sysPc' \in [Writers -> {"idle", "find", "walk", "fault"}]
      BY <1>0, <3>1 DEF SysTypes
    <3>3. overtaken' \in [Writers -> BOOLEAN]
      BY <1>0, <3>1 DEF SysTypes
    <3>4. path' \in [Writers -> Seq(Processes \cup {0})] /\ met_exit' \in [Writers -> BOOLEAN]
      <4>1. << >> \in Seq(Processes \cup {0})
        OBVIOUS
      <4> QED
        BY <1>0, <1>4, <4>1 DEF SysTypes
    <3> QED
      BY <1>0, <1>4, <3>2, <3>3, <3>4 DEF SysTypes, Files!procs, Files!kobj
  <2>2. ASSUME NEW v \in Writers PROVE (SysWalks(v) /\ SysAncestors(v))'
    <3>1. CASE v # w
      <4>1. /\ sysPc'[v] = sysPc[v] /\ sysText'[v] = sysText[v] /\ path'[v] = path[v]
            /\ met_exit'[v] = met_exit[v] /\ task' = task
        BY <1>0, <1>4, <3>1 DEF SysTypes
      <4>2. \/ overtaken'[v] = overtaken[v] /\ fam_reader' = fam_reader
            \/ overtaken'[v] = (overtaken[v] \/ sysPc[v] = "find")
        BY <1>0, <1>4, <3>1 DEF SysTypes
      <4> QED
        BY <1>0, <1>4, <4>1, <4>2 DEF SysTypes, Files!procs, SysWalks, SysAncestors
    <3>2. CASE v = w
      BY <1>0, <1>4, <3>2 DEF SysTypes, Files!procs, SysWalks, SysAncestors
    <3> QED
      BY <3>1, <3>2
  <2> QED
    BY <1>4, <2>1, <2>2, SysWriterStep
<1>5. ASSUME NEW w \in Writers, Files!FindPid(w) PROVE SysIInv'
  <2> USE DEF Files!FindPid
  <2>1. fam_reader \in alive => <<fam_reader>> \in Seq(Processes \cup {0})
    BY <1>0 DEF SysTypes
  <2>2. SysTypes'
    BY <1>0, <1>5, <2>1 DEF SysTypes, Files!procs, Files!kobj
  <2>3. ASSUME NEW v \in Writers PROVE (SysWalks(v) /\ SysAncestors(v))'
    <3>1. CASE v # w
      BY <1>0, <1>5, <3>1 DEF SysTypes, Files!procs, SysWalks, SysAncestors
    <3>2. CASE v = w
      <4>1. CASE fam_reader \in alive
        <5>1. /\ sysPc'[w] = "walk" /\ task'[w] = fam_reader /\ path'[w] = <<fam_reader>>
              /\ Len(path'[w]) = 1 /\ path'[w][1] = fam_reader
          BY <1>0, <1>5, <4>1 DEF SysTypes
        <5> QED
          BY <1>0, <1>5, <3>2, <4>1, <5>1 DEF Files!procs, SysWalks, SysAncestors
      <4>2. CASE fam_reader \notin alive
        BY <1>0, <1>5, <3>2, <4>2 DEF SysTypes, Files!procs, SysWalks, SysAncestors
      <4> QED
        BY <4>1, <4>2
    <3> QED
      BY <3>1, <3>2
  <2> QED
    BY <1>5, <2>2, <2>3, SysWriterStep
<1>6. ASSUME NEW w \in Writers, Files!Walk(w) PROVE SysIInv'
  <2> USE DEF Files!Walk
  <2>1. CASE task[w] \notin alive
    <3>1. task[w] \notin alive \cup {0}
      BY <1>6, <2>1
    <3>2. SysTypes'
      BY <1>0, <1>6, <2>1 DEF SysTypes, Files!procs, Files!kobj
    <3>3. ASSUME NEW v \in Writers PROVE (SysWalks(v) /\ SysAncestors(v))'
      BY <1>0, <1>6, <2>1, <3>1 DEF SysTypes, Files!procs, SysWalks, SysAncestors
    <3> QED
      BY <1>6, <3>2, <3>3, SysWriterStep
  <2>2. CASE task[w] \in alive
    <3> DEFINE parent == real_parent[task[w]]
    <3>1. /\ parent \in alive \cup {0} /\ parent \in Processes \cup {0}
          /\ path[w] \in Seq(Processes \cup {0})
      BY <1>0, <2>2 DEF SysTypes, SysParentsAreAlive
    <3>2. /\ task' = [task EXCEPT ![w] = parent]
          /\ path' = [path EXCEPT ![w] = Append(path[w], parent)]
          /\ UNCHANGED sysPc
      BY <1>0, <1>6, <2>2 DEF SysTypes
    <3> HIDE DEF parent
    <3>3. Append(path[w], parent) \in Seq(Processes \cup {0})
      BY <3>1
    <3>4. SysTypes'
      BY <1>0, <1>6, <3>1, <3>2, <3>3 DEF SysTypes, Files!procs, Files!kobj
    <3>5. ASSUME NEW v \in Writers, v # w PROVE (SysWalks(v) /\ SysAncestors(v))'
      BY <1>0, <1>6, <3>2, <3>5 DEF SysTypes, Files!procs, SysWalks, SysAncestors
    <3>6. /\ path'[w] = Append(path[w], parent) /\ task'[w] = parent
          /\ Len(path'[w]) = Len(path[w]) + 1
          /\ path'[w][Len(path[w]) + 1] = parent
          /\ \A j \in 1 .. Len(path[w]) : path'[w][j] = path[w][j]
          /\ Len(path[w]) \in Nat \ {0} /\ path[w][Len(path[w])] = task[w]
      BY <1>0, <1>6, <3>1, <3>2 DEF SysTypes, SysWalks
    <3>7. SysWalks(w)'
      BY <1>0, <1>6, <3>1, <3>6 DEF SysTypes, Files!procs, SysWalks
    <3>8. SysAncestors(w)'
      <4>1. path[w] # << >> /\ path'[w][1] = path[w][1]
        BY <3>1, <3>6
      <4>2. ASSUME ~met_exit[w], NEW j \in 1 .. Len(path[w])
            PROVE  path'[w][j] \notin {0, 1} /\ path'[w][j + 1] = real_parent[path'[w][j]]
        <5>1. CASE j = Len(path[w])
          BY <1>6, <5>1, <3>6 DEF parent
        <5>2. CASE j \in 1 .. Len(path[w]) - 1
          <6>1. path'[w][j] = path[w][j] /\ path'[w][j + 1] = path[w][j + 1]
            BY <5>2, <3>6
          <6> QED
            BY <5>2, <6>1, <1>0, <1>6, <4>2 DEF SysAncestors
        <5> QED
          BY <5>1, <5>2, <3>6
      <4>3. Len(path'[w]) - 1 = Len(path[w])
        BY <3>6
      <4> QED
        BY <1>0, <1>6, <3>2, <4>1, <4>2, <4>3 DEF SysAncestors, Files!procs
    <3> QED
      BY <1>6, <3>4, <3>5, <3>7, <3>8, SysWriterStep
  <2> QED
    BY <2>1, <2>2
<1>7. ASSUME NEW w \in Writers, Files!EndWalk(w) PROVE SysIInv'
  <2> USE DEF Files!EndWalk
  <2>1. SysTypes'
    BY <1>0, <1>7 DEF SysTypes, Files!procs, Files!kobj
  <2>2. ASSUME NEW v \in Writers PROVE (SysWalks(v) /\ SysAncestors(v))'
    BY <1>0, <1>7 DEF SysTypes, Files!procs, SysWalks, SysAncestors
  <2> QED
    BY <1>7, <2>1, <2>2, SysWriterStep
<1>8. ASSUME NEW p \in Processes, Files!ProcessExits(p) PROVE SysIInv'
  <2> USE DEF Files!ProcessExits
  <2>1. SysTypes'
    BY <1>0, <1>8, SysfsAssumption DEF SysTypes, Files!kobj
  <2>2. Files!StoresAreSound'
    BY <1>0, <1>8 DEF Files!StoresAreSound, Files!kobj
  <2>3. SysParentsAreAlive'
    BY <1>0, <1>8 DEF SysTypes, SysParentsAreAlive
  <2>4. ASSUME NEW v \in Writers PROVE (SysWalks(v) /\ SysAncestors(v))'
    BY <1>0, <1>8 DEF SysTypes, SysWalks, SysAncestors
  <2> QED
    BY <2>1, <2>2, <2>3, <2>4 DEF SysIInv
<1>9. CASE \E m \in Files!Modules : Files!Load(m)
  BY <1>1, <1>9 DEF Files!Load
<1>10. CASE UNCHANGED FilesVars
  BY <1>1, <1>10 DEF FilesVars, Files!kobj, Files!family, Files!procs
<1> QED
  BY <1>2, <1>3, <1>4, <1>5, <1>6, <1>7, <1>8, <1>9, <1>10, SysSame DEF Files!Next,
     Files!fam_reader_store

(***************************************************************************)
(* Whatever is written to the files by however many writers, and whoever   *)
(* exits: baz and bar hold what was accepted, and the walk meets the       *)
(* ancestors of the process that its caller asked for.                     *)
(***************************************************************************)
THEOREM FilesAreSoundHolds == ProgramsSpec => []FilesAreSound
<1>1. SysIInv => Files!FilesAreSound
  BY DEF SysIInv, SysAncestors, Files!FilesAreSound, Files!WalkIsSound
<1> QED
  BY <1>1, SysSInit, SysSStep, SysFrame, PTL DEF FilesAreSound

-----------------------------------------------------------------------------
(* The pipe and FIFO programs *)

LEMMA PipFrame == ProgramsSpec => Streams!Init /\ [][Streams!Next]_StreamsVars
<1>1. ProgramsInit => Streams!Init
  BY DEF ProgramsInit
<1>2. [ProgramsNext]_allvars => [Streams!Next]_StreamsVars
  BY DEF ProgramsNext, Runs, allvars
<1> QED
  BY <1>1, <1>2, PTL DEF ProgramsSpec

LEMMA PipSame == UNCHANGED Streams!vars => UNCHANGED StreamsVars
  BY DEF Streams!vars, StreamsVars, Streams!ends, Streams!data

\* After the end of file nobody holds a write end but those who came late; and
\* the reader of FIFO_wr never gets there.

PipTypes ==
  /\ setup \in {"none", "Pipe", "FIFO", "FIFO_wr"}
  /\ reader \in {"none", "start", "fork", "close", "open", "opening", "read", "close2"} \cup Streams!Ended
  /\ writer \in [Writers -> {"start", "fork", "open"} \cup Streams!Ended]
  /\ pipeLeft \in [Writers -> 0 .. Items]
  /\ channel \in Seq((Writers \X (1 .. Items)) \cup {Streams!Junk})

\* Where the reader of which program can be, and which ends it then holds.
PipPlace ==
  /\ setup = "none" => reader = "none"
  /\ reader \in {"fork", "close"} => setup = "Pipe"
  /\ reader \in {"close2", "exited"} => setup # "FIFO_wr"
  /\ reader = "read" /\ setup = "FIFO_wr" => own
  /\ reader = "exited" => ~rd

PipNoneButLate ==
  reader \in {"close2", "exited"} =>
    /\ \A j \in 1 .. Len(channel) : channel[j][1] \in late
    /\ reader = "close2" => Streams!Open \subseteq late

PipJunkIsKnown ==
  /\ stale => junk
  /\ \A j \in 1 .. Len(channel) : channel[j] = Streams!Junk => junk

PipIInv == PipTypes /\ PipPlace /\ PipNoneButLate /\ PipJunkIsKnown

LEMMA PipPInit == Streams!Init => PipIInv
  BY PipesAssumption DEF Streams!Init, PipIInv, PipTypes, PipPlace, PipNoneButLate,
     PipJunkIsKnown, Streams!Ended

LEMMA PipHeadAndTail ==
  ASSUME PipTypes, channel # << >>
  PROVE  /\ Tail(channel) \in Seq((Writers \X (1 .. Items)) \cup {Streams!Junk})
         /\ Head(channel) = channel[1] /\ 1 \in 1 .. Len(channel)
         /\ Len(Tail(channel)) = Len(channel) - 1
         /\ \A j \in 1 .. Len(Tail(channel)) :
              j + 1 \in 1 .. Len(channel) /\ Tail(channel)[j] = channel[j + 1]
<1> DEFINE Item == (Writers \X (1 .. Items)) \cup {Streams!Junk}
<1>1. channel \in Seq(Item)
  BY DEF PipTypes
<1> HIDE DEF Item
<1>2. Tail(channel) \in Seq(Item) /\ Len(Tail(channel)) = Len(channel) - 1 /\ Len(channel) \in Nat \ {0}
  BY <1>1
<1> QED
  BY <1>1, <1>2 DEF Item

LEMMA PipAppended ==
  ASSUME PipTypes, NEW m \in (Writers \X (1 .. Items)) \cup {Streams!Junk}
  PROVE  /\ Append(channel, m) \in Seq((Writers \X (1 .. Items)) \cup {Streams!Junk})
         /\ Len(Append(channel, m)) = Len(channel) + 1
         /\ \A j \in 1 .. Len(channel) + 1 :
              IF j = Len(channel) + 1 THEN Append(channel, m)[j] = m
              ELSE j \in 1 .. Len(channel) /\ Append(channel, m)[j] = channel[j]
<1> DEFINE Item == (Writers \X (1 .. Items)) \cup {Streams!Junk}
<1>1. channel \in Seq(Item) /\ m \in Item
  BY DEF PipTypes
<1> HIDE DEF Item
<1>2. Append(channel, m) \in Seq(Item) /\ Len(Append(channel, m)) = Len(channel) + 1
  BY <1>1
<1>3. \A j \in 1 .. Len(channel) + 1 :
        IF j = Len(channel) + 1 THEN Append(channel, m)[j] = m
        ELSE j \in 1 .. Len(channel) /\ Append(channel, m)[j] = channel[j]
  BY <1>1
<1> QED
  BY <1>2, <1>3 DEF Item

LEMMA PipPStep == PipIInv /\ [Streams!Next]_StreamsVars => PipIInv'
<1> SUFFICES ASSUME PipIInv, [Streams!Next]_StreamsVars PROVE PipIInv'
  OBVIOUS
<1> USE DEF Streams!ends, Streams!data
<1>0. PipTypes /\ PipPlace /\ PipNoneButLate /\ PipJunkIsKnown
  BY DEF PipIInv
<1>1. CASE Streams!Run \/ Streams!Pipe \/ Streams!Fork \/ Streams!CloseWriteEnd \/ Streams!Mkfifo \/ Streams!OpenRead \/ Streams!OpenReadEnds
           \/ Streams!CloseReadEnd \/ Streams!KillReader
  <2> USE DEF Streams!Run, Streams!Pipe, Streams!Fork, Streams!CloseWriteEnd, Streams!Mkfifo,
     Streams!OpenRead, Streams!OpenReadEnds, Streams!CloseReadEnd, Streams!KillReader
  <2>1. PipTypes'
    BY <1>0, <1>1, PipesAssumption DEF PipTypes, Streams!Ended
  <2>2. PipPlace'
    BY <1>0, <1>1, PipesAssumption DEF PipTypes, PipPlace, Streams!Ended
  <2>3. PipNoneButLate'
    BY <1>0, <1>1 DEF PipNoneButLate, Streams!Ended, Streams!Open
  <2>4. PipJunkIsKnown'
    BY <1>0, <1>1 DEF PipJunkIsKnown
  <2> QED
    BY <2>1, <2>2, <2>3, <2>4 DEF PipIInv
<1>2. CASE Streams!CopyItem \/ Streams!EndOfFile
  <2> USE DEF Streams!CopyItem, Streams!EndOfFile
  <2>1. PipTypes' /\ PipPlace'
    BY <1>0, <1>2, PipHeadAndTail DEF PipTypes, PipPlace, Streams!Ended
  <2>2. PipNoneButLate'
    BY <1>0, <1>2 DEF PipNoneButLate, Streams!Open
  <2>3. PipJunkIsKnown'
    BY <1>0, <1>2, PipHeadAndTail DEF PipJunkIsKnown
  <2> QED
    BY <2>1, <2>2, <2>3 DEF PipIInv
<1>3. CASE Streams!PrintNumber
  <2> USE DEF Streams!PrintNumber
  <2>1. PipTypes' /\ PipPlace'
    BY <1>0, <1>3, PipHeadAndTail DEF PipTypes, PipPlace, Streams!Ended
  <2>2. PipNoneButLate'
    BY <1>0, <1>3 DEF PipNoneButLate
  <2>3. PipJunkIsKnown'
    BY <1>0, <1>3, PipHeadAndTail DEF PipJunkIsKnown, PipPlace
  <2> QED
    BY <2>1, <2>2, <2>3 DEF PipIInv
<1>4. CASE Streams!StartChild \/ \E w \in Writers : Streams!BrokenPipe(w) \/ Streams!CloseWriter(w) \/ Streams!KillWriter(w)
  <2> USE DEF Streams!StartChild, Streams!BrokenPipe, Streams!CloseWriter, Streams!KillWriter
  <2>1. PipTypes' /\ PipPlace'
    BY <1>0, <1>4 DEF PipTypes, PipPlace, Streams!Ended
  <2>2. Streams!Open' \subseteq Streams!Open
    BY <1>0, <1>4 DEF PipTypes, Streams!Open, Streams!Ended
  <2>3. PipNoneButLate' /\ PipJunkIsKnown'
    BY <1>0, <1>4, <2>2 DEF PipNoneButLate, PipJunkIsKnown
  <2> QED
    BY <2>1, <2>3 DEF PipIInv
<1>5. ASSUME NEW w \in Writers, Streams!OpenWrite(w) PROVE PipIInv'
  <2> USE DEF Streams!OpenWrite
  <2>1. PipTypes' /\ PipPlace'
    BY <1>0, <1>5 DEF PipTypes, PipPlace, Streams!Ended
  <2>2. late \subseteq late' /\ (reader = "close2" => Streams!Open' \subseteq Streams!Open \cup late')
    BY <1>0, <1>5 DEF PipTypes, Streams!Open, Streams!Ended
  <2>3. PipNoneButLate' /\ PipJunkIsKnown'
    BY <1>0, <1>5, <2>2 DEF PipNoneButLate, PipJunkIsKnown
  <2> QED
    BY <2>1, <2>3 DEF PipIInv
<1>6. ASSUME NEW w \in Writers, Streams!Write(w) PROVE PipIInv'
  <2> USE DEF Streams!Write
  <2> DEFINE m == <<w, Items - pipeLeft[w] + 1>>
  <2>1. pipeLeft[w] \in 0 .. Items /\ pipeLeft[w] > 0
    BY <1>0, <1>6 DEF PipTypes
  <2>2. m \in Writers \X (1 .. Items) /\ m # Streams!Junk /\ m[1] = w
    BY <2>1, PipesAssumption DEF Streams!Junk
  <2>3. channel' = Append(channel, m) /\ rd /\ w \in Streams!Open
    BY <1>6 DEF Streams!Open
  <2> HIDE DEF m
  <2>4. PipTypes'
    BY <1>0, <1>6, <2>1, <2>2, <2>3, PipAppended, PipesAssumption DEF PipTypes
  <2>5. PipPlace'
    BY <1>0, <1>6 DEF PipPlace
  <2>6. PipNoneButLate'
    BY <1>0, <1>6, <2>2, <2>3, PipAppended DEF PipNoneButLate, PipPlace, Streams!Open
  <2>7. PipJunkIsKnown'
    BY <1>0, <1>6, <2>2, <2>3, PipAppended DEF PipJunkIsKnown
  <2> QED
    BY <2>4, <2>5, <2>6, <2>7 DEF PipIInv
<1>7. CASE Streams!WriteJunk
  <2> USE DEF Streams!WriteJunk
  <2>1. PipTypes' /\ PipPlace'
    BY <1>0, <1>7, PipAppended DEF PipTypes, PipPlace
  <2>2. PipNoneButLate' /\ PipJunkIsKnown'
    BY <1>0, <1>7 DEF PipNoneButLate, PipJunkIsKnown
  <2> QED
    BY <2>1, <2>2 DEF PipIInv
<1>8. CASE UNCHANGED StreamsVars
  BY <1>0, <1>8 DEF StreamsVars, PipIInv, PipTypes, PipPlace, PipNoneButLate, PipJunkIsKnown,
     Streams!Open
<1> QED
  BY <1>1, <1>2, <1>3, <1>4, <1>5, <1>6, <1>7, <1>8, PipSame DEF Streams!Next, Streams!Reader,
     Streams!Writer

(***************************************************************************)
(* However many writers there are, whatever each writes, and whoever is    *)
(* killed: a reader that ends by itself has read all that was written but  *)
(* for late writers, and FIFO_wr repeats a number only for junk.           *)
(***************************************************************************)
THEOREM AllIsPrintedHolds == ProgramsSpec => []AllIsPrinted
<1>1. PipIInv => Streams!AllIsPrinted
  BY DEF PipIInv, PipPlace, PipNoneButLate, PipJunkIsKnown, Streams!AllIsPrinted
<1> QED
  BY <1>1, PipPInit, PipPStep, PipFrame, PTL DEF AllIsPrinted

-----------------------------------------------------------------------------
(* The socket programs *)

LEMMA SocFrame == ProgramsSpec => Net!Init /\ [][Net!Next]_NetVars
<1>1. ProgramsInit => Net!Init
  BY DEF ProgramsInit
<1>2. [ProgramsNext]_allvars => [Net!Next]_NetVars
  BY DEF ProgramsNext, Runs, allvars
<1> QED
  BY <1>1, <1>2, PTL DEF ProgramsSpec

LEMMA SocSame == UNCHANGED Net!vars => UNCHANGED NetVars
  BY DEF Net!vars, NetVars, Net!buffer, Net!links

SocByte == (UNION {Net!Set(s) : s \in Texts}) \cup {Net!NUL, Net!Unknown, Net!Msg}
SocRunning == {"accept", "serve", "close"}

SocTypes ==
  /\ family \in {"none", "AF_Local", "AF_INET"}
  /\ server \in SocRunning \cup Net!Down \cup {"unlink"}
  /\ starts \in Nat /\ s32idx \in Nat
  /\ conn \in Clients \cup {Net!None} /\ backlog \in Seq(Clients)
  /\ pcBuf \in Seq(SocByte)
  /\ client \in [Clients -> {"start", "connected"} \cup Net!Gone]
  /\ text \in [Clients -> Texts \cup {<< >>}]
  /\ met \in [Clients -> Nat] /\ \A c \in Clients : met[c] <= starts
  /\ wire \in [Clients -> Seq(SocByte)]
  /\ hung \in [Clients -> {"up", "closed", "reset"}]
  /\ printed \in Seq(Clients \X Seq(SocByte))
  /\ sockOutput \in [Clients -> Seq(SocByte)]

SocPlace ==
  /\ server = "serve" <=> conn # Net!None
  /\ server \in Net!Down \cup {"unlink"} => backlog = << >>
  /\ server # "none" => starts >= 1
  /\ family = "none" => server = "none"
  /\ server \in {"close", "unlink"} => family = "AF_Local"
  /\ server \in SocRunning => Len(pcBuf) > 0
  /\ server = "serve" => s32idx < Len(pcBuf)
  /\ server = "none" => printed = << >>

\* The server has yet to come to c, or serves it.
SocLinked(c) == c = conn \/ c \in Net!Set(backlog)

SocQueue ==
  /\ \A j, k \in 1 .. Len(backlog) : j # k => backlog[j] # backlog[k]
  /\ conn \notin Net!Set(backlog)
  /\ \A c \in Clients : SocLinked(c) => client[c] # "start" /\ hung[c] = "up"

\* What c writes.
SocSentText(c) == text[c] \o <<Net!NUL, Net!Unknown>>

\* A text is on its connection, or read so far and in the buffer.
SocOnTheWay(c) ==
  /\ family = "none" => client[c] = "start" /\ wire[c] = << >>
  /\ client[c] = "start" => hung[c] = "up"
  /\ family = "AF_Local" =>
       /\ client[c] # "exited" => wire[c] = << >> /\ (c = conn => s32idx = 0)
       /\ client[c] = "exited" /\ c \in Net!Set(backlog) => wire[c] = SocSentText(c)
       /\ client[c] = "exited" /\ c = conn =>
            /\ s32idx + Len(wire[c]) = Len(SocSentText(c))
            /\ \A j \in 1 .. s32idx : pcBuf[j] = SocSentText(c)[j]
            /\ \A j \in 1 .. Len(wire[c]) : wire[c][j] = SocSentText(c)[s32idx + j]

\* The server c has connected to has ended, or has closed its socket.
SocHasEnded(c) == server \in {"failed", "killed", "exited", "unlink"} \/ starts > met[c]

\* What a client of AF_INET gets.
SocAnswer(c) ==
  family # "AF_Local" =>
    /\ hung[c] # "closed" => wire[c] = << >> /\ sockOutput[c] = << >>
    /\ hung[c] = "reset" => SocHasEnded(c)
    /\ hung[c] = "closed" =>
         \/ wire[c] = <<Net!Msg>> /\ sockOutput[c] = << >>
         \/ wire[c] = << >> /\ sockOutput[c] = <<Net!Msg>>
         \/ wire[c] = << >> /\ sockOutput[c] \in {<< >>, <<Net!Unknown>>} /\ SocHasEnded(c)
    /\ client[c] = "exited" => hung[c] = "closed" /\ wire[c] = << >>

\* What the buffer shows until something is read into it.
SocKept ==
  family = "AF_Local" /\ server \in {"accept", "serve"} /\ (server = "serve" => s32idx = 0) =>
    Net!Shown(pcBuf) = IF printed = << >> THEN Net!Fresh(BUF_LEN) ELSE printed[Len(printed)][2]

SocAttended(c) ==
  family = "AF_Local" /\ client[c] \in {"connected", "exited"} =>
    SocLinked(c) \/ SocHasEnded(c) \/ \E j \in 1 .. Len(printed) : printed[j][1] = c

SocServed ==
  /\ \A j \in 1 .. Len(printed) : client[printed[j][1]] \in Net!Gone
  /\ Net!TextsArePrinted

SocIInv == /\ SocTypes /\ SocPlace /\ SocQueue /\ SocKept /\ SocServed
        /\ \A c \in Clients : SocOnTheWay(c) /\ SocAnswer(c) /\ SocAttended(c)

-----------------------------------------------------------------------------
(* Lemmas on sequences: the texts, the buffer and the backlog *)

LEMMA SocTextType ==
  ASSUME NEW s \in Texts \cup {<< >>}
  PROVE  s \in Seq(SocByte) /\ \A j \in 1 .. Len(s) : s[j] # Net!NUL
<1>1. CASE s \in Texts
  <2>1. s \in Seq(Net!Set(s)) /\ Net!NUL \notin Net!Set(s) /\ Net!Set(s) \subseteq SocByte
    BY <1>1, SocketsAssumption DEF SocByte
  <2>2. \A j \in 1 .. Len(s) : s[j] \in Net!Set(s)
    BY DEF Net!Set
  <2>3. \A S, T : S \subseteq T => Seq(S) \subseteq Seq(T)
    OBVIOUS
  <2> QED
    BY <2>1, <2>2, <2>3
<1>2. CASE s = << >>
  BY <1>2
<1> QED
  BY <1>1, <1>2

LEMMA SocWhatIsSent ==
  ASSUME SocTypes, NEW c \in Clients
  PROVE  /\ SocSentText(c) \in Seq(SocByte) /\ text[c] \in Seq(SocByte)
         /\ Len(SocSentText(c)) = Len(text[c]) + 2
         /\ SocSentText(c)[Len(text[c]) + 1] = Net!NUL
         /\ \A j \in 1 .. Len(text[c]) : SocSentText(c)[j] = text[c][j] /\ text[c][j] # Net!NUL
<1>1. text[c] \in Seq(SocByte) /\ \A j \in 1 .. Len(text[c]) : text[c][j] # Net!NUL
  BY SocTextType DEF SocTypes
<1>2. Net!NUL \in SocByte /\ Net!Unknown \in SocByte
  BY DEF SocByte
<1>3. <<Net!NUL, Net!Unknown>> \in Seq(SocByte) /\ Len(<<Net!NUL, Net!Unknown>>) = 2 /\ <<Net!NUL, Net!Unknown>>[1] = Net!NUL
  BY <1>2
<1> DEFINE more == <<Net!NUL, Net!Unknown>>
<1> HIDE DEF more
<1>4. /\ text[c] \o more \in Seq(SocByte) /\ Len(text[c] \o more) = Len(text[c]) + Len(more)
      /\ \A j \in 1 .. Len(text[c]) : (text[c] \o more)[j] = text[c][j]
      /\ \A j \in 1 .. Len(more) : (text[c] \o more)[Len(text[c]) + j] = more[j]
  BY <1>1, <1>3 DEF more
<1>5. Len(more) = 2 /\ more[1] = Net!NUL /\ 1 \in 1 .. Len(more)
  BY <1>3 DEF more
<1> QED
  BY <1>1, <1>4, <1>5 DEF SocSentText, more

LEMMA SocFreshBuffer ==
  /\ Net!Fresh(BUF_LEN) \in Seq(SocByte) /\ Len(Net!Fresh(BUF_LEN)) = BUF_LEN
  /\ Net!Shown(Net!Fresh(BUF_LEN)) = Net!Fresh(BUF_LEN)
<1>1. Net!Unknown \in SocByte /\ Net!Unknown # Net!NUL
  BY DEF SocByte, Net!Unknown, Net!NUL
<1>2. /\ Net!Fresh(BUF_LEN) \in Seq(SocByte) /\ Len(Net!Fresh(BUF_LEN)) = BUF_LEN
      /\ \A j \in 1 .. BUF_LEN : Net!Fresh(BUF_LEN)[j] = Net!Unknown
  BY <1>1, SocketsAssumption DEF Net!Fresh
<1>3. {j \in 1 .. Len(Net!Fresh(BUF_LEN)) : Net!Fresh(BUF_LEN)[j] = Net!NUL} = {}
  BY <1>1, <1>2
<1> QED
  BY <1>2, <1>3 DEF Net!Shown

LEMMA SocShownText ==
  ASSUME NEW buf \in Seq(SocByte), NEW s \in Seq(SocByte), Len(s) < Len(buf),
         \A j \in 1 .. Len(s) : buf[j] = s[j] /\ s[j] # Net!NUL, buf[Len(s) + 1] = Net!NUL
  PROVE  Net!Shown(buf) = s
<1> DEFINE ends == {j \in 1 .. Len(buf) : buf[j] = Net!NUL}
           least == CHOOSE j \in ends : \A k \in ends : j <= k
<1>1. Len(s) + 1 \in ends
  OBVIOUS
<1>2. \A k \in ends : Len(s) + 1 <= k
  OBVIOUS
<1>3. \A j \in ends : (\A k \in ends : j <= k) => j = Len(s) + 1
  BY <1>1, <1>2
<1>4. least = Len(s) + 1
  <2> HIDE DEF ends
  <2> QED
    BY <1>1, <1>2, <1>3
<1>5. Net!Shown(buf) = SubSeq(buf, 1, Len(s))
  <2>1. ends # {} /\ least - 1 = Len(s)
    <3> HIDE DEF ends, least
    <3> QED
      BY <1>1, <1>4
  <2> QED
    BY <2>1 DEF Net!Shown
<1>6. SubSeq(buf, 1, Len(s)) = s
  <2>1. SubSeq(buf, 1, Len(s)) \in Seq(SocByte) /\ Len(SubSeq(buf, 1, Len(s))) = Len(s)
    OBVIOUS
  <2>2. \A j \in 1 .. Len(s) : SubSeq(buf, 1, Len(s))[j] = s[j]
    OBVIOUS
  <2> QED
    BY <2>1, <2>2
<1> QED
  BY <1>5, <1>6

LEMMA SocGrown ==
  ASSUME NEW S, NEW s \in Seq(S), NEW t \in Seq(S)
  PROVE  /\ s \o t \in Seq(S) /\ Len(s \o t) = Len(s) + Len(t)
         /\ \A j \in 1 .. Len(s) : (s \o t)[j] = s[j]
  OBVIOUS

LEMMA SocFirstOfQueue ==
  ASSUME NEW s \in Seq(Clients), s # << >>
  PROVE  /\ Tail(s) \in Seq(Clients) /\ Head(s) \in Clients
         /\ Net!Set(s) = Net!Set(Tail(s)) \cup {Head(s)}
         /\ (\A j, k \in 1 .. Len(s) : j # k => s[j] # s[k]) =>
              /\ Head(s) \notin Net!Set(Tail(s))
              /\ \A j, k \in 1 .. Len(Tail(s)) : j # k => Tail(s)[j] # Tail(s)[k]
<1>1. /\ Tail(s) \in Seq(Clients) /\ Head(s) = s[1] /\ Len(s) \in Nat \ {0}
      /\ Len(Tail(s)) = Len(s) - 1 /\ \A j \in 1 .. Len(Tail(s)) : Tail(s)[j] = s[j + 1]
  OBVIOUS
<1>2. \A j \in 1 .. Len(s) : j = 1 \/ \E k \in 1 .. Len(Tail(s)) : j = k + 1
  <2> TAKE j \in 1 .. Len(s)
  <2>1. j # 1 => j - 1 \in 1 .. Len(Tail(s)) /\ j = (j - 1) + 1
    BY <1>1
  <2> QED
    BY <2>1
<1>3. \A j \in 1 .. Len(Tail(s)) : j + 1 \in 1 .. Len(s) /\ j + 1 # 1
  BY <1>1
<1>4. Net!Set(s) = Net!Set(Tail(s)) \cup {Head(s)}
  <2>1. ASSUME NEW j \in 1 .. Len(s) PROVE s[j] \in Net!Set(Tail(s)) \cup {Head(s)}
    BY <1>1, <1>2 DEF Net!Set
  <2>2. Net!Set(Tail(s)) \cup {Head(s)} \subseteq Net!Set(s)
    BY <1>1, <1>3 DEF Net!Set
  <2>3. Net!Set(s) \subseteq Net!Set(Tail(s)) \cup {Head(s)}
    BY <2>1 DEF Net!Set
  <2> QED
    BY <2>2, <2>3
<1>5. ASSUME \A j, k \in 1 .. Len(s) : j # k => s[j] # s[k]
      PROVE  /\ Head(s) \notin Net!Set(Tail(s))
             /\ \A j, k \in 1 .. Len(Tail(s)) : j # k => Tail(s)[j] # Tail(s)[k]
  BY <1>1, <1>3, <1>5 DEF Net!Set
<1> QED
  BY <1>1, <1>4, <1>5

LEMMA SocLastOfQueue ==
  ASSUME NEW s \in Seq(Clients), NEW c \in Clients
  PROVE  /\ Append(s, c) \in Seq(Clients) /\ Net!Set(Append(s, c)) = Net!Set(s) \cup {c}
         /\ (\A j, k \in 1 .. Len(s) : j # k => s[j] # s[k]) /\ c \notin Net!Set(s) =>
              \A j, k \in 1 .. Len(Append(s, c)) : j # k => Append(s, c)[j] # Append(s, c)[k]
<1>1. /\ Append(s, c) \in Seq(Clients) /\ Len(Append(s, c)) = Len(s) + 1 /\ Len(s) \in Nat
      /\ Append(s, c)[Len(s) + 1] = c
      /\ \A j \in 1 .. Len(s) : Append(s, c)[j] = s[j]
  OBVIOUS
<1>2. \A j \in 1 .. Len(s) + 1 : j \in 1 .. Len(s) \/ j = Len(s) + 1
  BY <1>1
<1>3. Net!Set(Append(s, c)) = Net!Set(s) \cup {c}
  BY <1>1, <1>2 DEF Net!Set
<1> QED
  BY <1>1, <1>2, <1>3 DEF Net!Set

-----------------------------------------------------------------------------
(* The steps of the server *)

LEMMA SocSInit == Net!Init => SocIInv
<1> SUFFICES ASSUME Net!Init PROVE SocIInv
  OBVIOUS
<1> USE DEF Net!Init
<1>1. SocTypes
  BY SocketsAssumption DEF SocTypes, Net!Down
<1>2. SocPlace /\ SocQueue
  BY SocketsAssumption DEF SocPlace, SocQueue, SocLinked, Net!Set, SocRunning, Net!Down
<1>3. SocKept /\ SocServed
  BY DEF SocKept, SocServed, Net!TextsArePrinted
<1>4. \A c \in Clients : SocOnTheWay(c) /\ SocAnswer(c) /\ SocAttended(c)
  BY DEF SocOnTheWay, SocAnswer, SocAttended
<1> QED
  BY <1>1, <1>2, <1>3, <1>4 DEF SocIInv

LEMMA SocEndServerStep ==
  ASSUME SocIInv, server # "none", NEW to \in {"failed", "killed", "exited"}, Net!EndServer(to)
  PROVE  SocIInv'
<1>0. /\ SocTypes /\ SocPlace /\ SocQueue /\ SocKept /\ SocServed
      /\ \A c \in Clients : SocOnTheWay(c) /\ SocAnswer(c) /\ SocAttended(c)
  BY DEF SocIInv
<1>1. /\ server' = to /\ conn' = Net!None /\ backlog' = << >> /\ Net!Set(backlog') = {}
      /\ UNCHANGED <<family, starts, pcBuf, s32idx, client, text, met, wire, printed, sockOutput>>
  BY DEF Net!EndServer, Net!buffer, Net!Set
<1>2. \A c \in Clients :
        hung'[c] = IF c \in Net!Set(backlog) THEN "reset" ELSE IF c = conn THEN "closed" ELSE hung[c]
  BY DEF Net!EndServer
<1>3. SocTypes'
  <2>1. hung' \in [Clients -> {"up", "closed", "reset"}]
    BY <1>0 DEF Net!EndServer, SocTypes
  <2> QED
    BY <1>0, <1>1, <2>1 DEF SocTypes, Net!Down
<1>4. SocPlace' /\ SocQueue'
  BY <1>0, <1>1, SocketsAssumption DEF SocPlace, SocQueue, SocLinked, Net!Down, SocRunning
<1>5. SocKept' /\ SocServed'
  BY <1>0, <1>1 DEF SocKept, SocServed, Net!TextsArePrinted
<1>6. \A c \in Clients : SocHasEnded(c)'
  BY <1>1 DEF SocHasEnded
<1>7. ASSUME NEW c \in Clients PROVE (SocOnTheWay(c) /\ SocAnswer(c) /\ SocAttended(c))'
  <2>1. SocOnTheWay(c)'
    BY <1>0, <1>1, <1>2, SocketsAssumption DEF SocOnTheWay, SocSentText, SocQueue, SocLinked
  <2>2. SocAnswer(c)'
    BY <1>0, <1>1, <1>2, <1>6 DEF SocTypes, SocAnswer, SocQueue, SocLinked
  <2> QED
    BY <2>1, <2>2, <1>6 DEF SocAttended
<1> QED
  BY <1>3, <1>4, <1>5, <1>7 DEF SocIInv

LEMMA SocRunStep == SocIInv /\ Net!Run => SocIInv'
<1> SUFFICES ASSUME SocIInv, Net!Run PROVE SocIInv'
  OBVIOUS
<1> USE DEF Net!Run, Net!buffer, Net!links
<1>0. /\ SocTypes /\ SocPlace /\ SocQueue /\ SocKept /\ SocServed
      /\ \A c \in Clients : SocOnTheWay(c) /\ SocAnswer(c) /\ SocAttended(c)
  BY DEF SocIInv
<1>1. server = "none" /\ family' \in {"AF_Local", "AF_INET"} /\ conn = Net!None /\ Net!Set(backlog) = {}
  BY <1>0, SocketsAssumption DEF SocPlace, Net!Set, Net!Down
<1>2. SocTypes' /\ SocPlace' /\ SocQueue' /\ SocServed'
  BY <1>0, <1>1 DEF SocTypes, SocPlace, SocQueue, SocLinked, SocServed, Net!TextsArePrinted
<1>3. SocKept'
  BY <1>1 DEF SocKept
<1>4. ASSUME NEW c \in Clients PROVE (SocOnTheWay(c) /\ SocAnswer(c) /\ SocAttended(c))'
  BY <1>0, <1>1, SocketsAssumption DEF SocOnTheWay, SocAnswer, SocAttended, SocHasEnded, SocSentText
<1> QED
  BY <1>2, <1>3, <1>4 DEF SocIInv

LEMMA SocStartStep == SocIInv /\ Net!Start => SocIInv'
<1> SUFFICES ASSUME SocIInv, Net!Start PROVE SocIInv'
  OBVIOUS
<1> USE DEF Net!Start, Net!buffer, Net!links
<1>0. /\ SocTypes /\ SocPlace /\ SocQueue /\ SocKept /\ SocServed
      /\ \A c \in Clients : SocOnTheWay(c) /\ SocAnswer(c) /\ SocAttended(c)
  BY DEF SocIInv
<1>1. /\ family # "none" /\ server \in Net!Down /\ conn = Net!None /\ conn' = Net!None
      /\ backlog = << >> /\ backlog' = << >> /\ Net!Set(backlog) = {} /\ Net!Set(backlog') = {}
      /\ starts' = starts + 1 /\ starts \in Nat
      /\ UNCHANGED <<family, s32idx, client, text, met, wire, hung, sockOutput>>
  <2>1. /\ family # "none" /\ server \in Net!Down /\ starts' = starts + 1
        /\ UNCHANGED <<family, conn, backlog, s32idx, client, text, met, wire, hung, sockOutput>>
    OBVIOUS
  <2> HIDE DEF Net!Start
  <2>2. conn = Net!None /\ backlog = << >> /\ starts \in Nat
    BY <1>0, <2>1 DEF SocPlace, Net!Down, SocTypes
  <2>3. Net!Set(<< >>) = {}
    BY DEF Net!Set
  <2> QED
    BY <2>1, <2>2, <2>3
<1>2. \/ server' = "failed" /\ UNCHANGED <<pcBuf, printed>>
      \/ server' = "accept" /\ pcBuf' = Net!Fresh(BUF_LEN) /\ printed' = << >>
  OBVIOUS
<1>3. SocTypes'
  <2>1. pcBuf' \in Seq(SocByte) /\ printed' \in Seq(Clients \X Seq(SocByte))
    <3>1. pcBuf \in Seq(SocByte) /\ printed \in Seq(Clients \X Seq(SocByte))
      BY <1>0 DEF SocTypes
    <3>2. << >> \in Seq(Clients \X Seq(SocByte))
      OBVIOUS
    <3> QED
      BY <1>2, <3>1, <3>2, SocFreshBuffer
  <2>2. server' \in SocRunning \cup Net!Down \cup {"unlink"} /\ starts' \in Nat
    BY <1>1, <1>2 DEF SocRunning, Net!Down
  <2>3. conn' \in Clients \cup {Net!None} /\ backlog' \in Seq(Clients)
    BY <1>0, <1>1 DEF SocTypes
  <2> HIDE DEF Net!Start
  <2> QED
    BY <1>0, <1>1, <2>1, <2>2, <2>3 DEF SocTypes
<1>4. SocPlace' /\ SocQueue'
  BY <1>0, <1>1, <1>2, SocFreshBuffer, SocketsAssumption DEF SocPlace, SocQueue, SocLinked,
     Net!Down, SocRunning
<1>5. SocKept' /\ SocServed'
  BY <1>0, <1>1, <1>2, SocFreshBuffer DEF SocKept, SocServed, Net!TextsArePrinted
<1>6. \A c \in Clients : SocHasEnded(c)'
  BY <1>0, <1>1 DEF SocHasEnded, SocTypes
<1>7. ASSUME NEW c \in Clients PROVE (SocOnTheWay(c) /\ SocAnswer(c) /\ SocAttended(c))'
  <2>1. SocOnTheWay(c)' /\ SocAnswer(c)'
    BY <1>0, <1>1, <1>6, SocketsAssumption DEF SocOnTheWay, SocAnswer, SocSentText
  <2>2. SocAttended(c)'
    BY <1>6 DEF SocAttended
  <2> QED
    BY <2>1, <2>2
<1> QED
  BY <1>3, <1>4, <1>5, <1>7 DEF SocIInv

LEMMA SocAcceptStep == SocIInv /\ Net!Accept => SocIInv'
<1> SUFFICES ASSUME SocIInv, Net!Accept PROVE SocIInv'
  OBVIOUS
<1> USE DEF Net!Accept, Net!links
<1>0. /\ SocTypes /\ SocPlace /\ SocQueue /\ SocKept /\ SocServed
      /\ \A c \in Clients : SocOnTheWay(c) /\ SocAnswer(c) /\ SocAttended(c)
  BY DEF SocIInv
<1>1. /\ backlog \in Seq(Clients) /\ conn = Net!None /\ conn' \in Clients /\ conn' # Net!None
      /\ backlog' \in Seq(Clients) /\ Net!Set(backlog) = Net!Set(backlog') \cup {conn'}
      /\ conn' \notin Net!Set(backlog')
      /\ \A j, k \in 1 .. Len(backlog') : j # k => backlog'[j] # backlog'[k]
  BY <1>0, SocFirstOfQueue, SocketsAssumption DEF SocTypes, SocPlace, SocQueue
<1>2. /\ server = "accept" /\ server' = "serve" /\ s32idx' = 0
      /\ UNCHANGED <<family, starts, pcBuf, client, text, met, wire, hung, sockOutput, printed>>
  OBVIOUS
<1>3. SocTypes'
  BY <1>0, <1>1, <1>2 DEF SocTypes, SocRunning
<1>4. SocPlace' /\ SocQueue'
  BY <1>0, <1>1, <1>2 DEF SocTypes, SocPlace, SocQueue, SocLinked, Net!Down, SocRunning
<1>5. SocKept' /\ SocServed'
  BY <1>0, <1>2 DEF SocKept, SocServed, Net!TextsArePrinted
<1>6. \A c \in Clients : SocLinked(c)' <=> SocLinked(c)
  BY <1>1, SocketsAssumption DEF SocLinked
<1>7. ASSUME NEW c \in Clients PROVE (SocOnTheWay(c) /\ SocAnswer(c) /\ SocAttended(c))'
  <2>1. SocOnTheWay(c)'
    <3>1. SocSentText(c) \in Seq(SocByte) /\ wire[c] \in Seq(SocByte)
      BY <1>0, SocWhatIsSent DEF SocTypes
    <3>2. SocSentText(c)' = SocSentText(c)
      BY <1>2 DEF SocSentText
    <3>3. c \in Net!Set(backlog') => c \in Net!Set(backlog)
      BY <1>1
    <3>4. c = conn' => c \in Net!Set(backlog)
      BY <1>1
    <3> QED
      BY <1>0, <1>2, <3>1, <3>2, <3>3, <3>4 DEF SocOnTheWay
  <2>2. SocAnswer(c)' /\ SocAttended(c)'
    BY <1>0, <1>2, <1>6 DEF SocAnswer, SocAttended, SocHasEnded
  <2> QED
    BY <2>1, <2>2
<1> QED
  BY <1>3, <1>4, <1>5, <1>7 DEF SocIInv

LEMMA SocReadCharStep == SocIInv /\ Net!ReadChar => SocIInv'
<1> SUFFICES ASSUME SocIInv, Net!ReadChar PROVE SocIInv'
  OBVIOUS
<1>0. /\ SocTypes /\ SocPlace /\ SocQueue /\ SocKept /\ SocServed
      /\ \A c \in Clients : SocOnTheWay(c) /\ SocAnswer(c) /\ SocAttended(c)
  BY DEF SocIInv
<1>1. /\ family = "AF_Local" /\ server = "serve" /\ wire[conn] # << >> /\ s32idx' = s32idx + 1
      /\ UNCHANGED <<family, starts, conn, backlog, client, text, met, hung, printed, sockOutput>>
      /\ wire' = [wire EXCEPT ![conn] = Tail(wire[conn])]
  BY DEF Net!ReadChar
<1>2. /\ conn \in Clients /\ conn \notin Net!Set(backlog)
      /\ s32idx \in Nat /\ s32idx < Len(pcBuf) /\ pcBuf \in Seq(SocByte)
      /\ wire[conn] \in Seq(SocByte) /\ Len(wire[conn]) \in Nat \ {0}
      /\ wire \in [Clients -> Seq(SocByte)]
  BY <1>0, <1>1, SocketsAssumption DEF SocTypes, SocPlace, SocQueue
<1> DEFINE rest == Tail(wire[conn])
           stored == [pcBuf EXCEPT ![s32idx + 1] = Head(wire[conn])]
<1>3. /\ rest \in Seq(SocByte) /\ Len(rest) = Len(wire[conn]) - 1
      /\ Head(wire[conn]) = wire[conn][1] /\ Head(wire[conn]) \in SocByte
      /\ \A j \in 1 .. Len(rest) : rest[j] = wire[conn][j + 1]
  BY <1>2
<1>4. /\ stored \in Seq(SocByte) /\ Len(stored) = Len(pcBuf)
      /\ stored[s32idx + 1] = Head(wire[conn])
      /\ \A j \in 1 .. s32idx : stored[j] = pcBuf[j]
  BY <1>2, <1>3
<1>5. /\ server' = server
      /\ pcBuf' = IF s32idx + 1 >= Len(pcBuf) THEN stored \o Net!Fresh(BUF_LEN) ELSE stored
  BY <1>1, <1>2 DEF Net!ReadChar, Net!s32stringlen
<1>6. wire'[conn] = rest /\ \A c \in Clients \ {conn} : wire'[c] = wire[c]
  BY <1>1, <1>2
<1>7. wire' \in [Clients -> Seq(SocByte)]
  BY <1>1, <1>2, <1>3
<1> HIDE DEF rest, stored
<1>8. /\ pcBuf' \in Seq(SocByte) /\ s32idx + 1 < Len(pcBuf')
      /\ pcBuf'[s32idx + 1] = Head(wire[conn])
      /\ \A j \in 1 .. s32idx : pcBuf'[j] = pcBuf[j]
  <2>1. CASE s32idx + 1 >= Len(pcBuf)
    <3> DEFINE more == Net!Fresh(BUF_LEN)
    <3>1. pcBuf' = stored \o more
      BY <1>5, <2>1
    <3>2. more \in Seq(SocByte) /\ Len(more) = BUF_LEN /\ stored \in Seq(SocByte)
      BY <1>4, SocFreshBuffer
    <3> HIDE DEF more
    <3>3a. /\ pcBuf' \in Seq(SocByte) /\ Len(pcBuf') = Len(stored) + BUF_LEN
           /\ \A j \in 1 .. Len(stored) : pcBuf'[j] = stored[j]
      BY <3>1, <3>2, SocGrown
    <3>3. BUF_LEN \in Nat \ {0} /\ s32idx + 1 \in 1 .. Len(stored)
          /\ \A j \in 1 .. s32idx : j \in 1 .. Len(stored)
      BY <1>2, <1>4, SocketsAssumption
    <3> QED
      BY <3>3a, <3>3, <1>2, <1>4
  <2>2. CASE ~(s32idx + 1 >= Len(pcBuf))
    BY <2>2, <1>2, <1>4, <1>5
  <2> QED
    BY <2>1, <2>2
<1>9. SocTypes'
  BY <1>0, <1>1, <1>2, <1>5, <1>7, <1>8 DEF SocTypes
<1>10. SocPlace' /\ SocQueue'
  BY <1>0, <1>1, <1>2, <1>5, <1>8 DEF SocPlace, SocQueue, SocLinked, SocRunning
<1>11. SocKept' /\ SocServed'
  <2>1. server' = "serve" /\ s32idx' # 0
    BY <1>1, <1>2, <1>5
  <2>2. SocServed'
    BY <1>0, <1>1, <1>5 DEF SocServed, Net!TextsArePrinted
  <2> QED
    BY <2>1, <2>2 DEF SocKept
<1>12. ASSUME NEW c \in Clients PROVE (SocOnTheWay(c) /\ SocAnswer(c) /\ SocAttended(c))'
  <2>1. SocSentText(c)' = SocSentText(c)
    BY <1>1 DEF SocSentText
  <2>2. CASE c = conn
    <3>1. client[c] = "exited"
      BY <1>0, <1>1, <2>2 DEF SocOnTheWay
    <3>2. /\ s32idx + Len(wire[c]) = Len(SocSentText(c))
          /\ \A j \in 1 .. s32idx : pcBuf[j] = SocSentText(c)[j]
          /\ \A j \in 1 .. Len(wire[c]) : wire[c][j] = SocSentText(c)[s32idx + j]
      BY <1>0, <1>1, <2>2, <3>1 DEF SocOnTheWay
    <3>3. wire'[c] = rest /\ s32idx' + Len(wire'[c]) = Len(SocSentText(c))
      BY <1>1, <1>2, <1>3, <1>6, <2>2, <3>2
    <3>4. \A j \in 1 .. s32idx' : pcBuf'[j] = SocSentText(c)[j]
      <4>1. pcBuf'[s32idx + 1] = SocSentText(c)[s32idx + 1]
        BY <1>2, <1>3, <1>8, <2>2, <3>2
      <4>2. \A j \in 1 .. s32idx' : j \in 1 .. s32idx \/ j = s32idx + 1
        BY <1>1, <1>2
      <4> QED
        BY <4>1, <4>2, <1>8, <3>2
    <3>5. \A j \in 1 .. Len(wire'[c]) : wire'[c][j] = SocSentText(c)[s32idx' + j]
      <4>1. \A j \in 1 .. Len(rest) : j + 1 \in 1 .. Len(wire[c]) /\ s32idx + (j + 1) = s32idx' + j
        BY <1>1, <1>2, <1>3, <2>2
      <4> QED
        BY <4>1, <1>3, <2>2, <3>2, <3>3
    <3>6. SocOnTheWay(c)'
      BY <1>1, <1>2, <2>1, <2>2, <3>1, <3>3, <3>4, <3>5 DEF SocOnTheWay
    <3> QED
      BY <3>6, <1>0, <1>1, <1>5 DEF SocAnswer, SocAttended, SocLinked, SocHasEnded
  <2>3. CASE c # conn
    <3>1. wire'[c] = wire[c]
      BY <1>6, <2>3
    <3>2. SocOnTheWay(c)'
      BY <1>0, <1>1, <2>1, <2>3, <3>1 DEF SocOnTheWay
    <3> QED
      BY <3>2, <1>0, <1>1, <1>5 DEF SocAnswer, SocAttended, SocLinked, SocHasEnded
  <2> QED
    BY <2>2, <2>3
<1> QED
  BY <1>9, <1>10, <1>11, <1>12 DEF SocIInv

LEMMA SocPrintTextStep == SocIInv /\ Net!PrintText => SocIInv'
<1> SUFFICES ASSUME SocIInv, Net!PrintText PROVE SocIInv'
  OBVIOUS
<1>0. /\ SocTypes /\ SocPlace /\ SocQueue /\ SocKept /\ SocServed
      /\ \A c \in Clients : SocOnTheWay(c) /\ SocAnswer(c) /\ SocAttended(c)
  BY DEF SocIInv
<1>1. /\ family = "AF_Local" /\ server = "serve" /\ wire[conn] = << >> /\ client[conn] \in Net!Gone
      /\ server' \in {"close", "accept"} /\ conn' = Net!None
      /\ printed' = Append(printed, <<conn, Net!Shown(pcBuf)>>)
      /\ UNCHANGED <<family, starts, backlog, pcBuf, s32idx, client, text, met, wire, hung, sockOutput>>
  BY DEF Net!PrintText, Net!buffer, Net!links
<1>2. /\ conn \in Clients /\ conn # Net!None /\ conn \notin Net!Set(backlog)
      /\ s32idx \in Nat /\ s32idx < Len(pcBuf) /\ pcBuf \in Seq(SocByte)
      /\ printed \in Seq(Clients \X Seq(SocByte))
  BY <1>0, <1>1, SocketsAssumption DEF SocTypes, SocPlace, SocQueue
<1> DEFINE before == IF printed = << >> THEN Net!Fresh(BUF_LEN) ELSE printed[Len(printed)][2]
<1>3. before \in Seq(SocByte)
  BY <1>2, SocFreshBuffer
<1>4. Net!Shown(pcBuf) = IF client[conn] = "exited" THEN text[conn] ELSE before
  <2>1. CASE client[conn] = "exited"
    <3>1. /\ s32idx + Len(wire[conn]) = Len(SocSentText(conn))
          /\ \A j \in 1 .. s32idx : pcBuf[j] = SocSentText(conn)[j]
      BY <1>0, <1>1, <1>2, <2>1 DEF SocOnTheWay
    <3>2. s32idx = Len(text[conn]) + 2
      BY <1>0, <1>1, <1>2, <3>1, SocWhatIsSent
    <3>5. /\ text[conn] \in Seq(SocByte) /\ SocSentText(conn)[Len(text[conn]) + 1] = Net!NUL
          /\ \A j \in 1 .. Len(text[conn]) :
               SocSentText(conn)[j] = text[conn][j] /\ text[conn][j] # Net!NUL
      BY <1>0, <1>2, SocWhatIsSent
    <3>6. Len(text[conn]) \in Nat
      BY <3>5
    <3>3. \A j \in 1 .. Len(text[conn]) : pcBuf[j] = text[conn][j] /\ text[conn][j] # Net!NUL
      <4>1. \A j \in 1 .. Len(text[conn]) : j \in 1 .. s32idx
        BY <3>2, <3>6
      <4> QED
        BY <3>1, <3>5, <4>1
    <3>4. pcBuf[Len(text[conn]) + 1] = Net!NUL /\ Len(text[conn]) < Len(pcBuf)
      <4>1. Len(text[conn]) + 1 \in 1 .. s32idx
        BY <3>2, <3>6
      <4>2. Len(pcBuf) \in Nat
        BY <1>2
      <4>3. pcBuf[Len(text[conn]) + 1] = Net!NUL
        BY <3>1, <3>5, <4>1
      <4> QED
        BY <3>2, <3>6, <4>2, <4>3, <1>2
    <3> QED
      BY <2>1, <3>3, <3>4, <3>5, <1>2, SocShownText
  <2>2. CASE client[conn] # "exited"
    BY <2>2, <1>0, <1>1, <1>2 DEF SocOnTheWay, SocKept
  <2> QED
    BY <2>1, <2>2
<1>5. Net!Shown(pcBuf) \in Seq(SocByte)
  BY <1>0, <1>2, <1>3, <1>4, SocWhatIsSent
<1> HIDE DEF before
<1>6. /\ printed' \in Seq(Clients \X Seq(SocByte)) /\ Len(printed') = Len(printed) + 1
      /\ Len(printed) \in Nat
      /\ printed'[Len(printed) + 1] = <<conn, Net!Shown(pcBuf)>>
      /\ \A j \in 1 .. Len(printed) : printed'[j] = printed[j]
  BY <1>1, <1>2, <1>5
<1>7. \A j \in 1 .. Len(printed') : j \in 1 .. Len(printed) \/ j = Len(printed) + 1
  BY <1>6
<1>8. SocTypes'
  BY <1>0, <1>1, <1>6 DEF SocTypes, SocRunning
<1>9. SocPlace' /\ SocQueue'
  <2>1. Net!Set(backlog)' = Net!Set(backlog) /\ Net!None \notin Net!Set(backlog)
    <3>1. backlog \in Seq(Clients)
      BY <1>0 DEF SocTypes
    <3> QED
      BY <1>1, <3>1, SocketsAssumption DEF Net!Set
  <2>2. SocQueue'
    BY <1>0, <1>1, <1>2, <2>1, SocketsAssumption DEF SocQueue, SocLinked
  <2>3. SocPlace'
    BY <1>0, <1>1 DEF SocPlace, Net!Down, SocRunning
  <2> QED
    BY <2>2, <2>3
<1>10. SocKept'
  <2>1. printed' # << >> /\ printed'[Len(printed')][2] = Net!Shown(pcBuf)
    BY <1>6
  <2> QED
    BY <2>1, <1>1 DEF SocKept
<1>11. SocServed'
  <2>1. ASSUME NEW j \in 1 .. Len(printed')
        PROVE  /\ client[printed'[j][1]] \in Net!Gone
               /\ IF client[printed'[j][1]] = "exited" THEN printed'[j][2] = text[printed'[j][1]]
                  ELSE printed'[j][2] = IF j = 1 THEN Net!Fresh(BUF_LEN) ELSE printed'[j - 1][2]
    <3>1. CASE j \in 1 .. Len(printed)
      <4>1. j # 1 => j - 1 \in 1 .. Len(printed)
        BY <3>1, <1>6
      <4> QED
        <5>1. printed'[j] = printed[j] /\ (j # 1 => printed'[j - 1] = printed[j - 1])
          BY <3>1, <4>1, <1>6
        <5>2. /\ client[printed[j][1]] \in Net!Gone
              /\ IF client[printed[j][1]] = "exited" THEN printed[j][2] = text[printed[j][1]]
                 ELSE printed[j][2] = IF j = 1 THEN Net!Fresh(BUF_LEN) ELSE printed[j - 1][2]
          BY <3>1, <1>0 DEF SocServed, Net!TextsArePrinted
        <5> QED
          BY <5>1, <5>2
    <3>2. CASE j = Len(printed) + 1
      <4>1. printed'[j][1] = conn /\ printed'[j][2] = Net!Shown(pcBuf)
        BY <3>2, <1>6
      <4>2. before = IF j = 1 THEN Net!Fresh(BUF_LEN) ELSE printed'[j - 1][2]
        <5>1. j = 1 <=> printed = << >>
          BY <3>2, <1>2, <1>6
        <5>2. j # 1 => j - 1 = Len(printed) /\ j - 1 \in 1 .. Len(printed)
          BY <3>2, <1>6
        <5> QED
          BY <5>1, <5>2, <1>6 DEF before
      <4> QED
        BY <4>1, <4>2, <1>1, <1>4
    <3> QED
      BY <3>1, <3>2, <1>7
  <2> QED
    BY <2>1, <1>1 DEF SocServed, Net!TextsArePrinted
<1>12. ASSUME NEW c \in Clients PROVE (SocOnTheWay(c) /\ SocAnswer(c) /\ SocAttended(c))'
  <2>1. SocOnTheWay(c)' /\ SocAnswer(c)'
    BY <1>0, <1>1, <1>2, SocketsAssumption DEF SocOnTheWay, SocAnswer, SocSentText
  <2>2. SocAttended(c)'
    <3>1. CASE c = conn
      <4>1. Len(printed) + 1 \in 1 .. Len(printed') /\ printed'[Len(printed) + 1][1] = c
        BY <3>1, <1>6
      <4> QED
        BY <4>1 DEF SocAttended
    <3>2. CASE c # conn
      <4>1. \A j \in 1 .. Len(printed) : j \in 1 .. Len(printed')
        BY <1>6
      <4> QED
        BY <4>1, <3>2, <1>0, <1>1, <1>6 DEF SocAttended, SocLinked, SocHasEnded
    <3> QED
      BY <3>1, <3>2
  <2> QED
    BY <2>1, <2>2
<1> QED
  BY <1>8, <1>9, <1>10, <1>11, <1>12 DEF SocIInv

LEMMA SocUnchanged ==
  ASSUME SocIInv, UNCHANGED <<family, server, starts, conn, backlog, Net!buffer, Net!links, printed>>
  PROVE  SocIInv'
<1>1. SocTypes' /\ SocPlace'
  BY DEF SocIInv, Net!buffer, Net!links, SocTypes, SocPlace
<1>2. SocQueue' /\ SocKept' /\ SocServed'
  BY DEF SocIInv, Net!buffer, Net!links, SocQueue, SocLinked, SocKept, SocServed,
     Net!TextsArePrinted
<1>3. ASSUME NEW c \in Clients PROVE (SocOnTheWay(c) /\ SocAnswer(c) /\ SocAttended(c))'
  <2>1. SocOnTheWay(c) /\ SocAnswer(c) /\ SocAttended(c)
    BY DEF SocIInv
  <2> QED
    BY <2>1 DEF Net!buffer, Net!links, SocOnTheWay, SocSentText, SocAnswer, SocAttended,
       SocLinked, SocHasEnded
<1> QED
  BY <1>1, <1>2, <1>3 DEF SocIInv

LEMMA SocEndStep ==
  SocIInv /\ (Net!AcceptFails \/ Net!ReallocFails \/ Net!Unlink \/ Net!KillServer) => SocIInv'
<1> SUFFICES ASSUME SocIInv, Net!AcceptFails \/ Net!ReallocFails \/ Net!Unlink \/ Net!KillServer PROVE SocIInv'
  OBVIOUS
<1>1. \/ UNCHANGED <<family, server, starts, conn, backlog, Net!buffer, Net!links, printed>>
      \/ server # "none" /\ \E to \in {"failed", "killed", "exited"} : Net!EndServer(to)
  BY DEF Net!AcceptFails, Net!ReallocFails, Net!Unlink, Net!KillServer, Net!Down
<1> QED
  BY <1>1, SocUnchanged, SocEndServerStep

LEMMA SocCloseListenStep == SocIInv /\ Net!CloseListen => SocIInv'
<1> SUFFICES ASSUME SocIInv, Net!CloseListen PROVE SocIInv'
  OBVIOUS
<1>0. /\ SocTypes /\ SocPlace /\ SocQueue /\ SocKept /\ SocServed
      /\ \A c \in Clients : SocOnTheWay(c) /\ SocAnswer(c) /\ SocAttended(c)
  BY DEF SocIInv
<1>1. /\ server = "close" /\ server' = "unlink" /\ backlog' = << >> /\ Net!Set(backlog') = {}
      /\ family = "AF_Local" /\ conn = Net!None
      /\ UNCHANGED <<family, starts, conn, pcBuf, s32idx, client, text, met, wire, printed, sockOutput>>
  BY <1>0 DEF Net!CloseListen, Net!buffer, Net!Set, SocPlace
<1>2. SocTypes'
  <2>1. hung' \in [Clients -> {"up", "closed", "reset"}]
    BY <1>0 DEF Net!CloseListen, SocTypes
  <2> QED
    BY <1>0, <1>1, <2>1 DEF SocTypes
<1>3. SocPlace' /\ SocQueue'
  BY <1>0, <1>1, SocketsAssumption DEF SocPlace, SocQueue, SocLinked, Net!Down, SocRunning
<1>4. SocKept' /\ SocServed'
  BY <1>0, <1>1 DEF SocKept, SocServed, Net!TextsArePrinted
<1>5. \A c \in Clients : (SocOnTheWay(c) /\ SocAnswer(c) /\ SocAttended(c))'
  <2>1. \A c \in Clients : hung'[c] = IF c \in Net!Set(backlog) THEN "reset" ELSE hung[c]
    BY DEF Net!CloseListen
  <2> QED
    BY <1>0, <1>1, <2>1, SocketsAssumption
    DEF SocOnTheWay, SocSentText, SocAnswer, SocAttended, SocHasEnded, SocQueue, SocLinked
<1> QED
  BY <1>2, <1>3, <1>4, <1>5 DEF SocIInv

LEMMA SocSendMessageStep == SocIInv /\ Net!SendMessage => SocIInv'
<1> SUFFICES ASSUME SocIInv, Net!SendMessage PROVE SocIInv'
  OBVIOUS
<1>0. /\ SocTypes /\ SocPlace /\ SocQueue /\ SocKept /\ SocServed
      /\ \A c \in Clients : SocOnTheWay(c) /\ SocAnswer(c) /\ SocAttended(c)
  BY DEF SocIInv
<1>1. /\ family = "AF_INET" /\ server = "serve" /\ server' = "accept" /\ conn' = Net!None
      /\ wire' = [wire EXCEPT ![conn] = <<Net!Msg>>] /\ hung' = [hung EXCEPT ![conn] = "closed"]
      /\ UNCHANGED <<family, starts, backlog, pcBuf, s32idx, client, text, met, printed, sockOutput>>
  BY DEF Net!SendMessage, Net!buffer
<1>2. conn \in Clients /\ conn \notin Net!Set(backlog) /\ Net!Set(backlog') = Net!Set(backlog)
      /\ Net!None \notin Net!Set(backlog)
  <2>1. backlog \in Seq(Clients)
    BY <1>0 DEF SocTypes
  <2> QED
    BY <1>0, <1>1, <2>1, SocketsAssumption DEF SocTypes, SocPlace, SocQueue, Net!Set
<1>3. <<Net!Msg>> \in Seq(SocByte)
  <2>1. Net!Msg \in SocByte
    BY DEF SocByte
  <2> QED
    BY <2>1
<1>4. SocTypes'
  BY <1>0, <1>1, <1>3 DEF SocTypes, SocRunning
<1>5. SocQueue'
  <2>1. \A c \in Clients : SocLinked(c)' => SocLinked(c) /\ c # conn
    BY <1>1, <1>2, SocketsAssumption DEF SocLinked
  <2> QED
    BY <1>0, <1>1, <1>2, <2>1 DEF SocTypes, SocQueue
<1>6. SocPlace'
  BY <1>0, <1>1 DEF SocPlace, Net!Down, SocRunning
<1>7. SocKept' /\ SocServed'
  BY <1>0, <1>1 DEF SocKept, SocServed, Net!TextsArePrinted
<1>8. ASSUME NEW c \in Clients PROVE (SocOnTheWay(c) /\ SocAnswer(c) /\ SocAttended(c))'
  <2>1. SocOnTheWay(c)' /\ SocAttended(c)'
    BY <1>0, <1>1, <1>2 DEF SocOnTheWay, SocAttended, SocQueue, SocLinked, SocTypes
  <2>2. CASE c = conn
    <3>1. hung[c] = "up" /\ sockOutput[c] = << >> /\ client[c] # "exited"
      BY <1>0, <1>1, <1>2, <2>2 DEF SocQueue, SocLinked, SocAnswer
    <3>2. wire'[c] = <<Net!Msg>> /\ hung'[c] = "closed" /\ sockOutput'[c] = << >> /\ client'[c] # "exited"
      BY <1>0, <1>1, <1>2, <2>2, <3>1 DEF SocTypes
    <3> QED
      BY <2>1, <3>2 DEF SocAnswer
  <2>3. CASE c # conn
    <3>1. wire'[c] = wire[c] /\ hung'[c] = hung[c]
      BY <1>0, <1>1, <2>3 DEF SocTypes
    <3>2. SocHasEnded(c) => SocHasEnded(c)'
      BY <1>1 DEF SocHasEnded
    <3> QED
      BY <2>1, <3>1, <3>2, <1>0, <1>1 DEF SocAnswer
  <2> QED
    BY <2>2, <2>3
<1> QED
  BY <1>4, <1>5, <1>6, <1>7, <1>8 DEF SocIInv

-----------------------------------------------------------------------------
(* The steps of a client *)

\* A client that has not ended has not been printed; what it does concerns the
\* others only if it enters the backlog.
LEMMA SocClientStep ==
  ASSUME SocIInv, NEW c \in Clients, client[c] \in {"start", "connected"}, UNCHANGED Net!Others,
         \/ backlog' = backlog
         \/ backlog' = Append(backlog, c) /\ client[c] = "start" /\ server \in SocRunning,
         \A d \in Clients \ {c} :
           /\ client'[d] = client[d] /\ text'[d] = text[d] /\ wire'[d] = wire[d] /\ met'[d] = met[d]
           /\ hung'[d] = hung[d] /\ sockOutput'[d] = sockOutput[d],
         SocTypes', SocLinked(c)' => client'[c] # "start" /\ hung'[c] = "up",
         SocOnTheWay(c)', SocAnswer(c)', SocAttended(c)'
  PROVE  SocIInv'
<1>0. /\ SocTypes /\ SocPlace /\ SocQueue /\ SocKept /\ SocServed
      /\ \A d \in Clients : SocOnTheWay(d) /\ SocAnswer(d) /\ SocAttended(d)
  BY DEF SocIInv
<1>1. UNCHANGED <<family, server, starts, conn, pcBuf, s32idx, printed>>
  BY DEF Net!Others, Net!buffer
<1>2. backlog \in Seq(Clients) /\ (client[c] = "start" => ~SocLinked(c))
  BY <1>0 DEF SocTypes, SocQueue
<1>3. \A d \in Clients \ {c} : d \in Net!Set(backlog') <=> d \in Net!Set(backlog)
  BY <1>2, SocLastOfQueue
<1>4. SocPlace'
  BY <1>0, <1>1 DEF SocPlace, Net!Down, SocRunning
<1>5. SocQueue'
  <2>1. \A j, k \in 1 .. Len(backlog') : j # k => backlog'[j] # backlog'[k]
    BY <1>0, <1>2, SocLastOfQueue DEF SocQueue, SocLinked
  <2>2. conn' \notin Net!Set(backlog')
    <3>1. conn = c => ~(backlog' # backlog /\ client[c] = "start")
      BY <1>2 DEF SocLinked
    <3>2. \/ backlog' = backlog
          \/ Net!Set(backlog') = Net!Set(backlog) \cup {c} /\ conn # c
      BY <1>2, SocLastOfQueue DEF SocLinked
    <3> QED
      BY <1>0, <1>1, <3>2 DEF SocQueue
  <2>3. \A d \in Clients \ {c} : SocLinked(d)' => client'[d] # "start" /\ hung'[d] = "up"
    BY <1>0, <1>1, <1>3 DEF SocQueue, SocLinked
  <2> QED
    BY <2>1, <2>2, <2>3 DEF SocQueue
<1>6. SocKept'
  BY <1>0, <1>1 DEF SocKept
<1>7. SocServed'
  <2>1. \A j \in 1 .. Len(printed) : printed[j][1] \in Clients \ {c}
    <3>1. \A j \in 1 .. Len(printed) : printed[j] \in Clients \X Seq(SocByte)
      BY <1>0 DEF SocTypes
    <3> QED
      BY <1>0, <3>1 DEF SocServed, Net!Gone
  <2>2. \A j \in 1 .. Len(printed) : client'[printed[j][1]] = client[printed[j][1]]
                                   /\ text'[printed[j][1]] = text[printed[j][1]]
    BY <2>1
  <2>3. SocServed /\ server' = server /\ printed' = printed
    BY <1>0, <1>1
  <2> QED
    BY <2>2, <2>3 DEF SocServed, Net!TextsArePrinted
<1>8. ASSUME NEW d \in Clients \ {c} PROVE (SocOnTheWay(d) /\ SocAnswer(d) /\ SocAttended(d))'
  <2>1. /\ client'[d] = client[d] /\ text'[d] = text[d] /\ wire'[d] = wire[d] /\ met'[d] = met[d]
        /\ hung'[d] = hung[d] /\ sockOutput'[d] = sockOutput[d]
        /\ d \in Net!Set(backlog') <=> d \in Net!Set(backlog)
    BY <1>3
  <2>2. SocOnTheWay(d) /\ SocAnswer(d) /\ SocAttended(d)
    BY <1>0
  <2>3. SocOnTheWay(d)'
    BY <1>1, <2>1, <2>2 DEF SocOnTheWay, SocSentText
  <2>4. SocAnswer(d)' /\ SocAttended(d)'
    BY <1>1, <2>1, <2>2 DEF SocAnswer, SocAttended, SocHasEnded, SocLinked
  <2> QED
    BY <2>3, <2>4
<1> QED
  BY <1>4, <1>5, <1>6, <1>7, <1>8 DEF SocIInv

LEMMA SocConnectStep == ASSUME SocIInv, NEW c \in Clients, Net!Connect(c) PROVE SocIInv'
<1>0. SocTypes /\ SocPlace /\ SocQueue /\ SocOnTheWay(c) /\ SocAnswer(c)
  BY DEF SocIInv
<1>1. /\ family # "none" /\ client[c] = "start" /\ UNCHANGED <<Net!Others, wire, hung, sockOutput>>
      /\ UNCHANGED <<family, server, starts, conn, pcBuf, s32idx, printed>>
      /\ \/ /\ client' = [client EXCEPT ![c] = "connected"] /\ backlog' = Append(backlog, c)
            /\ server \in SocRunning /\ met' = [met EXCEPT ![c] = starts]
         \/ client' = [client EXCEPT ![c] = "failed"] /\ backlog' = backlog /\ met' = met
  BY DEF Net!Connect, Net!Others, Net!buffer, SocRunning
<1>2. PICK s \in Texts \cup {<< >>} : text' = [text EXCEPT ![c] = s]
  BY DEF Net!Connect
<1>3. backlog \in Seq(Clients) /\ backlog' \in Seq(Clients) /\ ~SocLinked(c)
      /\ (backlog' = Append(backlog, c) => c \in Net!Set(backlog'))
  <2>1. backlog \in Seq(Clients) /\ ~SocLinked(c)
    BY <1>0, <1>1 DEF SocTypes, SocQueue
  <2>2. Append(backlog, c) \in Seq(Clients) /\ c \in Net!Set(Append(backlog, c))
    BY <2>1, SocLastOfQueue
  <2> QED
    BY <1>1, <2>1, <2>2
<1>4. SocTypes'
  <2>1. /\ client' \in [Clients -> {"start", "connected"} \cup Net!Gone]
        /\ text' \in [Clients -> Texts \cup {<< >>}]
    BY <1>0, <1>1, <1>2 DEF SocTypes, Net!Gone
  <2>2. met' \in [Clients -> Nat] /\ \A d \in Clients : met'[d] <= starts'
    <3>1. /\ met \in [Clients -> Nat] /\ \A d \in Clients : met[d] <= starts
          /\ starts \in Nat /\ starts' = starts
      BY <1>0, <1>1 DEF SocTypes
    <3>2. met' = [met EXCEPT ![c] = starts] \/ met' = met
      BY <1>1
    <3> QED
      BY <3>1, <3>2
  <2> QED
    BY <1>0, <1>1, <1>3, <2>1, <2>2 DEF SocTypes
<1>5. SocLinked(c)' => client'[c] = "connected" /\ hung'[c] = "up"
  BY <1>0, <1>1, <1>3 DEF SocTypes, SocLinked, SocOnTheWay
<1>6. client'[c] \in {"connected", "failed"} /\ (client'[c] = "connected" => SocLinked(c)')
  BY <1>0, <1>1, <1>3 DEF SocTypes, SocLinked
<1>7. SocOnTheWay(c)' /\ SocAnswer(c)' /\ SocAttended(c)'
  BY <1>0, <1>1, <1>3, <1>6 DEF SocOnTheWay, SocAnswer, SocAttended, SocHasEnded, SocLinked
<1>8. \A d \in Clients \ {c} :
        client'[d] = client[d] /\ text'[d] = text[d] /\ met'[d] = met[d]
  BY <1>0, <1>1, <1>2 DEF SocTypes
<1> QED
  BY <1>1, <1>4, <1>5, <1>6, <1>7, <1>8, SocClientStep

LEMMA SocWriteTextStep == ASSUME SocIInv, NEW c \in Clients, Net!WriteText(c) PROVE SocIInv'
<1>0. SocTypes /\ SocQueue /\ SocOnTheWay(c) /\ SocAnswer(c) /\ SocAttended(c)
  BY DEF SocIInv
<1>1. /\ family = "AF_Local" /\ client[c] = "connected" /\ UNCHANGED <<Net!Others, text, met, backlog, hung, sockOutput>>
      /\ UNCHANGED <<family, server, starts, conn, pcBuf, s32idx, printed>>
      /\ \/ client' = [client EXCEPT ![c] = "exited"] /\ wire' = [wire EXCEPT ![c] = SocSentText(c)]
         \/ client' = [client EXCEPT ![c] = "failed"] /\ wire' = wire
  BY DEF Net!WriteText, Net!Others, Net!buffer, SocSentText
<1>2. SocSentText(c) \in Seq(SocByte) /\ SocSentText(c)' = SocSentText(c)
  BY <1>0, <1>1, SocWhatIsSent DEF SocSentText
<1>3. SocTypes'
  BY <1>0, <1>1, <1>2 DEF SocTypes, Net!Gone
<1>4. /\ client'[c] \in {"exited", "failed"}
      /\ wire'[c] = IF client'[c] = "exited" THEN SocSentText(c) ELSE wire[c]
      /\ \A d \in Clients \ {c} : client'[d] = client[d] /\ wire'[d] = wire[d]
  BY <1>0, <1>1, <1>2 DEF SocTypes
<1>5. SocOnTheWay(c)'
  BY <1>0, <1>1, <1>2, <1>4 DEF SocOnTheWay
<1>6. SocAnswer(c)' /\ SocAttended(c)' /\ SocLinked(c)' = SocLinked(c)
  BY <1>0, <1>1, <1>4 DEF SocAnswer, SocAttended, SocHasEnded, SocLinked
<1>7. SocLinked(c)' => client'[c] # "start" /\ hung'[c] = "up"
  BY <1>0, <1>1, <1>4, <1>6 DEF SocQueue
<1> QED
  BY <1>1, <1>3, <1>4, <1>5, <1>6, <1>7, SocClientStep

LEMMA SocReadStep == ASSUME SocIInv, NEW c \in Clients, Net!ReadMessage(c) \/ Net!ReadError(c) PROVE SocIInv'
<1>0. SocTypes /\ SocQueue /\ SocOnTheWay(c) /\ SocAnswer(c) /\ SocAttended(c)
  BY DEF SocIInv
<1> DEFINE got == IF hung[c] = "reset" THEN Net!Unknown ELSE Net!Msg
<1>1. /\ family = "AF_INET" /\ client[c] = "connected" /\ UNCHANGED <<Net!Others, text, met, backlog, client>>
      /\ UNCHANGED <<family, server, starts, conn, pcBuf, s32idx, printed>>
  BY DEF Net!ReadMessage, Net!ReadError, Net!Others, Net!buffer
<1>2. /\ sockOutput[c] = << >> /\ hung[c] # "up" /\ (hung[c] # "reset" => wire[c] = <<Net!Msg>>)
      /\ (hung[c] = "reset" => SocHasEnded(c) /\ wire[c] = << >>)
      /\ wire' = [wire EXCEPT ![c] = << >>] /\ sockOutput' = [sockOutput EXCEPT ![c] = <<got>>]
      /\ hung' = [hung EXCEPT ![c] = "closed"]
  <2>1. CASE Net!ReadMessage(c)
    <3>1. wire[c] = <<Net!Msg>> /\ sockOutput[c] = << >> /\ hung[c] = "closed"
      BY <1>0, <2>1 DEF Net!ReadMessage, SocAnswer, SocTypes
    <3>2. Tail(wire[c]) = << >> /\ Append(sockOutput[c], Head(wire[c])) = <<Net!Msg>>
      BY <3>1
    <3>3. hung' = [hung EXCEPT ![c] = "closed"]
      BY <1>0, <2>1, <3>1 DEF Net!ReadMessage, SocTypes
    <3> QED
      BY <2>1, <3>1, <3>2, <3>3 DEF Net!ReadMessage
  <2>2. CASE Net!ReadError(c)
    <3>1. wire[c] = << >> /\ sockOutput[c] = << >> /\ hung[c] = "reset" /\ SocHasEnded(c)
      BY <1>0, <2>2 DEF Net!ReadError, SocAnswer
    <3>2. wire' = [wire EXCEPT ![c] = << >>] /\ Append(sockOutput[c], Net!Unknown) = <<Net!Unknown>>
      BY <1>0, <2>2, <3>1 DEF Net!ReadError, SocTypes
    <3> QED
      BY <2>2, <3>1, <3>2 DEF Net!ReadError
  <2> QED
    BY <2>1, <2>2
<1>3. <<got>> \in Seq(SocByte) /\ << >> \in Seq(SocByte)
  <2>1. got \in SocByte
    BY DEF SocByte
  <2> HIDE DEF got
  <2> QED
    BY <2>1
<1>4. SocTypes'
  BY <1>0, <1>1, <1>2, <1>3 DEF SocTypes
<1>5. /\ wire'[c] = << >> /\ hung'[c] = "closed" /\ sockOutput'[c] = <<got>>
      /\ \A d \in Clients \ {c} :
           wire'[d] = wire[d] /\ hung'[d] = hung[d] /\ sockOutput'[d] = sockOutput[d]
  BY <1>0, <1>2 DEF SocTypes
<1>6. SocOnTheWay(c)' /\ SocAttended(c)'
  BY <1>1 DEF SocOnTheWay, SocAttended
<1>7. SocAnswer(c)'
  BY <1>1, <1>2, <1>5 DEF SocAnswer, SocHasEnded
<1>8. ~SocLinked(c)'
  BY <1>0, <1>1, <1>2 DEF SocQueue, SocLinked
<1> QED
  BY <1>1, <1>4, <1>5, <1>6, <1>7, <1>8, SocClientStep

LEMMA SocLeaveStep == ASSUME SocIInv, NEW c \in Clients, Net!EndClient(c) \/ Net!KillClient(c) PROVE SocIInv'
<1>0. SocTypes /\ SocQueue /\ SocOnTheWay(c) /\ SocAnswer(c) /\ SocAttended(c)
  BY DEF SocIInv
<1>1. /\ client[c] = "connected" /\ UNCHANGED <<Net!Others, text, met, backlog, wire, hung, sockOutput>>
      /\ UNCHANGED <<family, server, starts, conn, pcBuf, s32idx, printed>>
      /\ \/ /\ client' = [client EXCEPT ![c] = "exited"] /\ family = "AF_INET"
            /\ wire[c] = << >> /\ hung[c] = "closed"
         \/ client' = [client EXCEPT ![c] = "killed"]
  BY DEF Net!EndClient, Net!KillClient, Net!Others, Net!buffer
<1>2. SocTypes'
  BY <1>0, <1>1 DEF SocTypes, Net!Gone
<1>3. client'[c] \in {"exited", "killed"} /\ \A d \in Clients \ {c} : client'[d] = client[d]
  BY <1>0, <1>1 DEF SocTypes
<1>4. client'[c] = "exited" => family = "AF_INET" /\ wire[c] = << >> /\ hung[c] = "closed"
  BY <1>0, <1>1 DEF SocTypes
<1>5. SocOnTheWay(c)' /\ SocAnswer(c)' /\ SocAttended(c)'
  BY <1>0, <1>1, <1>3, <1>4 DEF SocOnTheWay, SocAnswer, SocAttended, SocHasEnded
<1>6. SocLinked(c)' => client'[c] # "start" /\ hung'[c] = "up"
  BY <1>0, <1>1, <1>3 DEF SocQueue, SocLinked
<1> QED
  BY <1>1, <1>2, <1>3, <1>5, <1>6, SocClientStep

LEMMA SocSStep == SocIInv /\ [Net!Next]_NetVars => SocIInv'
<1> SUFFICES ASSUME SocIInv, [Net!Next]_NetVars PROVE SocIInv'
  OBVIOUS
<1>1. CASE UNCHANGED NetVars
  BY <1>1, SocUnchanged DEF NetVars, Net!buffer, Net!links
<1> QED
  BY <1>1, SocRunStep, SocStartStep, SocAcceptStep, SocReadCharStep, SocPrintTextStep,
     SocEndStep, SocCloseListenStep,
     SocSendMessageStep, SocConnectStep, SocWriteTextStep, SocReadStep, SocLeaveStep, SocSame
  DEF Net!Next, Net!Server, Net!Client

LEMMA SocInvTells == SocIInv => Net!ConnectionsTold
<1> SUFFICES ASSUME SocIInv PROVE Net!ConnectionsTold
  OBVIOUS
<1> DEFINE stopped(c) == server \in Net!Down \cup {"unlink"} \/ starts > met[c]
<1>1. Net!TextsArePrinted
  BY DEF SocIInv, SocServed
<1>2. \A c \in Clients : SocHasEnded(c) => stopped(c)
  BY DEF SocHasEnded, Net!Down
<1>3. ASSUME NEW c \in Clients, client[c] = "exited", family = "AF_INET"
      PROVE  sockOutput[c] = <<Net!Msg>> \/ (sockOutput[c] \in {<< >>, <<Net!Unknown>>} /\ stopped(c))
  <2> HIDE DEF stopped
  <2>1. SocAnswer(c)
    BY DEF SocIInv
  <2> QED
    BY <1>2, <1>3, <2>1 DEF SocAnswer
<1>4. ASSUME NEW c \in Clients, client[c] = "exited", family = "AF_Local"
      PROVE  \/ c = conn \/ c \in Net!Set(backlog)
             \/ \E j \in 1 .. Len(printed) : printed[j][1] = c
             \/ stopped(c)
  <2> HIDE DEF stopped
  <2>1. SocAttended(c)
    BY DEF SocIInv
  <2> QED
    BY <1>2, <1>4, <2>1 DEF SocAttended, SocLinked
<1> QED
  BY <1>1, <1>3, <1>4 DEF Net!ConnectionsTold, Net!AnswersOrStops

(***************************************************************************)
(* For any number of clients, whatever they send, and whoever is killed:   *)
(* the texts are printed whole and in the buffer, and a client that        *)
(* reports success is answered unless the server it connected to has stopped.      *)
(***************************************************************************)
THEOREM ConnectionsToldHolds == ProgramsSpec => []ConnectionsTold
  BY SocSInit, SocSStep, SocInvTells, SocFrame, PTL DEF ConnectionsTold

-----------------------------------------------------------------------------
(* The matrix multiplication *)

LEMMA MMFrame == ProgramsSpec => MM!Init /\ [][MM!Next]_MMVars
<1>1. ProgramsInit => MM!Init
  BY DEF ProgramsInit
<1>2. [ProgramsNext]_allvars => [MM!Next]_MMVars
  BY DEF ProgramsNext, Runs, allvars
<1> QED
  BY <1>1, <1>2, PTL DEF ProgramsSpec

LEMMA MMSame == UNCHANGED MM!vars => UNCHANGED MMVars
  BY DEF MM!vars, MMVars, MM!stamps, MM!report

(* The inductive invariant.  What the threads have added to the cell is told
   by the set of the products that are in it, or were: one of them stores one
   product, so that the sum over the threads is the size of a set. *)

MMBusy == {"load", "store", "after", "record"}
MMOpened(t) == mmPc[t] \in MMBusy \cup {"outside"}

MMTypes ==
  /\ matrix_size \in Nat /\ s32cnt \in Nat
  /\ main \in {"start", "rejected", "loop", "verified", "aborted", "report",
             "exited", "outside"}
  /\ mmPc \in [MM!Threads -> MMBusy \cup {"idle", "before", "done", "outside"}]
  /\ s32i \in [MM!Threads -> Nat] /\ mmLeft \in [MM!Threads -> Nat] /\ reg \in [MM!Threads -> Nat]
  /\ C \in Nat

MMSerial ==
  /\ main \in {"start", "rejected"} => \A t \in MM!Threads : mmPc[t] = "idle"
  /\ (\E t \in MM!Threads : mmPc[t] = "idle") =>
       (\A t \in MM!Threads : mmPc[t] = "idle") /\ C = 0 /\ mixed = {}
  /\ main \notin {"start", "rejected"} => matrix_size <= SqrtMax
  /\ main \in {"verified", "aborted", "report", "exited", "outside"} =>
       \A t \in MM!Threads : mmPc[t] = "done"
  /\ main = "verified" => C = matrix_size
  /\ main = "aborted" => C # matrix_size
  /\ main = "outside" => matrix_size = SqrtMax

\* Each thread is in the iterations that are its own.
MMParallel ==
  \A t \in MM!Threads : mmPc[t] # "idle" =>
    /\ MM!First(t) <= s32i[t]
    /\ IF mmPc[t] = "done" THEN s32i[t] = MM!First(t + 1) ELSE s32i[t] < MM!First(t + 1)
    /\ mmPc[t] \in {"load", "store"} => mmLeft[t] \in 1 .. matrix_size
    /\ mmPc[t] \in {"after", "record"} => mmLeft[t] = 0
    /\ mmPc[t] = "outside" => matrix_size = SqrtMax

\* The products of all iterations, and those that have been added.
MMProducts == (0 .. s32cnt - 1) \X (1 .. matrix_size)
MMAdded(t, p) ==
  /\ mmPc[t] # "idle" /\ MM!First(t) <= p[1]
  /\ p[1] < s32i[t] \/ (p[1] = s32i[t] /\ mmPc[t] \in MMBusy /\ mmLeft[t] < p[2])
MMStored == {p \in MMProducts : \E t \in MM!Threads : MMAdded(t, p)}

MMSums ==
  /\ C <= Cardinality(MMStored)
  /\ \A t \in MM!Threads : mmPc[t] = "store" => reg[t] <= Cardinality(MMStored)

\* Nothing is lost while no two iterations have met, as with a single one.
MMAlone ==
  /\ mixed = {} =>
       /\ C = Cardinality(MMStored)
       /\ \A t \in MM!Threads : mmPc[t] = "store" => reg[t] = C
       /\ \A t, u \in MM!Threads : MMOpened(t) /\ MMOpened(u) => t = u
  /\ s32cnt = 1 => mixed = {}

MMLow == -(10 * (Now + MaxTime) + SEC)

MMTimes ==
  /\ mmNow \in 0 .. Now + MaxTime /\ strBefore \in 0 .. mmNow /\ strAfter \in 0 .. mmNow
  /\ main # "start" =>
       /\ began \in [0 .. s32cnt - 1 -> Int]
       /\ ps32record \in [0 .. s32cnt - 1 -> {r \in Int : r >= MMLow}]
  /\ \A t \in MM!Threads : MMOpened(t) /\ s32i[t] \notin mixed => began[s32i[t]] = strBefore
  /\ main # "exited" => s32min = MIN_INIT
  /\ main = "exited" => (s32min \in MM!Records <=> \E r \in MM!Records : r <= MIN_INIT)

MMInv == MMTypes /\ MMSerial /\ MMParallel /\ MMSums /\ MMAlone /\ MMTimes

-----------------------------------------------------------------------------
(* The static schedule *)

LEMMA MMThreadsAre == number \in Nat \ {0} /\ MM!Threads = 1 .. number
  BY MMAssumption DEF MM!Threads

LEMMA MMMultiples ==
  ASSUME NEW a \in Nat, NEW b \in Nat, NEW q \in Nat, a <= b
  PROVE  a * q \in Nat /\ a * q <= b * q
<1>1. PICK d \in Nat : b = a + d
  <2>1. b - a \in Nat /\ b = a + (b - a)
    OBVIOUS
  <2> QED
    BY <2>1
<1>2. b * q = a * q + d * q /\ d * q \in Nat /\ a * q \in Nat
  BY <1>1
<1> QED
  BY <1>2

\* The threads' shares follow each other, from the first iteration to the last.
LEMMA MMShares ==
  ASSUME s32cnt \in Nat
  PROVE  /\ MM!First(1) = 0 /\ MM!First(number + 1) = s32cnt
         /\ \A t \in 1 .. number + 1 : MM!First(t) \in Nat
         /\ \A t, u \in 1 .. number + 1 : t <= u => MM!First(t) <= MM!First(u)
<1> DEFINE q == s32cnt \div number
           r == s32cnt % number
<1>1. number \in Nat \ {0}
  BY MMThreadsAre
<1>2. q \in Nat /\ r \in 0 .. number - 1 /\ s32cnt = number * q + r
  BY <1>1
<1>3. \A t : MM!First(t) = (t - 1) * q + (IF t - 1 < r THEN t - 1 ELSE r)
  BY DEF MM!First
<1> HIDE DEF q, r
<1>4. MM!First(1) = 0 /\ MM!First(number + 1) = s32cnt
  BY <1>1, <1>2, <1>3
<1>5. ASSUME NEW t \in 1 .. number + 1, NEW u \in 1 .. number + 1, t <= u
      PROVE  MM!First(t) \in Nat /\ MM!First(t) <= MM!First(u)
  <2>1. t - 1 \in Nat /\ u - 1 \in Nat /\ t - 1 <= u - 1
    BY <1>1, <1>5
  <2>2. (t - 1) * q \in Nat /\ (t - 1) * q <= (u - 1) * q /\ (u - 1) * q \in Nat
    BY <2>1, <1>2, MMMultiples
  <2> DEFINE a == (t - 1) * q
             b == (u - 1) * q
  <2>3. MM!First(t) = a + (IF t - 1 < r THEN t - 1 ELSE r)
        /\ MM!First(u) = b + (IF u - 1 < r THEN u - 1 ELSE r)
    BY <1>3
  <2> HIDE DEF a, b
  <2>4. a \in Nat /\ b \in Nat /\ a <= b
    BY <2>2 DEF a, b
  <2> QED
    BY <2>1, <2>3, <2>4, <1>2, <1>1
<1> QED
  BY <1>4, <1>5

\* No iteration belongs to two threads, and each to one.
LEMMA MMOneOwner ==
  ASSUME s32cnt \in Nat, NEW t \in MM!Threads, NEW u \in MM!Threads, t # u
  PROVE  MM!First(t + 1) <= MM!First(u) \/ MM!First(u + 1) <= MM!First(t)
<1>1. t \in 1 .. number /\ u \in 1 .. number /\ number \in Nat
  BY MMThreadsAre
<1>2. t + 1 <= u \/ u + 1 <= t
  BY <1>1
<1>3. t + 1 \in 1 .. number + 1 /\ u + 1 \in 1 .. number + 1 /\ t \in 1 .. number + 1 /\ u \in 1 .. number + 1
  BY <1>1
<1> QED
  BY <1>2, <1>3, MMShares

LEMMA MMSomeOwner ==
  ASSUME s32cnt \in Nat, NEW k \in 0 .. s32cnt - 1
  PROVE  \E t \in MM!Threads : MM!First(t) <= k /\ k < MM!First(t + 1)
<1> DEFINE After == {u \in 1 .. number + 1 : k < MM!First(u)}
<1>1. number \in Nat \ {0} /\ MM!Threads = 1 .. number
  BY MMThreadsAre
<1>2. number + 1 \in After
  BY <1>1, MMShares
<1>3. After \subseteq Nat
  BY <1>1
<1>4. PICK u \in After : \A m \in After : u <= m
  BY <1>2, <1>3, LeastNumber
<1>5. u \in Nat
  BY <1>3
<1>6. u # 1
  BY <1>1, MMShares
<1>7. u - 1 \in 1 .. number /\ u - 1 \notin After /\ (u - 1) + 1 = u
  BY <1>1, <1>4, <1>5, <1>6
<1>8. MM!First(u - 1) \in Nat /\ MM!First(u - 1) <= k
  BY <1>1, <1>7, MMShares
<1> QED
  BY <1>1, <1>7, <1>8


\* An iteration is one of its thread's, and of no other thread's.
LEMMA MMOwnIteration ==
  ASSUME MMTypes, MMParallel, NEW t \in MM!Threads, mmPc[t] \notin {"idle", "done"}
  PROVE  /\ s32i[t] \in 0 .. s32cnt - 1
         /\ \A u \in MM!Threads \ {t} : mmPc[u] # "idle" =>
              s32i[t] < MM!First(u) \/ s32i[u] < s32i[t]
                \/ (mmPc[u] = "done" /\ s32i[u] <= s32i[t])
<1>1. s32cnt \in Nat /\ s32i[t] \in Nat
  BY DEF MMTypes
<1>2. MM!First(t) <= s32i[t] /\ s32i[t] < MM!First(t + 1)
  BY DEF MMParallel
<1>3. number \in Nat \ {0} /\ MM!Threads = 1 .. number
  BY MMThreadsAre
<1>4. \A u \in MM!Threads : MM!First(u) \in Nat /\ MM!First(u + 1) \in Nat /\ MM!First(u + 1) <= s32cnt
  <2> SUFFICES ASSUME NEW u \in MM!Threads
               PROVE  MM!First(u) \in Nat /\ MM!First(u + 1) \in Nat /\ MM!First(u + 1) <= s32cnt
    OBVIOUS
  <2>1. u \in 1 .. number + 1 /\ u + 1 \in 1 .. number + 1 /\ number + 1 \in 1 .. number + 1 /\ u + 1 <= number + 1
    BY <1>3
  <2> QED
    BY <1>1, <2>1, MMShares
<1>5. ASSUME NEW u \in MM!Threads \ {t}, mmPc[u] # "idle"
      PROVE  s32i[t] < MM!First(u) \/ s32i[u] < s32i[t]
                \/ (mmPc[u] = "done" /\ s32i[u] <= s32i[t])
  <2>1. IF mmPc[u] = "done" THEN s32i[u] = MM!First(u + 1) ELSE s32i[u] < MM!First(u + 1)
    BY <1>5 DEF MMParallel
  <2>2. MM!First(t + 1) <= MM!First(u) \/ MM!First(u + 1) <= MM!First(t)
    BY <1>1, MMOneOwner
  <2>3. s32i[u] \in Nat /\ MM!First(u) \in Nat /\ MM!First(u + 1) \in Nat /\ MM!First(t) \in Nat
        /\ MM!First(t + 1) \in Nat
    BY <1>4 DEF MMTypes
  <2> QED
    BY <1>1, <1>2, <2>1, <2>2, <2>3
<1> QED
  BY <1>1, <1>2, <1>4, <1>5

LEMMA MMFirstSame ==
  ASSUME s32cnt' = s32cnt
  PROVE  \A t : MM!First(t)' = MM!First(t)
  BY DEF MM!First

LEMMA MMSquareIsZero ==
  ASSUME matrix_size \in Nat \ {0}, matrix_size <= SqrtMax, MM!squared_size = 0
  PROVE  matrix_size = SqrtMax
<1> SUFFICES ASSUME matrix_size < SqrtMax PROVE FALSE
  BY MMAssumption
<1>1. SqrtMax \in Nat \ {0}
  BY MMAssumption
<1>2. matrix_size * matrix_size <= SqrtMax * matrix_size
  BY <1>1, MMMultiples
<1>3. PICK d \in Nat \ {0} : SqrtMax = matrix_size + d
  <2>1. SqrtMax - matrix_size \in Nat \ {0} /\ SqrtMax = matrix_size + (SqrtMax - matrix_size)
    BY <1>1
  <2> QED
    BY <2>1
<1> DEFINE a == matrix_size * matrix_size
           b == SqrtMax * SqrtMax
<1>4. a \in Nat \ {0} /\ b \in Nat /\ a < b
  BY <1>1, <1>3
<1>5. a % b = a
  <2> HIDE DEF a, b
  <2> QED
    BY <1>4
<1> QED
  BY <1>4, <1>5 DEF MM!squared_size

-----------------------------------------------------------------------------
(* Initially, and in each step: the threads' places *)

LEMMA MMTypesStep ==
  ASSUME MMTypes, MMParallel, [MM!Next]_MMVars
  PROVE  MMTypes'
<1> USE DEF MMTypes
<1>1. CASE UNCHANGED MMVars
  BY <1>1 DEF MMVars
<1>2. CASE MM!Generate
  BY <1>2, MMAssumption DEF MM!Generate
<1>3. CASE MM!Divide
  <2>1. \A t \in MM!Threads : MM!First(t) \in Nat
    BY MMShares, MMThreadsAre
  <2> QED
    BY <1>3, <2>1 DEF MM!Divide, MMBusy
<1>4. CASE MM!Tick \/ MM!Verify \/ MM!NoVerify \/ MM!Report
  BY <1>4 DEF MM!Tick, MM!Verify, MM!NoVerify, MM!Report, MM!AllDone
<1>5. ASSUME NEW t \in MM!Threads, MM!Thread(t)
      PROVE  MMTypes'
  <2>1. CASE MM!StampBefore(t)
    BY <2>1 DEF MM!StampBefore, MM!Goto, MMBusy
  <2>2. CASE MM!LoadCell(t)
    BY <2>2 DEF MM!LoadCell, MM!Goto, MMBusy
  <2>3. CASE MM!StoreCell(t)
    <3>1. mmLeft[t] \in 1 .. matrix_size
      BY <2>3 DEF MM!StoreCell, MM!Goto, MMParallel
    <3> QED
      BY <2>3, <3>1 DEF MM!StoreCell, MM!Goto, MMBusy
  <2>4. CASE MM!StampAfter(t)
    BY <2>4 DEF MM!StampAfter, MM!Goto, MMBusy
  <2>5. CASE MM!Record(t)
    BY <2>5 DEF MM!Record, MM!Goto, MMBusy
  <2> QED
    BY <1>5, <2>1, <2>2, <2>3, <2>4, <2>5 DEF MM!Thread
<1> QED
  BY <1>1, <1>2, <1>3, <1>4, <1>5, MMSame DEF MM!Next

LEMMA MMSerialStep ==
  ASSUME MMTypes, MMSerial, [MM!Next]_MMVars
  PROVE  MMSerial'
<1> USE DEF MMTypes, MMSerial
<1>1. CASE UNCHANGED MMVars
  BY <1>1 DEF MMVars, MM!stamps
<1>2. CASE MM!Generate
  BY <1>2, MMAssumption DEF MM!Generate
<1>3. CASE MM!Divide
  BY <1>3 DEF MM!Divide, MM!stamps
<1>4. CASE MM!Tick
  BY <1>4 DEF MM!Tick, MM!stamps
<1>5. CASE MM!Verify
  <2>1. main = "loop" /\ matrix_size \in Nat /\ matrix_size <= SqrtMax
    BY <1>5 DEF MM!Verify, MM!AllDone
  <2>2. MM!NoElements => matrix_size = SqrtMax
    BY <2>1, MMSquareIsZero DEF MM!NoElements
  <2>3. /\ UNCHANGED <<matrix_size, mmPc, C, mixed>> /\ \A t \in MM!Threads : mmPc[t] = "done"
        /\ main' \in {"verified", "aborted", "outside"}
        /\ main' = "verified" => C = matrix_size
        /\ main' = "aborted" => C # matrix_size
        /\ main' = "outside" => MM!NoElements
    BY <1>5 DEF MM!Verify, MM!AllDone, MM!stamps
  <2> QED
    BY <2>1, <2>2, <2>3
<1>6. CASE MM!NoVerify
  BY <1>6 DEF MM!NoVerify, MM!AllDone, MM!stamps
<1>7. CASE MM!Report
  BY <1>7 DEF MM!Report, MM!stamps
<1>8. ASSUME NEW t \in MM!Threads, MM!Thread(t)
      PROVE  MMSerial'
  <2>1. /\ main' = main /\ matrix_size' = matrix_size
        /\ mmPc[t] \notin {"idle", "done"}
        /\ \E to \in MMBusy \cup {"before", "done", "outside"} : mmPc' = [mmPc EXCEPT ![t] = to]
    BY <1>8 DEF MM!Thread, MM!StampBefore, MM!LoadCell, MM!StoreCell, MM!StampAfter, MM!Record,
       MM!Goto, MMBusy
  <2>2. main = "loop"
    BY <2>1
  <2>3. \A u \in MM!Threads : mmPc'[u] # "idle"
    BY <2>1 DEF MMBusy
  <2> QED
    BY <2>1, <2>2, <2>3
<1> QED
  BY <1>1, <1>2, <1>3, <1>4, <1>5, <1>6, <1>7, <1>8, MMSame DEF MM!Next

LEMMA MMParallelStep ==
  ASSUME MMTypes, MMSerial, MMParallel, [MM!Next]_MMVars
  PROVE  MMParallel'
<1> USE DEF MMTypes, MMParallel
<1>1. CASE UNCHANGED MMVars
  BY <1>1, MMFirstSame DEF MMVars
<1>2. CASE MM!Generate
  BY <1>2 DEF MM!Generate, MMSerial
<1>3. CASE MM!Divide
  <2>1. \A t \in MM!Threads : MM!First(t)' = MM!First(t) /\ MM!First(t + 1)' = MM!First(t + 1)
    BY <1>3, MMFirstSame DEF MM!Divide
  <2>2. \A t \in MM!Threads : MM!First(t) \in Nat /\ MM!First(t + 1) \in Nat /\ MM!First(t) <= MM!First(t + 1)
    <3> SUFFICES ASSUME NEW t \in MM!Threads
                 PROVE  MM!First(t) \in Nat /\ MM!First(t + 1) \in Nat /\ MM!First(t) <= MM!First(t + 1)
      OBVIOUS
    <3>1. t \in 1 .. number + 1 /\ t + 1 \in 1 .. number + 1 /\ t <= t + 1
      BY MMThreadsAre
    <3> QED
      BY <3>1, MMShares
  <2> QED
    BY <1>3, <2>1, <2>2 DEF MM!Divide
<1>4. CASE MM!Tick \/ MM!Verify \/ MM!NoVerify \/ MM!Report
  BY <1>4, MMFirstSame DEF MM!Tick, MM!Verify, MM!NoVerify, MM!Report, MM!AllDone
<1>5. ASSUME NEW t \in MM!Threads, MM!Thread(t)
      PROVE  MMParallel'
  <2>0. /\ s32cnt' = s32cnt /\ \A u : MM!First(u)' = MM!First(u)
        /\ \A u \in MM!Threads : MM!First(u) \in Nat /\ MM!First(u + 1) \in Nat
    <3>1. s32cnt' = s32cnt
      BY <1>5 DEF MM!Thread, MM!StampBefore, MM!LoadCell, MM!StoreCell, MM!StampAfter, MM!Record
    <3>2. \A u \in MM!Threads : u \in 1 .. number + 1 /\ u + 1 \in 1 .. number + 1
      BY MMThreadsAre
    <3> QED
      BY <3>1, <3>2, MMFirstSame, MMShares
  <2>1. CASE MM!StampBefore(t)
    <3>1. matrix_size <= SqrtMax
      BY <2>1 DEF MM!StampBefore, MM!Goto, MMSerial
    <3>2. MM!NoElements => matrix_size = SqrtMax
      BY <3>1, MMSquareIsZero DEF MM!NoElements
    <3> QED
      BY <2>0, <2>1, <3>2 DEF MM!StampBefore, MM!Goto
  <2>2. CASE MM!LoadCell(t)
    BY <2>0, <2>2 DEF MM!LoadCell, MM!Goto
  <2>3. CASE MM!StoreCell(t)
    BY <2>0, <2>3 DEF MM!StoreCell, MM!Goto
  <2>4. CASE MM!StampAfter(t)
    BY <2>0, <2>4 DEF MM!StampAfter, MM!Goto
  <2>5. CASE MM!Record(t)
    BY <2>0, <2>5 DEF MM!Record, MM!Goto
  <2> QED
    BY <1>5, <2>1, <2>2, <2>3, <2>4, <2>5 DEF MM!Thread
<1> QED
  BY <1>1, <1>2, <1>3, <1>4, <1>5, MMSame DEF MM!Next

-----------------------------------------------------------------------------
(* The products in the cell *)

LEMMA MMStoredFinite ==
  ASSUME MMTypes
  PROVE  IsFiniteSet(MMStored) /\ Cardinality(MMStored) \in Nat
<1>1. s32cnt - 1 \in Int /\ matrix_size \in Int /\ 0 \in Int /\ 1 \in Int
  BY DEF MMTypes
<1>2. IsFiniteSet(0 .. s32cnt - 1) /\ IsFiniteSet(1 .. matrix_size)
  BY <1>1, FS_Interval
<1>3. IsFiniteSet(MMProducts)
  BY <1>2, FS_Product DEF MMProducts
<1>4. MMStored \in SUBSET MMProducts
  BY DEF MMStored
<1> QED
  BY <1>3, <1>4, FS_Subset, FS_CardinalityType

LEMMA MMAllStored ==
  ASSUME MMTypes, MMParallel, \A t \in MM!Threads : mmPc[t] = "done"
  PROVE  Cardinality(MMStored) = s32cnt * matrix_size
<1>1. ASSUME NEW p \in MMProducts
      PROVE  \E t \in MM!Threads : MMAdded(t, p)
  <2>1. s32cnt \in Nat /\ p[1] \in 0 .. s32cnt - 1
    BY DEF MMProducts, MMTypes
  <2>2. PICK t \in MM!Threads : MM!First(t) <= p[1] /\ p[1] < MM!First(t + 1)
    BY <2>1, MMSomeOwner
  <2> QED
    BY <2>2 DEF MMAdded, MMParallel
<1>2. MMStored = MMProducts
  BY <1>1 DEF MMStored
<1>3. /\ IsFiniteSet(0 .. s32cnt - 1) /\ Cardinality(0 .. s32cnt - 1) = s32cnt
      /\ IsFiniteSet(1 .. matrix_size) /\ Cardinality(1 .. matrix_size) = matrix_size
  <2>1. s32cnt \in Nat /\ matrix_size \in Nat /\ s32cnt - 1 \in Int
    BY DEF MMTypes
  <2>2. /\ IsFiniteSet(0 .. s32cnt - 1)
        /\ Cardinality(0 .. s32cnt - 1) = IF 0 > s32cnt - 1 THEN 0 ELSE s32cnt - 1 - 0 + 1
    BY <2>1, FS_Interval
  <2>3. /\ IsFiniteSet(1 .. matrix_size)
        /\ Cardinality(1 .. matrix_size) = IF 1 > matrix_size THEN 0 ELSE matrix_size - 1 + 1
    BY <2>1, FS_Interval
  <2> QED
    BY <2>1, <2>2, <2>3
<1> QED
  BY <1>2, <1>3, FS_Product DEF MMProducts

\* Every step but the second half of "+=" leaves them.
LEMMA MMStoredSame ==
  ASSUME MMTypes, MMSerial, MMParallel, [MM!Next]_MMVars, \A t \in MM!Threads : ~ MM!StoreCell(t)
  PROVE  MMStored' = MMStored
<1>1. ASSUME \A t \in MM!Threads : mmPc[t] = "idle"
      PROVE  MMStored = {}
  BY <1>1 DEF MMStored, MMAdded
<1>2. CASE UNCHANGED MMVars
  BY <1>2, MMFirstSame DEF MMVars, MMStored, MMProducts, MMAdded
<1>3. CASE MM!Generate
  <2>1. \A t \in MM!Threads : mmPc[t] = "idle"
    BY <1>3 DEF MM!Generate, MMSerial
  <2>2. mmPc' = mmPc
    BY <1>3 DEF MM!Generate
  <2>3. MMStored' = {}
    BY <2>1, <2>2 DEF MMStored, MMAdded
  <2> QED
    BY <1>1, <2>1, <2>3
<1>4. CASE MM!Divide
  <2>1. MMStored = {}
    BY <1>1, <1>4 DEF MM!Divide
  <2>2. \A t \in MM!Threads : MM!First(t) \in Nat
    BY MMShares, MMThreadsAre DEF MMTypes
  <2>3. \A t : MM!First(t)' = MM!First(t)
    BY <1>4, MMFirstSame DEF MM!Divide
  <2>4. ASSUME NEW t \in MM!Threads, NEW p \in MMProducts, MMAdded(t, p)'
        PROVE  FALSE
    <3>1. p[1] \in Int
      BY DEF MMProducts
    <3>2. mmPc'[t] \notin MMBusy /\ s32i'[t] = MM!First(t)
      BY <1>4 DEF MM!Divide, MMBusy
    <3> QED
      BY <2>2, <2>3, <2>4, <3>1, <3>2 DEF MMAdded
  <2>5. MMProducts' = MMProducts
    BY <1>4 DEF MM!Divide, MMProducts
  <2> QED
    BY <2>1, <2>4, <2>5 DEF MMStored
<1>5. CASE MM!Tick \/ MM!Verify \/ MM!NoVerify \/ MM!Report
  BY <1>5, MMFirstSame DEF MM!Tick, MM!Verify, MM!NoVerify, MM!Report, MMStored, MMProducts, MMAdded
<1>6. ASSUME NEW t \in MM!Threads, MM!Thread(t)
      PROVE  MMStored' = MMStored
  <2>1. /\ s32cnt' = s32cnt /\ matrix_size' = matrix_size
        /\ \A u \in MM!Threads \ {t} : mmPc'[u] = mmPc[u] /\ s32i'[u] = s32i[u] /\ mmLeft'[u] = mmLeft[u]
    BY <1>6 DEF MM!Thread, MM!StampBefore, MM!LoadCell, MM!StoreCell, MM!StampAfter, MM!Record,
       MM!Goto, MMTypes
  <2>2. MMProducts' = MMProducts /\ \A u : MM!First(u)' = MM!First(u)
    BY <2>1, MMFirstSame DEF MMProducts
  <2>3. \A u \in MM!Threads \ {t}, p \in MMProducts : MMAdded(u, p)' <=> MMAdded(u, p)
    BY <2>1, <2>2 DEF MMAdded
  <2>4. ASSUME NEW p \in MMProducts
        PROVE  MMAdded(t, p)' <=> MMAdded(t, p)
    <3>1. p[1] \in Int /\ p[2] \in 1 .. matrix_size
      BY DEF MMProducts
    <3>2. CASE MM!StampBefore(t)
      <4>1. /\ mmPc[t] = "before" /\ mmPc'[t] # "idle" /\ s32i' = s32i
            /\ mmLeft'[t] = matrix_size
        BY <3>2 DEF MM!StampBefore, MM!Goto, MMTypes
      <4>2. ~ (mmLeft'[t] < p[2]) /\ mmPc[t] \notin MMBusy
        BY <3>1, <4>1 DEF MMTypes, MMBusy
      <4> QED
        BY <2>2, <4>1, <4>2 DEF MMAdded
    <3>3. CASE MM!LoadCell(t)
      BY <2>2, <3>3 DEF MM!LoadCell, MM!Goto, MMAdded, MMBusy, MMTypes
    <3>4. CASE MM!StampAfter(t)
      BY <2>2, <3>4 DEF MM!StampAfter, MM!Goto, MMAdded, MMBusy, MMTypes
    <3>5. CASE MM!Record(t)
      <4>1. /\ mmPc[t] = "record" /\ mmPc'[t] \in {"before", "done"} /\ mmLeft' = mmLeft
            /\ s32i'[t] = s32i[t] + 1
        BY <3>5 DEF MM!Record, MM!Goto, MMTypes
      <4>2. mmLeft[t] = 0 /\ MM!First(t) <= s32i[t] /\ s32i[t] \in Nat
        BY <4>1 DEF MMParallel, MMTypes
      <4>3. mmPc[t] \in MMBusy /\ mmPc'[t] \notin MMBusy /\ mmPc[t] # "idle" /\ mmPc'[t] # "idle"
        BY <4>1 DEF MMBusy
      <4> QED
        BY <2>2, <3>1, <4>1, <4>2, <4>3 DEF MMAdded
    <3> QED
      BY <1>6, <3>2, <3>3, <3>4, <3>5 DEF MM!Thread
  <2>5. \A p \in MMProducts : (\E u \in MM!Threads : MMAdded(u, p)') <=> \E u \in MM!Threads : MMAdded(u, p)
    BY <2>3, <2>4
  <2> QED
    BY <2>2, <2>5 DEF MMStored
<1> QED
  BY <1>2, <1>3, <1>4, <1>5, <1>6, MMSame DEF MM!Next

\* A thread never adds a product twice.
LEMMA MMStoredOneMore ==
  ASSUME MMTypes, MMParallel, NEW t \in MM!Threads, MM!StoreCell(t)
  PROVE  Cardinality(MMStored') = Cardinality(MMStored) + 1
<1> DEFINE new == <<s32i[t], mmLeft[t]>>
<1>1. /\ mmPc[t] = "store" /\ mmPc'[t] \in {"after", "load"}
      /\ s32cnt' = s32cnt /\ matrix_size' = matrix_size /\ s32i' = s32i
      /\ mmLeft'[t] = mmLeft[t] - 1
      /\ \A u \in MM!Threads \ {t} : mmPc'[u] = mmPc[u] /\ mmLeft'[u] = mmLeft[u]
  BY DEF MM!StoreCell, MM!Goto, MMTypes
<1>2. MMProducts' = MMProducts /\ \A u : MM!First(u)' = MM!First(u)
  BY <1>1, MMFirstSame DEF MMProducts
<1>3. s32i[t] \in 0 .. s32cnt - 1 /\ mmLeft[t] \in 1 .. matrix_size /\ MM!First(t) <= s32i[t]
  BY <1>1, MMOwnIteration DEF MMParallel
<1>4. new \in MMProducts
  BY <1>3 DEF MMProducts
<1>5. \A u \in MM!Threads \ {t}, p \in MMProducts : MMAdded(u, p)' <=> MMAdded(u, p)
  BY <1>1, <1>2 DEF MMAdded
<1>6. ASSUME NEW p \in MMProducts
      PROVE  MMAdded(t, p)' <=> MMAdded(t, p) \/ p = new
  <2>1. p[1] \in Int /\ p[2] \in Int /\ p = <<p[1], p[2]>>
    BY DEF MMProducts
  <2>2. p = new <=> p[1] = s32i[t] /\ p[2] = mmLeft[t]
    BY <2>1
  <2>3. mmLeft[t] - 1 < p[2] <=> mmLeft[t] < p[2] \/ mmLeft[t] = p[2]
    BY <1>3, <2>1
  <2>4. mmPc[t] \in MMBusy /\ mmPc'[t] \in MMBusy /\ mmPc[t] # "idle" /\ mmPc'[t] # "idle"
    BY <1>1 DEF MMBusy
  <2> HIDE DEF new
  <2>5. MMAdded(t, p)' <=>
          /\ MM!First(t) <= p[1]
          /\ p[1] < s32i[t] \/ (p[1] = s32i[t] /\ mmLeft[t] - 1 < p[2])
    BY <1>1, <1>2, <2>4 DEF MMAdded
  <2>6. MMAdded(t, p) <=>
          /\ MM!First(t) <= p[1]
          /\ p[1] < s32i[t] \/ (p[1] = s32i[t] /\ mmLeft[t] < p[2])
    BY <2>4 DEF MMAdded
  <2> QED
    BY <1>3, <2>2, <2>3, <2>5, <2>6
<1>7. \A u \in MM!Threads : ~ MMAdded(u, new)
  <2> SUFFICES ASSUME NEW u \in MM!Threads, MMAdded(u, new) PROVE FALSE
    OBVIOUS
  <2>1. new[1] = s32i[t] /\ new[2] = mmLeft[t]
    OBVIOUS
  <2> HIDE DEF new
  <2>2. CASE u = t
    BY <1>3, <2>1, <2>2 DEF MMAdded
  <2>3. CASE u # t
    <3>1. mmPc[u] # "idle" /\ MM!First(u) <= s32i[t]
          /\ (s32i[t] < s32i[u] \/ (s32i[t] = s32i[u] /\ mmPc[u] # "done"))
      BY <2>1 DEF MMAdded, MMBusy
    <3>2. s32i[t] < MM!First(u) \/ s32i[u] < s32i[t] \/ (mmPc[u] = "done" /\ s32i[u] <= s32i[t])
      BY <1>1, <2>3, <3>1, MMOwnIteration
    <3>3. s32i[u] \in Nat /\ s32i[t] \in Nat /\ MM!First(u) \in Nat
      BY MMShares, MMThreadsAre DEF MMTypes
    <3> QED
      BY <3>1, <3>2, <3>3
  <2> QED
    BY <2>2, <2>3
<1> HIDE DEF new
<1>8. MMStored' = MMStored \cup {new} /\ new \notin MMStored
  <2>1. \A p \in MMProducts : (\E u \in MM!Threads : MMAdded(u, p)')
                              <=> (\E u \in MM!Threads : MMAdded(u, p)) \/ p = new
    BY <1>5, <1>6
  <2> QED
    BY <1>2, <1>4, <1>7, <2>1 DEF MMStored
<1> QED
  BY <1>8, MMStoredFinite, FS_AddElement

LEMMA MMStoredGrows ==
  ASSUME MMTypes, MMSerial, MMParallel, [MM!Next]_MMVars
  PROVE  /\ Cardinality(MMStored) \in Nat /\ Cardinality(MMStored') \in Nat
         /\ Cardinality(MMStored) <= Cardinality(MMStored')
<1>1. Cardinality(MMStored) \in Nat
  BY MMStoredFinite
<1>2. CASE \E t \in MM!Threads : MM!StoreCell(t)
  BY <1>1, <1>2, MMStoredOneMore
<1>3. CASE \A t \in MM!Threads : ~ MM!StoreCell(t)
  BY <1>1, <1>3, MMStoredSame
<1> QED
  BY <1>2, <1>3

-----------------------------------------------------------------------------
(* The cell *)

LEMMA MMSumsStep ==
  ASSUME MMTypes, MMSerial, MMParallel, MMSums, [MM!Next]_MMVars
  PROVE  MMSums'
<1> DEFINE old == Cardinality(MMStored)
           more == Cardinality(MMStored')
<1>1. old \in Nat /\ more \in Nat /\ old <= more
  BY MMStoredGrows
<1>2. C <= old /\ \A t \in MM!Threads : mmPc[t] = "store" => reg[t] <= old
  BY DEF MMSums
<1>3. C \in Nat /\ reg \in [MM!Threads -> Nat]
  BY DEF MMTypes
<1>4. ASSUME NEW t \in MM!Threads, MM!StoreCell(t)
      PROVE  MMSums'
  <2>1. more = old + 1
    BY <1>4, MMStoredOneMore
  <2>2. C' = reg[t] + 1 /\ reg' = reg /\ mmPc[t] = "store"
        /\ \A u \in MM!Threads : mmPc'[u] = "store" => mmPc[u] = "store"
    BY <1>4 DEF MM!StoreCell, MM!Goto, MMTypes
  <2> HIDE DEF old
  <2>3. C' <= more /\ \A u \in MM!Threads : mmPc'[u] = "store" => reg'[u] <= more
    BY <1>1, <1>2, <1>3, <2>1, <2>2
  <2> QED
    BY <2>3 DEF MMSums
<1>5. ASSUME NEW t \in MM!Threads, MM!LoadCell(t)
      PROVE  MMSums'
  <2>1. C' = C /\ reg'[t] = C
        /\ \A u \in MM!Threads \ {t} : reg'[u] = reg[u] /\ mmPc'[u] = mmPc[u]
    BY <1>5 DEF MM!LoadCell, MM!Goto, MMTypes
  <2> HIDE DEF old
  <2>2. C' <= more /\ \A u \in MM!Threads : mmPc'[u] = "store" => reg'[u] <= more
    BY <1>1, <1>2, <1>3, <2>1
  <2> QED
    BY <2>2 DEF MMSums
<1>6. ASSUME \A t \in MM!Threads : ~ MM!StoreCell(t) /\ ~ MM!LoadCell(t)
      PROVE  MMSums'
  <2>1. C' = C /\ reg' = reg
        /\ \A u \in MM!Threads : mmPc'[u] = "store" => mmPc[u] = "store"
    BY <1>6, MMSame DEF MM!Next, MMVars, MM!Generate, MM!Divide, MM!Tick, MM!Verify,
       MM!NoVerify, MM!Report, MM!Thread,
               MM!StampBefore, MM!StampAfter, MM!Record, MM!Goto, MMTypes
  <2> HIDE DEF old
  <2>2. C' <= more /\ \A u \in MM!Threads : mmPc'[u] = "store" => reg'[u] <= more
    BY <1>1, <1>2, <1>3, <2>1
  <2> QED
    BY <2>2 DEF MMSums
<1> QED
  BY <1>4, <1>5, <1>6

LEMMA MMOneStaysAlone ==
  ASSUME MMTypes, MMSerial, MMParallel, MMAlone, [MM!Next]_MMVars, s32cnt' = 1
  PROVE  mixed' = {}
<1>1. CASE MM!Generate
  <2>1. \A t \in MM!Threads : mmPc[t] = "idle"
    BY <1>1 DEF MM!Generate, MMSerial
  <2> QED
    BY <1>1, <2>1, MMThreadsAre DEF MM!Generate, MMSerial
<1>2. ASSUME NEW t \in MM!Threads, MM!StampBefore(t)
      PROVE  mixed' = {}
  <2>1. s32cnt = 1 /\ mmPc[t] = "before"
    BY <1>2 DEF MM!StampBefore, MM!Goto
  <2>2. ASSUME NEW u \in MM!Threads \ {t}, mmPc[u] \notin {"idle", "before", "done"}
        PROVE  FALSE
    <3>1. s32i[t] \in 0 .. 0 /\ s32i[u] \in 0 .. 0
      BY <2>1, <2>2, MMOwnIteration
    <3>2. s32i[t] < MM!First(u) \/ s32i[u] < s32i[t] \/ (mmPc[u] = "done" /\ s32i[u] <= s32i[t])
      BY <2>1, <2>2, MMOwnIteration
    <3>3. MM!First(u) <= s32i[u]
      BY <2>2 DEF MMParallel
    <3>4. MM!First(u) \in Nat
      BY <2>1, MMShares, MMThreadsAre
    <3> QED
      BY <2>2, <3>1, <3>2, <3>3, <3>4
  <2>3. MM!Open(t) = {}
    BY <2>2 DEF MM!Open
  <2> QED
    BY <1>2, <2>1, <2>3 DEF MM!StampBefore, MMAlone
<1>3. ASSUME ~ MM!Generate, \A t \in MM!Threads : ~ MM!StampBefore(t)
      PROVE  mixed' = mixed /\ s32cnt' = s32cnt
  BY <1>3, MMSame DEF MM!Next, MMVars, MM!stamps, MM!Divide, MM!Tick, MM!Verify, MM!NoVerify,
     MM!Report, MM!Thread,
             MM!LoadCell, MM!StoreCell, MM!StampAfter, MM!Record
<1> QED
  BY <1>1, <1>2, <1>3 DEF MMAlone

LEMMA MMAloneStep ==
  ASSUME MMTypes, MMSerial, MMParallel, MMAlone, [MM!Next]_MMVars
  PROVE  MMAlone'
<1> SUFFICES ASSUME mixed' = {}
             PROVE  /\ C' = Cardinality(MMStored')
                    /\ \A t \in MM!Threads : mmPc'[t] = "store" => reg'[t] = C'
                    /\ \A t, u \in MM!Threads : MMOpened(t)' /\ MMOpened(u)' => t = u
  BY MMOneStaysAlone DEF MMAlone
<1>1. mixed = {}
  BY MMSame DEF MM!Next, MMVars, MM!stamps, MM!Generate, MM!Divide, MM!Tick, MM!Verify,
     MM!NoVerify, MM!Report, MM!Thread,
         MM!StampBefore, MM!LoadCell, MM!StoreCell, MM!StampAfter, MM!Record
<1>2. /\ C = Cardinality(MMStored)
      /\ \A t \in MM!Threads : mmPc[t] = "store" => reg[t] = C
      /\ \A t, u \in MM!Threads : MMOpened(t) /\ MMOpened(u) => t = u
  BY <1>1 DEF MMAlone
<1>3. ASSUME NEW t \in MM!Threads, MM!StoreCell(t)
      PROVE  /\ C' = Cardinality(MMStored')
             /\ \A u \in MM!Threads : mmPc'[u] = "store" => reg'[u] = C'
             /\ \A u, v \in MM!Threads : MMOpened(u)' /\ MMOpened(v)' => u = v
  <2>1. /\ mmPc[t] = "store" /\ mmPc'[t] \in {"after", "load"} /\ C' = reg[t] + 1
        /\ \A u \in MM!Threads \ {t} : mmPc'[u] = mmPc[u]
    BY <1>3 DEF MM!StoreCell, MM!Goto, MMTypes
  <2>2. C' = Cardinality(MMStored')
    BY <1>2, <1>3, <2>1, MMStoredOneMore
  <2>3. \A u \in MM!Threads : MMOpened(u)' => MMOpened(u)
    BY <2>1 DEF MMOpened, MMBusy
  <2>4. MMOpened(t) /\ \A u \in MM!Threads : mmPc[u] = "store" => MMOpened(u)
    BY <2>1 DEF MMOpened, MMBusy
  <2> QED
    BY <1>2, <2>1, <2>2, <2>3, <2>4
<1>4. ASSUME NEW t \in MM!Threads, MM!StampBefore(t)
      PROVE  \A u, v \in MM!Threads : MMOpened(u)' /\ MMOpened(v)' => u = v
  <2>1. MM!Open(t) = {} /\ \A u \in MM!Threads \ {t} : mmPc'[u] = mmPc[u]
    BY <1>4 DEF MM!StampBefore, MM!Goto, MMTypes
  <2>2. \A u \in MM!Threads \ {t} : ~ MMOpened(u)
    BY <2>1 DEF MM!Open, MMOpened, MMBusy, MMTypes
  <2>3. \A u \in MM!Threads \ {t} : ~ MMOpened(u)'
    BY <2>1, <2>2 DEF MMOpened
  <2> QED
    BY <2>3
<1>5. ASSUME \A t \in MM!Threads : ~ MM!StampBefore(t)
      PROVE  \A u \in MM!Threads : MMOpened(u)' => MMOpened(u)
  BY <1>5, MMSame DEF MM!Next, MMVars, MMOpened, MMBusy, MM!Generate, MM!Divide, MM!Tick,
     MM!Verify, MM!NoVerify, MM!Report,
             MM!Thread, MM!LoadCell, MM!StoreCell, MM!StampAfter, MM!Record, MM!Goto, MMTypes
<1>6. ASSUME \A t \in MM!Threads : ~ MM!StoreCell(t)
      PROVE  C' = Cardinality(MMStored')
             /\ \A u \in MM!Threads : mmPc'[u] = "store" => reg'[u] = C'
  <2>1. C' = C
    BY <1>6, MMSame DEF MM!Next, MMVars, MM!Generate, MM!Divide, MM!Tick, MM!Verify,
       MM!NoVerify, MM!Report, MM!Thread,
               MM!StampBefore, MM!LoadCell, MM!StampAfter, MM!Record
  <2>2. \A u \in MM!Threads : mmPc'[u] = "store" => reg'[u] = C \/ (reg'[u] = reg[u] /\ mmPc[u] = "store")
    BY <1>6, MMSame DEF MM!Next, MMVars, MM!Generate, MM!Divide, MM!Tick, MM!Verify,
       MM!NoVerify, MM!Report, MM!Thread,
               MM!StampBefore, MM!LoadCell, MM!StampAfter, MM!Record, MM!Goto, MMTypes
  <2> QED
    BY <1>2, <1>6, <2>1, <2>2, MMStoredSame
<1> QED
  BY <1>2, <1>3, <1>4, <1>5, <1>6

-----------------------------------------------------------------------------
(* The times *)

LEMMA MMDivision ==
  ASSUME NEW a \in Nat, NEW s \in Nat \ {0}
  PROVE  a \div s \in Nat /\ a % s \in 0 .. s - 1 /\ a = s * (a \div s) + (a % s)
  OBVIOUS

LEMMA MMElapsedExact ==
  ASSUME NEW from \in Nat, NEW to \in Nat
  PROVE  /\ MM!Elapsed(from, to) = (to - from) + 9 * SEC * (to \div SEC - from \div SEC)
         /\ MM!Elapsed(from, to) \in Int
         /\ MM!Elapsed(from, to) >= -(10 * from + SEC)
<1> DEFINE f == from \div SEC
           g == from % SEC
           p == to \div SEC
           q == to % SEC
<1>1. f \in Nat /\ g \in 0 .. SEC - 1 /\ from = SEC * f + g
  BY MMAssumption, MMDivision
<1>2. p \in Nat /\ q \in 0 .. SEC - 1 /\ to = SEC * p + q
  BY MMAssumption, MMDivision
<1>3. MM!Elapsed(from, to) = (p - f) * 10 * SEC + (q - g)
  BY DEF MM!Elapsed
<1>4. SEC \in Nat \ {0}
  BY MMAssumption
<1> DEFINE x == SEC * f
           y == SEC * p
<1> HIDE DEF f, g, p, q
<1>5. x \in Nat /\ y \in Nat /\ (p - f) * 10 * SEC = 10 * y - 10 * x
      /\ 9 * SEC * (p - f) = 9 * y - 9 * x
  BY <1>1, <1>2, <1>4
<1>6. from = x + g /\ to = y + q
  BY <1>1, <1>2
<1> HIDE DEF x, y
<1>7. MM!Elapsed(from, to) = (to - from) + 9 * SEC * (p - f)
  BY <1>1, <1>2, <1>3, <1>4, <1>5, <1>6
<1>8. MM!Elapsed(from, to) \in Int /\ MM!Elapsed(from, to) >= -(10 * from + SEC)
  BY <1>1, <1>2, <1>3, <1>4, <1>5, <1>6
<1> QED
  BY <1>7, <1>8 DEF f, p

\* Of records that are not too low there is a least one, also with s32min.
LEMMA MMLeastRecord ==
  ASSUME NEW R, R \subseteq {r \in Int : r >= MMLow}
  PROVE  /\ MM!Min(R \cup {MIN_INIT}) \in R \cup {MIN_INIT}
         /\ \A r \in R \cup {MIN_INIT} : MM!Min(R \cup {MIN_INIT}) <= r
<1> DEFINE S == R \cup {MIN_INIT}
           Shifted == {r - MMLow : r \in S}
<1>1. MMLow \in Int /\ MIN_INIT \in Int /\ MIN_INIT >= MMLow
  BY MMAssumption DEF MMLow
<1>2. S \subseteq {r \in Int : r >= MMLow}
  BY <1>1
<1> HIDE DEF S
<1>3. Shifted \subseteq Nat /\ Shifted # {}
  BY <1>1, <1>2 DEF S
<1>4. PICK x \in Shifted : \A y \in Shifted : x <= y
  BY <1>3, LeastNumber
<1>5. PICK m \in S : x = m - MMLow
  OBVIOUS
<1>6. \A r \in S : m <= r
  <2> SUFFICES ASSUME NEW r \in S PROVE m <= r
    OBVIOUS
  <2>1. r - MMLow \in Shifted
    OBVIOUS
  <2>2. m - MMLow <= r - MMLow
    BY <1>4, <1>5, <2>1
  <2> QED
    BY <1>1, <1>2, <2>2
<1>7. MM!Min(S) \in S /\ \A r \in S : MM!Min(S) <= r
  BY <1>6 DEF MM!Min
<1> QED
  BY <1>7 DEF S

LEMMA MMTimesStep ==
  ASSUME MMTypes, MMSerial, MMParallel, MMTimes, [MM!Next]_MMVars
  PROVE  MMTimes'
<1> USE DEF MMTypes, MMTimes
<1>0. Now \in Nat /\ MaxTime \in Nat /\ SEC \in Nat \ {0} /\ MMLow \in Int /\ MM!None \in Int /\ MM!None >= MMLow
  BY MMAssumption DEF MMLow, MM!None
<1>1. CASE UNCHANGED MMVars
  BY <1>1 DEF MMVars, MM!stamps, MM!report, MMOpened, MM!Records
<1>2. CASE MM!Generate
  <2>1. \A t \in MM!Threads : ~ MMOpened(t)'
    BY <1>2 DEF MM!Generate, MMSerial, MMOpened, MMBusy
  <2> QED
    BY <1>0, <1>2, <2>1 DEF MM!Generate
<1>3. CASE MM!Divide
  <2>1. \A t \in MM!Threads : ~ MMOpened(t)'
    BY <1>3 DEF MM!Divide, MMOpened, MMBusy
  <2> QED
    BY <1>3, <2>1 DEF MM!Divide, MM!stamps, MM!report
<1>4. CASE MM!Tick
  BY <1>0, <1>4 DEF MM!Tick, MM!stamps, MM!report, MMOpened
<1>5. CASE MM!Verify \/ MM!NoVerify
  BY <1>5 DEF MM!Verify, MM!NoVerify, MM!AllDone, MM!stamps, MM!report, MMOpened
<1>6. CASE MM!Report
  <2>1. MM!Records \subseteq {r \in Int : r >= MMLow}
    BY <1>6 DEF MM!Report, MM!Records
  <2>2. s32min' = MM!Min(MM!Records \cup {MIN_INIT}) /\ MM!Records' = MM!Records /\ main' = "exited"
    BY <1>6 DEF MM!Report, MM!Records
  <2>3. s32min' \in MM!Records \cup {MIN_INIT} /\ \A r \in MM!Records \cup {MIN_INIT} : s32min' <= r
    BY <2>1, <2>2, MMLeastRecord
  <2>4. MIN_INIT \in Int
    BY MMAssumption
  <2> HIDE DEF MM!Records
  <2>5. s32min' \in MM!Records <=> \E r \in MM!Records : r <= MIN_INIT
    BY <2>1, <2>3, <2>4
  <2> QED
    BY <1>6, <2>2, <2>5 DEF MM!Report, MM!stamps, MMOpened
<1>7. ASSUME NEW t \in MM!Threads, MM!Thread(t)
      PROVE  MMTimes'
  <2>0. /\ mmPc[t] \notin {"idle", "done"} /\ main \notin {"start", "exited"} /\ main' = main
        /\ s32cnt' = s32cnt /\ mmNow' = mmNow /\ s32min' = s32min
        /\ s32i[t] \in 0 .. s32cnt - 1
        /\ \A u \in MM!Threads \ {t} : mmPc'[u] = mmPc[u] /\ s32i'[u] = s32i[u]
    <3>1. /\ mmPc[t] \notin {"idle", "done"} /\ main' = main
          /\ s32cnt' = s32cnt /\ mmNow' = mmNow /\ s32min' = s32min
          /\ \A u \in MM!Threads \ {t} : mmPc'[u] = mmPc[u] /\ s32i'[u] = s32i[u]
      BY <1>7 DEF MM!Thread, MM!StampBefore, MM!LoadCell, MM!StoreCell, MM!StampAfter,
         MM!Record, MM!Goto, MM!report
    <3> QED
      BY <3>1, MMOwnIteration DEF MMSerial
  <2>1. CASE MM!StampBefore(t)
    <3>1. /\ strBefore' = mmNow /\ strAfter' = strAfter /\ ps32record' = ps32record
          /\ s32i' = s32i
          /\ began' = [began EXCEPT ![s32i[t]] = mmNow]
      BY <2>1 DEF MM!StampBefore, MM!report
    <3>2. ASSUME NEW u \in MM!Threads \ {t}, MMOpened(u)'
          PROVE  s32i'[u] \in mixed'
      <4>1. s32i[u] \in MM!Open(t)
        BY <2>0, <3>2 DEF MM!Open, MMOpened, MMBusy
      <4> QED
        BY <2>1, <3>1, <4>1 DEF MM!StampBefore
    <3>3. began'[s32i'[t]] = strBefore'
      BY <2>0, <3>1
    <3> QED
      BY <2>0, <3>1, <3>2, <3>3
  <2>2. CASE MM!LoadCell(t) \/ MM!StoreCell(t) \/ MM!StampAfter(t)
    <3>1. /\ strBefore' = strBefore /\ strAfter' \in {strAfter, mmNow} /\ ps32record' = ps32record
          /\ s32i' = s32i /\ began' = began /\ mixed' = mixed /\ mmPc[t] \in MMBusy
      BY <2>2 DEF MM!LoadCell, MM!StoreCell, MM!StampAfter, MM!Goto, MMBusy, MM!stamps, MM!report
    <3>2. \A u \in MM!Threads : MMOpened(u)' => MMOpened(u)
      BY <2>0, <3>1 DEF MMOpened
    <3> QED
      BY <2>0, <3>1, <3>2
  <2>3. CASE MM!Record(t)
    <3>1. /\ strBefore' = strBefore /\ strAfter' = strAfter /\ began' = began /\ mixed' = mixed
          /\ ps32record' = [ps32record EXCEPT ![s32i[t]] = MM!Elapsed(strBefore, strAfter)]
          /\ mmPc'[t] \in {"before", "done"}
      BY <2>3 DEF MM!Record, MM!Goto, MM!stamps
    <3>2. MM!Elapsed(strBefore, strAfter) \in {r \in Int : r >= MMLow}
      <4>1. strBefore \in Nat /\ strAfter \in Nat /\ strBefore <= Now + MaxTime
        BY <1>0
      <4>2. /\ MM!Elapsed(strBefore, strAfter) \in Int
            /\ MM!Elapsed(strBefore, strAfter) >= -(10 * strBefore + SEC)
        BY <4>1, MMElapsedExact
      <4> QED
        BY <1>0, <4>1, <4>2 DEF MMLow
    <3>3. \A u \in MM!Threads : MMOpened(u)' => u # t /\ MMOpened(u)
      BY <2>0, <3>1 DEF MMOpened, MMBusy
    <3> QED
      BY <2>0, <3>1, <3>2, <3>3
  <2> QED
    BY <1>7, <2>1, <2>2, <2>3 DEF MM!Thread
<1> QED
  BY <1>1, <1>2, <1>3, <1>4, <1>5, <1>6, <1>7, MMSame DEF MM!Next

-----------------------------------------------------------------------------
LEMMA MMInitInv == MM!Init => MMInv
<1> SUFFICES ASSUME MM!Init PROVE MMInv
  OBVIOUS
<1> USE DEF MM!Init
<1>1. MMTypes
  BY DEF MMTypes
<1>2. MMSerial /\ MMParallel
  BY DEF MMSerial, MMParallel
<1>3. MMStored = {}
  BY DEF MMStored, MMAdded
<1>4. Cardinality(MMStored) = 0
  BY <1>3, FS_EmptySet
<1>5. MMSums
  BY <1>4 DEF MMSums
<1>6. MMAlone
  BY <1>4 DEF MMAlone, MMOpened, MMBusy
<1>7. MMTimes
  BY MMAssumption DEF MMTimes, MMOpened, MMBusy
<1> QED
  BY <1>1, <1>2, <1>5, <1>6, <1>7 DEF MMInv

LEMMA MMStepInv == MMInv /\ [MM!Next]_MMVars => MMInv'
  BY MMTypesStep, MMSerialStep, MMParallelStep, MMSumsStep, MMAloneStep, MMTimesStep DEF MMInv

LEMMA MMInvVerifies == MMInv => MM!VerifyTellsLost
<1> SUFFICES ASSUME MMInv PROVE MM!VerifyTellsLost
  OBVIOUS
<1> USE DEF MMInv
<1>1. matrix_size \in Nat /\ s32cnt \in Nat /\ C \in Nat
  BY DEF MMTypes
<1>2. ASSUME \A t \in MM!Threads : mmPc[t] = "done"
      PROVE  C <= s32cnt * matrix_size /\ (mixed = {} => C = s32cnt * matrix_size)
  BY <1>2, MMAllStored DEF MMSums, MMAlone
<1>3. s32cnt = 1 => mixed = {}
  BY DEF MMAlone
<1>4. main = "aborted" => s32cnt # 1
  BY <1>1, <1>2, <1>3 DEF MMSerial
<1>5. main = "verified" /\ matrix_size > 0 => s32cnt = 1 \/ mixed # {}
  <2> SUFFICES ASSUME main = "verified", matrix_size > 0, mixed = {}
               PROVE  s32cnt = 1
    OBVIOUS
  <2>1. matrix_size = s32cnt * matrix_size
    BY <1>2 DEF MMSerial
  <2>2. CASE s32cnt = 0
    BY <1>1, <2>1, <2>2
  <2>3. CASE s32cnt > 1
    <3>1. PICK d \in Nat : s32cnt = 2 + d
      <4>1. s32cnt - 2 \in Nat /\ s32cnt = 2 + (s32cnt - 2)
        BY <1>1, <2>3
      <4> QED
        BY <4>1
    <3>2. s32cnt * matrix_size = 2 * matrix_size + d * matrix_size /\ d * matrix_size \in Nat
      BY <1>1, <3>1
    <3> QED
      BY <1>1, <2>1, <3>2
  <2> QED
    BY <1>1, <2>2, <2>3
<1>6. MM!AllDone => C <= s32cnt * matrix_size /\ (s32cnt = 1 => C = matrix_size)
  BY <1>1, <1>2, <1>3 DEF MM!AllDone
<1>7. MM!Outside => matrix_size = SqrtMax
  BY DEF MMParallel, MMSerial, MM!Outside
<1> QED
  BY <1>4, <1>5, <1>6, <1>7 DEF MM!VerifyTellsLost

LEMMA MMInvTimes == MMInv => MM!TimesAreOwn
<1> SUFFICES ASSUME MMInv PROVE MM!TimesAreOwn
  OBVIOUS
<1> USE DEF MMInv
<1>1. ASSUME NEW t \in MM!Threads, mmPc[t] = "record", s32i[t] \notin mixed
      PROVE  MM!Elapsed(strBefore, strAfter) =
               (strAfter - began[s32i[t]]) + 9 * SEC * (strAfter \div SEC - began[s32i[t]] \div SEC)
  <2>1. began[s32i[t]] = strBefore
    BY <1>1 DEF MMTimes, MMOpened, MMBusy
  <2>2. strBefore \in Nat /\ strAfter \in Nat
    BY DEF MMTimes
  <2> QED
    BY <2>1, <2>2, MMElapsedExact
<1> QED
  BY <1>1 DEF MM!TimesAreOwn, MMTimes

(***************************************************************************)
(* The comparison with D and the records tell of multiplications that ran  *)
(* alone only, for any number of threads and multiplications and any size. *)
(***************************************************************************)
THEOREM RunIsMeasuredHolds == ProgramsSpec => []RunIsMeasured
<1>1. MMInv => MM!RunIsMeasured
  BY MMInvVerifies, MMInvTimes DEF MM!RunIsMeasured
<1> QED
  BY <1>1, MMInitInv, MMStepInv, MMFrame, PTL DEF RunIsMeasured

-----------------------------------------------------------------------------
(* The input of the profiler *)

LEMMA InpFrame == ProgramsSpec => Input!Init /\ [][Input!Next]_InputVars
<1>1. ProgramsInit => Input!Init
  BY DEF ProgramsInit
<1>2. [ProgramsNext]_allvars => [Input!Next]_InputVars
  BY DEF ProgramsNext, Runs, allvars
<1> QED
  BY <1>1, <1>2, PTL DEF ProgramsSpec

LEMMA InpSame == UNCHANGED Input!vars => UNCHANGED InputVars
  BY DEF Input!vars, InputVars

InpRead   == {"init", "create", "outside", "returned"}
InpBefore == {"start", "arguments", "cfgfile", "init"}

InpTypes ==
  /\ mpc \in {"start", "arguments", "cfgfile", "init", "create", "outside", "returned",
              "exited"}
  /\ gstrArg \in [s32pthpercore : Int, as32prio : Int \X Int,
                  s32sched_policy : {"RR", "FIFO", "OTHER", "unknown"},
                  s32round : Int, s32iter : Int, s32cnt : Int]
  /\ numbers \in Nat
  /\ threads \in Seq(Int)

\* What parsing_input() has let pass.
InpChecked ==
  /\ gstrArg.s32sched_policy \in {"RR", "FIFO", "OTHER"}
  /\ {gstrArg.s32round, gstrArg.s32iter, gstrArg.s32cnt} \subseteq Nat \ {0}

\* Thread number k of the creation loops.
InpPrioOf(k) == IF k \div PCPUcnt < gstrArg.s32pthpercore \div 2
             THEN gstrArg.as32prio[1] ELSE gstrArg.as32prio[2]

\* What of exp.cfg is missing has its initial value.
InpMissing ==
  /\ mpc \in {"start", "arguments", "cfgfile"} =>
       gstrArg.s32pthpercore = 2 /\ gstrArg.as32prio = <<0, 0>>
  /\ mpc \in InpRead /\ numbers < 3 => gstrArg.as32prio[2] = 0
  /\ mpc \in InpRead /\ numbers = 0 => gstrArg.s32pthpercore = 2

\* The threads created so far: in turn, with priorities that the policy has.
InpCreated ==
  /\ mpc \in InpBefore => threads = << >>
  /\ threads # << >> \/ mpc \in InpRead \cup {"cfgfile"} => InpChecked
  /\ gstrArg.s32pthpercore <= 0 => threads = << >>
  /\ gstrArg.s32pthpercore > 0 => Len(threads) <= PCPUcnt * gstrArg.s32pthpercore
  /\ \A k \in 1 .. Len(threads) :
       threads[k] = InpPrioOf(k - 1) /\ (Input!RT => threads[k] \in RTPriorities)

\* main() returns after the last row, and the arrays are left only with too many.
InpEnds ==
  /\ mpc = "returned" => Input!row >= gstrArg.s32pthpercore
  /\ mpc = "outside" => PCPUcnt * gstrArg.s32pthpercore >= IntLimit

InpIInv == InpTypes /\ InpMissing /\ InpCreated /\ InpEnds

LEMMA InpInitInv == Input!Init => InpIInv
<1> SUFFICES ASSUME Input!Init PROVE InpIInv
  OBVIOUS
<1>1. InpTypes /\ InpMissing /\ InpEnds
  BY DEF Input!Init, Input!Default, InpTypes, InpMissing, InpEnds, InpRead
<1>2. InpCreated
  BY InputAssumption DEF Input!Init, Input!Default, InpCreated, InpBefore, InpRead
<1> QED
  BY <1>1, <1>2 DEF InpIInv

\* The errors that main() ends with.
InpErrors == {Input!ERR_ARGMISS, Input!ERR_NOSCHED, Input!ERR_NPOSR, Input!ERR_NPOSI, Input!ERR_THREAD_CREATE,
           Input!ERR_MALLOC, Input!ERR_SET_POLICY, Input!ERR_PIN_CORE, Input!ERR_SET_BARRIER, Input!ERR_DES_BARRIER,
           Input!ERR_INIT_MUTEX, Input!ERR_DES_MUTEX, Input!ERR_CFGFILE, Input!ERR_SET_PRIORITY}

\* main() ends with an error.
LEMMA InpFailStep ==
  ASSUME InpIInv, NEW eno \in InpErrors, Input!Fail(eno),
         gstrArg' = gstrArg \/ threads = << >>, InpTypes'
  PROVE  InpIInv'
<1> USE DEF Input!Fail, InpIInv
<1>1. InpMissing' /\ InpEnds'
  BY DEF InpMissing, InpEnds, InpRead
<1>2. InpCreated'
  <2>1. CASE threads = << >>
    BY <2>1, InputAssumption DEF InpCreated, InpBefore, InpRead, InpTypes
  <2>2. CASE gstrArg' = gstrArg
    BY <2>2 DEF InpCreated, InpBefore, InpRead, InpChecked, InpPrioOf, Input!RT
  <2> QED
    BY <2>1, <2>2
<1> QED
  BY <1>1, <1>2

\* The int product is the product, where an int can hold it.
LEMMA InpCountFits ==
  ASSUME gstrArg.s32pthpercore \in Nat, PCPUcnt * gstrArg.s32pthpercore < IntLimit
  PROVE  Input!s32threadcnt = PCPUcnt * gstrArg.s32pthpercore
<1> DEFINE x == PCPUcnt * gstrArg.s32pthpercore
<1>1. x \in Nat
  <2>1. \A a, b \in Nat : a * b \in Nat
    OBVIOUS
  <2> QED
    BY <2>1, InputAssumption
<1> HIDE DEF x
<1>2. \A n \in Nat \ {0} : \A y \in Nat : y < n => ((y + n) % (2 * n)) - n = y
  <2> SUFFICES ASSUME NEW n \in Nat \ {0}, NEW y \in Nat, y < n
               PROVE  ((y + n) % (2 * n)) - n = y
    OBVIOUS
  <2>1. 2 * n \in Nat /\ 2 * n > 0 /\ 0 <= y + n /\ y + n < 2 * n
    OBVIOUS
  <2>2. \A m \in Nat : \A z \in Int : m > 0 /\ 0 <= z /\ z < m => z % m = z
    OBVIOUS
  <2>3. (y + n) % (2 * n) = y + n
    BY <2>1, <2>2
  <2> QED
    BY <2>3
<1>3. x < IntLimit
  BY DEF x
<1>4. ((x + IntLimit) % (2 * IntLimit)) - IntLimit = x
  BY <1>1, <1>2, <1>3, InputAssumption
<1> QED
  BY <1>4 DEF Input!s32threadcnt, x

\* The rows of the creation loops.
LEMMA InpRows ==
  ASSUME NEW n \in Nat, NEW k \in Nat, NEW p \in Nat, n >= 1
  PROVE  /\ k \div n < p => k + 1 <= n * p
         /\ k \div n >= p => k >= n * p
         /\ p >= 1 => (n * p - 1) \div n = p - 1 /\ n * p >= 1 /\ n * p \in Nat
  OBVIOUS

\* A thread more, with the priority of its row.
LEMMA InpCreateStep == ASSUME InpIInv, Input!CreateThread PROVE InpIInv'
<1> USE DEF InpIInv
<1>1. mpc = "create" /\ Input!row < gstrArg.s32pthpercore /\ UNCHANGED gstrArg
  BY DEF Input!CreateThread
<1>2. /\ PCPUcnt \in Nat /\ PCPUcnt >= 1 /\ Len(threads) \in Nat /\ threads \in Seq(Int)
      /\ gstrArg.s32pthpercore \in Int /\ IntLimit \in Int
  BY InputAssumption DEF InpTypes
<1>3. Input!row \in Nat /\ gstrArg.s32pthpercore \in Nat /\ gstrArg.s32pthpercore > 0
  BY <1>1, <1>2 DEF Input!row
<1>4. Len(threads) + 1 <= PCPUcnt * gstrArg.s32pthpercore
      /\ PCPUcnt * gstrArg.s32pthpercore \in Nat
  <2>1. Len(threads) \div PCPUcnt < gstrArg.s32pthpercore
    BY <1>1 DEF Input!row
  <2> HIDE DEF InpIInv
  <2>2. Len(threads) + 1 <= PCPUcnt * gstrArg.s32pthpercore
    BY <2>1, <1>2, <1>3, InpRows
  <2>3. PCPUcnt * gstrArg.s32pthpercore \in Nat
    BY <1>2, <1>3, InpRows
  <2> QED
    BY <2>2, <2>3
<1>5. CASE mpc' = "outside"
  <2>1. Len(threads) >= Input!s32threadcnt /\ UNCHANGED <<pthread, numbers, threads, s32ret>>
    BY <1>1, <1>5 DEF Input!CreateThread, Input!Fail
  <2>2. PCPUcnt * gstrArg.s32pthpercore >= IntLimit
    BY <2>1, <1>2, <1>3, <1>4, InpCountFits
  <2>3. InpTypes' /\ InpMissing' /\ InpEnds'
    BY <2>1, <2>2, <1>1, <1>5 DEF InpTypes, InpMissing, InpEnds, InpRead
  <2>4. InpCreated'
    BY <2>1, <1>1, <1>5 DEF InpCreated, InpBefore, InpRead, InpChecked, InpPrioOf, Input!RT
  <2> QED
    BY <2>3, <2>4
<1>6. CASE \/ Input!Fail(Input!ERR_PIN_CORE) \/ Input!Fail(Input!ERR_SET_POLICY)
         \/ Input!Fail(Input!ERR_SET_PRIORITY) \/ Input!Fail(Input!ERR_THREAD_CREATE)
  <2>1. InpTypes'
    BY <1>1, <1>6 DEF Input!Fail, InpTypes
  <2>2. {Input!ERR_PIN_CORE, Input!ERR_SET_POLICY, Input!ERR_SET_PRIORITY, Input!ERR_THREAD_CREATE} \subseteq InpErrors
    BY DEF InpErrors
  <2> QED
    BY <1>1, <1>6, <2>1, <2>2, InpFailStep
<1>7. CASE /\ ~Input!RT \/ Input!s32prio \in RTPriorities
           /\ threads' = Append(threads, Input!s32prio)
           /\ UNCHANGED <<mpc, pthread, numbers, s32ret>>
  <2>1. Input!s32prio = InpPrioOf(Len(threads)) /\ Input!s32prio \in Int
    BY <1>2 DEF Input!s32prio, InpPrioOf, Input!row, InpTypes
  <2>2. /\ threads' \in Seq(Int) /\ Len(threads') = Len(threads) + 1
        /\ threads'[Len(threads) + 1] = Input!s32prio
        /\ \A k \in 1 .. Len(threads) : threads'[k] = threads[k]
    BY <1>2, <1>7, <2>1
  <2>3. InpTypes' /\ InpMissing' /\ InpEnds'
    BY <1>1, <1>7, <2>2 DEF InpTypes, InpMissing, InpEnds, InpRead
  <2>4. \A k \in Int : InpPrioOf(k)' = InpPrioOf(k)
    BY <1>1 DEF InpPrioOf
  <2>5. ASSUME NEW k \in 1 .. Len(threads')
        PROVE  threads'[k] = InpPrioOf(k - 1) /\ (Input!RT => threads'[k] \in RTPriorities)
    <3>1. CASE k \in 1 .. Len(threads)
      BY <2>2, <3>1 DEF InpCreated
    <3>2. CASE k = Len(threads) + 1
      <4>1. k - 1 = Len(threads)
        BY <1>2, <3>2
      <4> QED
        BY <1>7, <2>1, <2>2, <3>2, <4>1
    <3> QED
      BY <1>2, <2>2, <3>1, <3>2
  <2>6. InpCreated'
    BY <1>1, <1>3, <1>4, <1>7, <2>2, <2>4, <2>5 DEF InpCreated, InpBefore, InpRead, InpChecked,
       Input!RT
  <2> QED
    BY <2>3, <2>6
<1> QED
  BY <1>1, <1>5, <1>6, <1>7 DEF Input!CreateThread

LEMMA InpStepInv == InpIInv /\ [Input!Next]_InputVars => InpIInv'
<1> SUFFICES ASSUME InpIInv, [Input!Next]_InputVars PROVE InpIInv'
  OBVIOUS
<1> USE DEF InpIInv
<1>1. CASE Input!Run
  BY <1>1 DEF Input!Run, InpTypes, InpMissing, InpCreated, InpEnds, InpBefore, InpRead,
     InpChecked, InpPrioOf, Input!RT
<1>2. CASE Input!parsing_input
  <2>1. PICK a \in InputArguments :
          /\ gstrArg' = [gstrArg EXCEPT !.s32sched_policy = a.policy, !.s32round = a.round,
                                        !.s32iter = a.iter, !.s32cnt = a.cnt]
          /\ IF Input!InputError(a) # 0 THEN Input!Fail(Input!InputError(a))
             ELSE \/ Input!Fail(Input!ERR_MALLOC)
                  \/ mpc' = "cfgfile" /\ UNCHANGED <<pthread, numbers, threads, s32ret>>
    BY <1>2 DEF Input!parsing_input
  <2>2. /\ mpc = "arguments" /\ threads = << >>
        /\ a \in [policy : {"RR", "FIFO", "OTHER", "unknown"}, round : Int, iter : Int,
                  cnt : Int]
    BY <1>2, InputAssumption DEF Input!parsing_input, InpCreated, InpBefore
  <2>3. InpTypes'
    BY <2>1, <2>2 DEF InpTypes, Input!Fail
  <2>4. Input!InputError(a) \in InpErrors \cup {0}
    BY DEF Input!InputError, InpErrors
  <2>5. CASE (Input!Fail(Input!InputError(a)) /\ Input!InputError(a) # 0) \/ Input!Fail(Input!ERR_MALLOC)
    BY <2>2, <2>3, <2>4, <2>5, InpFailStep DEF InpErrors
  <2>6. CASE /\ Input!InputError(a) = 0 /\ mpc' = "cfgfile"
             /\ UNCHANGED <<pthread, numbers, threads, s32ret>>
    <3>1. /\ a.cnt > 0 /\ a.round > 0 /\ a.iter > 0 /\ a.policy # "unknown"
      BY <2>2, <2>6 DEF Input!InputError, Input!ERR_ARGMISS, Input!ERR_NOSCHED, Input!ERR_NPOSR,
         Input!ERR_NPOSI
    <3>2. InpChecked'
      BY <2>1, <2>2, <3>1 DEF InpChecked, InpTypes
    <3>3. InpMissing' /\ InpEnds'
      BY <2>1, <2>2, <2>6 DEF InpMissing, InpEnds, InpTypes, InpRead
    <3>4. InpCreated'
      BY <2>1, <2>2, <2>3, <2>6, <3>2, <3>3, InputAssumption
         DEF InpCreated, InpBefore, InpTypes, InpMissing
    <3> QED
      BY <2>3, <2>6, <3>3, <3>4
  <2> QED
    BY <2>1, <2>5, <2>6
<1>3. CASE Input!parsing_cfgfile
  <2>1. mpc = "cfgfile" /\ threads = << >>
    BY <1>3 DEF Input!parsing_cfgfile, InpCreated, InpBefore
  <2>2. CASE Input!Fail(Input!ERR_CFGFILE) /\ UNCHANGED gstrArg
    BY <2>1, <2>2, InpFailStep DEF InpErrors, Input!Fail, InpTypes
  <2>3. CASE \E f \in CfgFiles :
               LET Number(k, old) == IF k <= Len(f) THEN f[k] ELSE old IN
               /\ numbers' = Len(f)
               /\ gstrArg' = [gstrArg EXCEPT
                    !.s32pthpercore = Number(1, @),
                    !.as32prio = <<Number(2, @[1]), Number(3, @[2])>>]
               /\ mpc' = "init"
               /\ UNCHANGED <<pthread, threads, s32ret>>
    <3>1. PICK f \in CfgFiles :
               LET Number(k, old) == IF k <= Len(f) THEN f[k] ELSE old IN
               /\ numbers' = Len(f)
               /\ gstrArg' = [gstrArg EXCEPT
                    !.s32pthpercore = Number(1, @),
                    !.as32prio = <<Number(2, @[1]), Number(3, @[2])>>]
               /\ mpc' = "init"
               /\ UNCHANGED <<pthread, threads, s32ret>>
      BY <2>3
    <3>2. f \in Seq(Int) /\ Len(f) \in Nat /\ \A k \in 1 .. Len(f) : f[k] \in Int
      BY InputAssumption
    <3>3. gstrArg.as32prio = <<0, 0>> /\ gstrArg.s32pthpercore = 2
      BY <2>1 DEF InpMissing
    <3>4. /\ gstrArg'.s32pthpercore \in Int /\ gstrArg'.as32prio \in Int \X Int
          /\ numbers' < 3 => gstrArg'.as32prio[2] = 0
          /\ numbers' = 0 => gstrArg'.s32pthpercore = 2
          /\ numbers' \in Nat
          /\ gstrArg'.s32sched_policy = gstrArg.s32sched_policy
          /\ gstrArg'.s32round = gstrArg.s32round
          /\ gstrArg'.s32iter = gstrArg.s32iter /\ gstrArg'.s32cnt = gstrArg.s32cnt
      BY <3>1, <3>2, <3>3 DEF InpTypes
    <3>5. InpTypes'
      BY <3>1, <3>4 DEF InpTypes
    <3>6. InpMissing' /\ InpEnds'
      BY <3>1, <3>4 DEF InpMissing, InpEnds, InpRead
    <3>7. InpChecked'
      BY <2>1, <3>4 DEF InpCreated, InpChecked, InpRead
    <3>8. InpCreated'
      <4>1. \A p \in Int : p > 0 => PCPUcnt * p >= 0
        BY InputAssumption
      <4> QED
        BY <2>1, <3>1, <3>4, <3>7, <4>1 DEF InpCreated, InpBefore, InpRead
    <3> QED
      BY <3>1, <3>5, <3>6, <3>8
  <2> QED
    BY <1>3, <2>2, <2>3 DEF Input!parsing_cfgfile
<1>4. CASE Input!InitBarrier
  <2>1. mpc = "init" /\ UNCHANGED gstrArg
    BY <1>4 DEF Input!InitBarrier
  <2>2. CASE Input!Fail(Input!ERR_INIT_MUTEX) \/ Input!Fail(Input!ERR_SET_BARRIER)
    BY <2>1, <2>2, InpFailStep DEF InpErrors, Input!Fail, InpTypes
  <2>3. CASE mpc' = "create" /\ UNCHANGED <<pthread, numbers, threads, s32ret>>
    <3>1. InpTypes' /\ InpMissing' /\ InpEnds'
      BY <2>1, <2>3 DEF InpTypes, InpMissing, InpEnds, InpRead
    <3>2. InpCreated'
      BY <2>1, <2>3 DEF InpCreated, InpBefore, InpRead, InpChecked, InpPrioOf, Input!RT
    <3> QED
      BY <3>1, <3>2
  <2> QED
    BY <1>4, <2>2, <2>3 DEF Input!InitBarrier
<1>5. CASE Input!Return
  <2>1. mpc = "create" /\ Input!row >= gstrArg.s32pthpercore /\ UNCHANGED gstrArg
    BY <1>5 DEF Input!Return
  <2>2. CASE Input!Fail(Input!ERR_DES_BARRIER) \/ Input!Fail(Input!ERR_DES_MUTEX)
    BY <2>1, <2>2, InpFailStep DEF InpErrors, Input!Fail, InpTypes
  <2>3. CASE mpc' = "returned" /\ UNCHANGED <<pthread, numbers, threads, s32ret>>
    <3>1. InpTypes' /\ InpMissing' /\ InpEnds'
      BY <2>1, <2>3 DEF InpTypes, InpMissing, InpEnds, InpRead, Input!row
    <3>2. InpCreated'
      BY <2>1, <2>3 DEF InpCreated, InpBefore, InpRead, InpChecked, InpPrioOf, Input!RT
    <3> QED
      BY <3>1, <3>2
  <2> QED
    BY <1>5, <2>2, <2>3 DEF Input!Return
<1>6. CASE UNCHANGED InputVars
  BY <1>6 DEF InputVars, InpTypes, InpMissing, InpCreated, InpEnds, InpBefore, InpRead,
     InpChecked, InpPrioOf, Input!RT, Input!row
<1> QED
  BY <1>1, <1>2, <1>3, <1>4, <1>5, <1>6, InpCreateStep, InpSame DEF Input!Next

LEMMA InpInvTells == InpIInv => Input!InputIsSound
<1> SUFFICES ASSUME InpIInv PROVE Input!InputIsSound
  OBVIOUS
<1> DEFINE p == gstrArg.s32pthpercore
<1> USE DEF InpIInv
<1>1. Input!ThreadsAreSound
  BY DEF Input!ThreadsAreSound, InpCreated, InpChecked
<1>2. ASSUME mpc = "returned"
      PROVE  /\ Len(threads) = IF p > 0 THEN PCPUcnt * p ELSE 0
             /\ Input!RT /\ numbers < 3 => p <= 0
  <2>1. /\ p \in Int /\ PCPUcnt \in Nat /\ PCPUcnt >= 1 /\ Len(threads) \in Nat
        /\ Len(threads) \div PCPUcnt >= p
    <3>1. p \in Int /\ PCPUcnt \in Nat /\ PCPUcnt >= 1 /\ Len(threads) \in Nat
      BY InputAssumption DEF InpTypes
    <3>2. Len(threads) \div PCPUcnt >= p
      BY <1>2 DEF InpEnds, Input!row
    <3> QED
      BY <3>1, <3>2
  <2>2. CASE p <= 0
    <3>1. threads = << >>
      BY <2>2 DEF InpCreated
    <3> QED
      BY <2>1, <2>2, <3>1
  <2>3. CASE p > 0
    <3>1. /\ Len(threads) = PCPUcnt * p /\ PCPUcnt * p >= 1
          /\ (PCPUcnt * p - 1) \div PCPUcnt = p - 1
      <4>1. Len(threads) <= PCPUcnt * p
        BY <2>3 DEF InpCreated
      <4> HIDE DEF InpIInv, p
      <4>2. p \in Nat /\ p >= 1 /\ PCPUcnt * p \in Nat
        BY <2>1, <2>3, InpRows
      <4>3. Len(threads) >= PCPUcnt * p
        BY <2>1, <4>2, InpRows
      <4>4. PCPUcnt * p >= 1 /\ (PCPUcnt * p - 1) \div PCPUcnt = p - 1
        BY <2>1, <4>2, InpRows
      <4> QED
        BY <2>1, <4>1, <4>2, <4>3, <4>4
    <3>2. threads[Len(threads)] = gstrArg.as32prio[2]
      <4>1. ~ (p - 1 < p \div 2)
        BY <2>1, <2>3
      <4>2. InpPrioOf(Len(threads) - 1) = gstrArg.as32prio[2]
        BY <3>1, <4>1 DEF InpPrioOf
      <4> QED
        BY <2>1, <3>1, <4>2 DEF InpCreated
    <3>3. ~ (Input!RT /\ numbers < 3)
      <4> SUFFICES ASSUME Input!RT, numbers < 3 PROVE FALSE
        OBVIOUS
      <4>1. threads[Len(threads)] = 0
        BY <1>2, <3>2 DEF InpMissing, InpRead
      <4>2. threads[Len(threads)] \in RTPriorities
        BY <2>1, <3>1 DEF InpCreated
      <4> QED
        BY <4>1, <4>2, InputAssumption
    <3> QED
      BY <2>3, <3>1, <3>3
  <2> QED
    BY <2>1, <2>2, <2>3
<1>3. ASSUME mpc = "returned", numbers = 0 PROVE Len(threads) = 2 * PCPUcnt
  BY <1>2, <1>3, InputAssumption DEF InpMissing, InpRead
<1>4. Input!ShortFileFails
  BY <1>2, <1>3 DEF Input!ShortFileFails, InpEnds
<1> QED
  BY <1>1, <1>4 DEF Input!InputIsSound

(***************************************************************************)
(* The threads of the profiler run only with what module Profiler assumes, *)
(* whatever the command line says and exp.cfg holds, for any number of     *)
(* processors; and a short file fails under a real-time policy.            *)
(***************************************************************************)
THEOREM InputIsSoundHolds == ProgramsSpec => []InputIsSound
  BY InpInitInv, InpStepInv, InpInvTells, InpFrame, PTL DEF InputIsSound

-----------------------------------------------------------------------------
(* The sort *)

LEMMA SrtFrame == ProgramsSpec => Sorting!Init /\ [][Sorting!Next]_SortingVars
<1>1. ProgramsInit => Sorting!Init
  BY DEF ProgramsInit
<1>2. [ProgramsNext]_allvars => [Sorting!Next]_SortingVars
  BY DEF ProgramsNext, Runs, allvars
<1> QED
  BY <1>1, <1>2, PTL DEF ProgramsSpec

LEMMA SrtSame == UNCHANGED Sorting!vars => UNCHANGED SortingVars
  BY DEF Sorting!vars, SortingVars

-----------------------------------------------------------------------------

(* The inductive invariant *)

SrtIndices == 0 .. array_size

SrtWhole(x) == Sorting!Truncate(x) = x

\* S has the numbers of Before, but for fractions that were dropped.
SrtRearranged(S) ==
  \E f \in Bijection(SrtIndices, SrtIndices) :
    \A k \in SrtIndices : S[k] \in {Before[f[k]], Sorting!Truncate(Before[f[k]])}

SrtInSlice(c, k) == c[1] <= k /\ k <= c[2]

\* The slices that are still to be sorted come from below to above.
SrtStacked(c) ==
  /\ c \in Seq(SrtIndices \X SrtIndices)
  /\ \A k \in 1 .. Len(c) : c[k][1] <= c[k][2]
  /\ \A k, l \in 1 .. Len(c) : k < l => c[k][2] < c[l][1]

\* Numbers that are not in order are in one of these slices.
SrtOrdered(S, c) ==
  \A a, b \in SrtIndices : a < b =>
    \/ S[a] <= S[b]
    \/ \E k \in 1 .. Len(c) : SrtInSlice(c[k], a) /\ SrtInSlice(c[k], b)

SrtSortInv ==
  array_size # Sorting!None =>
    /\ array_size \in Nat
    /\ A \in [SrtIndices -> Nat] /\ Before \in [SrtIndices -> Nat]
    /\ \A k \in SrtIndices \ {array_size} : SrtWhole(Before[k])
    /\ SrtRearranged(A)
    /\ SrtStacked(slices)
    /\ SrtOrdered(A, slices)

-----------------------------------------------------------------------------

LEMMA SrtTruncates ==
  ASSUME NEW x \in Nat
  PROVE  /\ Sorting!Truncate(x) \in Nat /\ Sorting!Truncate(x) <= x /\ SrtWhole(Sorting!Truncate(x))
         /\ \A y \in Nat : x <= y => Sorting!Truncate(x) <= Sorting!Truncate(y)
BY DEF Sorting!Truncate, SrtWhole

LEMMA SrtWholeValues ==
  ASSUME NEW x \in Values
  PROVE  x \in Nat /\ SrtWhole(x)
BY SortAssumption DEF Sorting!Truncate, SrtWhole

\* What a swap leaves, and where it comes from.
LEMMA SrtSwapped ==
  ASSUME NEW S \in [SrtIndices -> Nat], NEW a \in SrtIndices, NEW b \in SrtIndices
  PROVE  /\ Sorting!swap(S, a, b) \in [SrtIndices -> Nat]
         /\ Sorting!swap(S, a, b)[b] = Sorting!Truncate(S[a])
         /\ a # b => Sorting!swap(S, a, b)[a] = S[b]
         /\ \A k \in SrtIndices \ {a, b} : Sorting!swap(S, a, b)[k] = S[k]
BY SrtTruncates DEF Sorting!swap

LEMMA SrtSwapRearranges ==
  ASSUME NEW S \in [SrtIndices -> Nat], NEW a \in SrtIndices, NEW b \in SrtIndices,
         Before \in [SrtIndices -> Nat], SrtRearranged(S)
  PROVE  SrtRearranged(Sorting!swap(S, a, b))
<1>1. PICK f \in Bijection(SrtIndices, SrtIndices) :
        \A k \in SrtIndices : S[k] \in {Before[f[k]], Sorting!Truncate(Before[f[k]])}
  BY DEF SrtRearranged
<1>2. f \in [SrtIndices -> SrtIndices] /\ (\A j, k \in SrtIndices : f[j] = f[k] => j = k)
      /\ \A k \in SrtIndices : \E j \in SrtIndices : f[j] = k
  BY DEF Bijection, Injection, Surjection, IsInjective
<1> DEFINE g == [k \in SrtIndices |-> IF k = a THEN f[b] ELSE IF k = b THEN f[a] ELSE f[k]]
<1>3. g \in Bijection(SrtIndices, SrtIndices)
  <2>1. g \in [SrtIndices -> SrtIndices]
    BY <1>2
  <2>2. \A j, k \in SrtIndices : g[j] = g[k] => j = k
    BY <1>2
  <2>3. \A k \in SrtIndices : \E j \in SrtIndices : g[j] = k
    <3> SUFFICES ASSUME NEW k \in SrtIndices PROVE \E j \in SrtIndices : g[j] = k
      OBVIOUS
    <3>1. PICK j \in SrtIndices : f[j] = k
      BY <1>2
    <3>2. CASE j = a
      BY <3>1, <3>2
    <3>3. CASE j = b
      BY <3>1, <3>3
    <3>4. CASE j \notin {a, b}
      BY <3>1, <3>4
    <3> QED
      BY <3>2, <3>3, <3>4
  <2> QED
    BY <2>1, <2>2, <2>3 DEF Bijection, Injection, Surjection, IsInjective
<1>4. ASSUME NEW k \in SrtIndices
      PROVE  Sorting!swap(S, a, b)[k] \in {Before[g[k]], Sorting!Truncate(Before[g[k]])}
  <2>1. \A j \in SrtIndices : f[j] \in SrtIndices /\ Before[f[j]] \in Nat
    BY <1>2
  <2>2. Sorting!Truncate(S[a]) = Sorting!Truncate(Before[f[a]])
    BY <1>1, <2>1, SrtTruncates DEF SrtWhole
  <2>3. CASE k = b
    BY <2>2, <2>3, SrtSwapped
  <2>4. CASE k = a /\ a # b
    BY <1>1, <2>4, SrtSwapped
  <2>5. CASE k \notin {a, b}
    BY <1>1, <2>5, SrtSwapped
  <2> QED
    BY <2>3, <2>4, <2>5
<1> QED
  BY <1>3, <1>4 DEF SrtRearranged

\* Only the number from behind the array may have a fraction.
LEMMA SrtOneFraction ==
  ASSUME SrtSortInv, array_size # Sorting!None, NEW a \in SrtIndices, NEW b \in SrtIndices, a # b
  PROVE  SrtWhole(A[a]) \/ SrtWhole(A[b])
<1>1. PICK f \in Bijection(SrtIndices, SrtIndices) :
        \A k \in SrtIndices : A[k] \in {Before[f[k]], Sorting!Truncate(Before[f[k]])}
  BY DEF SrtSortInv, SrtRearranged
<1>2. f \in [SrtIndices -> SrtIndices] /\ (\A j, k \in SrtIndices : f[j] = f[k] => j = k)
  BY DEF Bijection, Injection, IsInjective
<1>3. ASSUME NEW k \in SrtIndices, f[k] # array_size
      PROVE  SrtWhole(A[k])
  <2>1. SrtWhole(Before[f[k]])
    BY <1>2, <1>3 DEF SrtSortInv
  <2> QED
    BY <1>1, <2>1 DEF SrtWhole
<1> QED
  BY <1>2, <1>3

-----------------------------------------------------------------------------
(* The loop of partition() *)

\* What an index of the loop is given, when g is what the others were.
SrtEntry(g, index, S, start, pivot_val) ==
  IF index = start THEN [S |-> S, target |-> start]
  ELSE LET w == g[index - 1] IN
       IF w.S[index - 1] <= pivot_val
       THEN [S |-> Sorting!swap(w.S, w.target, index - 1), target |-> w.target + 1]
       ELSE w

SrtLoop(g, S, start, end, pivot_val) ==
  g = [index \in start .. end |-> SrtEntry(g, index, S, start, pivot_val)]

LEMMA SrtLoopExists ==
  ASSUME NEW S, NEW start \in Nat, NEW end \in Nat, start <= end, NEW pivot_val
  PROVE  \E g : SrtLoop(g, S, start, end, pivot_val)
<1> DEFINE Missing == {m \in Nat : start <= m /\ ~ \E g : SrtLoop(g, S, start, m, pivot_val)}
<1> SUFFICES Missing = {}
  OBVIOUS
<1> SUFFICES ASSUME Missing # {} PROVE FALSE
  OBVIOUS
<1>1. PICK m \in Missing : \A n \in Missing : m <= n
  <2> HIDE DEF Missing
  <2>1. Missing \subseteq Nat
    BY DEF Missing
  <2> QED
    BY <2>1, LeastNumber
<1>2. m \in Nat /\ start <= m /\ ~ \E g : SrtLoop(g, S, start, m, pivot_val)
  OBVIOUS
<1>3. m # start
  <2> SUFFICES ASSUME m = start PROVE FALSE
    OBVIOUS
  <2> DEFINE g == [index \in start .. start |-> [S |-> S, target |-> start]]
  <2>1. \A index \in start .. start : index = start
    OBVIOUS
  <2>2. SrtLoop(g, S, start, start, pivot_val)
    BY <2>1 DEF SrtLoop, SrtEntry
  <2> QED
    BY <1>2, <2>2
<1>4. m - 1 \in Nat /\ start <= m - 1 /\ m - 1 \notin Missing
  BY <1>1, <1>2, <1>3
<1>5. PICK g : SrtLoop(g, S, start, m - 1, pivot_val)
  BY <1>4
<1> DEFINE h == [index \in start .. m |->
                   IF index = m THEN SrtEntry(g, m, S, start, pivot_val) ELSE g[index]]
<1>6. ASSUME NEW index \in start .. m
      PROVE  h[index] = SrtEntry(h, index, S, start, pivot_val)
  <2>1. h[index] = SrtEntry(g, index, S, start, pivot_val)
    <3>1. CASE index = m
      BY <3>1
    <3>2. CASE index # m
      <4>1. index \in start .. m - 1
        BY <1>2, <3>2
      <4>2. g[index] = SrtEntry(g, index, S, start, pivot_val)
        BY <1>5, <4>1 DEF SrtLoop
      <4> QED
        BY <3>2, <4>2
    <3> QED
      BY <3>1, <3>2
  <2>2. index # start => h[index - 1] = g[index - 1]
    BY <1>2
  <2> HIDE DEF h
  <2> QED
    BY <2>1, <2>2 DEF SrtEntry
<1>7. SrtLoop(h, S, start, m, pivot_val)
  BY <1>6 DEF SrtLoop
<1> QED
  BY <1>2, <1>7

LEMMA SrtWalkLoops ==
  ASSUME NEW S, NEW start \in Nat, NEW end \in Nat, start <= end, NEW pivot_val,
         NEW index \in start .. end
  PROVE  Sorting!Walk(S, start, end, pivot_val)[index]
           = SrtEntry(Sorting!Walk(S, start, end, pivot_val), index, S, start, pivot_val)
<1>1. Sorting!Walk(S, start, end, pivot_val) = CHOOSE g : SrtLoop(g, S, start, end, pivot_val)
  BY DEF Sorting!Walk, SrtLoop, SrtEntry
<1>2. SrtLoop(Sorting!Walk(S, start, end, pivot_val), S, start, end, pivot_val)
  BY <1>1, SrtLoopExists
<1> QED
  BY <1>2 DEF SrtLoop

\* What a call leaves of the array while it is dividing the slice s .. e.
SrtKept(S, s, e) ==
  /\ S \in [SrtIndices -> Nat] /\ SrtRearranged(S)
  /\ \A k \in SrtIndices \ (s .. e) : S[k] = A[k]
  /\ \A k \in s .. e : \E j \in s .. e : S[k] \in {A[j], Sorting!Truncate(A[j])}

LEMMA SrtSwapKeeps ==
  ASSUME array_size \in Nat, A \in [SrtIndices -> Nat], Before \in [SrtIndices -> Nat],
         NEW s \in SrtIndices, NEW e \in SrtIndices, NEW S, SrtKept(S, s, e),
         NEW a \in s .. e, NEW b \in s .. e
  PROVE  SrtKept(Sorting!swap(S, a, b), s, e)
<1>1. a \in SrtIndices /\ b \in SrtIndices /\ \A k \in s .. e : k \in SrtIndices
  BY DEF SrtIndices
<1>2. S \in [SrtIndices -> Nat] /\ SrtRearranged(S)
  BY DEF SrtKept
<1>3. Sorting!swap(S, a, b) \in [SrtIndices -> Nat] /\ SrtRearranged(Sorting!swap(S, a, b))
  BY <1>1, <1>2, SrtSwapped, SrtSwapRearranges
<1>4. ASSUME NEW k \in SrtIndices \ (s .. e)
      PROVE  Sorting!swap(S, a, b)[k] = A[k]
  <2>1. k # a /\ k # b /\ S[k] = A[k]
    BY DEF SrtKept
  <2>2. Sorting!swap(S, a, b)[k] = S[k]
    BY <1>1, <1>2, <2>1, SrtSwapped
  <2> QED
    BY <2>1, <2>2
<1>5. ASSUME NEW k \in s .. e
      PROVE  \E j \in s .. e : Sorting!swap(S, a, b)[k] \in {A[j], Sorting!Truncate(A[j])}
  <2>1. CASE k = b
    <3>1. PICK j \in s .. e : S[a] \in {A[j], Sorting!Truncate(A[j])}
      BY DEF SrtKept
    <3>2. Sorting!Truncate(S[a]) = Sorting!Truncate(A[j])
      BY <1>1, <3>1, SrtTruncates DEF SrtWhole
    <3> QED
      BY <1>1, <1>2, <2>1, <3>2, SrtSwapped
  <2>2. CASE k = a /\ a # b
    <3>1. Sorting!swap(S, a, b)[k] = S[b]
      BY <1>1, <1>2, <2>2, SrtSwapped
    <3> QED
      BY <3>1 DEF SrtKept
  <2>3. CASE k \notin {a, b}
    <3>1. Sorting!swap(S, a, b)[k] = S[k]
      BY <1>1, <1>2, <2>3, SrtSwapped
    <3> QED
      BY <3>1 DEF SrtKept
  <2> QED
    BY <2>1, <2>2, <2>3
<1> QED
  BY <1>3, <1>4, <1>5 DEF SrtKept

\* Before an index of the loop: small numbers, great ones, and the pivot at the end.
SrtDivided(w, m, s, e, pivot_val) ==
  /\ w.target \in s .. m
  /\ SrtKept(w.S, s, e)
  /\ w.S[e] = pivot_val
  /\ \A k \in s .. w.target - 1 : w.S[k] <= pivot_val
  /\ \A k \in w.target .. m - 1 : w.S[k] >= pivot_val

LEMMA SrtWalkDivides ==
  ASSUME array_size \in Nat, A \in [SrtIndices -> Nat], Before \in [SrtIndices -> Nat],
         NEW s \in SrtIndices, NEW e \in SrtIndices, s < e, NEW S, SrtKept(S, s, e),
         SrtWhole(S[e]), NEW index \in s .. e
  PROVE  SrtDivided(Sorting!Walk(S, s, e, S[e])[index], index, s, e, S[e])
<1> DEFINE W == Sorting!Walk(S, s, e, S[e])
           Not == {m \in s .. e : ~ SrtDivided(W[m], m, s, e, S[e])}
<1> SUFFICES Not = {}
  OBVIOUS
<1> SUFFICES ASSUME Not # {} PROVE FALSE
  OBVIOUS
<1>1. s \in Nat /\ e \in Nat /\ s \in s .. e /\ e \in s .. e /\ s .. e \subseteq SrtIndices
  BY DEF SrtIndices
<1>2. PICK m \in Not : \A n \in Not : m <= n
  <2>1. Not \subseteq Nat
    BY <1>1
  <2> HIDE DEF Not
  <2> QED
    BY <2>1, LeastNumber
<1>3. m \in s .. e /\ ~ SrtDivided(W[m], m, s, e, S[e])
  OBVIOUS
<1>4. W[m] = SrtEntry(W, m, S, s, S[e])
  BY <1>1, <1>3, SrtWalkLoops
<1>5. m # s
  <2> SUFFICES ASSUME m = s PROVE FALSE
    OBVIOUS
  <2>1. W[m] = [S |-> S, target |-> s]
    BY <1>4 DEF SrtEntry
  <2>2. SrtDivided([S |-> S, target |-> s], s, s, e, S[e])
    BY <1>1 DEF SrtDivided
  <2> HIDE DEF W
  <2> QED
    BY <1>3, <2>1, <2>2
<1>6. m - 1 \in s .. e /\ m - 1 \notin Not
  BY <1>1, <1>2, <1>3, <1>5
<1>7. PICK w : w = W[m - 1]
  OBVIOUS
<1>8. SrtDivided(w, m - 1, s, e, S[e])
  BY <1>6, <1>7
<1>9. W[m] = IF w.S[m - 1] <= S[e]
             THEN [S |-> Sorting!swap(w.S, w.target, m - 1), target |-> w.target + 1]
             ELSE w
  BY <1>4, <1>5, <1>7 DEF SrtEntry
<1>10. PICK t \in s .. m - 1 : t = w.target
  BY <1>8 DEF SrtDivided
<1>11. PICK R \in [SrtIndices -> Nat] : R = w.S
  BY <1>8 DEF SrtDivided, SrtKept
<1>12. PICK p \in Nat : p = S[e]
  BY <1>1 DEF SrtKept
<1>13. /\ SrtKept(R, s, e) /\ R[e] = p /\ SrtWhole(p)
       /\ \A k \in s .. t - 1 : R[k] <= p
       /\ \A k \in t .. m - 2 : R[k] >= p
  BY <1>1, <1>6, <1>8, <1>10, <1>11, <1>12 DEF SrtDivided
<1> HIDE DEF W, Not
<1>14. CASE R[m - 1] <= p
  <2>0. t \in SrtIndices /\ m - 1 \in SrtIndices
    BY <1>1, <1>6, <1>10
  <2>1. PICK Q \in [SrtIndices -> Nat] : Q = Sorting!swap(R, t, m - 1)
    BY <2>0, SrtSwapped
  <2>2. W[m] = [S |-> Q, target |-> t + 1]
    BY <1>9, <1>10, <1>11, <1>12, <1>14, <2>1
  <2>3. SrtKept(Q, s, e)
    BY <1>1, <1>6, <1>10, <1>13, <2>1, SrtSwapKeeps
  <2>4. /\ Q[m - 1] = Sorting!Truncate(R[t])
        /\ t # m - 1 => Q[t] = R[m - 1]
        /\ \A k \in SrtIndices \ {t, m - 1} : Q[k] = R[k]
    <3>1. PICK b \in SrtIndices : b = m - 1
      BY <2>0
    <3>2. Q = Sorting!swap(R, t, b)
      BY <2>1, <3>1
    <3>3. /\ Q[b] = Sorting!Truncate(R[t])
          /\ t # b => Q[t] = R[b]
          /\ \A k \in SrtIndices \ {t, b} : Q[k] = R[k]
      BY <2>0, <3>2, SrtSwapped
    <3> QED
      BY <3>1, <3>3
  <2>5. Q[e] = p
    BY <1>1, <1>3, <1>10, <1>13, <2>4
  <2>6. \A k \in s .. t : Q[k] <= p
    <3> SUFFICES ASSUME NEW k \in s .. t PROVE Q[k] <= p
      OBVIOUS
    <3>1. CASE k = t /\ t # m - 1
      BY <1>14, <2>4, <3>1
    <3>2. CASE k = t /\ t = m - 1
      <4>1. R[t] \in Nat /\ R[t] <= p
        BY <1>1, <1>6, <1>14, <3>2
      <4> QED
        BY <2>4, <3>2, <4>1, SrtTruncates
    <3>3. CASE k # t
      BY <1>1, <1>3, <1>10, <1>13, <2>4, <3>3
    <3> QED
      BY <3>1, <3>2, <3>3
  <2>7. \A k \in t + 1 .. m - 1 : Q[k] >= p
    <3> SUFFICES ASSUME NEW k \in t + 1 .. m - 1 PROVE Q[k] >= p
      OBVIOUS
    <3>1. CASE k = m - 1
      <4>1. R[t] \in Nat /\ p <= R[t]
        BY <1>1, <1>3, <1>10, <1>13, <3>1
      <4>2. Sorting!Truncate(p) <= Sorting!Truncate(R[t]) /\ Sorting!Truncate(R[t]) \in Nat
        BY <4>1, SrtTruncates
      <4> QED
        BY <1>13, <2>4, <3>1, <4>2 DEF SrtWhole
    <3>2. CASE k # m - 1
      BY <1>1, <1>3, <1>10, <1>13, <2>4, <3>2
    <3> QED
      BY <3>1, <3>2
  <2>8. t + 1 \in s .. m
    BY <1>1, <1>3, <1>10
  <2>9. SrtDivided([S |-> Q, target |-> t + 1], m, s, e, p)
    BY <1>1, <1>3, <1>10, <2>3, <2>5, <2>6, <2>7, <2>8 DEF SrtDivided
  <2> QED
    BY <1>3, <1>12, <2>2, <2>9
<1>15. CASE ~ (R[m - 1] <= p)
  <2>1. W[m] = w
    BY <1>9, <1>11, <1>12, <1>15
  <2>2. R[m - 1] \in Nat /\ R[m - 1] >= p
    BY <1>1, <1>6, <1>15
  <2>3. \A k \in t .. m - 1 : R[k] >= p
    BY <1>1, <1>3, <1>10, <1>13, <2>2
  <2>4. t \in s .. m
    BY <1>1, <1>3, <1>10
  <2>5. SrtDivided(w, m, s, e, p)
    BY <1>10, <1>11, <1>13, <2>3, <2>4 DEF SrtDivided
  <2> QED
    BY <1>3, <1>12, <2>1, <2>5
<1> QED
  BY <1>14, <1>15

-----------------------------------------------------------------------------
(* A call *)

\* What partition() promises, of a slice that it divides at t.
SrtPartitioned(S, t, s, e) ==
  /\ t \in s .. e
  /\ SrtKept(S, s, e)
  /\ \A k \in s .. t - 1 : S[k] <= S[t]
  /\ \A k \in t + 1 .. e : S[t] <= S[k]

LEMMA SrtPartitions ==
  ASSUME SrtSortInv, array_size # Sorting!None,
         NEW s \in SrtIndices, NEW e \in SrtIndices, s < e, NEW pivot \in s .. e - 1
  PROVE  SrtPartitioned(Sorting!partition(A, s, e, pivot).A, Sorting!partition(A, s, e, pivot).target, s, e)
<1>1. /\ array_size \in Nat /\ A \in [SrtIndices -> Nat] /\ Before \in [SrtIndices -> Nat]
      /\ s \in Nat /\ e \in Nat /\ pivot \in s .. e /\ e \in s .. e /\ s .. e \subseteq SrtIndices
  BY DEF SrtSortInv, SrtIndices
<1>2. SrtKept(A, s, e)
  BY <1>1 DEF SrtKept, SrtSortInv
<1>3. PICK P : P = Sorting!swap(A, pivot, e)
  OBVIOUS
<1>4. SrtKept(P, s, e)
  BY <1>1, <1>2, <1>3, SrtSwapKeeps
<1>5. SrtWhole(P[e]) /\ P[e] \in Nat
  <2>1. P[e] = Sorting!Truncate(A[pivot])
    BY <1>1, <1>3, SrtSwapped
  <2> QED
    BY <1>1, <2>1, SrtTruncates
<1>6. PICK p \in Nat : p = P[e]
  BY <1>5
<1>7. PICK w : w = Sorting!Walk(P, s, e, p)[e]
  OBVIOUS
<1>8. SrtDivided(w, e, s, e, p)
  BY <1>1, <1>4, <1>5, <1>6, <1>7, SrtWalkDivides
<1>9. PICK t \in s .. e : t = w.target
  BY <1>8 DEF SrtDivided
<1>10. PICK R \in [SrtIndices -> Nat] : R = w.S
  BY <1>8 DEF SrtDivided, SrtKept
<1>11. /\ SrtKept(R, s, e) /\ R[e] = p /\ SrtWhole(p)
       /\ \A k \in s .. t - 1 : R[k] <= p
       /\ \A k \in t .. e - 1 : R[k] >= p
  BY <1>5, <1>6, <1>8, <1>9, <1>10 DEF SrtDivided
<1>12. PICK Q : Q = Sorting!swap(R, t, e)
  OBVIOUS
<1>13. Sorting!partition(A, s, e, pivot) = [A |-> Q, target |-> t]
  BY <1>3, <1>5, <1>6, <1>7, <1>9, <1>10, <1>12 DEF Sorting!partition, SrtWhole
<1>14. SrtKept(Q, s, e)
  BY <1>1, <1>11, <1>12, SrtSwapKeeps
<1>15. /\ Q \in [SrtIndices -> Nat] /\ Q[e] = Sorting!Truncate(R[t])
       /\ t # e => Q[t] = R[e]
       /\ \A k \in SrtIndices \ {t, e} : Q[k] = R[k]
  <2>1. t \in SrtIndices
    BY <1>1
  <2> QED
    BY <1>12, <2>1, SrtSwapped
<1>16. Q[t] = p
  BY <1>11, <1>15 DEF SrtWhole
<1>17. \A k \in s .. t - 1 : Q[k] <= p
  BY <1>1, <1>11, <1>15
<1>18. ASSUME NEW k \in t + 1 .. e
       PROVE  p <= Q[k]
  <2>1. CASE k = e
    <3>1. R[t] \in Nat /\ p <= R[t]
      BY <1>1, <1>11, <2>1
    <3>2. Sorting!Truncate(p) <= Sorting!Truncate(R[t])
      BY <3>1, SrtTruncates
    <3> QED
      BY <1>11, <1>15, <2>1, <3>2 DEF SrtWhole
  <2>2. CASE k # e
    BY <1>1, <1>11, <1>15, <2>2
  <2> QED
    BY <2>1, <2>2
<1>19. SrtPartitioned(Q, t, s, e)
  BY <1>14, <1>16, <1>17, <1>18 DEF SrtPartitioned
<1> QED
  BY <1>13, <1>19

\* A division keeps the order of what is not in one slice.
LEMMA SrtDivisionOrders ==
  ASSUME SrtSortInv, array_size # Sorting!None, slices # << >>,
         NEW s \in SrtIndices, NEW e \in SrtIndices, slices[1] = <<s, e>>, s < e,
         NEW S, NEW t, SrtPartitioned(S, t, s, e),
         NEW a \in SrtIndices, NEW b \in SrtIndices, a < b, ~ (S[a] <= S[b])
  PROVE  \/ a \in s .. t - 1 /\ b \in s .. t - 1
         \/ a \in t + 1 .. e /\ b \in t + 1 .. e
         \/ \E k \in 2 .. Len(slices) : SrtInSlice(slices[k], a) /\ SrtInSlice(slices[k], b)
<1>1. /\ array_size \in Nat /\ A \in [SrtIndices -> Nat] /\ S \in [SrtIndices -> Nat]
      /\ s \in Nat /\ e \in Nat /\ t \in s .. e /\ s .. e \subseteq SrtIndices
  BY DEF SrtSortInv, SrtIndices, SrtPartitioned, SrtKept
<1>2. PICK n \in Nat \ {0} : n = Len(slices)
  BY DEF SrtSortInv, SrtStacked
<1>3. \A k \in 2 .. n : slices[k] \in SrtIndices \X SrtIndices /\ e < slices[k][1]
  <2> SUFFICES ASSUME NEW k \in 2 .. n
               PROVE  slices[k] \in SrtIndices \X SrtIndices /\ e < slices[k][1]
    OBVIOUS
  <2>1. 1 \in 1 .. n /\ k \in 1 .. n /\ 1 < k
    BY <1>2
  <2>2. slices[1][2] = e
    OBVIOUS
  <2> QED
    BY <1>2, <2>1, <2>2 DEF SrtSortInv, SrtStacked
<1>4. a \in Nat /\ b \in Nat
  BY <1>1 DEF SrtIndices
<1>5. ASSUME NEW c \in SrtIndices, NEW d \in SrtIndices, c < d, c \notin s .. e \/ d \notin s .. e,
             ~ (A[c] <= A[d])
      PROVE  \E k \in 2 .. n : SrtInSlice(slices[k], c) /\ SrtInSlice(slices[k], d)
  <2>1. PICK k \in 1 .. n : SrtInSlice(slices[k], c) /\ SrtInSlice(slices[k], d)
    BY <1>2, <1>5 DEF SrtSortInv, SrtOrdered
  <2>2. k # 1
    <3> SUFFICES ASSUME k = 1 PROVE FALSE
      OBVIOUS
    <3>1. slices[1][1] = s /\ slices[1][2] = e
      OBVIOUS
    <3>2. s <= c /\ c <= e /\ s <= d /\ d <= e
      BY <2>1, <3>1 DEF SrtInSlice
    <3>3. c \in Nat /\ d \in Nat
      BY <1>1 DEF SrtIndices
    <3>4. c \in s .. e /\ d \in s .. e
      BY <1>1, <3>2, <3>3
    <3> QED
      BY <1>5, <3>4
  <2> QED
    BY <2>1, <2>2
<1>6. \A c \in s .. e : ~ \E k \in 2 .. n : SrtInSlice(slices[k], c)
  <2> SUFFICES ASSUME NEW c \in s .. e, NEW k \in 2 .. n, SrtInSlice(slices[k], c) PROVE FALSE
    OBVIOUS
  <2>1. slices[k] \in SrtIndices \X SrtIndices /\ e < slices[k][1]
    BY <1>3
  <2>2. PICK q \in SrtIndices : q = slices[k][1]
    BY <2>1
  <2>3. e < q /\ q <= c
    BY <2>1, <2>2 DEF SrtInSlice
  <2>4. q \in Nat /\ c \in Nat /\ c <= e
    BY <1>1 DEF SrtIndices
  <2> QED
    BY <1>1, <2>3, <2>4
<1>7. CASE a \notin s .. e /\ b \notin s .. e
  BY <1>1, <1>2, <1>5, <1>7 DEF SrtPartitioned, SrtKept
<1>8. CASE a \in s .. e /\ b \notin s .. e
  <2>1. PICK j \in s .. e : S[a] \in {A[j], Sorting!Truncate(A[j])}
    BY <1>8 DEF SrtPartitioned, SrtKept
  <2>2. S[b] = A[b] /\ j < b
    BY <1>1, <1>4, <1>8 DEF SrtPartitioned, SrtKept
  <2>3. A[j] <= A[b]
    BY <1>1, <1>5, <1>6, <1>8, <2>2
  <2>4. S[a] <= A[j] /\ S[a] \in Nat /\ A[j] \in Nat /\ A[b] \in Nat
    <3>1. S[a] \in Nat /\ A[j] \in Nat /\ A[b] \in Nat
      BY <1>1
    <3>2. Sorting!Truncate(A[j]) <= A[j]
      BY <3>1, SrtTruncates
    <3> QED
      BY <2>1, <3>1, <3>2
  <2> QED
    BY <2>2, <2>3, <2>4
<1>9. CASE a \notin s .. e /\ b \in s .. e
  <2>1. PICK j \in s .. e : S[b] \in {A[j], Sorting!Truncate(A[j])}
    BY <1>9 DEF SrtPartitioned, SrtKept
  <2>2. S[a] = A[a] /\ a < j
    BY <1>1, <1>4, <1>9 DEF SrtPartitioned, SrtKept
  <2>3. A[a] <= A[j] /\ A[a] \in Nat /\ A[j] \in Nat
    BY <1>1, <1>5, <1>6, <1>9, <2>2
  <2>4. Sorting!Truncate(A[a]) <= Sorting!Truncate(A[j]) /\ Sorting!Truncate(A[j]) <= A[j]
    BY <2>3, SrtTruncates
  <2>5. SrtWhole(A[a]) \/ SrtWhole(A[j])
    <3>1. a # j /\ j \in SrtIndices
      BY <1>1, <2>2, <1>4
    <3> QED
      BY <3>1, SrtOneFraction
  <2>6. A[a] <= Sorting!Truncate(A[j])
    BY <2>3, <2>4, <2>5 DEF SrtWhole
  <2> QED
    BY <2>1, <2>2, <2>3, <2>6
<1>10. CASE a \in s .. e /\ b \in s .. e
  <2>1. S[a] \in Nat /\ S[b] \in Nat /\ S[t] \in Nat
    BY <1>1
  <2>2. /\ a < t => S[a] <= S[t]
        /\ t < b => S[t] <= S[b]
    BY <1>1, <1>4, <1>10 DEF SrtPartitioned
  <2>3. (a < t /\ b < t) \/ (t < a /\ t < b) \/ (a <= t /\ t <= b)
    BY <1>1, <1>4
  <2>4. CASE a <= t /\ t <= b
    BY <1>1, <1>4, <2>1, <2>2, <2>4
  <2> QED
    BY <1>1, <1>4, <1>10, <2>3, <2>4
<1> QED
  BY <1>7, <1>8, <1>9, <1>10

-----------------------------------------------------------------------------
(* The slices that a call leaves *)

SrtSlices == SrtIndices \X SrtIndices

SrtTogether(c, a, b) == \E k \in 1 .. Len(c) : SrtInSlice(c[k], a) /\ SrtInSlice(c[k], b)

LEMMA SrtJoined ==
  ASSUME NEW c \in Seq(SrtSlices), NEW d \in Seq(SrtSlices)
  PROVE  /\ c \o d \in Seq(SrtSlices)
         /\ Len(c \o d) = Len(c) + Len(d) /\ Len(c) \in Nat /\ Len(d) \in Nat
         /\ \A k \in 1 .. Len(c) : (c \o d)[k] = c[k]
         /\ \A k \in 1 .. Len(d) : (c \o d)[Len(c) + k] = d[k]
OBVIOUS

LEMMA SrtTogetherInOne ==
  ASSUME NEW c \in Seq(SrtSlices), NEW d \in Seq(SrtSlices), NEW a, NEW b,
         SrtTogether(c, a, b) \/ SrtTogether(d, a, b)
  PROVE  SrtTogether(c \o d, a, b)
<1>1. PICK m \in Nat : m = Len(c)
  OBVIOUS
<1>2. PICK n \in Nat : n = Len(d)
  OBVIOUS
<1>3. PICK j : j = c \o d
  OBVIOUS
<1>4. /\ Len(j) = m + n
      /\ \A k \in 1 .. m : j[k] = c[k]
      /\ \A k \in 1 .. n : j[m + k] = d[k]
  BY <1>1, <1>2, <1>3, SrtJoined
<1>5. CASE SrtTogether(c, a, b)
  <2>1. PICK k \in 1 .. m : SrtInSlice(c[k], a) /\ SrtInSlice(c[k], b)
    BY <1>1, <1>5 DEF SrtTogether
  <2>2. k \in 1 .. m + n /\ j[k] = c[k]
    BY <1>4
  <2> QED
    BY <1>3, <1>4, <2>1, <2>2 DEF SrtTogether
<1>6. CASE SrtTogether(d, a, b)
  <2>1. PICK k \in 1 .. n : SrtInSlice(d[k], a) /\ SrtInSlice(d[k], b)
    BY <1>2, <1>6 DEF SrtTogether
  <2>2. m + k \in 1 .. m + n /\ j[m + k] = d[k]
    BY <1>4
  <2> QED
    BY <1>3, <1>4, <2>1, <2>2 DEF SrtTogether
<1> QED
  BY <1>5, <1>6

LEMMA SrtStackedJoined ==
  ASSUME array_size \in Nat, NEW c, NEW d, SrtStacked(c), SrtStacked(d),
         \A k \in 1 .. Len(c), l \in 1 .. Len(d) : c[k][2] < d[l][1]
  PROVE  SrtStacked(c \o d)
<1>0. c \in Seq(SrtSlices) /\ d \in Seq(SrtSlices)
  BY DEF SrtStacked, SrtSlices
<1>1. PICK m \in Nat : m = Len(c)
  BY <1>0
<1>2. PICK n \in Nat : n = Len(d)
  BY <1>0
<1>3. PICK j : j = c \o d
  OBVIOUS
<1>4. /\ j \in Seq(SrtSlices) /\ Len(j) = m + n
      /\ \A k \in 1 .. m : j[k] = c[k]
      /\ \A k \in 1 .. n : j[m + k] = d[k]
  BY <1>0, <1>1, <1>2, <1>3, SrtJoined
<1>5. ASSUME NEW k \in 1 .. m + n
      PROVE  \/ k \in 1 .. m /\ j[k] = c[k]
             \/ k - m \in 1 .. n /\ j[k] = d[k - m]
  <2>1. CASE k <= m
    BY <1>4, <2>1
  <2>2. CASE k > m
    <3>1. k - m \in 1 .. n /\ m + (k - m) = k
      BY <2>2
    <3> QED
      BY <1>4, <3>1
  <2> QED
    BY <2>1, <2>2
<1>6. \A k \in 1 .. m + n : j[k][1] <= j[k][2]
  BY <1>1, <1>2, <1>5 DEF SrtStacked
<1>7. ASSUME NEW k \in 1 .. m + n, NEW l \in 1 .. m + n, k < l
      PROVE  j[k][2] < j[l][1]
  <2>1. CASE l \in 1 .. m /\ j[l] = c[l]
    <3>1. k \in 1 .. m /\ j[k] = c[k]
      BY <1>4, <1>7, <2>1
    <3> QED
      BY <1>1, <1>7, <2>1, <3>1 DEF SrtStacked
  <2>2. CASE l - m \in 1 .. n /\ j[l] = d[l - m]
    <3>1. CASE k \in 1 .. m /\ j[k] = c[k]
      BY <1>1, <1>2, <2>2, <3>1
    <3>2. CASE k - m \in 1 .. n /\ j[k] = d[k - m]
      <4>1. k - m < l - m
        BY <1>7
      <4> QED
        BY <1>2, <2>2, <3>2, <4>1 DEF SrtStacked
    <3> QED
      BY <1>5, <3>1, <3>2
  <2> QED
    BY <1>5, <2>1, <2>2
<1> QED
  BY <1>3, <1>4, <1>6, <1>7 DEF SrtStacked, SrtSlices

LEMMA SrtStackedOne ==
  ASSUME array_size \in Nat, NEW s \in SrtIndices, NEW e \in SrtIndices, s <= e
  PROVE  SrtStacked(<< <<s, e>> >>)
<1>1. Len(<< <<s, e>> >>) = 1 /\ << <<s, e>> >>[1] = <<s, e>>
  OBVIOUS
<1>2. << <<s, e>> >> \in Seq(SrtIndices \X SrtIndices)
  OBVIOUS
<1> QED
  BY <1>1, <1>2 DEF SrtStacked, SrtIndices

LEMMA SrtStackedTail ==
  ASSUME SrtStacked(slices), slices # << >>
  PROVE  /\ SrtStacked(Tail(slices))
         /\ \A k \in 1 .. Len(Tail(slices)) : slices[1][2] < Tail(slices)[k][1]
         /\ \A a, b : (\E k \in 2 .. Len(slices) : SrtInSlice(slices[k], a) /\ SrtInSlice(slices[k], b))
                        => SrtTogether(Tail(slices), a, b)
<1>0. slices \in Seq(SrtSlices)
  BY DEF SrtStacked, SrtSlices
<1>1. PICK n \in Nat \ {0} : n = Len(slices)
  BY <1>0
<1>2. PICK d : d = Tail(slices)
  OBVIOUS
<1>3. /\ d \in Seq(SrtSlices) /\ Len(d) = n - 1
      /\ \A k \in 1 .. n - 1 : d[k] = slices[k + 1]
  BY <1>0, <1>1, <1>2
<1>4. \A k \in 1 .. n - 1 : k + 1 \in 1 .. n /\ 1 \in 1 .. n /\ 1 < k + 1
  OBVIOUS
<1>5. SrtStacked(d)
  <2>1. \A k \in 1 .. n - 1 : d[k][1] <= d[k][2]
    BY <1>1, <1>3, <1>4 DEF SrtStacked
  <2>2. ASSUME NEW k \in 1 .. n - 1, NEW l \in 1 .. n - 1, k < l
        PROVE  d[k][2] < d[l][1]
    <3>1. k + 1 \in 1 .. n /\ l + 1 \in 1 .. n /\ k + 1 < l + 1
      BY <2>2
    <3>2. slices[k + 1][2] < slices[l + 1][1]
      BY <1>1, <3>1 DEF SrtStacked
    <3> QED
      BY <1>3, <3>2
  <2> QED
    BY <1>3, <2>1, <2>2 DEF SrtStacked, SrtSlices
<1>6. \A k \in 1 .. n - 1 : slices[1][2] < d[k][1]
  BY <1>1, <1>3, <1>4 DEF SrtStacked
<1>7. ASSUME NEW a, NEW b, NEW k \in 2 .. n, SrtInSlice(slices[k], a), SrtInSlice(slices[k], b)
      PROVE  SrtTogether(d, a, b)
  <2>1. k - 1 \in 1 .. n - 1 /\ (k - 1) + 1 = k
    OBVIOUS
  <2>2. d[k - 1] = slices[k]
    BY <1>3, <2>1
  <2> QED
    BY <1>3, <1>7, <2>1, <2>2 DEF SrtTogether
<1> QED
  BY <1>1, <1>2, <1>3, <1>5, <1>6, <1>7

\* The slices on both sides of t.
SrtSides(t, s, e) ==
  (IF t > s THEN << <<s, t - 1>> >> ELSE << >>) \o (IF t < e THEN << <<t + 1, e>> >> ELSE << >>)

LEMMA SrtSidesStacked ==
  ASSUME array_size \in Nat, NEW s \in SrtIndices, NEW e \in SrtIndices, NEW t \in s .. e
  PROVE  /\ SrtStacked(SrtSides(t, s, e))
         /\ \A k \in 1 .. Len(SrtSides(t, s, e)) : SrtSides(t, s, e)[k][2] <= e
         /\ \A a, b \in s .. t - 1 : SrtTogether(SrtSides(t, s, e), a, b)
         /\ \A a, b \in t + 1 .. e : SrtTogether(SrtSides(t, s, e), a, b)
<1>0. s \in Nat /\ e \in Nat /\ t \in Nat
  BY DEF SrtIndices
<1>1. PICK c : c = IF t > s THEN << <<s, t - 1>> >> ELSE << >>
  OBVIOUS
<1>2. PICK d : d = IF t < e THEN << <<t + 1, e>> >> ELSE << >>
  OBVIOUS
<1>3. SrtStacked(<< >>)
  BY DEF SrtStacked
<1>4. /\ SrtStacked(c) /\ Len(c) \in {0, 1}
      /\ Len(c) = 1 => c[1] = <<s, t - 1>>
      /\ t > s => Len(c) = 1
  <2>1. CASE t > s
    <3>1. t - 1 \in SrtIndices /\ s <= t - 1
      BY <2>1 DEF SrtIndices
    <3> QED
      BY <1>1, <2>1, <3>1, SrtStackedOne
  <2>2. CASE ~ (t > s)
    BY <1>1, <1>3, <2>2
  <2> QED
    BY <2>1, <2>2
<1>5. /\ SrtStacked(d) /\ Len(d) \in {0, 1}
      /\ Len(d) = 1 => d[1] = <<t + 1, e>>
      /\ t < e => Len(d) = 1
  <2>1. CASE t < e
    <3>1. t + 1 \in SrtIndices /\ t + 1 <= e
      BY <2>1 DEF SrtIndices
    <3> QED
      BY <1>2, <2>1, <3>1, SrtStackedOne
  <2>2. CASE ~ (t < e)
    BY <1>2, <1>3, <2>2
  <2> QED
    BY <2>1, <2>2
<1>m. PICK m \in {0, 1} : m = Len(c)
  BY <1>4
<1>n. PICK n \in {0, 1} : n = Len(d)
  BY <1>5
<1>6. PICK j : j = c \o d
  OBVIOUS
<1>7. SrtSides(t, s, e) = j
  BY <1>1, <1>2, <1>6 DEF SrtSides
<1>8. SrtStacked(j)
  <2>1. ASSUME NEW k \in 1 .. Len(c), NEW l \in 1 .. Len(d)
        PROVE  c[k][2] < d[l][1]
    <3>1. k = 1 /\ l = 1 /\ m = 1 /\ n = 1
      <4>1. k \in 1 .. m /\ l \in 1 .. n
        BY <1>m, <1>n
      <4> QED
        BY <4>1
    <3>2. c[1] = <<s, t - 1>> /\ d[1] = <<t + 1, e>>
      BY <1>4, <1>5, <1>m, <1>n, <3>1
    <3> QED
      BY <1>0, <3>1, <3>2
  <2> QED
    BY <1>4, <1>5, <1>6, <2>1, SrtStackedJoined
<1>9. c \in Seq(SrtSlices) /\ d \in Seq(SrtSlices)
  BY <1>4, <1>5 DEF SrtStacked, SrtSlices
<1>10. ASSUME NEW k \in 1 .. Len(j)
       PROVE  j[k][2] <= e
  <2>1. Len(j) = Len(c) + Len(d)
    BY <1>6, <1>9, SrtJoined
  <2>2. CASE k \in 1 .. Len(c)
    <3>1. j[k] = c[k]
      BY <1>6, <1>9, <2>2, SrtJoined
    <3>2. k = 1 /\ c[1] = <<s, t - 1>>
      <4>1. k \in 1 .. m
        BY <1>m, <2>2
      <4>2. k = 1 /\ m = 1
        BY <4>1
      <4> QED
        BY <1>4, <1>m, <4>2
    <3> QED
      BY <1>0, <3>1, <3>2
  <2>3. CASE k \notin 1 .. Len(c)
    <3>1. Len(d) = 1 /\ k = Len(c) + 1 /\ 1 \in 1 .. Len(d)
      <4>1. k \in 1 .. m + n /\ k \notin 1 .. m
        BY <1>m, <1>n, <2>1, <2>3
      <4>2. n = 1 /\ k = m + 1 /\ 1 \in 1 .. n
        BY <4>1
      <4> QED
        BY <1>m, <1>n, <4>2
    <3>2. j[k] = d[1]
      BY <1>6, <1>9, <3>1, SrtJoined
    <3> QED
      BY <1>0, <1>5, <3>1, <3>2
  <2> QED
    BY <2>2, <2>3
<1>11. ASSUME NEW a \in s .. t - 1, NEW b \in s .. t - 1
       PROVE  SrtTogether(j, a, b)
  <2>1. Len(c) = 1 /\ c[1] = <<s, t - 1>>
    BY <1>0, <1>4
  <2>2. SrtTogether(c, a, b)
    BY <1>0, <2>1 DEF SrtTogether, SrtInSlice
  <2> QED
    BY <1>6, <1>9, <2>2, SrtTogetherInOne
<1>12. ASSUME NEW a \in t + 1 .. e, NEW b \in t + 1 .. e
       PROVE  SrtTogether(j, a, b)
  <2>1. Len(d) = 1 /\ d[1] = <<t + 1, e>>
    BY <1>0, <1>5
  <2>2. SrtTogether(d, a, b)
    BY <1>0, <2>1 DEF SrtTogether, SrtInSlice
  <2> QED
    BY <1>6, <1>9, <2>2, SrtTogetherInOne
<1> QED
  BY <1>7, <1>8, <1>10, <1>11, <1>12

-----------------------------------------------------------------------------
(* The invariant is inductive *)

LEMMA SrtGeneratesInv ==
  ASSUME Sorting!Generate
  PROVE  SrtSortInv'
<1>1. PICK n \in Nat : n = array_size' /\ n \in ArraySizes
  BY SortAssumption DEF Sorting!Generate
<1>2. PICK stray \in Strays, nums \in [0 .. n - 1 -> Values] :
        A' = [k \in 0 .. n |-> IF k = n THEN stray ELSE nums[k]]
  BY <1>1 DEF Sorting!Generate
<1>3. stray \in Nat
  BY SortAssumption
<1>4. ASSUME NEW k \in 0 .. n
      PROVE  /\ A'[k] \in Nat
             /\ k # n => SrtWhole(A'[k])
  <2>1. CASE k = n
    BY <1>2, <1>3, <2>1
  <2>2. CASE k # n
    <3>1. k \in 0 .. n - 1
      BY <2>2
    <3>2. A'[k] = nums[k] /\ nums[k] \in Values
      BY <1>2, <2>2, <3>1
    <3> QED
      BY <3>2, SrtWholeValues
  <2> QED
    BY <2>1, <2>2
<1>5. Before' = A' /\ A' \in [0 .. n -> Nat]
  BY <1>2, <1>4 DEF Sorting!Generate
<1>6. SrtIndices' = 0 .. n
  BY <1>1 DEF SrtIndices
<1>7. SrtRearranged(A)'
  <2> DEFINE f == [k \in 0 .. n |-> k]
  <2>1. f \in Bijection(0 .. n, 0 .. n)
    BY DEF Bijection, Injection, Surjection, IsInjective
  <2>2. \A k \in 0 .. n : f[k] = k
    OBVIOUS
  <2> HIDE DEF f
  <2> QED
    BY <1>5, <1>6, <2>1, <2>2 DEF SrtRearranged
<1>8. PICK c : c = slices'
  OBVIOUS
<1>9. c = << <<0, n>> >> /\ Len(c) = 1 /\ c[1] = <<0, n>>
  BY <1>1, <1>8 DEF Sorting!Generate
<1>10. SrtStacked(slices)'
  <2>1. c \in Seq((0 .. n) \X (0 .. n))
    BY <1>9
  <2> QED
    BY <1>6, <1>8, <1>9, <2>1 DEF SrtStacked
<1>11. SrtOrdered(A, slices)'
  <2>1. \A a, b \in 0 .. n : SrtInSlice(c[1], a) /\ SrtInSlice(c[1], b)
    BY <1>9 DEF SrtInSlice
  <2>2. 1 \in 1 .. Len(c)
    BY <1>9
  <2> QED
    BY <1>6, <1>8, <2>1, <2>2 DEF SrtOrdered
<1> QED
  BY <1>1, <1>4, <1>5, <1>6, <1>7, <1>10, <1>11 DEF SrtSortInv

LEMMA SrtSortsInv ==
  ASSUME SrtSortInv, array_size # Sorting!None, Sorting!quicksort
  PROVE  SrtSortInv'
<1>0. /\ array_size \in Nat /\ array_size' = array_size /\ Before' = Before /\ slices # << >>
      /\ Before \in [SrtIndices -> Nat] /\ SrtStacked(slices) /\ SrtOrdered(A, slices)
      /\ SrtIndices' = SrtIndices /\ A \in [SrtIndices -> Nat]
  BY DEF SrtSortInv, Sorting!quicksort, SrtIndices
<1>1. slices[1] \in SrtIndices \X SrtIndices /\ 1 \in 1 .. Len(slices)
  <2>1. slices \in Seq(SrtSlices)
    BY <1>0 DEF SrtStacked, SrtSlices
  <2>2. PICK n \in Nat \ {0} : n = Len(slices)
    BY <1>0, <2>1
  <2>3. 1 \in 1 .. n
    OBVIOUS
  <2> QED
    BY <2>1, <2>2, <2>3 DEF SrtSlices
<1>2. PICK s \in SrtIndices, e \in SrtIndices : slices[1] = <<s, e>>
  BY <1>1
<1>3. Head(slices)[1] = s /\ Head(slices)[2] = e /\ s \in Nat /\ e \in Nat
  <2>1. Head(slices) = slices[1]
    BY <1>0 DEF SrtStacked
  <2> QED
    BY <1>0, <1>2, <2>1 DEF SrtIndices
<1>4. ASSUME NEW S, NEW c, A' = S, slices' = c, S \in [SrtIndices -> Nat], SrtRearranged(S),
             SrtStacked(c), \A a, b \in SrtIndices : a < b => S[a] <= S[b] \/ SrtTogether(c, a, b)
      PROVE  SrtSortInv'
  <2>1. SrtRearranged(A)' /\ SrtStacked(slices)' /\ SrtOrdered(A, slices)'
    BY <1>0, <1>4 DEF SrtRearranged, SrtStacked, SrtOrdered, SrtTogether
  <2> QED
    BY <1>0, <1>4, <2>1 DEF SrtSortInv
<1>5. CASE s >= e
  <2>1. A' = A /\ slices' = Tail(slices)
    BY <1>3, <1>5 DEF Sorting!quicksort
  <2>2. ASSUME NEW a \in SrtIndices, NEW b \in SrtIndices, a < b, ~ (A[a] <= A[b])
        PROVE  SrtTogether(Tail(slices), a, b)
    <3>1. PICK n \in Nat : n = Len(slices)
      BY <1>0 DEF SrtStacked
    <3>2. PICK k \in 1 .. n : SrtInSlice(slices[k], a) /\ SrtInSlice(slices[k], b)
      BY <1>0, <2>2, <3>1 DEF SrtOrdered
    <3>3. k # 1
      <4> SUFFICES ASSUME k = 1 PROVE FALSE
        OBVIOUS
      <4>1. s <= a /\ b <= e
        BY <1>2, <3>2 DEF SrtInSlice
      <4>2. a \in Nat /\ b \in Nat
        BY <1>0 DEF SrtIndices
      <4> QED
        BY <1>3, <1>5, <2>2, <4>1, <4>2
    <3>4. k \in 2 .. n
      BY <3>3
    <3> QED
      BY <1>0, <3>1, <3>2, <3>4, SrtStackedTail
  <2>3. SrtStacked(Tail(slices)) /\ SrtRearranged(A)
    BY <1>0, SrtStackedTail DEF SrtSortInv
  <2> QED
    BY <1>0, <1>4, <2>1, <2>2, <2>3
<1>6. CASE s < e
  <2>1. PICK pivot \in s .. e - 1 :
          LET p == Sorting!partition(A, s, e, pivot)
          IN  A' = p.A /\ slices' = SrtSides(p.target, s, e) \o Tail(slices)
    <3>1. ~ (s >= e)
      BY <1>3, <1>6
    <3>2. PICK pivot \in s .. e - 1 :
            LET p == Sorting!partition(A, s, e, pivot)
                lower == IF p.target > s THEN << <<s, p.target - 1>> >> ELSE << >>
                upper == IF p.target < e THEN << <<p.target + 1, e>> >> ELSE << >>
            IN  A' = p.A /\ slices' = lower \o upper \o Tail(slices)
      BY <1>3, <3>1 DEF Sorting!quicksort
    <3> QED
      BY <3>2 DEF SrtSides
  <2>2. PICK S : S = Sorting!partition(A, s, e, pivot).A
    OBVIOUS
  <2>3. PICK t : t = Sorting!partition(A, s, e, pivot).target
    OBVIOUS
  <2>4. SrtPartitioned(S, t, s, e)
    BY <1>6, <2>2, <2>3, SrtPartitions
  <2>5. A' = S /\ slices' = SrtSides(t, s, e) \o Tail(slices)
    BY <2>1, <2>2, <2>3
  <2>6. t \in s .. e /\ S \in [SrtIndices -> Nat] /\ SrtRearranged(S)
    BY <2>4 DEF SrtPartitioned, SrtKept
  <2>7. PICK c : c = SrtSides(t, s, e)
    OBVIOUS
  <2>8. PICK d : d = Tail(slices)
    OBVIOUS
  <2>9. /\ SrtStacked(c)
        /\ \A k \in 1 .. Len(c) : c[k][2] <= e
        /\ \A a, b \in s .. t - 1 : SrtTogether(c, a, b)
        /\ \A a, b \in t + 1 .. e : SrtTogether(c, a, b)
    BY <1>0, <2>6, <2>7, SrtSidesStacked
  <2>10. /\ SrtStacked(d)
         /\ \A k \in 1 .. Len(d) : e < d[k][1]
         /\ \A a, b : (\E k \in 2 .. Len(slices) : SrtInSlice(slices[k], a) /\ SrtInSlice(slices[k], b))
                        => SrtTogether(d, a, b)
    BY <1>0, <1>2, <2>8, SrtStackedTail
  <2>11. SrtStacked(c \o d)
    <3>1. ASSUME NEW k \in 1 .. Len(c), NEW l \in 1 .. Len(d)
          PROVE  c[k][2] < d[l][1]
      <4>1. c[k][2] \in SrtIndices /\ d[l][1] \in SrtIndices
        BY <2>9, <2>10 DEF SrtStacked
      <4>2. c[k][2] \in Nat /\ d[l][1] \in Nat
        <5>1. \A x \in SrtIndices : x \in Nat
          BY <1>0 DEF SrtIndices
        <5> QED
          BY <4>1, <5>1
      <4> QED
        BY <1>3, <2>9, <2>10, <4>2
    <3> QED
      BY <1>0, <2>9, <2>10, <3>1, SrtStackedJoined
  <2>12. ASSUME NEW a \in SrtIndices, NEW b \in SrtIndices, a < b, ~ (S[a] <= S[b])
         PROVE  SrtTogether(c \o d, a, b)
    <3>1. c \in Seq(SrtSlices) /\ d \in Seq(SrtSlices)
      BY <2>9, <2>10 DEF SrtStacked, SrtSlices
    <3>2. SrtTogether(c, a, b) \/ SrtTogether(d, a, b)
      BY <1>0, <1>2, <1>6, <2>4, <2>9, <2>10, <2>12, SrtDivisionOrders
    <3> QED
      BY <3>1, <3>2, SrtTogetherInOne
  <2> QED
    BY <1>4, <2>5, <2>6, <2>7, <2>8, <2>11, <2>12
<1> QED
  BY <1>3, <1>5, <1>6

LEMMA SrtInitInv == Sorting!Init => SrtSortInv
BY DEF Sorting!Init, SrtSortInv

LEMMA SrtStepInv == SrtSortInv /\ [Sorting!Next]_SortingVars => SrtSortInv'
<1> SUFFICES ASSUME SrtSortInv, [Sorting!Next]_SortingVars PROVE SrtSortInv'
  OBVIOUS
<1>1. CASE Sorting!Generate
  BY <1>1, SrtGeneratesInv
<1>2. CASE Sorting!quicksort
  <2>1. CASE array_size = Sorting!None
    <3>1. array_size' = Sorting!None
      BY <1>2, <2>1 DEF Sorting!quicksort
    <3> QED
      BY <3>1 DEF SrtSortInv
  <2>2. CASE array_size # Sorting!None
    BY <1>2, <2>2, SrtSortsInv
  <2> QED
    BY <2>1, <2>2
<1>3. CASE UNCHANGED SortingVars
  BY <1>3 DEF SortingVars, SrtSortInv, SrtIndices, SrtRearranged, SrtStacked, SrtOrdered
<1> QED
  BY <1>1, <1>2, <1>3, SrtSame DEF Sorting!Next, Sorting!Done

-----------------------------------------------------------------------------
(* What the invariant says in the end *)

\* Sort counts with the operator of FiniteSets.
LEMMA SrtCardinality ==
  ASSUME NEW S
  PROVE  Sorting!Cardinality(S) = Cardinality(S)
BY DEF Sorting!Cardinality, Cardinality

LEMMA SrtCounted ==
  ASSUME array_size \in Nat, NEW S \in [SrtIndices -> Nat], NEW x
  PROVE  /\ Sorting!Count(S, x) = Cardinality({k \in SrtIndices : S[k] = x})
         /\ IsFiniteSet({k \in SrtIndices : S[k] = x})
<1>1. DOMAIN S = SrtIndices
  OBVIOUS
<1>2. IsFiniteSet(SrtIndices)
  BY FS_Interval DEF SrtIndices
<1>3. {k \in SrtIndices : S[k] = x} \in SUBSET SrtIndices
  OBVIOUS
<1>4. Sorting!Count(S, x) = Cardinality({k \in DOMAIN S : S[k] = x})
  BY SrtCardinality, Zenon DEF Sorting!Count
<1> QED
  BY <1>1, <1>2, <1>3, <1>4, FS_Subset

LEMMA SrtSameCounts ==
  ASSUME array_size \in Nat, NEW S \in [SrtIndices -> Nat], NEW T \in [SrtIndices -> Nat],
         NEW f \in Bijection(SrtIndices, SrtIndices), \A k \in SrtIndices : S[k] = T[f[k]], NEW x
  PROVE  Sorting!Count(S, x) = Sorting!Count(T, x)
<1>1. PICK X : X = {k \in SrtIndices : S[k] = x}
  OBVIOUS
<1>2. PICK Y : Y = {k \in SrtIndices : T[k] = x}
  OBVIOUS
<1>3. f \in [SrtIndices -> SrtIndices] /\ (\A j, k \in SrtIndices : f[j] = f[k] => j = k)
      /\ \A k \in SrtIndices : \E j \in SrtIndices : f[j] = k
  BY DEF Bijection, Injection, Surjection, IsInjective
<1> DEFINE g == [k \in X |-> f[k]]
<1>4. g \in [X -> Y]
  BY <1>1, <1>2, <1>3
<1>5. \A j, k \in X : g[j] = g[k] => j = k
  BY <1>1, <1>3
<1>6. \A k \in Y : \E j \in X : g[j] = k
  BY <1>1, <1>2, <1>3
<1>7. g \in Bijection(X, Y)
  BY <1>4, <1>5, <1>6 DEF Bijection, Injection, Surjection, IsInjective
<1>8. IsFiniteSet(X) /\ Sorting!Count(S, x) = Cardinality(X) /\ Sorting!Count(T, x) = Cardinality(Y)
  BY <1>1, <1>2, SrtCounted
<1> QED
  BY <1>7, <1>8, FS_Bijection DEF ExistsBijection

SrtOwn(S) == [k \in 0 .. array_size - 1 |-> S[k]]

LEMMA SrtOwnCounts ==
  ASSUME array_size \in Nat, NEW S \in [SrtIndices -> Nat], NEW x
  PROVE  /\ Sorting!Count(SrtOwn(S), x) \in Nat
         /\ Sorting!Count(S, x) = Sorting!Count(SrtOwn(S), x) + IF S[array_size] = x THEN 1 ELSE 0
<1>1. PICK n \in Nat : n = array_size
  OBVIOUS
<1>2. PICK X : X = {k \in 0 .. n : S[k] = x}
  OBVIOUS
<1>3. PICK Y : Y = {k \in 0 .. n - 1 : S[k] = x}
  OBVIOUS
<1>4. Sorting!Count(S, x) = Cardinality(X) /\ IsFiniteSet(X)
  BY <1>1, <1>2, SrtCounted DEF SrtIndices
<1>5. Sorting!Count(SrtOwn(S), x) = Cardinality(Y)
  <2>1. DOMAIN SrtOwn(S) = 0 .. n - 1 /\ \A k \in 0 .. n - 1 : SrtOwn(S)[k] = S[k]
    BY <1>1 DEF SrtOwn
  <2>2. {k \in DOMAIN SrtOwn(S) : SrtOwn(S)[k] = x} = Y
    BY <1>3, <2>1
  <2>3. Sorting!Count(SrtOwn(S), x) = Cardinality({k \in DOMAIN SrtOwn(S) : SrtOwn(S)[k] = x})
    BY SrtCardinality, Zenon DEF Sorting!Count
  <2> QED
    BY <2>2, <2>3
<1>6. Y \in SUBSET X /\ n \notin Y
  BY <1>2, <1>3
<1>7. IsFiniteSet(Y) /\ Cardinality(Y) \in Nat
  BY <1>4, <1>6, FS_Subset, FS_CardinalityType
<1>8. CASE S[n] = x
  <2>1. X = Y \cup {n}
    BY <1>1, <1>2, <1>3, <1>8
  <2>2. Cardinality(X) = Cardinality(Y) + 1
    BY <1>6, <1>7, <2>1, FS_AddElement
  <2> QED
    BY <1>1, <1>4, <1>5, <1>7, <1>8, <2>2
<1>9. CASE S[n] # x
  <2>1. X = Y
    BY <1>1, <1>2, <1>3, <1>9
  <2> QED
    BY <1>1, <1>4, <1>5, <1>7, <1>9, <2>1
<1> QED
  BY <1>8, <1>9

\* In a sorted array with the numbers of M, the last one is the greatest.
LEMMA SrtOwnNumbers ==
  ASSUME array_size \in Nat, NEW S \in [SrtIndices -> Nat], NEW M \in [SrtIndices -> Nat],
         NEW f \in Bijection(SrtIndices, SrtIndices), \A k \in SrtIndices : S[k] = M[f[k]],
         \A a, b \in SrtIndices : a < b => S[a] <= S[b]
  PROVE  Sorting!SameNumbers(SrtOwn(S), SrtOwn(M)) <=>
           \A k \in 0 .. array_size - 1 : M[k] <= M[array_size]
<1>1. PICK n \in SrtIndices : n = array_size
  BY DEF SrtIndices
<1>2. f \in [SrtIndices -> SrtIndices] /\ (\A j, k \in SrtIndices : f[j] = f[k] => j = k)
      /\ \A k \in SrtIndices : \E j \in SrtIndices : f[j] = k
  BY DEF Bijection, Injection, Surjection, IsInjective
<1>3. \A k \in SrtIndices : S[k] <= S[n]
  BY <1>1 DEF SrtIndices
<1>4. \A k \in SrtIndices : M[k] <= S[n]
  <2> SUFFICES ASSUME NEW k \in SrtIndices PROVE M[k] <= S[n]
    OBVIOUS
  <2>1. PICK j \in SrtIndices : f[j] = k
    BY <1>2
  <2> QED
    BY <1>3, <2>1
<1>5. f[n] \in SrtIndices /\ S[n] = M[f[n]] /\ S[n] \in Nat /\ M[n] \in Nat
  BY <1>1, <1>2
<1>6. \A k \in SrtIndices : k = n \/ k \in 0 .. n - 1
  BY <1>1 DEF SrtIndices
<1>7. ASSUME NEW x
      PROVE  /\ Sorting!Count(SrtOwn(S), x) \in Nat /\ Sorting!Count(SrtOwn(M), x) \in Nat
             /\ Sorting!Count(SrtOwn(S), x) + (IF S[n] = x THEN 1 ELSE 0)
                  = Sorting!Count(SrtOwn(M), x) + (IF M[n] = x THEN 1 ELSE 0)
  BY <1>1, SrtSameCounts, SrtOwnCounts
<1>8. ASSUME \A k \in 0 .. n - 1 : M[k] <= M[n]
      PROVE  Sorting!SameNumbers(SrtOwn(S), SrtOwn(M))
  <2>1. S[n] <= M[n]
    BY <1>5, <1>6, <1>8
  <2>2. S[n] = M[n]
    BY <1>1, <1>4, <1>5, <2>1
  <2>3. \A x : Sorting!Count(SrtOwn(S), x) = Sorting!Count(SrtOwn(M), x)
    BY <1>7, <2>2
  <2> QED
    BY <2>3 DEF Sorting!SameNumbers
<1>9. ASSUME Sorting!SameNumbers(SrtOwn(S), SrtOwn(M)), NEW j \in 0 .. n - 1, ~ (M[j] <= M[n])
      PROVE  FALSE
  <2>1. M[n] # S[n]
    <3>1. j \in SrtIndices
      BY <1>1 DEF SrtIndices
    <3> QED
      BY <1>4, <1>9, <3>1
  <2>2. f[n] \in 0 .. n - 1
    BY <1>5, <1>6, <2>1
  <2>3. PICK x : x = S[n]
    OBVIOUS
  <2>4. f[n] \in DOMAIN SrtOwn(M) /\ SrtOwn(M)[f[n]] = x
    BY <1>1, <1>5, <2>2, <2>3 DEF SrtOwn
  <2>5. Sorting!Count(SrtOwn(S), x) = Sorting!Count(SrtOwn(M), x)
    BY <1>9, <2>4 DEF Sorting!SameNumbers
  <2>6. Sorting!Count(SrtOwn(S), x) + 1 = Sorting!Count(SrtOwn(M), x)
    BY <1>7, <2>1, <2>3
  <2> QED
    BY <1>7, <2>5, <2>6
<1> QED
  BY <1>1, <1>8, <1>9

LEMMA SrtInvSorts == SrtSortInv => Sorting!SortsOneMore
<1> SUFFICES ASSUME SrtSortInv, array_size # Sorting!None PROVE Sorting!SortsOneMore
  BY DEF Sorting!SortsOneMore
<1>1. PICK n \in Nat : n = array_size
  BY DEF SrtSortInv
<1>2. /\ A \in [SrtIndices -> Nat] /\ Before \in [SrtIndices -> Nat] /\ SrtIndices = 0 .. n
      /\ slices \in Seq(SrtIndices \X SrtIndices)
  BY <1>1 DEF SrtSortInv, SrtStacked, SrtIndices
<1>3. DOMAIN A = 0 .. n
  BY <1>2
<1>4. \A k \in 1 .. Len(slices) : slices[k][1] \in 0 .. n /\ slices[k][2] \in 0 .. n
  <2> SUFFICES ASSUME NEW k \in 1 .. Len(slices)
               PROVE  slices[k][1] \in 0 .. n /\ slices[k][2] \in 0 .. n
    OBVIOUS
  <2>1. slices[k] \in SrtIndices \X SrtIndices
    BY <1>2
  <2> QED
    BY <1>2, <2>1
<1>5. ASSUME slices = << >>
      PROVE  /\ \A k \in 1 .. n : A[k - 1] <= A[k]
             /\ \/ Sorting!SameNumbers(A, Before)
                \/ Sorting!SameNumbers(A, [Before EXCEPT ![n] = Sorting!Truncate(Before[n])])
             /\ Sorting!SameNumbers(SrtOwn(A), SrtOwn(Before)) <=>
                  \A k \in 0 .. n - 1 : Before[k] <= Before[n]
  <2>1. \A a, b \in SrtIndices : a < b => A[a] <= A[b]
    <3>1. Len(slices) = 0
      BY <1>5
    <3> QED
      BY <3>1 DEF SrtSortInv, SrtOrdered
  <2>2. \A k \in 1 .. n : A[k - 1] <= A[k]
    <3> SUFFICES ASSUME NEW k \in 1 .. n PROVE A[k - 1] <= A[k]
      OBVIOUS
    <3>1. k - 1 \in SrtIndices /\ k \in SrtIndices /\ k - 1 < k
      BY <1>2
    <3> QED
      BY <2>1, <3>1
  <2>3. PICK f \in Bijection(SrtIndices, SrtIndices) :
          \A k \in SrtIndices : A[k] \in {Before[f[k]], Sorting!Truncate(Before[f[k]])}
    BY DEF SrtSortInv, SrtRearranged
  <2>4. f \in [SrtIndices -> SrtIndices] /\ (\A j, k \in SrtIndices : f[j] = f[k] => j = k)
        /\ \A k \in SrtIndices : \E j \in SrtIndices : f[j] = k
    BY DEF Bijection, Injection, Surjection, IsInjective
  <2>5. ASSUME NEW k \in SrtIndices, f[k] # n
        PROVE  A[k] = Before[f[k]]
    <3>1. SrtWhole(Before[f[k]])
      BY <1>1, <2>4, <2>5 DEF SrtSortInv
    <3> QED
      BY <2>3, <3>1 DEF SrtWhole
  <2>6. PICK last \in SrtIndices : f[last] = n
    BY <1>2, <2>4
  <2>7. ASSUME NEW k \in SrtIndices, k # last
        PROVE  f[k] # n
    BY <2>4, <2>6, <2>7
  <2>8. Before[n] \in Nat /\ n \in SrtIndices
    BY <1>2
  <2>9. ASSUME NEW M \in [SrtIndices -> Nat], \A k \in SrtIndices : A[k] = M[f[k]],
               \A k \in 0 .. n - 1 : M[k] = Before[k],
               M[n] \in {Before[n], Sorting!Truncate(Before[n])}
        PROVE  /\ Sorting!SameNumbers(A, M)
               /\ Sorting!SameNumbers(SrtOwn(A), SrtOwn(Before)) <=>
                    \A k \in 0 .. n - 1 : Before[k] <= Before[n]
    <3>1. Sorting!SameNumbers(A, M)
      <4>1. \A k \in SrtIndices : A[k] = M[f[k]]
        BY <2>9
      <4>2. array_size \in Nat /\ A \in [SrtIndices -> Nat]
        BY <1>1, <1>2
      <4>3. \A x : Sorting!Count(A, x) = Sorting!Count(M, x)
        BY <4>1, <4>2, SrtSameCounts
      <4> QED
        BY <4>3 DEF Sorting!SameNumbers
    <3>2. Sorting!SameNumbers(SrtOwn(A), SrtOwn(M)) <=> \A k \in 0 .. n - 1 : M[k] <= M[n]
      <4>1. \A k \in SrtIndices : A[k] = M[f[k]]
        BY <2>9
      <4>2. array_size \in Nat /\ A \in [SrtIndices -> Nat]
        BY <1>1, <1>2
      <4>3. Sorting!SameNumbers(SrtOwn(A), SrtOwn(M)) <=>
              \A k \in 0 .. array_size - 1 : M[k] <= M[array_size]
        BY <2>1, <4>1, <4>2, SrtOwnNumbers
      <4> QED
        BY <1>1, <4>3
    <3>3. SrtOwn(M) = SrtOwn(Before)
      BY <1>1, <2>9 DEF SrtOwn
    <3>4. ASSUME NEW k \in 0 .. n - 1
          PROVE  M[k] <= M[n] <=> Before[k] <= Before[n]
      <4>1. k \in SrtIndices /\ k # n /\ Before[k] \in Nat
        BY <1>2
      <4>2. SrtWhole(Before[k])
        BY <1>1, <4>1 DEF SrtSortInv
      <4>3. Sorting!Truncate(Before[n]) \in Nat /\ Sorting!Truncate(Before[n]) <= Before[n]
        BY <2>8, SrtTruncates
      <4>4. Before[k] <= Before[n] => Sorting!Truncate(Before[k]) <= Sorting!Truncate(Before[n])
        BY <2>8, <4>1, SrtTruncates
      <4> QED
        BY <2>8, <2>9, <4>1, <4>2, <4>3, <4>4 DEF SrtWhole
    <3> QED
      BY <3>1, <3>2, <3>3, <3>4
  <2>10. CASE A[last] = Before[n]
    <3>1. \A k \in SrtIndices : A[k] = Before[f[k]]
      BY <2>5, <2>6, <2>7, <2>10
    <3>2. /\ Sorting!SameNumbers(A, Before)
          /\ Sorting!SameNumbers(SrtOwn(A), SrtOwn(Before)) <=>
               \A k \in 0 .. n - 1 : Before[k] <= Before[n]
      BY <1>2, <2>9, <3>1
    <3> QED
      BY <2>2, <3>2
  <2>11. CASE A[last] = Sorting!Truncate(Before[n])
    <3>1. PICK M : M = [Before EXCEPT ![n] = Sorting!Truncate(Before[n])]
      OBVIOUS
    <3>2. /\ M \in [SrtIndices -> Nat] /\ M[n] = Sorting!Truncate(Before[n])
          /\ \A k \in SrtIndices \ {n} : M[k] = Before[k]
      BY <1>2, <2>8, <3>1, SrtTruncates
    <3>3. \A k \in SrtIndices : A[k] = M[f[k]]
      BY <2>4, <2>5, <2>6, <2>7, <2>11, <3>2
    <3>4. \A k \in 0 .. n - 1 : M[k] = Before[k]
      BY <1>2, <3>2
    <3>5. /\ Sorting!SameNumbers(A, M)
          /\ Sorting!SameNumbers(SrtOwn(A), SrtOwn(Before)) <=>
               \A k \in 0 .. n - 1 : Before[k] <= Before[n]
      BY <2>9, <3>2, <3>3, <3>4
    <3> QED
      BY <2>2, <3>1, <3>5
  <2> QED
    BY <2>3, <2>6, <2>10, <2>11
<1>6. \A k \in DOMAIN SrtOwn(A) : k \in 0 .. n - 1
  BY <1>1 DEF SrtOwn
<1>7. DOMAIN SrtOwn(A) = 0 .. n - 1
  BY <1>1 DEF SrtOwn
<1> QED
  BY <1>1, <1>3, <1>4, <1>5, <1>7 DEF Sorting!SortsOneMore, SrtOwn

(***************************************************************************)
(* quicksort() sorts the array with the double behind it, never reaches    *)
(* beyond that one, loses nothing but its fraction, and leaves the array   *)
(* its own numbers exactly if none is greater than that double: for every  *)
(* size, every array and every choice of the pivots.                       *)
(***************************************************************************)
THEOREM SortsOneMoreHolds == ProgramsSpec => []SortsOneMore
  BY SrtInitInv, SrtStepInv, SrtInvSorts, SrtFrame, PTL DEF SortsOneMore

-----------------------------------------------------------------------------
(* The programs that fork *)

LEMMA ForFrame == ProgramsSpec => Forking!Init /\ [][Forking!Next]_ForkingVars
<1>1. ProgramsInit => Forking!Init
  BY DEF ProgramsInit
<1>2. [ProgramsNext]_allvars => [Forking!Next]_ForkingVars
  BY DEF ProgramsNext, Runs, allvars
<1> QED
  BY <1>1, <1>2, PTL DEF ProgramsSpec

LEMMA ForSame == UNCHANGED Forking!vars => UNCHANGED ForkingVars
  BY DEF Forking!vars, ForkingVars

(* The inductive invariant *)

ForStates == {"fork", "exec", "work", "exited", "failed"}
ForProcesses == [parent : Nat, pc : ForStates, level : Int, i : Int, kids : Seq(Int),
              held : BOOLEAN]

ForTypes ==
  /\ command \in {"none", "fork", "tree", "busyloop_rtfork"}
  /\ commandArg \in Int /\ terminal \in BOOLEAN /\ shown \in Nat
  /\ procs \in Seq(ForProcesses)
  /\ command = "none" <=> Len(procs) = 0

\* Where a process can be: only the first one forks, or those of a tree.
ForPlace(p) ==
  /\ p = 1 =>
       /\ procs[p].pc \notin {"exec", "work"}
       /\ procs[p].parent = 0 /\ procs[p].level = commandArg
  /\ p # 1 /\ command # "tree" =>
       procs[p].pc \in {"work", "exited"} /\ procs[p].parent = 1
  /\ p # 1 /\ command = "tree" =>
       /\ procs[p].pc # "work" /\ procs[p].level \in 0 .. commandArg
       /\ procs[p].pc = "exec" => procs[p].level > 0
  /\ procs[p].pc \in {"exec", "work"} => procs[p].kids = << >>

ForPlaces == \A p \in Forking!Pids : ForPlace(p)

\* How often it has forked, which is no more than it should.
Forked ==
  \A p \in Forking!Pids :
    /\ procs[p].pc = "fork" \/ (procs[p].pc = "exited" /\ (p = 1 \/ command = "tree")) =>
         /\ procs[p].i = Len(procs[p].kids)
         /\ procs[p].i <= Forking!s32CHDNo(p) \/ procs[p].i = 0
    /\ procs[p].pc = "exited" /\ (p = 1 \/ command = "tree") => procs[p].i >= Forking!s32CHDNo(p)

\* The level of a process from which it forks, or is going to.
ForHeight(p) == IF procs[p].pc = "exec" THEN procs[p].level - 1 ELSE procs[p].level

ForDescend ==
  command = "tree" =>
    \A p \in Forking!Pids : \A k \in 1 .. Len(procs[p].kids) : \A c \in Int \ {Forking!Failed} :
      procs[p].kids[k] = c =>
        /\ c \in Forking!Pids \ {1} /\ procs[c].parent = p
        /\ procs[c].pc # "failed" => ForHeight(c) = procs[p].level - 1

ForOneLevel ==
  /\ command \notin {"none", "tree"} =>
       ((\A k \in 1 .. Len(procs[1].kids) : procs[1].kids[k] # Forking!Failed) =>
          Len(procs) = 1 + Len(procs[1].kids))
  /\ command = "tree" /\ commandArg <= 0 => Len(procs) = 1

ForExited == {p \in Forking!Pids : procs[p].pc = "exited"}

ForOutput ==
  command \notin {"none", "tree"} /\ procs[1].pc # "failed" =>
    IF terminal THEN shown = 1 /\ \A p \in Forking!Pids : ~procs[p].held
    ELSE /\ shown = Cardinality(ForExited)
         /\ \A p \in Forking!Pids : procs[p].held <=> procs[p].pc # "exited"

\* The label of the k-th child of a process with label s and level l.
ForWord(s, l, k) == IF k = 1 THEN s \cup {l} ELSE (s \ {l + 1}) \cup {l}

\* A process of a tree has a set of levels as its label: the least of them is one
\* more than its own level, and no two processes have the same.
ForLabels(f) ==
  /\ f \in [Forking!Pids -> SUBSET (1 .. commandArg + 1)]
  /\ f[1] = {commandArg + 1}
  /\ \A p \in Forking!Pids : ForHeight(p) + 1 \in f[p] /\ \A x \in f[p] : x >= ForHeight(p) + 1
  /\ \A p \in Forking!Pids : \A k \in 1 .. Len(procs[p].kids) : \A c \in Forking!Pids :
       procs[p].kids[k] = c => f[c] = ForWord(f[p], procs[p].level, k)
  /\ \A p, q \in Forking!Pids : f[p] = f[q] => p = q
  /\ \A c \in Forking!Pids \ {1} : \E p \in Forking!Pids : \E k \in 1 .. Len(procs[p].kids) :
       procs[p].kids[k] = c

ForFull == command = "tree" /\ commandArg > 0 /\ ~ Forking!Wrong => \E f : ForLabels(f)

-----------------------------------------------------------------------------
(* What the steps do to the processes *)

LEMMA ForProcType ==
  ASSUME ForTypes, NEW p \in Forking!Pids
  PROVE  /\ procs[p] \in ForProcesses
         /\ procs[p].parent \in Nat /\ procs[p].pc \in ForStates /\ procs[p].level \in Int
         /\ procs[p].i \in Int /\ procs[p].kids \in Seq(Int) /\ procs[p].held \in BOOLEAN
         /\ Forking!s32CHDNo(p) \in Int
<1>1. procs[p] \in ForProcesses
  BY DEF ForTypes, Forking!Pids
<1>2. command # "none"
  BY DEF ForTypes, Forking!Pids
<1>3. commandArg \in Int /\ procs[p].level \in Int
  BY <1>1 DEF ForTypes, ForProcesses
<1>4. Forking!s32CHDNo(p) \in Int
  <2>1. CASE command = "fork"
    BY <2>1 DEF Forking!s32CHDNo
  <2>2. CASE command = "tree"
    BY <2>2 DEF Forking!s32CHDNo
  <2>3. CASE command = "busyloop_rtfork"
    BY <1>3, <2>3 DEF Forking!s32CHDNo
  <2> QED
    BY <1>2, <2>1, <2>2, <2>3 DEF ForTypes
<1> QED
  BY <1>1, <1>4 DEF ForProcesses

\* A record that is changed is one with the other fields as they were.
LEMMA ForChanged ==
  ASSUME NEW r \in ForProcesses, NEW x
  PROVE  /\ [r EXCEPT !.pc = x] =
              [parent |-> r.parent, pc |-> x, level |-> r.level, i |-> r.i, kids |-> r.kids,
               held |-> r.held]
         /\ [r EXCEPT !.i = x] =
              [parent |-> r.parent, pc |-> r.pc, level |-> r.level, i |-> x, kids |-> r.kids,
               held |-> r.held]
         /\ [r EXCEPT !.kids = x] =
              [parent |-> r.parent, pc |-> r.pc, level |-> r.level, i |-> r.i, kids |-> x,
               held |-> r.held]
         /\ [r EXCEPT !.held = x] =
              [parent |-> r.parent, pc |-> r.pc, level |-> r.level, i |-> r.i, kids |-> r.kids,
               held |-> x]
<1>1. r = [parent |-> r.parent, pc |-> r.pc, level |-> r.level, i |-> r.i, kids |-> r.kids,
           held |-> r.held]
  BY DEF ForProcesses
<1> QED
  BY <1>1

\* The child, n.
ForBorn(n, p) ==
  /\ procs'[n].parent = p /\ procs'[n].level = procs[p].level /\ procs'[n].kids = << >>
  /\ procs'[n].pc = IF command = "tree" THEN "exec" ELSE "work"
  /\ procs'[n].held = procs[p].held

\* What fork() makes of the processes, with or without a child.
Forks(p, kid) ==
  /\ \A q \in Forking!Pids \ {p} : procs'[q] = procs[q]
  /\ procs'[p].parent = procs[p].parent /\ procs'[p].pc = procs[p].pc
  /\ procs'[p].level = procs[p].level /\ procs'[p].i = procs[p].i + 1
  /\ procs'[p].kids = Append(procs[p].kids, kid) /\ procs'[p].held = procs[p].held

LEMMA ForkDoes ==
  ASSUME ForTypes, NEW p \in Forking!Pids, Forking!Fork(p)
  PROVE  /\ procs' \in Seq(ForProcesses)
         /\ \/ Len(procs') = Len(procs) + 1 /\ Forks(p, Len(procs) + 1)
               /\ ForBorn(Len(procs) + 1, p)
            \/ Len(procs') = Len(procs) /\ Forks(p, Forking!Failed)
<1> DEFINE Parent(kid) == [procs EXCEPT ![p].i = @ + 1, ![p].kids = Append(@, kid)]
           One(kid) == [parent |-> procs[p].parent, pc |-> procs[p].pc,
                        level |-> procs[p].level, i |-> procs[p].i + 1,
                        kids |-> Append(procs[p].kids, kid), held |-> procs[p].held]
<1>1. procs' = Append(Parent(Len(procs) + 1), Forking!Kid(p)) \/ procs' = Parent(Forking!Failed)
  BY DEF Forking!Fork
<1>2. procs \in Seq(ForProcesses) /\ p \in 1 .. Len(procs) /\ Len(procs) \in Nat
  BY DEF ForTypes, Forking!Pids
<1>3. procs[p] \in ForProcesses /\ procs[p].i \in Int /\ procs[p].kids \in Seq(Int)
      /\ procs[p].level \in Int /\ procs[p].held \in BOOLEAN
  BY ForProcType
<1>4. ASSUME NEW kid \in Int
      PROVE  /\ Parent(kid) \in Seq(ForProcesses) /\ Len(Parent(kid)) = Len(procs)
             /\ Parent(kid)[p] = One(kid)
             /\ \A q \in Forking!Pids \ {p} : Parent(kid)[q] = procs[q]
  <2>1. One(kid) \in ForProcesses
    <3>1. Append(procs[p].kids, kid) \in Seq(Int) /\ procs[p].i + 1 \in Int
      BY <1>3
    <3> QED
      BY <1>3, <3>1 DEF ForProcesses
  <2>2. Parent(kid) = [procs EXCEPT ![p] = One(kid)]
    <3> DEFINE r == [procs[p] EXCEPT !.i = procs[p].i + 1]
    <3>1. Parent(kid) = [[procs EXCEPT ![p] = r] EXCEPT ![p].kids = Append(@, kid)]
      OBVIOUS
    <3>2. r = [parent |-> procs[p].parent, pc |-> procs[p].pc, level |-> procs[p].level,
               i |-> procs[p].i + 1, kids |-> procs[p].kids, held |-> procs[p].held]
      BY <1>3, ForChanged
    <3>3. r \in ForProcesses /\ r.kids = procs[p].kids
      BY <1>3, <3>2 DEF ForProcesses
    <3> HIDE DEF r
    <3>4. [r EXCEPT !.kids = Append(r.kids, kid)] = One(kid)
      BY <3>2, <3>3, ForChanged
    <3> HIDE DEF Parent, One
    <3>5. Parent(kid) = [procs EXCEPT ![p] = [r EXCEPT !.kids = Append(r.kids, kid)]]
      BY <1>2, <3>1
    <3> QED
      BY <3>4, <3>5
  <2> HIDE DEF Parent, One
  <2> QED
    BY <1>2, <2>1, <2>2 DEF Forking!Pids
<1>5. Forking!Kid(p) \in ForProcesses
  BY <1>2, <1>3 DEF Forking!Kid, Forking!Process, ForProcesses, ForStates
<1> HIDE DEF Parent
<1>6. CASE procs' = Append(Parent(Len(procs) + 1), Forking!Kid(p))
  <2>1. Len(procs) + 1 \in Int
    BY <1>2
  <2> DEFINE Q == Parent(Len(procs) + 1)
  <2>2. Q \in Seq(ForProcesses) /\ Len(Q) = Len(procs) /\ procs' = Append(Q, Forking!Kid(p))
    BY <1>4, <1>6, <2>1
  <2>3. Q[p] = One(Len(procs) + 1) /\ \A q \in Forking!Pids \ {p} : Q[q] = procs[q]
    BY <1>4, <2>1
  <2> HIDE DEF Q, One
  <2>4. /\ procs' \in Seq(ForProcesses) /\ Len(procs') = Len(procs) + 1
        /\ procs'[Len(procs) + 1] = Forking!Kid(p) /\ \A q \in Forking!Pids : procs'[q] = Q[q]
    BY <1>2, <1>5, <2>2 DEF Forking!Pids
  <2>5. procs'[p] = One(Len(procs) + 1) /\ \A q \in Forking!Pids \ {p} : procs'[q] = procs[q]
    BY <2>3, <2>4
  <2>6. Forks(p, Len(procs) + 1)
    BY <2>5 DEF Forks, One
  <2>7. ForBorn(Len(procs) + 1, p)
    BY <2>4 DEF ForBorn, Forking!Kid, Forking!Process
  <2> QED
    BY <2>4, <2>6, <2>7
<1>7. CASE procs' = Parent(Forking!Failed)
  <2>1. Forking!Failed \in Int
    BY DEF Forking!Failed
  <2>2. /\ Parent(Forking!Failed) \in Seq(ForProcesses) /\ Len(Parent(Forking!Failed)) = Len(procs)
        /\ Parent(Forking!Failed)[p] = One(Forking!Failed)
        /\ \A q \in Forking!Pids \ {p} : Parent(Forking!Failed)[q] = procs[q]
    BY <1>4, <2>1
  <2> QED
    BY <1>7, <2>2 DEF Forks
<1> QED
  BY <1>1, <1>6, <1>7

LEMMA ForExecDoes ==
  ASSUME ForTypes, NEW p \in Forking!Pids, Forking!Exec(p)
  PROVE  /\ procs' \in Seq(ForProcesses) /\ Len(procs') = Len(procs)
         /\ \A q \in Forking!Pids \ {p} : procs'[q] = procs[q]
         /\ procs'[p].parent = procs[p].parent
         /\ \/ /\ procs'[p].pc = "fork" /\ procs'[p].level = procs[p].level - 1
               /\ procs'[p].i = 0 /\ procs'[p].kids = << >>
            \/ /\ procs'[p].pc = "failed" /\ procs'[p].level = procs[p].level
               /\ procs'[p].kids = procs[p].kids
<1>1. procs \in Seq(ForProcesses) /\ p \in 1 .. Len(procs) /\ Len(procs) \in Nat
  BY DEF ForTypes, Forking!Pids
<1>2. procs[p] \in ForProcesses /\ procs[p].level \in Int /\ procs[p].parent \in Nat
  BY ForProcType
<1> DEFINE anew == Forking!Process(procs[p].parent, "fork", procs[p].level - 1, 0, FALSE)
           fails == [parent |-> procs[p].parent, pc |-> "failed", level |-> procs[p].level,
                     i |-> procs[p].i, kids |-> procs[p].kids, held |-> procs[p].held]
<1>3. procs' = [procs EXCEPT ![p] = anew] \/ procs' = [procs EXCEPT ![p] = fails]
  <2>1. fails = [procs[p] EXCEPT !.pc = "failed"]
    BY <1>2, ForChanged
  <2>2. procs' = [procs EXCEPT ![p] = anew]
        \/ procs' = [procs EXCEPT ![p] = [procs[p] EXCEPT !.pc = "failed"]]
    BY <1>1 DEF Forking!Exec
  <2> QED
    BY <2>1, <2>2
<1>4. anew \in ForProcesses /\ fails \in ForProcesses
  BY <1>2 DEF Forking!Process, ForProcesses, ForStates
<1> HIDE DEF anew, fails
<1>5. /\ procs' \in Seq(ForProcesses) /\ Len(procs') = Len(procs)
      /\ \A q \in Forking!Pids \ {p} : procs'[q] = procs[q]
      /\ procs'[p] = anew \/ procs'[p] = fails
  BY <1>1, <1>3, <1>4 DEF Forking!Pids
<1>6. CASE procs'[p] = anew
  BY <1>5, <1>6 DEF anew, Forking!Process
<1>7. CASE procs'[p] = fails
  BY <1>5, <1>7 DEF fails
<1> QED
  BY <1>5, <1>6, <1>7

LEMMA ForExitDoes ==
  ASSUME ForTypes, NEW p \in Forking!Pids, Forking!Exit(p)
  PROVE  /\ procs' \in Seq(ForProcesses) /\ Len(procs') = Len(procs)
         /\ \A q \in Forking!Pids \ {p} : procs'[q] = procs[q]
         /\ procs'[p].parent = procs[p].parent /\ procs'[p].pc = "exited"
         /\ procs'[p].level = procs[p].level /\ procs'[p].i = procs[p].i
         /\ procs'[p].kids = procs[p].kids /\ procs'[p].held = FALSE
<1>1. procs \in Seq(ForProcesses) /\ p \in 1 .. Len(procs) /\ Len(procs) \in Nat
  BY DEF ForTypes, Forking!Pids
<1>2. procs[p] \in ForProcesses
  BY ForProcType
<1> DEFINE gone == [parent |-> procs[p].parent, pc |-> "exited", level |-> procs[p].level,
                    i |-> procs[p].i, kids |-> procs[p].kids, held |-> FALSE]
<1>3. procs' = [procs EXCEPT ![p] = gone]
  <2> DEFINE r == [procs[p] EXCEPT !.pc = "exited"]
  <2>1. procs' = [[procs EXCEPT ![p] = r] EXCEPT ![p].held = FALSE]
    BY DEF Forking!Exit
  <2>2. r = [parent |-> procs[p].parent, pc |-> "exited", level |-> procs[p].level,
             i |-> procs[p].i, kids |-> procs[p].kids, held |-> procs[p].held]
    BY <1>2, ForChanged
  <2>3. r \in ForProcesses
    BY <1>2, <2>2 DEF ForProcesses, ForStates
  <2> HIDE DEF r
  <2>4. [r EXCEPT !.held = FALSE] = gone
    BY <2>2, <2>3, ForChanged
  <2> HIDE DEF gone
  <2>5. procs' = [procs EXCEPT ![p] = [r EXCEPT !.held = FALSE]]
    BY <1>1, <2>1
  <2> QED
    BY <2>4, <2>5
<1>4. gone \in ForProcesses
  BY <1>2 DEF ForProcesses, ForStates
<1> HIDE DEF gone
<1>5. /\ procs' \in Seq(ForProcesses) /\ Len(procs') = Len(procs)
      /\ \A q \in Forking!Pids \ {p} : procs'[q] = procs[q]
      /\ procs'[p] = gone
  BY <1>1, <1>3, <1>4 DEF Forking!Pids
<1> QED
  BY <1>5 DEF gone

LEMMA ForStartDoes ==
  ASSUME ForTypes, Forking!Start
  PROVE  /\ command' \in {"fork", "tree", "busyloop_rtfork"} /\ commandArg' \in Int
         /\ terminal' \in BOOLEAN /\ Len(procs') = 1 /\ procs' \in Seq(ForProcesses)
         /\ procs'[1].parent = 0 /\ procs'[1].level = commandArg' /\ procs'[1].i = 0
         /\ procs'[1].kids = << >>
         /\ \/ procs'[1].pc = "failed" /\ shown' \in {0, 1}
            \/ /\ procs'[1].pc = "fork"
               /\ procs'[1].held <=> command' # "tree" /\ ~terminal'
               /\ shown' = IF command' # "tree" /\ terminal' THEN 1 ELSE 0
<1>1. command' \in {"fork", "tree", "busyloop_rtfork"} /\ commandArg' \in Int /\ terminal' \in BOOLEAN
  BY ForksAssumption DEF Forking!Start
<1>2. ASSUME NEW at \in ForStates, NEW h \in BOOLEAN, procs' = <<Forking!Process(0, at, commandArg', 0, h)>>
      PROVE  /\ Len(procs') = 1 /\ procs' \in Seq(ForProcesses)
             /\ procs'[1].parent = 0 /\ procs'[1].level = commandArg' /\ procs'[1].i = 0
             /\ procs'[1].kids = << >> /\ procs'[1].pc = at /\ procs'[1].held = h
  <2> DEFINE one == Forking!Process(0, at, commandArg', 0, h)
  <2>1. one \in ForProcesses
    BY <1>1 DEF Forking!Process, ForProcesses
  <2>2. /\ one.parent = 0 /\ one.level = commandArg' /\ one.i = 0
        /\ one.kids = << >> /\ one.pc = at /\ one.held = h
    BY DEF Forking!Process
  <2> HIDE DEF one
  <2>3. procs' \in Seq(ForProcesses) /\ Len(procs') = 1 /\ procs'[1] = one
    BY <1>2, <2>1 DEF one
  <2> QED
    BY <2>2, <2>3
<1>3. CASE procs' = <<Forking!Process(0, "failed", commandArg', 0, FALSE)>> /\ shown' \in {0, 1}
  <2>1. "failed" \in ForStates /\ FALSE \in BOOLEAN
    BY DEF ForStates
  <2> QED
    BY <1>1, <1>2, <1>3, <2>1
<1>4. CASE /\ procs' = <<Forking!Process(0, "fork", commandArg', 0, command' # "tree" /\ ~terminal')>>
           /\ shown' = IF command' # "tree" /\ terminal' THEN 1 ELSE 0
  <2> DEFINE h == command' # "tree" /\ ~terminal'
  <2>1. "fork" \in ForStates /\ h \in BOOLEAN
    BY DEF ForStates
  <2>2. procs' = <<Forking!Process(0, "fork", commandArg', 0, h)>>
    BY <1>4
  <2> HIDE DEF h
  <2>3. /\ Len(procs') = 1 /\ procs' \in Seq(ForProcesses)
        /\ procs'[1].parent = 0 /\ procs'[1].level = commandArg' /\ procs'[1].i = 0
        /\ procs'[1].kids = << >> /\ procs'[1].pc = "fork" /\ procs'[1].held = h
    BY <1>2, <2>1, <2>2
  <2>4. procs'[1].held <=> command' # "tree" /\ ~terminal'
    BY <2>3 DEF h
  <2> QED
    BY <1>1, <1>4, <2>3, <2>4
<1> QED
  BY <1>3, <1>4 DEF Forking!Start

-----------------------------------------------------------------------------
(* The steps *)

LEMMA ForTypesStep ==
  ASSUME ForTypes, [Forking!Next]_ForkingVars
  PROVE  ForTypes'
<1>1. CASE UNCHANGED ForkingVars
  BY <1>1 DEF ForkingVars, ForTypes
<1>2. CASE Forking!Start
  BY <1>2, ForStartDoes DEF ForTypes
<1>3. ASSUME NEW p \in Forking!Pids, Forking!Fork(p) \/ Forking!Exec(p) \/ Forking!Exit(p)
      PROVE  ForTypes'
  <2>1. Len(procs) > 0 /\ Len(procs) \in Nat /\ command # "none"
    BY DEF Forking!Pids, ForTypes
  <2>2. procs' \in Seq(ForProcesses) /\ Len(procs') > 0
    <3>1. CASE Forking!Fork(p)
      BY <2>1, <3>1, ForkDoes
    <3>2. CASE Forking!Exec(p)
      BY <2>1, <3>2, ForExecDoes
    <3>3. CASE Forking!Exit(p)
      BY <2>1, <3>3, ForExitDoes
    <3> QED
      BY <1>3, <3>1, <3>2, <3>3
  <2>3. command' = command /\ commandArg' = commandArg /\ terminal' = terminal /\ shown' \in {shown, shown + 1}
    BY <1>3, Zenon DEF Forking!Fork, Forking!Exec, Forking!Exit
  <2> QED
    BY <2>1, <2>2, <2>3 DEF ForTypes
<1> QED
  BY <1>1, <1>2, <1>3, ForSame DEF Forking!Next

\* A process that forks is the first one or one of a tree, and has not forked as
\* often as it should.
LEMMA ForWhoForks ==
  ASSUME ForTypes, ForPlaces, Forked, NEW p \in Forking!Pids, Forking!Fork(p)
  PROVE  /\ p = 1 \/ command = "tree"
         /\ procs[p].pc = "fork" /\ procs[p].i = Len(procs[p].kids)
         /\ procs[p].i + 1 <= Forking!s32CHDNo(p)
         /\ command = "tree" => procs[p].level > 0 /\ procs[p].level <= commandArg
<1>1. procs[p].pc = "fork" /\ procs[p].i < Forking!s32CHDNo(p)
  BY DEF Forking!Fork
<1>2. procs[p].i = Len(procs[p].kids)
  BY <1>1 DEF Forked
<1>3. p = 1 \/ command = "tree"
  BY <1>1 DEF ForPlaces, ForPlace
<1>4. procs[p].i \in Nat /\ Forking!s32CHDNo(p) \in Int /\ procs[p].level \in Int
  BY <1>2, ForProcType
<1>5. command = "tree" => procs[p].level > 0
  BY <1>1, <1>4 DEF Forking!s32CHDNo
<1>6. command = "tree" => procs[p].level <= commandArg
  BY <1>4 DEF ForPlaces, ForPlace, ForTypes
<1> QED
  BY <1>1, <1>2, <1>3, <1>4, <1>5, <1>6

LEMMA ForPlacesStep ==
  ASSUME ForTypes, ForPlaces, Forked, [Forking!Next]_ForkingVars
  PROVE  ForPlaces'
<1>1. CASE UNCHANGED ForkingVars
  BY <1>1 DEF ForkingVars, ForPlaces, ForPlace, Forking!Pids
<1>2. CASE Forking!Start
  <2>1. /\ procs'[1].parent = 0 /\ procs'[1].level = commandArg' /\ procs'[1].kids = << >>
        /\ procs'[1].pc \in {"failed", "fork"} /\ Len(procs') = 1
    BY <1>2, ForStartDoes
  <2> QED
    BY <2>1 DEF ForPlaces, ForPlace, Forking!Pids
<1>3. ASSUME NEW p \in Forking!Pids, Forking!Fork(p)
      PROVE  ForPlaces'
  <2>1. command' = command /\ commandArg' = commandArg
    BY <1>3 DEF Forking!Fork
  <2>2. /\ p = 1 \/ command = "tree"
        /\ command = "tree" => procs[p].level > 0 /\ procs[p].level <= commandArg
    BY <1>3, ForWhoForks
  <2>3. Len(procs) \in Nat /\ Len(procs) > 0 /\ commandArg \in Int /\ procs[p].level \in Int
    BY ForProcType DEF Forking!Pids, ForTypes
  <2>4. \A q \in Forking!Pids :
          /\ procs'[q].parent = procs[q].parent /\ procs'[q].pc = procs[q].pc
          /\ procs'[q].level = procs[q].level
          /\ q # p => procs'[q].kids = procs[q].kids
    BY <1>3, ForkDoes DEF Forks
  <2>5. procs[p].pc = "fork"
    BY <1>3, ForWhoForks
  <2>6. ASSUME NEW q \in Forking!Pids
        PROVE  ForPlace(q)'
    <3>1. ForPlace(q)
      BY DEF ForPlaces
    <3>2. CASE q # p
      BY <2>1, <2>4, <3>1, <3>2 DEF ForPlace
    <3>3. CASE q = p
      <4>1. /\ procs'[p].parent = procs[p].parent /\ procs'[p].pc = "fork"
            /\ procs'[p].level = procs[p].level
        BY <2>4, <2>5
      <4> QED
        BY <2>1, <2>5, <3>1, <3>3, <4>1 DEF ForPlace
    <3> QED
      BY <3>2, <3>3
  <2>7. CASE Len(procs') = Len(procs)
    <3>1. Forking!Pids' = Forking!Pids
      BY <2>7 DEF Forking!Pids
    <3> QED
      BY <2>6, <3>1 DEF ForPlaces
  <2>8. CASE Len(procs') = Len(procs) + 1 /\ ForBorn(Len(procs) + 1, p)
    <3>0. PICK n \in Nat : n = Len(procs) + 1
      BY <2>3
    <3>1. Forking!Pids' = Forking!Pids \cup {n} /\ n # 1
      BY <2>3, <2>8, <3>0 DEF Forking!Pids
    <3>2. /\ procs'[n].parent = p /\ procs'[n].kids = << >>
          /\ procs'[n].level = procs[p].level
          /\ procs'[n].pc = IF command = "tree" THEN "exec" ELSE "work"
      BY <2>8, <3>0 DEF ForBorn
    <3>3. ForPlace(n)'
      BY <2>1, <2>2, <2>3, <3>1, <3>2 DEF ForPlace
    <3> QED
      BY <2>6, <3>1, <3>3 DEF ForPlaces
  <2> QED
    BY <1>3, <2>7, <2>8, ForkDoes
<1>4. ASSUME NEW p \in Forking!Pids, Forking!Exec(p)
      PROVE  ForPlaces'
  <2>1. command' = command /\ commandArg' = commandArg /\ procs[p].pc = "exec"
    BY <1>4 DEF Forking!Exec
  <2>2. p # 1 /\ command = "tree" /\ procs[p].level \in 0 .. commandArg /\ procs[p].level > 0
        /\ procs[p].kids = << >>
    BY <2>1 DEF ForPlaces, ForPlace
  <2>3. /\ Len(procs') = Len(procs) /\ \A q \in Forking!Pids \ {p} : procs'[q] = procs[q]
        /\ procs'[p].level \in 0 .. commandArg /\ procs'[p].pc \in {"fork", "failed"}
    BY <1>4, <2>2, ForExecDoes DEF ForTypes
  <2> QED
    BY <2>1, <2>2, <2>3 DEF ForPlaces, ForPlace, Forking!Pids
<1>5. ASSUME NEW p \in Forking!Pids, Forking!Exit(p)
      PROVE  ForPlaces'
  <2>1. command' = command /\ commandArg' = commandArg /\ procs[p].pc \in {"work", "fork"}
    BY <1>5 DEF Forking!Exit
  <2>2. /\ Len(procs') = Len(procs) /\ \A q \in Forking!Pids \ {p} : procs'[q] = procs[q]
        /\ procs'[p].level = procs[p].level /\ procs'[p].pc = "exited"
        /\ procs'[p].parent = procs[p].parent
    BY <1>5, ForExitDoes
  <2> QED
    BY <2>1, <2>2 DEF ForPlaces, ForPlace, Forking!Pids
<1> QED
  BY <1>1, <1>2, <1>3, <1>4, <1>5, ForSame DEF Forking!Next

LEMMA ForSameCount ==
  ASSUME ForTypes, command' = command, commandArg' = commandArg, NEW q \in Forking!Pids, procs'[q].level = procs[q].level
  PROVE  Forking!s32CHDNo(q)' = Forking!s32CHDNo(q)
<1>1. CASE command = "fork"
  BY <1>1 DEF Forking!s32CHDNo
<1>2. CASE command = "tree"
  BY <1>2 DEF Forking!s32CHDNo
<1>3. CASE command = "busyloop_rtfork"
  BY <1>3 DEF Forking!s32CHDNo
<1>4. command # "none"
  BY DEF ForTypes, Forking!Pids
<1> QED
  BY <1>1, <1>2, <1>3, <1>4 DEF ForTypes

LEMMA ForkedStep ==
  ASSUME ForTypes, ForPlaces, Forked, [Forking!Next]_ForkingVars
  PROVE  Forked'
<1>1. CASE UNCHANGED ForkingVars
  BY <1>1, ForSameCount DEF ForkingVars, Forked, Forking!Pids
<1>2. CASE Forking!Start
  <2>1. /\ procs'[1].i = 0 /\ procs'[1].kids = << >>
        /\ procs'[1].pc # "exited" /\ Len(procs') = 1
    BY <1>2, ForStartDoes
  <2> QED
    BY <2>1 DEF Forked, Forking!Pids
<1>3. ASSUME NEW p \in Forking!Pids, Forking!Fork(p)
      PROVE  Forked'
  <2>1. command' = command /\ commandArg' = commandArg
    BY <1>3 DEF Forking!Fork
  <2>2. /\ procs[p].pc = "fork" /\ procs[p].i = Len(procs[p].kids)
        /\ procs[p].i + 1 <= Forking!s32CHDNo(p)
    BY <1>3, ForWhoForks
  <2>3. /\ \A q \in Forking!Pids \ {p} : procs'[q] = procs[q]
        /\ procs'[p].pc = procs[p].pc /\ procs'[p].level = procs[p].level
        /\ procs'[p].i = Len(procs'[p].kids) /\ procs'[p].i = procs[p].i + 1
    <3>1. /\ \A q \in Forking!Pids \ {p} : procs'[q] = procs[q]
          /\ procs'[p].pc = procs[p].pc /\ procs'[p].level = procs[p].level
          /\ procs'[p].i = procs[p].i + 1
          /\ \E kid : procs'[p].kids = Append(procs[p].kids, kid)
      BY <1>3, ForkDoes DEF Forks
    <3>2. procs[p].kids \in Seq(Int)
      BY ForProcType
    <3>3. \A kid : Len(Append(procs[p].kids, kid)) = Len(procs[p].kids) + 1
      BY <3>2
    <3> QED
      BY <2>2, <3>1, <3>3
  <2>4. \A q \in Forking!Pids : Forking!s32CHDNo(q)' = Forking!s32CHDNo(q)
    BY <2>1, <2>3, ForSameCount
  <2>5. \A q \in Forking!Pids' \ Forking!Pids : procs'[q].pc \in {"exec", "work"}
    <3>1. Len(procs) \in Nat
      BY DEF ForTypes
    <3> QED
      BY <1>3, <3>1, ForkDoes DEF Forking!Pids, ForBorn
  <2> QED
    BY <2>1, <2>2, <2>3, <2>4, <2>5 DEF Forked
<1>4. ASSUME NEW p \in Forking!Pids, Forking!Exec(p)
      PROVE  Forked'
  <2>1. command' = command /\ commandArg' = commandArg /\ procs[p].pc = "exec"
    BY <1>4 DEF Forking!Exec
  <2>2. /\ Len(procs') = Len(procs) /\ \A q \in Forking!Pids \ {p} : procs'[q] = procs[q]
        /\ \/ procs'[p].pc = "fork" /\ procs'[p].i = 0 /\ procs'[p].kids = << >>
           \/ procs'[p].pc = "failed"
    BY <1>4, ForExecDoes
  <2>3. \A q \in Forking!Pids \ {p} : Forking!s32CHDNo(q)' = Forking!s32CHDNo(q)
    BY <2>1, <2>2, ForSameCount
  <2> QED
    BY <2>1, <2>2, <2>3 DEF Forked, Forking!Pids
<1>5. ASSUME NEW p \in Forking!Pids, Forking!Exit(p)
      PROVE  Forked'
  <2>1. command' = command /\ commandArg' = commandArg
        /\ (procs[p].pc = "work" \/ (procs[p].pc = "fork" /\ procs[p].i >= Forking!s32CHDNo(p)))
    BY <1>5 DEF Forking!Exit
  <2>2. /\ Len(procs') = Len(procs) /\ \A q \in Forking!Pids \ {p} : procs'[q] = procs[q]
        /\ procs'[p].level = procs[p].level /\ procs'[p].pc = "exited"
        /\ procs'[p].i = procs[p].i /\ procs'[p].kids = procs[p].kids
    BY <1>5, ForExitDoes
  <2>3. \A q \in Forking!Pids : Forking!s32CHDNo(q)' = Forking!s32CHDNo(q)
    BY <2>1, <2>2, ForSameCount
  <2>4. p = 1 \/ command = "tree" => procs[p].pc = "fork"
    BY <2>1 DEF ForPlaces, ForPlace
  <2> QED
    BY <2>1, <2>2, <2>3, <2>4 DEF Forked, Forking!Pids
<1> QED
  BY <1>1, <1>2, <1>3, <1>4, <1>5, ForSame DEF Forking!Next

LEMMA ForDescendStep ==
  ASSUME ForTypes, ForPlaces, Forked, ForDescend, [Forking!Next]_ForkingVars
  PROVE  ForDescend'
<1>1. CASE UNCHANGED ForkingVars
  BY <1>1 DEF ForkingVars, ForDescend, Forking!Pids, ForHeight
<1>2. CASE Forking!Start
  <2>1. procs'[1].kids = << >> /\ Len(procs') = 1
    BY <1>2, ForStartDoes
  <2> QED
    BY <2>1 DEF ForDescend, Forking!Pids
<1> SUFFICES ASSUME ~ Forking!Start, [Forking!Next]_ForkingVars, ~ UNCHANGED ForkingVars, command' = "tree",
                    NEW q \in Forking!Pids', NEW k \in 1 .. Len(procs'[q].kids),
                    NEW c \in Int \ {Forking!Failed}, procs'[q].kids[k] = c
             PROVE  /\ c \in Forking!Pids' \ {1} /\ procs'[c].parent = q
                    /\ procs'[c].pc # "failed" => ForHeight(c)' = procs'[q].level - 1
  BY <1>1, <1>2 DEF ForDescend
<1>3. command = "tree"
  BY ForSame DEF Forking!Next, Forking!Fork, Forking!Exec, Forking!Exit
<1>4. ASSUME NEW p \in Forking!Pids, k \in 1 .. Len(procs[p].kids), procs[p].kids[k] = c
      PROVE  /\ c \in Forking!Pids \ {1} /\ procs[c].parent = p
             /\ procs[c].pc # "failed" => ForHeight(c) = procs[p].level - 1
  BY <1>3, <1>4 DEF ForDescend
<1>5. ASSUME NEW p \in Forking!Pids, Forking!Exec(p) \/ Forking!Exit(p)
      PROVE  /\ c \in Forking!Pids' \ {1} /\ procs'[c].parent = q
             /\ procs'[c].pc # "failed" => ForHeight(c)' = procs'[q].level - 1
  <2>0. Forking!Pids' = Forking!Pids /\ \A r \in Forking!Pids \ {p} : procs'[r] = procs[r]
    BY <1>5, ForExecDoes, ForExitDoes DEF Forking!Pids
  <2>1. procs'[q].kids = procs[q].kids /\ procs'[q].level = procs[q].level
    <3>1. CASE Forking!Exec(p)
      <4>1. procs[p].kids = << >>
        BY <3>1 DEF Forking!Exec, ForPlaces, ForPlace
      <4>2. q # p
        BY <3>1, <4>1, <2>0, ForExecDoes
      <4> QED
        BY <2>0, <4>2
    <3>2. CASE Forking!Exit(p)
      BY <2>0, <3>2, ForExitDoes
    <3> QED
      BY <1>5, <3>1, <3>2
  <2>2. /\ c \in Forking!Pids \ {1} /\ procs[c].parent = q
        /\ procs[c].pc # "failed" => ForHeight(c) = procs[q].level - 1
    BY <1>4, <2>0, <2>1
  <2>4. procs'[c].parent = procs[c].parent
    BY <1>5, <2>0, <2>2, ForExecDoes, ForExitDoes
  <2>5. ASSUME procs'[c].pc # "failed"
        PROVE  procs[c].pc # "failed" /\ ForHeight(c)' = ForHeight(c)
    <3>1. CASE c # p
      BY <2>0, <2>2, <2>5, <3>1 DEF ForHeight
    <3>2. CASE c = p /\ Forking!Exec(p)
      <4>1. procs[p].pc = "exec"
        BY <3>2 DEF Forking!Exec
      <4> QED
        BY <2>5, <3>2, <4>1, ForExecDoes DEF ForHeight
    <3>3. CASE c = p /\ Forking!Exit(p)
      <4>1. procs[p].pc \in {"work", "fork"}
        BY <3>3 DEF Forking!Exit
      <4> QED
        BY <2>5, <3>3, <4>1, ForExitDoes DEF ForHeight
    <3> QED
      BY <1>5, <3>1, <3>2, <3>3
  <2> QED
    BY <2>0, <2>1, <2>2, <2>4, <2>5
<1>6. ASSUME NEW p \in Forking!Pids, Forking!Fork(p)
      PROVE  /\ c \in Forking!Pids' \ {1} /\ procs'[c].parent = q
             /\ procs'[c].pc # "failed" => ForHeight(c)' = procs'[q].level - 1
  <2>0. /\ Len(procs) \in Nat /\ Forking!Pids \subseteq Forking!Pids' /\ Len(procs) > 0
        /\ Forking!Pids' \subseteq Forking!Pids \cup {Len(procs) + 1}
        /\ \A r \in Forking!Pids :
             /\ procs'[r].parent = procs[r].parent
             /\ procs'[r].pc = procs[r].pc
             /\ procs'[r].level = procs[r].level
    <3>1. Len(procs) \in Nat /\ Len(procs) > 0
      BY DEF ForTypes, Forking!Pids
    <3>2. Len(procs') = Len(procs) \/ Len(procs') = Len(procs) + 1
      BY <1>6, ForkDoes
    <3>3. \A r \in Forking!Pids :
            /\ procs'[r].parent = procs[r].parent
            /\ procs'[r].pc = procs[r].pc
            /\ procs'[r].level = procs[r].level
      BY <1>6, ForkDoes DEF Forks
    <3> QED
      BY <3>1, <3>2, <3>3 DEF Forking!Pids
  <2>1. q \in Forking!Pids
    <3>1. q = Len(procs) + 1 /\ q \notin Forking!Pids => procs'[q].kids = << >>
      BY <1>6, <2>0, ForkDoes DEF ForBorn, Forking!Pids
    <3> QED
      BY <2>0, <3>1
  <2>2. CASE k \in 1 .. Len(procs[q].kids) /\ procs'[q].kids[k] = procs[q].kids[k]
    <3>1. /\ c \in Forking!Pids \ {1} /\ procs[c].parent = q
          /\ procs[c].pc # "failed" => ForHeight(c) = procs[q].level - 1
      BY <1>4, <2>1, <2>2
    <3>2. ForHeight(c)' = ForHeight(c)
      BY <2>0, <3>1 DEF ForHeight
    <3> QED
      BY <2>0, <2>1, <3>1, <3>2
  <2>3. CASE q = p /\ c = Len(procs) + 1 /\ ForBorn(Len(procs) + 1, p)
              /\ Len(procs') = Len(procs) + 1
    <3>1. c \in Forking!Pids' \ {1} /\ procs'[c].parent = q
      BY <2>0, <2>3 DEF ForBorn, Forking!Pids
    <3>2. procs'[c].pc = "exec" /\ procs'[c].level = procs[q].level
      BY <1>3, <2>3 DEF ForBorn
    <3>3. ForHeight(c)' = procs[q].level - 1
      BY <3>2 DEF ForHeight
    <3> QED
      BY <2>0, <2>1, <3>1, <3>3
  <2>4. CASE q = p
    <3>1. procs[p].kids \in Seq(Int)
      BY ForProcType
    <3>2. ASSUME NEW new, procs'[p].kids = Append(procs[p].kids, new)
          PROVE  \/ k \in 1 .. Len(procs[q].kids) /\ procs'[q].kids[k] = procs[q].kids[k]
                 \/ c = new
      BY <2>4, <3>1, <3>2
    <3>3. \/ /\ procs'[p].kids = Append(procs[p].kids, Len(procs) + 1)
             /\ ForBorn(Len(procs) + 1, p) /\ Len(procs') = Len(procs) + 1
          \/ procs'[p].kids = Append(procs[p].kids, Forking!Failed)
      BY <1>6, ForkDoes DEF Forks
    <3> QED
      BY <2>2, <2>3, <2>4, <3>2, <3>3
  <2>5. CASE q # p
    <3>1. procs'[q] = procs[q]
      BY <1>6, <2>1, <2>5, ForkDoes DEF Forks
    <3> QED
      BY <2>2, <3>1
  <2> QED
    BY <2>4, <2>5
<1> QED
  BY <1>5, <1>6, ForSame DEF Forking!Next

LEMMA ForOneLevelStep ==
  ASSUME ForTypes, ForPlaces, Forked, ForOneLevel, [Forking!Next]_ForkingVars
  PROVE  ForOneLevel'
<1>1. CASE UNCHANGED ForkingVars
  BY <1>1 DEF ForkingVars, ForOneLevel
<1>2. CASE Forking!Start
  BY <1>2, ForStartDoes DEF ForOneLevel
<1>3. ASSUME NEW p \in Forking!Pids, Forking!Fork(p)
      PROVE  ForOneLevel'
  <2>1. command' = command /\ commandArg' = commandArg /\ command # "none"
    BY <1>3 DEF Forking!Fork, ForTypes, Forking!Pids
  <2>2. p = 1 \/ command = "tree"
    BY <1>3, ForWhoForks
  <2>3. ~ (command = "tree" /\ commandArg <= 0)
    <3>1. procs[p].level \in Int /\ commandArg \in Int
      BY ForProcType DEF ForTypes
    <3> QED
      BY <1>3, <3>1, ForWhoForks
  <2>4. CASE p = 1
    <3>1. procs[1].kids \in Seq(Int) /\ Len(procs) \in Nat
      BY <2>4, ForProcType DEF ForTypes
    <3>2. CASE Len(procs') = Len(procs) + 1 /\ procs'[1].kids = Append(procs[1].kids, Len(procs) + 1)
      <4>1. Len(procs'[1].kids) = Len(procs[1].kids) + 1
            /\ \A k \in 1 .. Len(procs[1].kids) : procs'[1].kids[k] = procs[1].kids[k]
        BY <3>1, <3>2
      <4> QED
        BY <2>1, <2>3, <3>1, <3>2, <4>1 DEF ForOneLevel
    <3>3. CASE procs'[1].kids = Append(procs[1].kids, Forking!Failed)
      <4>1. procs'[1].kids[Len(procs'[1].kids)] = Forking!Failed /\ Len(procs'[1].kids) \in 1 .. Len(procs'[1].kids)
        BY <3>1, <3>3
      <4> QED
        BY <2>1, <2>3, <4>1 DEF ForOneLevel
    <3> QED
      BY <1>3, <2>4, <3>2, <3>3, ForkDoes DEF Forks
  <2>5. CASE p # 1
    BY <2>1, <2>2, <2>3, <2>5 DEF ForOneLevel
  <2> QED
    BY <2>4, <2>5
<1>4. ASSUME NEW p \in Forking!Pids, Forking!Exec(p)
      PROVE  ForOneLevel'
  <2>1. command' = command /\ commandArg' = commandArg /\ procs[p].pc = "exec"
    BY <1>4 DEF Forking!Exec
  <2>2. command = "tree" /\ Len(procs') = Len(procs)
    BY <1>4, <2>1, ForExecDoes DEF ForPlaces, ForPlace
  <2> QED
    BY <2>1, <2>2 DEF ForOneLevel
<1>5. ASSUME NEW p \in Forking!Pids, Forking!Exit(p)
      PROVE  ForOneLevel'
  <2>1. command' = command /\ commandArg' = commandArg
    BY <1>5 DEF Forking!Exit
  <2>2. 1 \in Forking!Pids
    BY DEF Forking!Pids, ForTypes
  <2>3. procs'[1].kids = procs[1].kids /\ Len(procs') = Len(procs)
    BY <1>5, <2>2, ForExitDoes
  <2> QED
    BY <2>1, <2>3 DEF ForOneLevel
<1> QED
  BY <1>1, <1>2, <1>3, <1>4, <1>5, ForSame DEF Forking!Next

LEMMA ForExitedIsFinite ==
  ForTypes => IsFiniteSet(ForExited)
<1> SUFFICES ASSUME ForTypes PROVE IsFiniteSet(ForExited)
  OBVIOUS
<1>1. Len(procs) \in Nat
  BY DEF ForTypes
<1>2. IsFiniteSet(1 .. Len(procs))
  BY <1>1, FS_Interval
<1> QED
  BY <1>2, FS_Subset DEF ForExited, Forking!Pids

LEMMA ForOutputStep ==
  ASSUME ForTypes, ForPlaces, Forked, ForOutput, [Forking!Next]_ForkingVars
  PROVE  ForOutput'
<1>1. CASE UNCHANGED ForkingVars
  BY <1>1 DEF ForkingVars, ForOutput, ForExited, Forking!Pids
<1>2. CASE Forking!Start
  <2>1. CASE procs'[1].pc = "failed"
    BY <2>1 DEF ForOutput
  <2>2. CASE procs'[1].pc # "failed" /\ command' # "tree"
    <3>1. /\ Len(procs') = 1 /\ procs'[1].pc = "fork" /\ terminal' \in BOOLEAN
          /\ procs'[1].held <=> ~ terminal'
          /\ shown' = IF terminal' THEN 1 ELSE 0
      BY <1>2, <2>2, ForStartDoes
    <3>2. Forking!Pids' = {1} /\ ForExited' = {}
      BY <3>1 DEF ForExited, Forking!Pids
    <3>3. procs'[1].held \in BOOLEAN
      <4>1. procs' \in Seq(ForProcesses) /\ 1 \in 1 .. Len(procs')
        BY <1>2, <3>1, ForStartDoes
      <4>2. procs'[1] \in ForProcesses
        BY <4>1
      <4> QED
        BY <4>2 DEF ForProcesses
    <3> QED
      BY <3>1, <3>2, <3>3, FS_EmptySet DEF ForOutput
  <2>3. CASE command' = "tree"
    BY <2>3 DEF ForOutput
  <2> QED
    BY <2>1, <2>2, <2>3
<1> SUFFICES ASSUME ~ Forking!Start, ~ UNCHANGED ForkingVars, command' \notin {"none", "tree"},
                    procs'[1].pc # "failed"
             PROVE  ForOutput'
  BY <1>1, <1>2 DEF ForOutput
<1>3. command' = command /\ terminal' = terminal
  BY ForSame DEF Forking!Next, Forking!Fork, Forking!Exec, Forking!Exit
<1>4. ASSUME NEW p \in Forking!Pids, Forking!Fork(p)
      PROVE  ForOutput'
  <2>1. p = 1 /\ procs[p].pc = "fork" /\ shown' = shown
    BY <1>3, <1>4, ForWhoForks DEF Forking!Fork
  <2>2. Len(procs) \in Nat /\ Len(procs) > 0 /\ \A q \in Forking!Pids : procs[q].held \in BOOLEAN
    <3>1. \A q \in Forking!Pids : procs[q].held \in BOOLEAN
      BY ForProcType
    <3> QED
      BY <3>1 DEF ForTypes, Forking!Pids
  <2>3. \A q \in Forking!Pids : procs'[q].pc = procs[q].pc /\ procs'[q].held = procs[q].held
    BY <1>4, ForkDoes DEF Forks
  <2>4. \/ Forking!Pids' = Forking!Pids
        \/ /\ Forking!Pids' = Forking!Pids \cup {Len(procs) + 1}
           /\ procs'[Len(procs) + 1].pc = "work"
           /\ procs'[Len(procs) + 1].held = procs[p].held
    <3>1. CASE Len(procs') = Len(procs)
      BY <3>1 DEF Forking!Pids
    <3>2. CASE Len(procs') = Len(procs) + 1 /\ ForBorn(Len(procs) + 1, p)
      <4>1. Forking!Pids' = Forking!Pids \cup {Len(procs) + 1}
        BY <2>2, <3>2 DEF Forking!Pids
      <4> QED
        BY <1>3, <3>2, <4>1 DEF ForBorn
    <3> QED
      BY <1>4, <3>1, <3>2, ForkDoes
  <2>5. ForExited' = ForExited
    BY <2>2, <2>3, <2>4 DEF ForExited
  <2>6. CASE terminal
    <3>1. shown = 1 /\ \A q \in Forking!Pids : ~ procs[q].held
      BY <1>3, <2>1, <2>6 DEF ForOutput
    <3>2. \A q \in Forking!Pids' : ~ procs'[q].held
      BY <2>3, <2>4, <3>1
    <3> QED
      BY <1>3, <2>1, <2>6, <3>1, <3>2 DEF ForOutput
  <2>7. CASE ~ terminal
    <3>1. shown = Cardinality(ForExited) /\ \A q \in Forking!Pids : procs[q].held <=> procs[q].pc # "exited"
      BY <1>3, <2>1, <2>7 DEF ForOutput
    <3>2. \A q \in Forking!Pids' : procs'[q].held <=> procs'[q].pc # "exited"
      BY <2>1, <2>3, <2>4, <3>1
    <3> QED
      BY <1>3, <2>1, <2>5, <2>7, <3>1, <3>2 DEF ForOutput
  <2> QED
    BY <2>6, <2>7
<1>5. ASSUME NEW p \in Forking!Pids, Forking!Exec(p)
      PROVE  ForOutput'
  BY <1>3, <1>5 DEF Forking!Exec, ForPlaces, ForPlace
<1>6. ASSUME NEW p \in Forking!Pids, Forking!Exit(p)
      PROVE  ForOutput'
  <2>1. /\ procs[p].pc \in {"work", "fork"}
        /\ shown' = IF procs[p].held THEN shown + 1 ELSE shown
    BY <1>6 DEF Forking!Exit
  <2>2. /\ Forking!Pids' = Forking!Pids /\ \A q \in Forking!Pids \ {p} : procs'[q] = procs[q]
        /\ procs'[p].pc = "exited" /\ procs'[p].held = FALSE
    BY <1>6, ForExitDoes DEF Forking!Pids
  <2>3. p \notin ForExited /\ ForExited' = ForExited \cup {p}
    BY <2>1, <2>2 DEF ForExited
  <2>4. Cardinality(ForExited') = Cardinality(ForExited) + 1
    BY <2>3, ForExitedIsFinite, FS_AddElement
  <2>5. procs[1].pc # "failed"
    <3>1. 1 \in Forking!Pids
      BY DEF ForTypes, Forking!Pids
    <3> QED
      BY <2>1, <2>2, <3>1
  <2>6. CASE terminal
    <3>1. shown = 1 /\ \A q \in Forking!Pids : ~ procs[q].held
      BY <1>3, <2>5, <2>6 DEF ForOutput
    <3>2. \A q \in Forking!Pids' : ~ procs'[q].held
      BY <2>2, <3>1
    <3> QED
      BY <1>3, <2>1, <2>6, <3>1, <3>2 DEF ForOutput
  <2>7. CASE ~ terminal
    <3>1. shown = Cardinality(ForExited) /\ \A q \in Forking!Pids : procs[q].held <=> procs[q].pc # "exited"
      BY <1>3, <2>5, <2>7 DEF ForOutput
    <3>2. \A q \in Forking!Pids' : procs'[q].held <=> procs'[q].pc # "exited"
      BY <2>2, <3>1
    <3>3. procs[p].held
      BY <2>1, <3>1
    <3> QED
      BY <1>3, <2>1, <2>4, <2>7, <3>1, <3>2, <3>3 DEF ForOutput
  <2> QED
    BY <2>6, <2>7
<1> QED
  BY <1>4, <1>5, <1>6, ForSame DEF Forking!Next

-----------------------------------------------------------------------------
(* The labels *)

\* What has gone wrong stays wrong.
LEMMA ForWrongStays ==
  ASSUME ForTypes, ForPlaces, command = "tree", Forking!Wrong, [Forking!Next]_ForkingVars
  PROVE  Forking!Wrong'
<1>1. CASE UNCHANGED ForkingVars
  BY <1>1 DEF ForkingVars, Forking!Wrong, Forking!Pids
<1>2. CASE Forking!Start
  BY <1>2 DEF Forking!Start
<1>3. PICK q \in Forking!Pids : \/ procs[q].pc = "failed"
                        \/ \E k \in 1 .. Len(procs[q].kids) : procs[q].kids[k] = Forking!Failed
  BY DEF Forking!Wrong
<1>4. ASSUME NEW p \in Forking!Pids, Forking!Fork(p)
      PROVE  Forking!Wrong'
  <2>1. q \in Forking!Pids' /\ procs'[q].pc = procs[q].pc
    <3>1. Len(procs) \in Nat /\ Len(procs') \in {Len(procs), Len(procs) + 1}
      BY <1>4, ForkDoes DEF ForTypes
    <3> QED
      BY <1>4, <3>1, ForkDoes DEF Forks, Forking!Pids
  <2>2. \A k \in 1 .. Len(procs[q].kids) :
          k \in 1 .. Len(procs'[q].kids) /\ procs'[q].kids[k] = procs[q].kids[k]
    <3>1. procs[q].kids \in Seq(Int)
      BY ForProcType
    <3>2. procs'[q].kids = procs[q].kids \/ \E c : procs'[q].kids = Append(procs[q].kids, c)
      BY <1>4, ForkDoes DEF Forks
    <3> QED
      BY <3>1, <3>2
  <2> QED
    BY <1>3, <2>1, <2>2 DEF Forking!Wrong
<1>5. ASSUME NEW p \in Forking!Pids, Forking!Exec(p) \/ Forking!Exit(p)
      PROVE  Forking!Wrong'
  <2>1. Forking!Pids' = Forking!Pids /\ \A r \in Forking!Pids \ {p} : procs'[r] = procs[r]
    BY <1>5, ForExecDoes, ForExitDoes DEF Forking!Pids
  <2>2. CASE q # p
    BY <1>3, <2>1, <2>2 DEF Forking!Wrong
  <2>3. CASE q = p
    <3>1. procs[p].pc # "failed"
      BY <1>5 DEF Forking!Exec, Forking!Exit
    <3>2. CASE Forking!Exec(p)
      <4>1. procs[p].kids = << >>
        BY <3>2 DEF Forking!Exec, ForPlaces, ForPlace
      <4> QED
        BY <1>3, <2>3, <3>1, <4>1
    <3>3. CASE Forking!Exit(p)
      <4>1. procs'[q].kids = procs[q].kids /\ q \in Forking!Pids'
        BY <2>1, <2>3, <3>3, ForExitDoes
      <4>2. PICK k \in 1 .. Len(procs[q].kids) : procs[q].kids[k] = Forking!Failed
        BY <1>3, <2>3, <3>1
      <4> QED
        BY <4>1, <4>2 DEF Forking!Wrong
    <3> QED
      BY <1>5, <3>2, <3>3
  <2> QED
    BY <2>2, <2>3
<1> QED
  BY <1>1, <1>2, <1>4, <1>5, ForSame DEF Forking!Next

\* A label tells that of the parent, and which of the children it is.
LEMMA ForUnword ==
  ASSUME NEW s, NEW l \in Int, NEW k \in {1, 2}, l + 1 \in s, \A x \in s : x >= l + 1
  PROVE  /\ l + 1 \in ForWord(s, l, k) <=> k = 1
         /\ k = 1 => s = ForWord(s, l, k) \ {l}
         /\ k # 1 => s = (ForWord(s, l, k) \ {l}) \cup {l + 1}
<1>1. l \notin s /\ l # l + 1
  OBVIOUS
<1>2. CASE k = 1
  BY <1>1, <1>2 DEF ForWord
<1>3. CASE k = 2
  <2>1. ForWord(s, l, k) = (s \ {l + 1}) \cup {l}
    BY <1>3 DEF ForWord
  <2>2. PICK m : m = l + 1
    OBVIOUS
  <2>3. s = (((s \ {m}) \cup {l}) \ {l}) \cup {m}
    BY <1>1, <2>2
  <2> QED
    BY <1>1, <1>3, <2>1, <2>2, <2>3
<1> QED
  BY <1>2, <1>3

\* The label of a new process is one that nobody has.
LEMMA ForNewLabel ==
  ASSUME ForTypes, ForPlaces, Forked, ForDescend, command = "tree", commandArg > 0, ~ Forking!Wrong,
         NEW f, ForLabels(f), NEW p \in Forking!Pids, Forking!Fork(p),
         NEW k, k = Len(procs[p].kids) + 1
  PROVE  LET new == ForWord(f[p], procs[p].level, k) IN
         /\ new \in SUBSET (1 .. commandArg + 1)
         /\ procs[p].level \in new /\ \A x \in new : x >= procs[p].level
         /\ \A q \in Forking!Pids : f[q] # new
<1> DEFINE l == procs[p].level
           new == ForWord(f[p], l, k)
<1>1. commandArg \in Int /\ l \in Int /\ l > 0 /\ l <= commandArg /\ k \in {1, 2} /\ procs[p].pc = "fork"
  <2>1. commandArg \in Int /\ l \in Int /\ l > 0 /\ l <= commandArg /\ procs[p].pc = "fork"
    BY ForWhoForks, ForProcType DEF ForTypes
  <2>2. procs[p].i = Len(procs[p].kids) /\ procs[p].i + 1 <= 2
    BY <2>1, ForWhoForks DEF Forking!s32CHDNo
  <2>3. Len(procs[p].kids) \in Nat
    BY ForProcType
  <2> QED
    BY <2>1, <2>2, <2>3
<1>2. l + 1 \in f[p] /\ \A x \in f[p] : x >= l + 1
  BY <1>1 DEF ForLabels, ForHeight
<1>3. f[p] \in SUBSET (1 .. commandArg + 1)
  BY DEF ForLabels
<1> HIDE DEF l
<1>4. new \in SUBSET (1 .. commandArg + 1) /\ l \in new /\ \A x \in new : x >= l
  BY <1>1, <1>2, <1>3 DEF ForWord
<1>5. l + 1 \in new <=> k = 1
  BY <1>1, <1>2, ForUnword
<1>6. (k = 1 => f[p] = new \ {l}) /\ (k # 1 => f[p] = (new \ {l}) \cup {l + 1})
  BY <1>1, <1>2, ForUnword
<1>7. ASSUME NEW q \in Forking!Pids, f[q] = new
      PROVE  FALSE
  <2>1. q # 1
    BY <1>1, <1>4, <1>7 DEF ForLabels
  <2>2. PICK r \in Forking!Pids : \E j \in 1 .. Len(procs[r].kids) : procs[r].kids[j] = q
    BY <2>1 DEF ForLabels
  <2>3. PICK j \in 1 .. Len(procs[r].kids) : procs[r].kids[j] = q
    BY <2>2
  <2> DEFINE m == procs[r].level
  <2>4. f[q] = ForWord(f[r], m, j)
    BY <2>3 DEF ForLabels
  <2>5. procs[r].pc # "failed" /\ procs[q].pc # "failed" /\ procs[r].pc # "exec"
    BY <2>3 DEF Forking!Wrong, ForPlaces, ForPlace
  <2>6. m + 1 \in f[r] /\ (\A x \in f[r] : x >= m + 1) /\ f[r] \in SUBSET (1 .. commandArg + 1)
    BY <2>5 DEF ForLabels, ForHeight
  <2>7. m \in Int /\ j \in {1, 2}
    <3>1. m \in Int /\ procs[r].pc \in {"fork", "work", "exited"} /\ Len(procs[r].kids) \in Nat
      BY <2>5, ForProcType DEF ForStates
    <3>2. procs[r].pc # "work"
      BY <2>3 DEF ForPlaces, ForPlace
    <3>3. Len(procs[r].kids) <= 2
      BY <3>1, <3>2 DEF Forked, Forking!s32CHDNo
    <3> QED
      BY <2>3, <3>1, <3>3
  <2> HIDE DEF m
  <2>8. m \in f[q] /\ \A x \in f[q] : x >= m
    BY <2>4, <2>6, <2>7 DEF ForWord
  <2>9. m = l
    BY <1>1, <1>4, <1>7, <2>7, <2>8
  <2>10. l + 1 \in f[q] <=> j = 1
    BY <1>1, <2>4, <2>6, <2>7, <2>9, ForUnword
  <2>11. (j = 1 => f[r] = f[q] \ {l}) /\ (j # 1 => f[r] = (f[q] \ {l}) \cup {l + 1})
    BY <1>1, <2>4, <2>6, <2>7, <2>9, ForUnword
  <2>12. j = k
    BY <1>1, <1>5, <1>7, <2>7, <2>10
  <2>13. f[r] = f[p]
    BY <1>6, <1>7, <2>11, <2>12
  <2>14. r = p
    BY <2>13 DEF ForLabels
  <2>15. Len(procs[p].kids) \in Nat
    BY ForProcType
  <2> QED
    BY <2>3, <2>12, <2>14, <2>15
<1> QED
  BY <1>4, <1>7 DEF l

\* Processes that keep their kids and their height keep their labels.
LEMMA ForLabelsKept ==
  ASSUME ForTypes, Len(procs') = Len(procs), commandArg' = commandArg, NEW f, ForLabels(f),
         \A p \in Forking!Pids :
           /\ procs'[p].kids = procs[p].kids
           /\ ForHeight(p)' = ForHeight(p)
           /\ procs[p].kids # << >> => procs'[p].level = procs[p].level
  PROVE  ForLabels(f)'
<1>1. Forking!Pids' = Forking!Pids
  BY DEF Forking!Pids
<1>2. \A p \in Forking!Pids : \A k \in 1 .. Len(procs[p].kids) : procs'[p].level = procs[p].level
  OBVIOUS
<1>3. \A p \in Forking!Pids : ForHeight(p)' + 1 \in f[p] /\ \A x \in f[p] : x >= ForHeight(p)' + 1
  BY DEF ForLabels
<1>4. \A p \in Forking!Pids : \A k \in 1 .. Len(procs'[p].kids) : \A c \in Forking!Pids :
        procs'[p].kids[k] = c => f[c] = ForWord(f[p], procs'[p].level, k)
  <2> SUFFICES ASSUME NEW p \in Forking!Pids, NEW k \in 1 .. Len(procs'[p].kids), NEW c \in Forking!Pids,
                      procs'[p].kids[k] = c
               PROVE  f[c] = ForWord(f[p], procs'[p].level, k)
    OBVIOUS
  <2>1. k \in 1 .. Len(procs[p].kids) /\ procs[p].kids[k] = c
    OBVIOUS
  <2> QED
    BY <1>2, <2>1 DEF ForLabels
<1>5. \A c \in Forking!Pids \ {1} : \E p \in Forking!Pids : \E k \in 1 .. Len(procs'[p].kids) :
        procs'[p].kids[k] = c
  BY DEF ForLabels
<1> QED
  BY <1>1, <1>3, <1>4, <1>5 DEF ForLabels

LEMMA ForFullStep ==
  ASSUME ForTypes, ForPlaces, Forked, ForDescend, ForFull, [Forking!Next]_ForkingVars
  PROVE  ForFull'
<1>1. CASE UNCHANGED ForkingVars
  <2>1. UNCHANGED <<command, commandArg, procs>>
    BY <1>1 DEF ForkingVars
  <2>2. Len(procs') = Len(procs) /\ \A p \in Forking!Pids : procs'[p] = procs[p] /\ ForHeight(p)' = ForHeight(p)
    BY <2>1 DEF ForHeight
  <2>3. Forking!Wrong' <=> Forking!Wrong
    BY <2>1 DEF Forking!Wrong, Forking!Pids
  <2>4. \A f : ForLabels(f) => ForLabels(f)'
    BY <2>1, <2>2, ForLabelsKept
  <2> QED
    BY <2>1, <2>3, <2>4 DEF ForFull
<1>2. CASE Forking!Start /\ command' = "tree" /\ commandArg' > 0 /\ ~ Forking!Wrong'
  <2>1. /\ Len(procs') = 1 /\ procs'[1].level = commandArg' /\ procs'[1].kids = << >>
        /\ procs'[1].pc \in {"fork", "failed"} /\ commandArg' \in Int
    BY <1>2, ForStartDoes
  <2>2. Forking!Pids' = {1} /\ ForHeight(1)' = commandArg'
    BY <2>1 DEF Forking!Pids, ForHeight
  <2>0. PICK a \in Nat : a = commandArg' /\ a > 0
    BY <1>2, <2>1
  <2>3. PICK f : f = [p \in {1} |-> {a + 1}]
    OBVIOUS
  <2>4. \A p \in {1} : ForHeight(p)' + 1 \in f[p] /\ \A x \in f[p] : x >= ForHeight(p)' + 1
    <3>1. \A p \in {1} : ForHeight(p)' = a
      BY <2>0, <2>2
    <3> QED
      BY <2>3, <3>1
  <2>5. \A p \in {1} : 1 .. Len(procs'[p].kids) = {}
    BY <2>1
  <2>6. ForLabels(f)'
    <3>1. f \in [Forking!Pids' -> SUBSET (1 .. commandArg' + 1)] /\ f[1] = {commandArg' + 1}
      <4>1. \A n \in Nat : n + 1 \in 1 .. n + 1
        OBVIOUS
      <4>2. {a + 1} \in SUBSET (1 .. a + 1)
        BY <4>1, <2>0
      <4> QED
        BY <2>0, <2>2, <2>3, <4>2
    <3>2. \A p \in Forking!Pids' : \A k \in 1 .. Len(procs'[p].kids) : \A c \in Forking!Pids' :
            procs'[p].kids[k] = c => f[c] = ForWord(f[p], procs'[p].level, k)
      BY <2>2, <2>5
    <3>3. \A p, q \in Forking!Pids' : f[p] = f[q] => p = q
      BY <2>2
    <3>4. Forking!Pids' \ {1} = {}
      BY <2>2
    <3>5. \A p \in Forking!Pids' : ForHeight(p)' + 1 \in f[p] /\ \A x \in f[p] : x >= ForHeight(p)' + 1
      BY <2>2, <2>4
    <3> QED
      BY <3>1, <3>2, <3>3, <3>4, <3>5 DEF ForLabels
  <2> QED
    BY <2>6 DEF ForFull
<1> SUFFICES ASSUME ~ Forking!Start, ~ UNCHANGED ForkingVars, command' = "tree", commandArg' > 0, ~ Forking!Wrong'
             PROVE  \E f : ForLabels(f)'
  BY <1>1, <1>2 DEF ForFull
<1>3. command = "tree" /\ commandArg' = commandArg
  BY ForSame DEF Forking!Next, Forking!Fork, Forking!Exec, Forking!Exit
<1>4. ~ Forking!Wrong
  BY <1>3, ForWrongStays
<1>5. PICK f : ForLabels(f)
  BY <1>3, <1>4 DEF ForFull
<1>6. ASSUME NEW p \in Forking!Pids, Forking!Exec(p)
      PROVE  ForLabels(f)'
  <2>1. Len(procs') = Len(procs) /\ (\A q \in Forking!Pids \ {p} : procs'[q] = procs[q]) /\ p \in Forking!Pids'
    BY <1>6, ForExecDoes DEF Forking!Pids
  <2>2. procs'[p].pc # "failed"
    BY <2>1 DEF Forking!Wrong
  <2>3. procs[p].pc = "exec" /\ procs[p].kids = << >>
    BY <1>6 DEF Forking!Exec, ForPlaces, ForPlace
  <2>4. procs'[p].pc = "fork" /\ procs'[p].level = procs[p].level - 1 /\ procs'[p].kids = << >>
    BY <1>6, <2>2, ForExecDoes
  <2>5. \A q \in Forking!Pids : ForHeight(q)' = ForHeight(q)
    BY <2>1, <2>3, <2>4 DEF ForHeight
  <2>6. \A q \in Forking!Pids :
          /\ procs'[q].kids = procs[q].kids
          /\ procs[q].kids # << >> => procs'[q].level = procs[q].level
    BY <2>1, <2>3, <2>4
  <2> QED
    BY <1>3, <1>5, <2>1, <2>5, <2>6, ForLabelsKept
<1>7. ASSUME NEW p \in Forking!Pids, Forking!Exit(p)
      PROVE  ForLabels(f)'
  <2>1. /\ Len(procs') = Len(procs) /\ \A q \in Forking!Pids \ {p} : procs'[q] = procs[q]
        /\ procs'[p].pc = "exited" /\ procs'[p].level = procs[p].level
        /\ procs'[p].kids = procs[p].kids
    BY <1>7, ForExitDoes
  <2>2. procs[p].pc # "exec"
    BY <1>7 DEF Forking!Exit
  <2>3. \A q \in Forking!Pids : ForHeight(q)' = ForHeight(q)
    BY <2>1, <2>2 DEF ForHeight
  <2>4. \A q \in Forking!Pids :
          /\ procs'[q].kids = procs[q].kids
          /\ procs[q].kids # << >> => procs'[q].level = procs[q].level
    BY <2>1
  <2> QED
    BY <1>3, <1>5, <2>1, <2>3, <2>4, ForLabelsKept
<1>8. ASSUME NEW p \in Forking!Pids, Forking!Fork(p)
      PROVE  \E g : ForLabels(g)'
  <2>0. PICK n \in Nat : n = Len(procs) + 1
    BY DEF ForTypes
  <2>1. PICK k \in Nat : k = Len(procs[p].kids) + 1
    BY ForProcType
  <2>2. procs[p].kids \in Seq(Int) /\ procs[p].level \in Int /\ Len(procs) \in Nat
    BY ForProcType DEF ForTypes
  <2>3. \A q \in Forking!Pids :
          /\ procs'[q].level = procs[q].level /\ procs'[q].pc = procs[q].pc
          /\ q # p => procs'[q].kids = procs[q].kids
    BY <1>8, ForkDoes DEF Forks
  <2>4. Len(procs') = n /\ procs'[p].kids = Append(procs[p].kids, n) /\ ForBorn(n, p)
    <3>1. CASE Len(procs') = Len(procs) /\ Forks(p, Forking!Failed)
      <4>1. procs'[p].kids = Append(procs[p].kids, Forking!Failed) /\ p \in Forking!Pids'
        BY <3>1 DEF Forks, Forking!Pids
      <4>2. procs'[p].kids[k] = Forking!Failed /\ k \in 1 .. Len(procs'[p].kids)
        BY <2>1, <2>2, <4>1
      <4> QED
        BY <4>1, <4>2 DEF Forking!Wrong
    <3> QED
      BY <1>8, <2>0, <3>1, ForkDoes DEF Forks
  <2>5. /\ Len(procs'[p].kids) = k /\ procs'[p].kids[k] = n
        /\ \A j \in 1 .. k - 1 : procs'[p].kids[j] = procs[p].kids[j]
        /\ k - 1 = Len(procs[p].kids)
    BY <2>1, <2>2, <2>4
  <2>6. Forking!Pids' = Forking!Pids \cup {n} /\ n \notin Forking!Pids /\ n # 1 /\ 1 \in Forking!Pids
    BY <2>0, <2>2, <2>4 DEF Forking!Pids
  <2>7. /\ procs'[n].pc = "exec" /\ procs'[n].level = procs[p].level /\ procs'[n].kids = << >>
    BY <1>3, <2>4 DEF ForBorn
  <2> DEFINE new == ForWord(f[p], procs[p].level, k)
  <2>8. PICK w : w = new
    OBVIOUS
  <2>9. /\ w \in SUBSET (1 .. commandArg + 1)
        /\ procs[p].level \in w /\ \A x \in w : x >= procs[p].level
        /\ \A q \in Forking!Pids : f[q] # w
    BY <1>3, <1>4, <1>5, <1>8, <2>1, <2>8, ForNewLabel
  <2>10. PICK g : g = [q \in Forking!Pids \cup {n} |-> IF q = n THEN w ELSE f[q]]
    OBVIOUS
  <2>11. g \in [Forking!Pids \cup {n} -> SUBSET (1 .. commandArg + 1)] /\ g[n] = w /\ \A q \in Forking!Pids : g[q] = f[q]
    <3>1. f \in [Forking!Pids -> SUBSET (1 .. commandArg + 1)]
      BY <1>5 DEF ForLabels
    <3> QED
      BY <2>6, <2>9, <2>10, <3>1
  <2>12. \A q \in Forking!Pids : ForHeight(q)' = ForHeight(q)
    BY <2>3 DEF ForHeight
  <2>13. ForHeight(n)' + 1 = procs[p].level
    BY <2>2, <2>7 DEF ForHeight
  <2>14. \A q \in Forking!Pids' : ForHeight(q)' + 1 \in g[q] /\ \A x \in g[q] : x >= ForHeight(q)' + 1
    BY <1>5, <2>6, <2>9, <2>11, <2>12, <2>13 DEF ForLabels
  <2>15. ASSUME NEW q \in Forking!Pids', NEW j \in 1 .. Len(procs'[q].kids), NEW c \in Forking!Pids',
                procs'[q].kids[j] = c
         PROVE  g[c] = ForWord(g[q], procs'[q].level, j)
    <3>1. q \in Forking!Pids
      BY <2>6, <2>7
    <3>2. CASE j \in 1 .. Len(procs[q].kids) /\ procs'[q].kids[j] = procs[q].kids[j]
      <4>1. c \in Forking!Pids
        <5>1. c \in Int
          BY <2>6 DEF Forking!Pids
        <5>2. c # Forking!Failed
          BY <1>4, <2>15, <3>1, <3>2 DEF Forking!Wrong
        <5> QED
          BY <1>3, <2>15, <3>1, <3>2, <5>1, <5>2 DEF ForDescend
      <4>2. f[c] = ForWord(f[q], procs[q].level, j)
        BY <1>5, <2>15, <3>1, <3>2, <4>1 DEF ForLabels
      <4> QED
        BY <2>3, <2>11, <3>1, <4>1, <4>2
    <3>3. CASE q = p /\ j = k
      <4>1. c = n
        BY <2>5, <2>15, <3>3
      <4> QED
        BY <2>3, <2>8, <2>11, <3>3, <4>1
    <3>4. q = p => j \in 1 .. k
      BY <2>5
    <3>5. q # p => procs'[q].kids = procs[q].kids
      BY <2>3, <3>1
    <3> QED
      BY <2>1, <2>5, <3>2, <3>3, <3>4, <3>5
  <2>16. \A q, r \in Forking!Pids' : g[q] = g[r] => q = r
    BY <1>5, <2>6, <2>9, <2>11 DEF ForLabels
  <2>17. ASSUME NEW c \in Forking!Pids' \ {1}
         PROVE  \E q \in Forking!Pids' : \E j \in 1 .. Len(procs'[q].kids) : procs'[q].kids[j] = c
    <3>1. CASE c = n
      BY <2>1, <2>5, <2>6, <3>1
    <3>2. CASE c # n
      <4>1. PICK q \in Forking!Pids : \E j \in 1 .. Len(procs[q].kids) : procs[q].kids[j] = c
        BY <1>5, <2>6, <3>2 DEF ForLabels
      <4>2. PICK j \in 1 .. Len(procs[q].kids) : procs[q].kids[j] = c
        BY <4>1
      <4>3. j \in 1 .. Len(procs'[q].kids) /\ procs'[q].kids[j] = c
        BY <2>1, <2>3, <2>5, <4>2
      <4> QED
        BY <2>6, <4>3
    <3> QED
      BY <3>1, <3>2
  <2>18. g[1] = {commandArg + 1}
    BY <1>5, <2>6, <2>11 DEF ForLabels
  <2>19. g \in [Forking!Pids' -> SUBSET (1 .. commandArg' + 1)] /\ g[1] = {commandArg' + 1}
    BY <1>3, <2>6, <2>11, <2>18
  <2> QED
    BY <2>14, <2>15, <2>16, <2>17, <2>19 DEF ForLabels
<1> QED
  BY <1>6, <1>7, <1>8, ForSame DEF Forking!Next

-----------------------------------------------------------------------------
(* What the invariant tells *)

ForksInv == ForTypes /\ ForPlaces /\ Forked /\ ForDescend /\ ForOneLevel /\ ForOutput /\ ForFull

LEMMA ForksInit == Forking!Init => ForksInv
<1> SUFFICES ASSUME Forking!Init PROVE ForksInv
  OBVIOUS
<1>1. Len(procs) = 0 /\ Forking!Pids = {} /\ command = "none"
  BY DEF Forking!Init, Forking!Pids
<1>2. ForTypes
  BY <1>1 DEF Forking!Init, ForTypes
<1> QED
  BY <1>1, <1>2 DEF ForksInv, ForPlaces, Forked, ForDescend, ForOneLevel, ForOutput, ForFull

LEMMA ForksStep == ForksInv /\ [Forking!Next]_ForkingVars => ForksInv'
  BY ForTypesStep, ForPlacesStep, ForkedStep, ForDescendStep, ForOneLevelStep, ForOutputStep,
     ForFullStep
     DEF ForksInv

\* In a tree without failures each process that has exited has its two children.
LEMMA ForTwoKids ==
  ASSUME ForksInv, Forking!Ended, command = "tree", commandArg > 0, ~ Forking!Wrong, NEW p \in Forking!Pids,
         procs[p].level > 0
  PROVE  procs[p].pc = "exited" /\ Len(procs[p].kids) = 2
<1>1. procs[p].pc = "exited"
  BY DEF Forking!Ended, Forking!Wrong
<1>2. Forking!s32CHDNo(p) = 2
  BY DEF Forking!s32CHDNo
<1>3. Len(procs[p].kids) \in Nat
  BY ForProcType DEF ForksInv
<1>4. /\ procs[p].i = Len(procs[p].kids) /\ procs[p].i >= Forking!s32CHDNo(p)
      /\ procs[p].i <= Forking!s32CHDNo(p) \/ procs[p].i = 0
  BY <1>1 DEF ForksInv, Forked
<1>5. PICK n \in Nat : n = Len(procs[p].kids)
  BY <1>3
<1>6. n >= 2 /\ (n <= 2 \/ n = 0)
  BY <1>2, <1>4, <1>5
<1>7. n = 2
  BY <1>6
<1> QED
  BY <1>1, <1>5, <1>7

\* The process whose label is one level above has a child with the label.
LEMMA ForLabelBelow ==
  ASSUME ForksInv, Forking!Ended, command = "tree", commandArg > 0, ~ Forking!Wrong, NEW f, ForLabels(f),
         NEW s \in SUBSET (1 .. commandArg + 1), NEW l \in Nat, l \in s, \A x \in s : x >= l, l > 0,
         NEW k \in {1, 2}, k = 1 <=> l + 1 \in s, NEW p \in Forking!Pids,
         f[p] = (s \ {l}) \cup {l + 1}
  PROVE  \E c \in Forking!Pids : f[c] = s
<1>1. /\ procs[p].pc = "exited" => ForHeight(p) = procs[p].level
      /\ procs[p].level \in Int
  BY ForProcType DEF ForHeight, ForksInv
<1>2. procs[p].pc = "exited"
  BY DEF Forking!Ended, Forking!Wrong
<1>3. procs[p].level = l
  <2>1. ForHeight(p) + 1 \in f[p] /\ \A x \in f[p] : x >= ForHeight(p) + 1
    BY DEF ForLabels
  <2>2. l + 1 \in f[p] /\ \A x \in f[p] : x >= l + 1
    <3>1. commandArg \in Nat
      BY DEF ForksInv, ForTypes
    <3>2. ASSUME NEW x \in f[p]
          PROVE  x >= l + 1
      <4>1. CASE x = l + 1
        BY <4>1
      <4>2. CASE x \in s \ {l}
        BY <3>1, <4>2
      <4> QED
        BY <4>1, <4>2
    <3>3. l + 1 \in f[p]
      OBVIOUS
    <3> QED
      BY <3>2, <3>3
  <2> QED
    BY <1>1, <1>2, <2>1, <2>2
<1>4. k \in 1 .. Len(procs[p].kids)
  <2>1. Len(procs[p].kids) = 2
    BY <1>3, ForTwoKids
  <2> QED
    BY <2>1
<1>5. PICK c \in Int : c = procs[p].kids[k]
  BY <1>4, ForProcType DEF ForksInv
<1>6. c \in Forking!Pids
  <2>1. c # Forking!Failed
    BY <1>4, <1>5 DEF Forking!Wrong
  <2> QED
    BY <1>4, <1>5, <2>1 DEF ForksInv, ForDescend
<1>7. f[c] = ForWord(f[p], l, k)
  <2>1. \A q \in Forking!Pids : \A j \in 1 .. Len(procs[q].kids) : \A d \in Forking!Pids :
          procs[q].kids[j] = d => f[d] = ForWord(f[q], procs[q].level, j)
    BY Zenon DEF ForLabels
  <2>2. f[c] = ForWord(f[p], procs[p].level, k)
    BY <1>4, <1>5, <1>6, <2>1, Zenon
  <2> QED
    BY <1>3, <2>2
<1>8. ForWord(f[p], l, k) = s
  <2>1. CASE k = 1
    BY <2>1 DEF ForWord
  <2>2. CASE k = 2
    <3>1. PICK m : m = l + 1
      OBVIOUS
    <3>2. m \notin s /\ l # m
      BY <2>2, <3>1
    <3>3. ((((s \ {l}) \cup {m}) \ {m}) \cup {l}) = s
      BY <3>2
    <3> QED
      BY <2>2, <3>1, <3>3 DEF ForWord
  <2> QED
    BY <2>1, <2>2
<1> QED
  BY <1>6, <1>7, <1>8

LEMMA ForEveryLabel ==
  ASSUME ForksInv, Forking!Ended, command = "tree", commandArg > 0, ~ Forking!Wrong, NEW f, ForLabels(f),
         NEW s0 \in SUBSET (1 .. commandArg + 1), s0 # {}
  PROVE  \E p \in Forking!Pids : f[p] = s0
<1> DEFINE Least(s, m) == m \in s /\ \A x \in s : x >= m
           Missing(s) == \A p \in Forking!Pids : f[p] # s
           Depths == {n \in Nat : \E s \in SUBSET (1 .. commandArg + 1) : \E m \in s :
                        Least(s, m) /\ Missing(s) /\ n = commandArg + 1 - m}
<1>1. commandArg \in Nat
  BY DEF ForksInv, ForTypes
<1>2. ASSUME NEW s \in SUBSET (1 .. commandArg + 1), s # {}
      PROVE  \E m \in s : m \in 1 .. commandArg + 1 /\ Least(s, m)
  <2>1. s \subseteq Nat
    BY <1>1
  <2>2. PICK m \in s : \A x \in s : m <= x
    BY <1>2, <2>1, LeastNumber
  <2> QED
    BY <1>1, <2>1, <2>2
<1> SUFFICES ASSUME Missing(s0) PROVE FALSE
  OBVIOUS
<1>3. Depths # {}
  <2>1. PICK m \in s0 : m \in 1 .. commandArg + 1 /\ Least(s0, m)
    BY <1>2
  <2>2. commandArg + 1 - m \in Nat
    BY <1>1, <2>1
  <2>3. commandArg + 1 - m \in Depths
    BY <2>1, <2>2
  <2> QED
    BY <2>3
<1>4. PICK n \in Depths : \A o \in Depths : n <= o
  <2>1. Depths \subseteq Nat
    OBVIOUS
  <2> HIDE DEF Depths
  <2> QED
    BY <1>3, <2>1, LeastNumber
<1>5. PICK s \in SUBSET (1 .. commandArg + 1) : \E m \in s : Least(s, m) /\ Missing(s) /\ n = commandArg + 1 - m
  BY <1>4
<1>6. PICK l \in s : Least(s, l) /\ Missing(s) /\ n = commandArg + 1 - l
  BY <1>5
<1>7. l \in 1 .. commandArg + 1 /\ l \in Nat
  BY <1>1, <1>5, <1>6
<1>8. CASE l = commandArg + 1
  <2>1. s = {commandArg + 1}
    <3>1. \A x \in s : x = commandArg + 1
      BY <1>1, <1>5, <1>6, <1>8
    <3> QED
      BY <1>6, <3>1
  <2>2. 1 \in Forking!Pids /\ f[1] = {commandArg + 1}
    BY DEF ForLabels, ForksInv, ForTypes, Forking!Pids
  <2> QED
    BY <1>6, <2>1, <2>2
<1>9. CASE l < commandArg + 1
  <2> DEFINE up == (s \ {l}) \cup {l + 1}
  <2>1. up \in SUBSET (1 .. commandArg + 1) /\ Least(up, l + 1)
    BY <1>1, <1>5, <1>6, <1>7, <1>9
  <2>2. \E p \in Forking!Pids : f[p] = up
    <3> SUFFICES ASSUME Missing(up) PROVE FALSE
      OBVIOUS
    <3>1. commandArg + 1 - (l + 1) \in Nat /\ commandArg + 1 - (l + 1) < n
      BY <1>1, <1>6, <1>7, <1>9
    <3>2. commandArg + 1 - (l + 1) \in Depths
      <4> HIDE DEF up, Missing, Least
      <4>1. l + 1 \in up
        BY DEF up
      <4> QED
        BY <2>1, <3>1, <4>1
    <3>3. n \in Nat
      BY <1>4
    <3> HIDE DEF Depths
    <3>4. PICK o \in Depths : o = commandArg + 1 - (l + 1)
      BY <3>2
    <3>5. n <= o /\ o < n /\ o \in Nat
      BY <1>4, <3>1, <3>4
    <3> QED
      BY <3>3, <3>5
  <2>3. PICK p \in Forking!Pids : f[p] = up
    BY <2>2
  <2>4. PICK k \in {1, 2} : k = 1 <=> l + 1 \in s
    <3>1. CASE l + 1 \in s
      BY <3>1
    <3>2. CASE l + 1 \notin s
      BY <3>2
    <3> QED
      BY <3>1, <3>2
  <2>5. \E c \in Forking!Pids : f[c] = s
    BY <1>5, <1>6, <1>7, <2>3, <2>4, ForLabelBelow
  <2> QED
    BY <1>6, <2>5
<1> QED
  BY <1>1, <1>7, <1>8, <1>9

LEMMA ForTreeIsFull ==
  ASSUME ForksInv, Forking!Ended, command = "tree", commandArg > 0, ~ Forking!Wrong
  PROVE  Len(procs) = 2 ^ (commandArg + 1) - 1
<1>1. PICK f : ForLabels(f)
  BY DEF ForksInv, ForFull
<1>2. commandArg \in Nat /\ Len(procs) \in Nat
  BY DEF ForksInv, ForTypes
<1> DEFINE T == 1 .. commandArg + 1
           Sets == (SUBSET T) \ {{}}
<1>3. IsFiniteSet(Forking!Pids) /\ Cardinality(Forking!Pids) = Len(procs)
  BY <1>2, FS_Interval DEF Forking!Pids
<1>4. IsFiniteSet(T) /\ Cardinality(T) = commandArg + 1
  BY <1>2, FS_Interval
<1>5. IsFiniteSet(SUBSET T) /\ Cardinality(SUBSET T) = 2 ^ (commandArg + 1)
  BY <1>4, FS_SUBSET
<1>6. Cardinality(Sets) = 2 ^ (commandArg + 1) - 1
  <2>1. {} \in SUBSET T
    OBVIOUS
  <2> HIDE DEF T
  <2> QED
    BY <1>5, <2>1, FS_RemoveElement
<1>7. f \in [Forking!Pids -> Sets]
  <2>1. \A p \in Forking!Pids : f[p] # {} /\ f[p] \in SUBSET T
    BY <1>1 DEF ForLabels
  <2> QED
    BY <1>1, <2>1 DEF ForLabels
<1>8. \A p, q \in Forking!Pids : f[p] = f[q] => p = q
  BY <1>1 DEF ForLabels
<1>9. \A s \in Sets : \E p \in Forking!Pids : f[p] = s
  BY <1>1, ForEveryLabel
<1> HIDE DEF Sets, T
<1>10. ExistsBijection(Forking!Pids, Sets)
  <2>1. f \in Bijection(Forking!Pids, Sets)
    BY <1>7, <1>8, <1>9 DEF Bijection, Injection, Surjection, IsInjective
  <2> QED
    BY <2>1 DEF ExistsBijection
<1> QED
  BY <1>3, <1>6, <1>10, FS_Bijection

LEMMA ForAllForked ==
  ASSUME ForksInv, NEW p \in Forking!Pids, procs[p].pc = "exited", command = "tree" \/ p = 1
  PROVE  Len(procs[p].kids) = IF Forking!s32CHDNo(p) > 0 THEN Forking!s32CHDNo(p) ELSE 0
<1>1. PICK n \in Nat : n = Len(procs[p].kids)
  BY ForProcType DEF ForksInv
<1>2. PICK m \in Int : m = Forking!s32CHDNo(p)
  BY ForProcType DEF ForksInv
<1>3. /\ procs[p].i = Len(procs[p].kids) /\ procs[p].i >= Forking!s32CHDNo(p)
      /\ procs[p].i <= Forking!s32CHDNo(p) \/ procs[p].i = 0
  BY DEF ForksInv, Forked
<1>4. n >= m /\ (n <= m \/ n = 0)
  BY <1>1, <1>2, <1>3
<1>5. n = IF m > 0 THEN m ELSE 0
  BY <1>4
<1> QED
  BY <1>1, <1>2, <1>5

LEMMA ForHowMany ==
  ASSUME ForksInv, Forking!Ended, ~ Forking!Wrong
  PROVE  Len(procs) = CASE command = "fork" -> 2
                        [] command = "tree" -> IF commandArg > 0 THEN 2 ^ (commandArg + 1) - 1 ELSE 1
                        [] OTHER -> IF commandArg > 1 THEN commandArg ELSE 1
<1>1. commandArg \in Int /\ 1 \in Forking!Pids /\ command \in {"fork", "tree", "busyloop_rtfork"}
  BY DEF ForksInv, ForTypes, Forking!Ended, Forking!Pids
<1>2. CASE command = "tree"
  <2>1. CASE commandArg > 0
    BY <1>2, <2>1, ForTreeIsFull
  <2>2. CASE ~ (commandArg > 0)
    BY <1>1, <1>2, <2>2 DEF ForksInv, ForOneLevel
  <2> QED
    BY <1>2, <2>1, <2>2
<1>3. CASE command # "tree"
  <2>1. procs[1].pc = "exited" /\ \A k \in 1 .. Len(procs[1].kids) : procs[1].kids[k] # Forking!Failed
    BY <1>1 DEF Forking!Ended, Forking!Wrong
  <2>2. Len(procs) = 1 + Len(procs[1].kids)
    BY <1>1, <1>3, <2>1 DEF ForksInv, ForOneLevel
  <2>3. Len(procs[1].kids) = IF Forking!s32CHDNo(1) > 0 THEN Forking!s32CHDNo(1) ELSE 0
    BY <1>1, <2>1, ForAllForked
  <2>4. CASE command = "fork"
    <3>1. Forking!s32CHDNo(1) = 1
      BY <2>4 DEF Forking!s32CHDNo
    <3> QED
      BY <2>2, <2>3, <2>4, <3>1
  <2>5. CASE command = "busyloop_rtfork"
    <3>1. Forking!s32CHDNo(1) = commandArg - 1
      BY <2>5 DEF Forking!s32CHDNo
    <3> QED
      BY <1>1, <2>2, <2>3, <2>5, <3>1
  <2> QED
    BY <1>1, <1>3, <2>4, <2>5
<1> QED
  BY <1>2, <1>3

LEMMA ForInvTells == ForksInv => Forking!ForksAreSound
<1> SUFFICES ASSUME ForksInv PROVE Forking!ForksAreSound
  OBVIOUS
<1>1. ASSUME NEW p \in Forking!Pids
      PROVE  /\ command # "tree" => procs[p].parent \in {0, 1}
             /\ command = "tree" /\ p > 1 => procs[p].level \in 0 .. commandArg
  <2>1. ForPlace(p)
    BY DEF ForksInv, ForPlaces
  <2> QED
    BY <2>1 DEF ForPlace, Forking!Pids
<1>2. ASSUME command = "tree", NEW p \in Forking!Pids, NEW k \in 1 .. Len(procs[p].kids),
             procs[p].kids[k] # Forking!Failed, procs[procs[p].kids[k]].pc = "exited"
      PROVE  /\ procs[procs[p].kids[k]].parent = p
             /\ procs[procs[p].kids[k]].level = procs[p].level - 1
  <2>1. PICK c \in Int : c = procs[p].kids[k]
    BY ForProcType DEF ForksInv
  <2>2. procs[c].parent = p /\ ForHeight(c) = procs[p].level - 1
    BY <1>2, <2>1 DEF ForksInv, ForDescend
  <2> QED
    BY <1>2, <2>1, <2>2 DEF ForHeight
<1>3. Forking!TreeIsWhole
  BY <1>1, <1>2, ForAllForked, ForHowMany DEF Forking!TreeIsWhole
<1>4. ASSUME Forking!Ended, command # "tree", procs[1].pc = "exited"
      PROVE  shown = IF terminal THEN 1 ELSE Len(procs)
  <2>1. command # "none" /\ Len(procs) \in Nat
    <3>1. command # "none"
      BY <1>4 DEF Forking!Ended
    <3>2. Len(procs) \in Nat
      BY DEF ForksInv, ForTypes
    <3> QED
      BY <3>1, <3>2
  <2>2. CASE terminal
    BY <1>4, <2>1, <2>2 DEF ForksInv, ForOutput
  <2>3. CASE ~ terminal
    <3>1. \A p \in Forking!Pids : procs[p].pc = "exited"
      BY <1>4 DEF ForksInv, ForPlaces, ForPlace, Forking!Ended
    <3>2. ForExited = 1 .. Len(procs)
      BY <3>1 DEF ForExited, Forking!Pids
    <3>3. Cardinality(ForExited) = Len(procs)
      BY <2>1, <3>2, FS_Interval
    <3>4. shown = Cardinality(ForExited)
      BY <1>4, <2>1, <2>3 DEF ForksInv, ForOutput
    <3> QED
      BY <2>3, <3>3, <3>4
  <2> QED
    BY <2>2, <2>3
<1>5. Forking!PrintedForEach
  BY <1>4 DEF Forking!PrintedForEach
<1> QED
  BY <1>3, <1>5 DEF Forking!ForksAreSound

(***************************************************************************)
(* Without a failure there are 2 ^ (levels + 1) - 1 processes of tree.c,   *)
(* two of fork.c and as many of busyloop_rtfork.c as were asked for, and   *)
(* what was printed before fork() comes out once on a terminal and once    *)
(* for each process elsewhere: for any number on the command line.         *)
(***************************************************************************)
THEOREM ForksAreSoundHolds == ProgramsSpec => []ForksAreSound
  BY ForksInit, ForksStep, ForInvTells, ForFrame, PTL DEF ForksAreSound
=============================================================================
