\* Three threads, three uses, and a counter of the smallest width.
SPECIFICATION FairSpec
CONSTANTS
  Thread = {t1, t2, t3}
  Modulus = 2
  MaxCalls = 3
INVARIANT IInv
PROPERTIES
  RefinesBarrier
  Termination
