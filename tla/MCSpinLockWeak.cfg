\* Can unlock() fail for the thread that holds the lock?
SPECIFICATION Spec
CONSTANTS
  Thread = {t1, t2, t3}
  WeakMayFail = TRUE
INVARIANT ErrorMeansNotLocked
