\* Four threads, one per core of the Raspberry Pi 3; weak compare-exchange.
SPECIFICATION FairSpec
CONSTANTS
  Thread = {t1, t2, t3, t4}
  WeakMayFail = TRUE
INVARIANTS
  IInv
  ExitLeavesLockHeld
PROPERTIES
  Termination
  RefinesMutex
