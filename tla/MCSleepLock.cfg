\* Four threads, one per core of the Raspberry Pi 3.
SPECIFICATION FairSpec
CONSTANT Thread = {t1, t2, t3, t4}
INVARIANT IInv
PROPERTIES
  RefinesMutex
  LostForEver
  OnlyStoreLoses
  CompletesUnlessLost
