\* Two cores with two threads each, a cabin of three numbers.
SPECIFICATION FairSpec
CONSTANTS
  PCPUcnt = 2
  s32pthpercore = 2
  s32cnt = 3
  MaxSpurious = 1
  Config <- AllConfigs
INVARIANTS
  Safety
  PicksInTurn
  DoomedNeverWorks
PROPERTY SafeConfigEnds
\* Some builds and configurations do hang: which ones is what the run is about.
CHECK_DEADLOCK FALSE
