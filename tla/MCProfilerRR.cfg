\* The shipped exp.cfg ("2 2 1") under SCHED_RR.
SPECIFICATION FairSpec
CONSTANTS
  PCPUcnt = 2
  s32pthpercore = 2
  s32cnt = 2
  MaxSpurious = 1
  Config <- ShippedConfigs
PROPERTY RRGoesWell
CHECK_DEADLOCK FALSE
