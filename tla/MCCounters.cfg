\* Three threads with three increments each.
SPECIFICATION FairSpec
CONSTANTS
  Threads = 3
  IRT_TIME = 3
  Program = {"race", "atomic", "mutex"}
INVARIANT Safety
PROPERTY ThreadsFinish
