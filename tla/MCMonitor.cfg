\* Three threads of the multi version; the single version has one.
SPECIFICATION FairSpec
CONSTANTS
  Tasks = 3
  Program = {"single", "multi"}
INVARIANTS
  Safety
  NothingLeftBehind
  BoundUnlessEarly
PROPERTIES
  UnloadEnds
  KeepsMonitoring
