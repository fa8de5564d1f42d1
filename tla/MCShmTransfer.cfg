\* Three runs of the leader, three of the follower, two of them killed.
SPECIFICATION FairSpec
CONSTANTS
  MaxLaunch = 3
  MaxFollower = 3
  MaxKill = 2
INVARIANTS
  Safety
  LeaderLeavesAfterCopy
PROPERTIES
  FollowerEnds
  LeaderEnds
\* Lost notifications leave both processes waiting for ever.
CHECK_DEADLOCK FALSE
