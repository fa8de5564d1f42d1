\* One leader, one follower, nobody is killed.
SPECIFICATION FairSpec
CONSTANTS
  MaxLaunch = 1
  MaxFollower = 1
  MaxKill = 0
PROPERTY SequenceCompletes
CHECK_DEADLOCK FALSE
