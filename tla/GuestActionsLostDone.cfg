\* A final status that ACS does not accept.
SPECIFICATION FairSpec
CONSTANTS
  Ops = {o1}
  Keys = {k1, k2}
  k1 = k1
  k2 = k2
  NoKey = NoKey
  Requests <- FewRequests
  MaxDuration = 9
  DefaultLockTimeout = 2
  MaxTime = 1
  MaxRestarts = 0
CHECK_DEADLOCK FALSE
PROPERTY RunningIsFollowedByDone
