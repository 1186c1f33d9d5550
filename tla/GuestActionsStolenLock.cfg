\* A release by an operation that outlived its lock.
SPECIFICATION Spec
CONSTANTS
  Ops = {o1, o2, o3}
  Keys = {k1, k2}
  k1 = k1
  k2 = k2
  NoKey = NoKey
  Requests <- SingleCommandRequests
  MaxDuration = 9
  DefaultLockTimeout = 2
  MaxTime = 3
  MaxRestarts = 0
CHECK_DEADLOCK FALSE
INVARIANT UnexpiredLocksExclude
