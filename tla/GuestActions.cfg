\* Two operations with every kind of command, under fair goroutines; commands may
\* outlive their locks, sends may fail, Start may be restarted once.
SPECIFICATION FairSpec
CONSTANTS
  Ops = {o1, o2}
  Keys = {k1, k2}
  k1 = k1
  k2 = k2
  NoKey = NoKey
  Requests <- MixedRequests
  MaxDuration = 9
  DefaultLockTimeout = 2
  MaxTime = 2
  MaxRestarts = 1
CHECK_DEADLOCK FALSE
INVARIANTS TypeOK NoLeakedLock MutualExclusion ReportsFollowExecution
PROPERTIES OnlyOwnerReleases EveryOperationCloses
