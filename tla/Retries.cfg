\* Two goroutines and every kind of transfer: updates of the counter are lost, and calls of
\* one transfer outlive it.
SPECIFICATION FairSpec
CONSTANTS
  Callers = {c1, c2}
  Transfers <- AllTransfers
  MaxRetries = 2
  MaxCount = 4
INVARIANTS RetriesAreBounded BudgetIsFresh
PROPERTY FailingCallsEnd
