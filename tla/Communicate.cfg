\* Two operations, each delivered up to twice; every kind of failure.
SPECIFICATION FairSpec
CONSTANTS
  Operations = {o1, o2}
  MaxDoublings = 2
  MaxDeliveries = 2
INVARIANTS TypeOK NilMeansAllAnswered
PROPERTIES CancelledLoopEnds EveryOperationIsReceived
