\* Three workers, five chunks, the last one short; reads that fail, and a cancelled context.
SPECIFICATION FairSpec
CONSTANTS
  NumWorkers = 3
  PartSize = 2
  ObjectSize = 9
  TotalBytes = 9
  ReadSizes = {1, 3}
  EOFWithData = FALSE
CHECK_DEADLOCK FALSE
INVARIANTS TypeOK ProperlyOrdered SuccessIsWhole WorkersServeInTurn
PROPERTY EverythingEnds
