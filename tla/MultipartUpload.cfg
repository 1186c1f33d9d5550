\* Three workers, parts of two units, two retries; up to five parts, and Write calls
\* shorter and longer than a part.
SPECIFICATION FairSpec
CONSTANTS
  Workers = {w1, w2, w3}
  None = None
  PartSize = 2
  MaxRetries = 2
  VerifyUpload = TRUE
  WriteSizes = {1, 2, 3, 5}
  SourceSize = 9
CHECK_DEADLOCK FALSE
INVARIANTS TypeOK ObjectIsWhatWasWritten WorkersAreAccountedFor FailedPartFailsUpload
PROPERTIES ImplementsAtomicUpload UploadReturns
