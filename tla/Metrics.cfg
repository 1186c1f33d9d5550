\* Two metrics with up to two evaluations each, and files of up to three lines; or slices of
\* up to five time series of two keys, in batches of two, with up to two retries.
SPECIFICATION MetricsSpec
CONSTANTS
  Metrics = {m1, m2}
  MaxLines = 3
  MaxEvals = 2
  Keys = {k1, k2}
  MaxTSPerRequest = 2
  MaxSeries = 5
  MaxRetries = 2
INVARIANTS NoLineIsWasted FirstMatchIsCollected SentIsWritten RemainderIsDiscarded
PROPERTY KeysAreWrittenInOrder
