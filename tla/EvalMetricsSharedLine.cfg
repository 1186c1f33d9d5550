\* One line that two metrics compete for.
SPECIFICATION EvalSpec
CONSTANTS
  Metrics = {m1, m2}
  MaxLines = 1
  MaxEvals = 1
INVARIANT EverySatisfiedMetricIsSet
