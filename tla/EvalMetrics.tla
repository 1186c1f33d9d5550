---------------------------- MODULE EvalMetrics -----------------------------
(***************************************************************************)
(* sharedlibraries/configurablemetrics: CollectEvalMetricsFromFile.  Every *)
(* line of a file is offered to the metrics that are not collected yet, in *)
(* the order of a range over a Go map, which is a different one each time, *)
(* and the first of them that holds takes the line.                        *)
(*                                                                         *)
(* A metric is a sequence of evaluations, the alternatives of its          *)
(* or_eval_rules or the only one of its and_eval_rules.  Which of them     *)
(* hold on a line (all rules of one must) is an input.  A value is a       *)
(* record of the evaluation and the line that it comes from.               *)
(*                                                                         *)
(* The specification's names begin with Eval, so that MetricsProofs can    *)
(* extend this module together with TimeSeriesBatches.                     *)
(***************************************************************************)
EXTENDS Naturals, FiniteSetsExt

CONSTANTS
  Metrics,   \* the labels of the metrics
  MaxLines,  \* bound on the lines of a file
  MaxEvals   \* bound on the evaluations of a metric

ASSUME EvalAssumption == MaxLines \in Nat /\ MaxEvals \in Nat

Lines == 1 .. MaxLines
Evals == 1 .. MaxEvals

NoValue == [ok |-> FALSE, eval |-> 0, line |-> 0]  \* the empty string

VARIABLES
  evals,   \* the number of evaluations of each metric
  length,  \* the number of lines of the file
  holds,   \* of each line and metric: the evaluations that hold
  evalAt,  \* "opening", "scanning", "evaluating" or "returned"
  line,    \* the line in hand
  metricsByLabel, \* the metrics that are not collected yet
  seen,    \* those that the range over the map has visited on this line
  labels   \* the result

evalVars == <<evals, length, holds, evalAt, line, metricsByLabel, seen, labels>>
evalInputs == <<evals, length, holds>>

EvalInit ==
  /\ evals \in [Metrics -> 0 .. MaxEvals]
  /\ length \in 0 .. MaxLines
  /\ holds \in [1 .. length -> {h \in [Metrics -> SUBSET Evals] :
                                  \A m \in Metrics : h[m] \subseteq 1 .. evals[m]}]
  /\ evalAt = "opening"
  /\ line = 0
  /\ metricsByLabel = Metrics
  /\ seen = {}
  /\ labels = [m \in Metrics |-> NoValue]

-----------------------------------------------------------------------------
(* Evaluation *)

\* Slip: a later evaluation that holds wins.
LastHolding(m, i) ==
  IF holds[i][m] = {}
    THEN [ok |-> FALSE, eval |-> evals[m], line |-> i]
    ELSE [ok |-> TRUE, eval |-> Max(holds[i][m]), line |-> i]

\* The first evaluation that holds, or the last one as false, or nothing without any.
Evaluate(m, i) ==
  CASE evals[m] = 0 -> NoValue
    [] evals[m] > 0 /\ holds[i][m] = {} -> [ok |-> FALSE, eval |-> evals[m], line |-> i]
    [] OTHER -> [ok |-> TRUE, eval |-> Min(holds[i][m]), line |-> i]

-----------------------------------------------------------------------------
(* collectMetricsFromFile *)

Open(fails) ==
  /\ evalAt = "opening"
  /\ evalAt' = IF fails \/ Metrics = {} THEN "returned" ELSE "scanning"
  /\ UNCHANGED <<evalInputs, line, metricsByLabel, seen, labels>>

Scan ==
  /\ evalAt = "scanning"
  /\ line < length
  /\ metricsByLabel # {}
  /\ evalAt' = "evaluating"
  /\ line' = line + 1
  /\ seen' = {}
  /\ UNCHANGED <<evalInputs, metricsByLabel, labels>>

\* The end of the file, or no metric left, or an error of the reader (a line that is too
\* long), which is logged and not returned.
StopScanning ==
  /\ evalAt = "scanning"
  /\ evalAt' = "returned"
  /\ UNCHANGED <<evalInputs, line, metricsByLabel, seen, labels>>

\* Slip: the range is left after its first metric, whether it holds or not.
PassOverAll(m) ==
  /\ seen' = seen \cup {m}
  /\ evalAt' = "scanning"
  /\ UNCHANGED metricsByLabel

PassOver(m) ==
  /\ seen' = seen \cup {m}
  /\ UNCHANGED <<evalAt, metricsByLabel>>

\* A metric that holds is collected and takes the line.
Take(m) ==
  /\ metricsByLabel' = metricsByLabel \ {m}
  /\ seen' = seen
  /\ evalAt' = "scanning"

EvaluateMetric(m) ==
  /\ evalAt = "evaluating"
  /\ m \in metricsByLabel \ seen
  /\ labels' = [labels EXCEPT ![m] = Evaluate(m, line)]
  /\ IF Evaluate(m, line).ok THEN Take(m) ELSE PassOver(m)
  /\ UNCHANGED <<evalInputs, line>>

EndLine ==
  /\ evalAt = "evaluating"
  /\ metricsByLabel \subseteq seen
  /\ evalAt' = "scanning"
  /\ UNCHANGED <<evalInputs, line, metricsByLabel, seen, labels>>

EvalReturned == evalAt = "returned" /\ UNCHANGED evalVars

EvalNext ==
  \/ \E fails \in BOOLEAN : Open(fails)
  \/ Scan
  \/ StopScanning
  \/ \E m \in Metrics : EvaluateMetric(m)
  \/ EndLine
  \/ EvalReturned

EvalSpec == EvalInit /\ [][EvalNext]_evalVars

-----------------------------------------------------------------------------
(* Properties *)

CollectedOn(i) == {m \in Metrics : labels[m].ok /\ labels[m].line = i}

\* The lines that are done with.
Done == 1 .. (IF evalAt = "evaluating" THEN line - 1 ELSE line)

\* The order of the map decides who takes a line but not that it is taken: a line that
\* holds for a metric which no earlier line has satisfied collects a metric, and what it
\* collects is the value of the first evaluation that holds on it, whatever the other
\* metrics do with the lines around it.
NoLineIsWasted ==
  \A i \in Done :
    /\ (\E m \in Metrics : holds[i][m] # {} /\ ~(labels[m].ok /\ labels[m].line < i)) =>
         CollectedOn(i) # {}
    /\ \A m \in CollectedOn(i) : holds[i][m] # {} /\ labels[m].eval = Min(holds[i][m])

\* "scan through each line of the file and evaluate whether it satisfies one or more of the
\* metrics supplied.  If so, then the metric value will be set to the result of the
\* evaluation": every metric that a line satisfies has a value from an evaluation that
\* held.  The code gives the line to the first metric that it comes to.
EverySatisfiedMetricIsSet ==
  \A i \in Done, m \in Metrics : holds[i][m] # {} => labels[m].ok

\* Where at most one metric holds per line ("This assumes that at most one metric will be
\* collected per line scanned") the order does not matter: each metric has the value of
\* the first evaluation that held, on the first line on which one did.
FirstMatchIsCollected ==
  (\A i \in 1 .. length, l, m \in Metrics : holds[i][l] # {} /\ holds[i][m] # {} => l = m) =>
    \A m \in Metrics, i \in Done :
      holds[i][m] # {} /\ (\A j \in 1 .. i - 1 : holds[j][m] = {}) =>
        labels[m] = [ok |-> TRUE, eval |-> Min(holds[i][m]), line |-> i]
=============================================================================
