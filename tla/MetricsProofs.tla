--------------------------- MODULE MetricsProofs ----------------------------
(***************************************************************************)
(* Theorems about EvalMetrics, for any metrics, evaluations and file, and  *)
(* about TimeSeriesBatches, for slices of any length, any keys, any size   *)
(* of a request and any number of retries.                                 *)
(***************************************************************************)
EXTENDS EvalMetrics, TimeSeriesBatches, WellFoundedInduction, TLAPS

-----------------------------------------------------------------------------
(* CollectEvalMetricsFromFile: the first evaluation that holds *)

\* Min is what its name says on a nonempty set of numbers.
LEMMA MinOfNaturals ==
  ASSUME NEW S \in SUBSET Nat, S # {}
  PROVE  /\ Min(S) \in S
         /\ \A x \in S : Min(S) <= x
<1> DEFINE R == OpToRel(<, Nat)
<1>1. IsWellFoundedOn(R, Nat)
  BY NatLessThanWellFounded
<1>2. \A x, y \in Nat : <<x, y>> \in R <=> x < y
  BY DEF OpToRel
<1>3. PICK m \in S : \A y \in S : ~ (<<y, m>> \in R)
  <2> HIDE DEF R
  <2> QED BY <1>1, WFMin
<1>4. \A x \in S : ~ (x < m)
  <2> HIDE DEF R
  <2> QED BY <1>2, <1>3
<1>5. \E x \in S : \A y \in S : x <= y
  BY <1>4
<1> QED BY <1>5 DEF Min

-----------------------------------------------------------------------------
(* CollectEvalMetricsFromFile: the inductive invariant *)

EvalTypeOK ==
  /\ evals \in [Metrics -> Nat]
  /\ length \in Nat
  /\ holds \in [1 .. length -> [Metrics -> SUBSET Nat]]
  /\ \A i \in 1 .. length, m \in Metrics : holds[i][m] \subseteq 1 .. evals[m]
  /\ evalAt \in {"opening", "scanning", "evaluating", "returned"}
  /\ line \in 0 .. length
  /\ metricsByLabel \subseteq Metrics
  /\ seen \subseteq Metrics
  /\ labels \in [Metrics -> [ok : BOOLEAN, eval : Nat, line : Nat]]

\* The line in hand: nobody took it yet, and nothing held for those that were tried on it.
LineInv ==
  evalAt = "evaluating" =>
    /\ line > 0
    /\ \A m \in seen : holds[line][m] = {}

\* A metric is off the map exactly if it was collected, on a line that is done with and on
\* which it held, with the first evaluation that did; no two were collected on one line.
CollectedInv ==
  \A m \in Metrics :
    /\ m \in metricsByLabel <=> ~labels[m].ok
    /\ labels[m].ok =>
         /\ labels[m].line \in Done
         /\ holds[labels[m].line][m] # {}
         /\ labels[m].eval = Min(holds[labels[m].line][m])
         /\ \A l \in Metrics : labels[l].ok /\ labels[l].line = labels[m].line => l = m

\* A line that is done with and held for a metric still to be collected was taken.
TakenInv ==
  \A i \in Done :
    (\E m \in Metrics : holds[i][m] # {} /\ ~(labels[m].ok /\ labels[m].line < i)) =>
      \E n \in Metrics : labels[n].ok /\ labels[n].line = i

EvalInv == EvalTypeOK /\ LineInv /\ CollectedInv /\ TakenInv

LEMMA EvalInvInit == EvalInit => EvalInv
<1> SUFFICES ASSUME EvalInit PROVE EvalInv
  OBVIOUS
<1>1. length \in Nat
  BY EvalAssumption DEF EvalInit, EvalAssumption
<1>2. /\ holds \in [1 .. length -> [Metrics -> SUBSET Nat]]
      /\ \A i \in 1 .. length, m \in Metrics : holds[i][m] \subseteq 1 .. evals[m]
  BY DEF EvalInit, Evals
<1>3. evals \in [Metrics -> Nat]
  BY EvalAssumption DEF EvalInit, EvalAssumption
<1>4. labels \in [Metrics -> [ok : BOOLEAN, eval : Nat, line : Nat]]
  BY DEF EvalInit, NoValue
<1>5. EvalTypeOK
  BY <1>1, <1>2, <1>3, <1>4 DEF EvalInit, EvalTypeOK
<1>6. \A m \in Metrics : ~labels[m].ok
  BY DEF EvalInit, NoValue
<1>7. Done = {}
  BY DEF EvalInit, Done
<1> QED BY <1>5, <1>6, <1>7 DEF EvalInv, LineInv, CollectedInv, TakenInv, EvalInit

\* What evaluate returns: a value if and only if an evaluation of the metric holds.
LEMMA EvaluateType ==
  ASSUME EvalTypeOK, NEW m \in Metrics, NEW i \in 1 .. length
  PROVE  /\ Evaluate(m, i) \in [ok : BOOLEAN, eval : Nat, line : Nat]
         /\ Evaluate(m, i).ok <=> holds[i][m] # {}
         /\ Evaluate(m, i).ok =>
              Evaluate(m, i) = [ok |-> TRUE, eval |-> Min(holds[i][m]), line |-> i]
<1>1. holds[i][m] \in SUBSET Nat /\ evals[m] \in Nat /\ holds[i][m] \subseteq 1 .. evals[m]
  BY DEF EvalTypeOK
<1>2. CASE evals[m] = 0
  <2>1. holds[i][m] = {}
    BY <1>1, <1>2
  <2>2. Evaluate(m, i) = [ok |-> FALSE, eval |-> 0, line |-> 0]
    BY <1>2, <2>1 DEF Evaluate, NoValue
  <2> QED BY <2>1, <2>2
<1>3. CASE evals[m] # 0 /\ holds[i][m] = {}
  <2>1. Evaluate(m, i) = [ok |-> FALSE, eval |-> evals[m], line |-> i]
    BY <1>1, <1>3 DEF Evaluate
  <2> QED BY <1>1, <1>3, <2>1
<1>4. CASE evals[m] # 0 /\ holds[i][m] # {}
  <2>1. Evaluate(m, i) = [ok |-> TRUE, eval |-> Min(holds[i][m]), line |-> i]
    BY <1>4 DEF Evaluate
  <2>2. Min(holds[i][m]) \in Nat
    BY <1>1, <1>4, MinOfNaturals
  <2> QED BY <1>4, <2>1, <2>2
<1> QED BY <1>2, <1>3, <1>4

\* A metric that does not hold is offered the next line.
LEMMA PassStep ==
  ASSUME EvalInv, NEW m \in Metrics, EvaluateMetric(m), ~Evaluate(m, line).ok
  PROVE  EvalInv'
<1> USE DEF EvalInv, EvalTypeOK, LineInv, evalInputs
<1>1. /\ evalAt = "evaluating" /\ m \in metricsByLabel /\ line \in 1 .. length
      /\ UNCHANGED <<evals, length, holds, evalAt, line, metricsByLabel>>
      /\ seen' = seen \cup {m}
      /\ labels' = [labels EXCEPT ![m] = Evaluate(m, line)]
  BY DEF EvaluateMetric, PassOver
<1>2. Evaluate(m, line) \in [ok : BOOLEAN, eval : Nat, line : Nat] /\ holds[line][m] = {}
  BY <1>1, EvaluateType
<1>3. EvalTypeOK'
  BY <1>1, <1>2
<1>4. LineInv'
  BY <1>1, <1>2
<1>5. ~labels[m].ok /\ ~labels'[m].ok
  BY <1>1, <1>2 DEF CollectedInv
<1>6. \A l \in Metrics : l # m => labels'[l] = labels[l]
  BY <1>1
<1>7. Done' = Done
  BY <1>1 DEF Done
<1>8. CollectedInv'
  BY <1>1, <1>5, <1>6, <1>7 DEF CollectedInv
<1>9. TakenInv'
  BY <1>1, <1>5, <1>6, <1>7 DEF TakenInv
<1> QED BY <1>3, <1>4, <1>8, <1>9

\* The metric that takes the line is the only one of the line.
LEMMA TakeStep ==
  ASSUME EvalInv, NEW m \in Metrics, EvaluateMetric(m), Evaluate(m, line).ok
  PROVE  EvalInv'
<1> USE DEF EvalInv, EvalTypeOK, LineInv, evalInputs
<1>1. /\ evalAt = "evaluating" /\ evalAt' = "scanning" /\ m \in metricsByLabel /\ line \in 1 .. length
      /\ UNCHANGED <<evals, length, holds, line, seen>>
      /\ metricsByLabel' = metricsByLabel \ {m}
      /\ labels' = [labels EXCEPT ![m] = Evaluate(m, line)]
  BY DEF EvaluateMetric, Take
<1>2. /\ Evaluate(m, line) \in [ok : BOOLEAN, eval : Nat, line : Nat]
      /\ Evaluate(m, line) = [ok |-> TRUE, eval |-> Min(holds[line][m]), line |-> line]
      /\ holds[line][m] # {}
  BY <1>1, EvaluateType
<1>3. EvalTypeOK' /\ LineInv'
  BY <1>1, <1>2
<1>4. /\ ~labels[m].ok
      /\ labels'[m].ok /\ labels'[m].line = line /\ labels'[m].eval = Min(holds[line][m])
  BY <1>1, <1>2 DEF CollectedInv
<1>5. \A l \in Metrics : l # m => labels'[l] = labels[l]
  BY <1>1
<1>6. Done = 1 .. line - 1 /\ Done' = 1 .. line
  BY <1>1 DEF Done
<1>7. CollectedInv'
  <2> SUFFICES ASSUME NEW l \in Metrics
               PROVE  /\ l \in metricsByLabel' <=> ~labels'[l].ok
                      /\ labels'[l].ok =>
                           /\ labels'[l].line \in Done'
                           /\ holds[labels'[l].line][l] # {}
                           /\ labels'[l].eval = Min(holds[labels'[l].line][l])
                           /\ \A n \in Metrics :
                                labels'[n].ok /\ labels'[n].line = labels'[l].line => n = l
    BY <1>1 DEF CollectedInv
  <2>1. \A n \in Metrics : n # m /\ labels'[n].ok => labels'[n].line < line
    BY <1>5, <1>6 DEF CollectedInv
  <2>2. CASE l = m
    BY <1>1, <1>2, <1>4, <1>6, <2>1, <2>2
  <2>3. CASE l # m
    <3>1. labels'[l] = labels[l] /\ (l \in metricsByLabel' <=> l \in metricsByLabel)
      BY <1>1, <1>5, <2>3
    <3>2. labels'[l].ok => \A n \in Metrics :
            labels'[n].ok /\ labels'[n].line = labels'[l].line => n = l
      <4> SUFFICES ASSUME labels[l].ok, NEW n \in Metrics, labels'[n].ok,
                          labels'[n].line = labels[l].line
                   PROVE  n = l
        BY <3>1
      <4>1. n # m
        BY <1>4, <2>1, <2>3, <3>1
      <4> QED BY <1>5, <4>1 DEF CollectedInv
    <3>3. labels[l].ok => labels[l].line \in Done'
      BY <1>6 DEF CollectedInv
    <3> QED BY <3>1, <3>2, <3>3 DEF CollectedInv
  <2> QED BY <2>2, <2>3
<1>8. TakenInv'
  <2> SUFFICES ASSUME NEW i \in Done', NEW l \in Metrics, holds[i][l] # {},
                      ~(labels'[l].ok /\ labels'[l].line < i)
               PROVE  \E n \in Metrics : labels'[n].ok /\ labels'[n].line = i
    BY <1>1 DEF TakenInv
  <2>1. CASE i = line
    BY <1>4, <2>1
  <2>2. CASE i # line
    <3>1. i \in Done
      BY <1>1, <1>6, <2>2
    <3>2. ~(labels[l].ok /\ labels[l].line < i)
      BY <1>4, <1>5
    <3>3. PICK n \in Metrics : labels[n].ok /\ labels[n].line = i
      BY <3>1, <3>2 DEF TakenInv
    <3> QED BY <1>4, <1>5, <3>3
  <2> QED BY <2>1, <2>2
<1> QED BY <1>3, <1>7, <1>8

\* A line that nobody took held for no metric that was left.
LEMMA EndLineStep ==
  ASSUME EvalInv, EndLine
  PROVE  EvalInv'
<1> USE DEF EvalInv, EvalTypeOK, LineInv, evalInputs, EndLine
<1>1. Done = 1 .. line - 1 /\ Done' = 1 .. line /\ line \in 1 .. length
  BY DEF Done
<1>2. EvalTypeOK' /\ LineInv'
  OBVIOUS
<1>3. CollectedInv'
  <2>1. Done \subseteq Done'
    BY <1>1
  <2> QED BY <2>1 DEF CollectedInv
<1>4. TakenInv'
  <2> SUFFICES ASSUME NEW i \in Done', NEW m \in Metrics, holds[i][m] # {},
                      ~(labels[m].ok /\ labels[m].line < i)
               PROVE  \E n \in Metrics : labels[n].ok /\ labels[n].line = i
    BY DEF TakenInv
  <2>1. CASE i = line
    <3>1. m \notin metricsByLabel
      BY <2>1
    <3>2. labels[m].ok /\ labels[m].line \in Done
      BY <3>1 DEF CollectedInv
    <3> QED BY <1>1, <2>1, <3>2
  <2>2. CASE i # line
    <3>1. i \in Done
      BY <1>1, <2>2
    <3> QED BY <3>1 DEF TakenInv
  <2> QED BY <2>1, <2>2
<1> QED BY <1>2, <1>3, <1>4

LEMMA EvalStep == EvalInv /\ [EvalNext]_evalVars => EvalInv'
<1> SUFFICES ASSUME EvalInv, [EvalNext]_evalVars PROVE EvalInv'
  OBVIOUS
<1> USE DEF EvalInv
<1>1. ASSUME NEW fails \in BOOLEAN, Open(fails) PROVE EvalInv'
  <2>1. Done' = Done
    BY <1>1 DEF Open, Done, evalInputs
  <2> QED BY <1>1, <2>1 DEF Open, evalInputs, EvalTypeOK, LineInv, CollectedInv, TakenInv
<1>2. CASE Scan
  <2>1. Done' = Done
    BY <1>2 DEF Scan, Done, EvalTypeOK
  <2> QED BY <1>2, <2>1 DEF Scan, evalInputs, EvalTypeOK, LineInv, CollectedInv, TakenInv
<1>3. CASE StopScanning
  <2>1. Done' = Done
    BY <1>3 DEF StopScanning, Done, evalInputs
  <2> QED BY <1>3, <2>1 DEF StopScanning, evalInputs, EvalTypeOK, LineInv, CollectedInv, TakenInv
<1>4. ASSUME NEW m \in Metrics, EvaluateMetric(m) PROVE EvalInv'
  BY <1>4, PassStep, TakeStep
<1>5. CASE EndLine
  BY <1>5, EndLineStep
<1>6. CASE UNCHANGED evalVars
  BY <1>6 DEF evalVars, EvalTypeOK, LineInv, CollectedInv, TakenInv, Done
<1> QED BY <1>1, <1>2, <1>3, <1>4, <1>5, <1>6 DEF EvalNext, EvalReturned

\* What the collection knows of the lines that it is done with.
THEOREM CollectionAgrees == EvalSpec => []EvalInv
BY EvalInvInit, EvalStep, PTL DEF EvalSpec

-----------------------------------------------------------------------------
(* CollectEvalMetricsFromFile: the properties *)

\* Whatever the order of the map, a line that holds for a metric still to be collected
\* collects one, with the value of the first evaluation that holds.
THEOREM NoLineWasted == EvalSpec => []NoLineIsWasted
<1>1. EvalInv => NoLineIsWasted
  <2> SUFFICES ASSUME EvalInv, NEW i \in Done
               PROVE  /\ (\E m \in Metrics : /\ holds[i][m] # {}
                                             /\ ~(labels[m].ok /\ labels[m].line < i)) =>
                           CollectedOn(i) # {}
                      /\ \A m \in CollectedOn(i) :
                           holds[i][m] # {} /\ labels[m].eval = Min(holds[i][m])
    BY DEF NoLineIsWasted
  <2>1. ASSUME \E m \in Metrics : holds[i][m] # {} /\ ~(labels[m].ok /\ labels[m].line < i)
        PROVE  CollectedOn(i) # {}
    BY <2>1 DEF CollectedOn, EvalInv, TakenInv
  <2>2. ASSUME NEW m \in CollectedOn(i)
        PROVE  holds[i][m] # {} /\ labels[m].eval = Min(holds[i][m])
    BY <2>2 DEF CollectedOn, EvalInv, CollectedInv
  <2> QED BY <2>1, <2>2
<1> QED BY <1>1, CollectionAgrees, PTL

\* Where the order of the map cannot matter, it does not.
THEOREM FirstMatchCollected == EvalSpec => []FirstMatchIsCollected
<1>1. EvalInv => FirstMatchIsCollected
  <2> SUFFICES ASSUME EvalInv,
                      \A i \in 1 .. length, l, m \in Metrics :
                        holds[i][l] # {} /\ holds[i][m] # {} => l = m,
                      NEW m \in Metrics, NEW i \in Done, holds[i][m] # {},
                      \A j \in 1 .. i - 1 : holds[j][m] = {}
               PROVE  labels[m] = [ok |-> TRUE, eval |-> Min(holds[i][m]), line |-> i]
    BY DEF FirstMatchIsCollected
  <2> USE DEF EvalInv, EvalTypeOK, LineInv
  <2>1. Done \subseteq 1 .. length
    BY DEF Done
  <2>2. ~(labels[m].ok /\ labels[m].line < i)
    <3> SUFFICES ASSUME labels[m].ok, labels[m].line < i PROVE FALSE
      OBVIOUS
    <3>1. labels[m].line \in Done /\ holds[labels[m].line][m] # {}
      BY DEF CollectedInv
    <3>2. labels[m].line \in 1 .. i - 1
      BY <2>1, <3>1
    <3> QED BY <3>1, <3>2
  <2>3. PICK n \in Metrics : labels[n].ok /\ labels[n].line = i
    BY <2>2 DEF TakenInv
  <2>4. n = m
    BY <2>1, <2>3 DEF CollectedInv
  <2>5. labels[m].ok = TRUE /\ labels[m].line = i /\ labels[m].eval = Min(holds[i][m])
    BY <2>3, <2>4 DEF CollectedInv
  <2>6. labels[m] \in [ok : BOOLEAN, eval : Nat, line : Nat]
    OBVIOUS
  <2> QED BY <2>5, <2>6
<1> QED BY <1>1, CollectionAgrees, PTL

-----------------------------------------------------------------------------
(* SendTimeSeries: the inductive invariant *)

USE BatchesAssumption DEF BatchesAssumption

\* Where the call is and what it has counted.
SendingInv ==
  /\ sent = first - 1
  /\ at = "collecting" => next - first < MaxTSPerRequest /\ ~failed
  /\ at \in {"calling", "waiting"} => first < next /\ ~failed
  /\ at \in {"calling", "waiting"} => attempt <= retries
  /\ at = "returned" /\ failed => first < next
  /\ at = "returned" /\ ~failed => first = next /\ next = total + 1

\* Every time series of the batch is represented in what is left of it after pruning;
\* what was written belongs to earlier batches or to what is left of this one.
BatchInv ==
  /\ \A i \in Batch : \E j \in Pruned : j <= i /\ key[j] = key[i]
  /\ \A i \in written : i < first \/ i \in Pruned
  /\ at = "collecting" => \A i \in written : i < first

BatchesInv == TypeOK /\ SendingInv /\ BatchInv /\ SentIsWritten

LEMMA BatchesInvInit ==
  ASSUME Init
  PROVE  BatchesInv
<1>1. TypeOK /\ SendingInv
  <2>1. total \in Nat /\ retries \in Nat
    BY DEF Init
  <2>2. failed = FALSE /\ cancelled = FALSE /\ at = "collecting"
    BY DEF Init
  <2>3. TypeOK
    <3>1. first \in 1 .. next /\ next \in 1 .. total + 1 /\ next - first <= MaxTSPerRequest
      BY <2>1 DEF Init
    <3>2. attempt \in 0 .. retries + 1 /\ sent \in 0 .. total /\ batchCount \in Nat
      BY <2>1 DEF Init
    <3>3. key \in [1 .. total -> Keys] /\ written \subseteq 1 .. total
      BY DEF Init
    <3> QED BY <2>1, <2>2, <3>1, <3>2, <3>3 DEF TypeOK
  <2>4. SendingInv
    BY <2>1, <2>2 DEF Init, SendingInv
  <2> QED BY <2>3, <2>4
<1>2. BatchInv /\ SentIsWritten
  <2>1. Batch = {} /\ written = {} /\ 1 .. sent = {}
    BY DEF Init, Batch
  <2> QED BY <2>1 DEF BatchInv, SentIsWritten
<1> QED BY <1>1, <1>2 DEF BatchesInv

LEMMA BatchesTypeStep ==
  ASSUME BatchesInv, [Next]_vars
  PROVE  TypeOK' /\ SendingInv'
<1> USE DEF BatchesInv, TypeOK, SendingInv, inputs
<1>1. Pruned \subseteq 1 .. total
  BY DEF Pruned, Batch
<1>2. CASE Append
  BY <1>2 DEF Append, Full, SendBatch
<1>3. CASE Finish
  BY <1>3 DEF Finish, SendBatch
<1>4. CASE Accepted
  BY <1>1, <1>4 DEF Accepted
<1>5. CASE Refused
  <2>1. CASE GiveUp
    BY <1>1, <1>5, <2>1 DEF Refused, GiveUp
  <2>2. CASE ~GiveUp
    BY <1>1, <1>5, <2>2 DEF Refused
  <2> QED BY <2>1, <2>2
<1>6. CASE Retry
  BY <1>6 DEF Retry
<1>7. CASE StopWaiting
  BY <1>7 DEF StopWaiting, GiveUp
<1>8. CASE Cancel
  BY <1>8 DEF Cancel
<1>9. CASE UNCHANGED vars
  BY <1>9 DEF vars
<1> QED BY <1>2, <1>3, <1>4, <1>5, <1>6, <1>9, <1>7, <1>8
        DEF Next, SendTimeSeries, Returned

\* The batch grows by one time series at a time, so that each finds its representative:
\* itself, or the one of an earlier time series with its key.
LEMMA AppendBatch ==
  ASSUME BatchesInv, Append
  PROVE  BatchInv'
<1> USE DEF BatchesInv, TypeOK, BatchInv, Append, inputs
<1>1. Batch' = Batch \cup {next} /\ next \notin Batch
  BY DEF Batch
<1>2. Pruned \subseteq Pruned'
  BY DEF Pruned, Batch
<1>3. \E j \in Pruned' : j <= next /\ key[j] = key[next]
  <2>1. CASE \E i \in Batch : key[i] = key[next]
    <3>1. PICK i \in Batch : key[i] = key[next]
      BY <2>1
    <3>2. PICK j \in Pruned : j <= i /\ key[j] = key[i]
      OBVIOUS
    <3> QED BY <1>2, <3>1, <3>2 DEF Batch, Pruned
  <2>2. CASE \A i \in Batch : key[i] # key[next]
    <3>1. next \in Pruned'
      BY <1>1, <2>2 DEF Pruned, Batch
    <3> QED BY <3>1
  <2> QED BY <2>1, <2>2
<1>4. \A i \in Batch' : \E j \in Pruned' : j <= i /\ key[j] = key[i]
  BY <1>1, <1>2, <1>3
<1>5. \A i \in written : i < first
  OBVIOUS
<1> QED BY <1>4, <1>5

LEMMA BatchStep ==
  ASSUME BatchesInv, [Next]_vars
  PROVE  BatchInv' /\ SentIsWritten'
<1> USE DEF BatchesInv, TypeOK, SendingInv, inputs
<1>1. CASE Append
  BY <1>1, AppendBatch DEF Append, SentIsWritten
<1>2. CASE \/ Finish \/ Retry \/ StopWaiting \/ Cancel
           \/ UNCHANGED vars
  <2>1. /\ UNCHANGED <<total, key, first, next, written, sent>>
        /\ at' = "collecting" => at = at'
    BY <1>2 DEF Finish, SendBatch, Retry, StopWaiting,
                Cancel, GiveUp, vars
  <2> QED BY <2>1 DEF BatchInv, SentIsWritten, Batch, Pruned
<1>3. CASE Accepted
  <2>1. SentIsWritten'
    <3> SUFFICES ASSUME NEW i \in 1 .. sent'
                 PROVE  \E j \in written' :
                          j <= i /\ i < j + MaxTSPerRequest /\ key'[j] = key'[i]
      BY DEF SentIsWritten
    <3>1. CASE i \in 1 .. sent
      BY <1>3, <3>1 DEF Accepted, SentIsWritten
    <3>2. CASE i \in Batch
      <4>1. PICK j \in Pruned : j <= i /\ key[j] = key[i]
        BY <3>2 DEF BatchInv
      <4> QED BY <1>3, <3>2, <4>1 DEF Accepted, Pruned, Batch
    <3> QED BY <1>3, <3>1, <3>2 DEF Accepted, Batch
  <2>2. BatchInv'
    BY <1>3 DEF Accepted, BatchInv, Batch, Pruned
  <2> QED BY <2>1, <2>2
<1>4. CASE Refused
  <2>1. UNCHANGED <<total, key, first, next, sent>> /\ at' # "collecting"
    BY <1>4 DEF Refused, GiveUp
  <2>2. PICK part \in SUBSET Pruned : written' = written \cup part
    BY <1>4 DEF Refused
  <2>3. Batch' = Batch /\ Pruned' = Pruned
    BY <2>1 DEF Batch, Pruned
  <2> QED BY <2>1, <2>2, <2>3 DEF BatchInv, SentIsWritten
<1> QED BY <1>1, <1>2, <1>3, <1>4 DEF Next, SendTimeSeries, Returned

\* The invariant from which the theorems follow.
THEOREM BatchesAgree == Spec => []BatchesInv
<1>1. BatchesInv /\ [Next]_vars => BatchesInv'
  BY BatchesTypeStep, BatchStep DEF BatchesInv
<1> QED BY <1>1, BatchesInvInit, PTL DEF Spec

-----------------------------------------------------------------------------
(* SendTimeSeries: the properties *)

\* Every variable keeps its type; in particular a request never exceeds its size.
THEOREM BatchesTypeCorrect == Spec => []TypeOK
<1>1. BatchesInv => TypeOK
  BY DEF BatchesInv
<1> QED BY <1>1, BatchesAgree, PTL

\* What counts as sent was written, or pruned in favour of one that was.
THEOREM SentWasWritten == Spec => []SentIsWritten
<1>1. BatchesInv => SentIsWritten
  BY DEF BatchesInv
<1> QED BY <1>1, BatchesAgree, PTL

\* A failure is reported, and nothing beyond the batch that failed was written.
THEOREM RemainderDiscarded == Spec => []RemainderIsDiscarded
<1>1. BatchesInv => RemainderIsDiscarded
  BY DEF BatchesInv, TypeOK, SendingInv, BatchInv, RemainderIsDiscarded,
         Pruned, Batch
<1> QED BY <1>1, BatchesAgree, PTL

\* Retries and failures do not change the order in which the points of a key are written.
THEOREM WrittenInOrder == Spec => KeysAreWrittenInOrder
<1> DEFINE InOrder == \A i \in written' \ written, j \in written : key[i] = key[j] => j < i
<1>1. BatchesInv /\ [Next]_vars => [InOrder]_vars
  <2> SUFFICES ASSUME BatchesInv, [Next]_vars,
                      NEW i \in written' \ written, NEW j \in written, key[i] = key[j]
               PROVE  j < i
    OBVIOUS
  <2> USE DEF BatchesInv, TypeOK, BatchInv
  <2>1. i \in Pruned
    <3>1. CASE Accepted \/ Refused
      BY <3>1 DEF Accepted, Refused
    <3>2. CASE UNCHANGED written
      BY <3>2
    <3> QED BY <3>1, <3>2 DEF Next, SendTimeSeries, Append,
                              Finish, Retry, StopWaiting,
                              Cancel, Returned, vars
  <2>2. CASE j < first
    BY <2>1, <2>2 DEF Pruned, Batch
  <2>3. CASE j \in Pruned
    BY <2>1, <2>3 DEF Pruned, Batch
  <2> QED BY <2>2, <2>3
<1> QED BY <1>1, BatchesAgree, PTL DEF Spec, KeysAreWrittenInOrder
=============================================================================
