----------------------------- MODULE MCMetrics ------------------------------
(***************************************************************************)
(* Instances of EvalMetrics and TimeSeriesBatches for TLC, side by side as *)
(* in MetricsProofs, for they share nothing.  A behaviour is one call of   *)
(* either library; the other one has nothing to do.                        *)
(***************************************************************************)
EXTENDS EvalMetrics, TimeSeriesBatches

\* No metric has an evaluation and no line is in the file.
NothingToCollect == length = 0 /\ evals = [m \in Metrics |-> 0] /\ EvalInit

NothingToSend == total = 0 /\ retries = 0 /\ Init

MetricsInit == (EvalInit /\ NothingToSend) \/ (NothingToCollect /\ Init)

MetricsNext == (EvalNext /\ UNCHANGED vars) \/ (Next /\ UNCHANGED evalVars)

MetricsSpec == MetricsInit /\ [][MetricsNext]_<<evalVars, vars>>
=============================================================================
