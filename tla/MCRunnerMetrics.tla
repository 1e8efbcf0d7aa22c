--------------------------- MODULE MCRunnerMetrics ---------------------------
(* RunnerMetrics with the values that a configuration file cannot hold.    *)
EXTENDS RunnerMetricsProofs, TLC

(* GitHub may say that a job started before it was created.                *)
MCWaits == {-1, 1}

(* The runners are alike.                                                  *)
Symmetry == Permutations(Runners)
=============================================================================
