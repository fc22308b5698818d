------------------------ MODULE MCBenchOrchestrator ------------------------
(***************************************************************************)
(* Values of the constants of BenchOrchestrator for TLC.                   *)
(***************************************************************************)
EXTENDS BenchOrchestrator

\* a cycle, a warm run on its deployment, and a cycle of the other benchmark
MixedPlan == <<"multi_turn", "nocold", "lmbench">>

=============================================================================
