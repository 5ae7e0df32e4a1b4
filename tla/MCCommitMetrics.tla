--------------------------- MODULE MCCommitMetrics ---------------------------
(***************************************************************************)
(* Model checking of the commit metrics, for every commit of a few         *)
(* validators.                                                             *)
(***************************************************************************)
EXTENDS CommitMetrics, TLC

ValidatorSymmetry == Permutations(Validators)

=============================================================================
