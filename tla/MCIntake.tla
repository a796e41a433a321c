------------------------------- MODULE MCIntake -------------------------------
(* Intake with crawl cycles that may be exchanged for one another. *)
EXTENDS Intake, TLC

CyclesAlike == Permutations(Callers)
=============================================================================
