----------------------------- MODULE MCFixReview -----------------------------
(* FixReview with every way an order is moved but by a dispute, which has  *)
(* a run of its own.                                                       *)
EXTENDS FixReview

Moves == FeatureNames \ {"dispute"}
=============================================================================
