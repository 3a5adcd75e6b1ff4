--------------------------- MODULE MCCorrelation ---------------------------
(* Instances of Correlation for TLC. *)
EXTENDS Correlation, TLC

\* The names of detections and of entities mean nothing.
Names == Permutations(Detections) \cup Permutations(Entities)
=============================================================================
