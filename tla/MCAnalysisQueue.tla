--------------------------- MODULE MCAnalysisQueue ---------------------------
(* Small instances of AnalysisQueue for TLC. *)
EXTENDS AnalysisQueue, TLC

\* Situations and each kind of process are interchangeable.
Symmetry == Permutations(Situations) \cup Permutations(Workers)
                \cup Permutations(Callers) \cup Permutations(Operators)
=============================================================================
