--------------------------- MODULE MCFindingPipeline ---------------------------
(* FindingPipeline with the symmetry of its interchangeable model values.     *)
EXTENDS FindingPipeline, TLC

Symmetry == Permutations(Workers) \cup Permutations(Findings)
              \cup Permutations(Sigs) \cup Permutations(Keys)
=============================================================================
