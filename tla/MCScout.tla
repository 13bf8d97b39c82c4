------------------------------- MODULE MCScout --------------------------------
(* Scout for TLC: one caller is as good as another, and so is one node, all of *)
(* them being in the file of the older version.                                *)
EXTENDS Scout, TLC

Symmetry == Permutations(Callers) \cup Permutations(Nodes)
=============================================================================
