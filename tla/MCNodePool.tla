------------------------------ MODULE MCNodePool ------------------------------
(* NodePool for TLC: the runs differ only in who starts them, and one public   *)
(* address is as good as another.                                              *)
EXTENDS NodePool, TLC

CONSTANTS n1, n2, lan, cron, admin

MCNodes == {n1, n2, lan}
MCPublic == {n1, n2}
MCRuns == {cron, admin}

Symmetry == Permutations(MCPublic) \cup Permutations(MCRuns)
=============================================================================
