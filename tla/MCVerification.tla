---------------------------- MODULE MCVerification ----------------------------
(* A small instance of Verification: one call with two candidates, whose        *)
(* address lists overlap and one of which is longer than the pool, and another  *)
(* call with a candidate at an address the first one asks too.                  *)
EXTENDS Verification

CONSTANTS a, b, d, k1, k2

Entry1 == [peers |-> <<b, a, d>>, claimed |-> FALSE, score |-> 9]
Entry2(list, claim) == [peers |-> list, claimed |-> claim, score |-> 20]
Entry3 == [peers |-> <<a>>, claimed |-> TRUE, score |-> 4]

MCCallOf == <<k1, k1, k2>>
MCRankable ==
  <<{Entry1}, {Entry2(<<>>, FALSE), Entry2(<<>>, TRUE), Entry2(<<a>>, FALSE)}, {Entry3}>>
=============================================================================
