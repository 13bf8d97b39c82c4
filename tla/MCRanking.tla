------------------------------- MODULE MCRanking -------------------------------
(* A small instance of Ranking: one call with two candidates, one of which two  *)
(* trackers announce and the other none, and a call that shares the latter.     *)
EXTENDS Ranking, TLC

CONSTANTS a, b, k1, k2

MCAsked == (k1 :> {a, b}) @@ (k2 :> {b})
MCTrackers == (a :> 2) @@ (b :> 0)
=============================================================================
