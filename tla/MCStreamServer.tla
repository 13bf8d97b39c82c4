---------------------------- MODULE MCStreamServer ----------------------------
(* Small instances of StreamServer: lists with a repeated infohash, with a      *)
(* candidate that scored 0, with only such candidates, and with more            *)
(* candidates than racers.                                                      *)
EXTENDS StreamServer

CONSTANTS h1, h2, h3, h4

Good(h) == [hash |-> h, scored |-> TRUE]
Poor(h) == [hash |-> h, scored |-> FALSE]

MCLists ==
  {<<Good(h1), Good(h1), Good(h2), Good(h3)>>,
   <<Poor(h3), Good(h2), Good(h4)>>,
   <<Poor(h4), Poor(h3)>>}
=============================================================================
