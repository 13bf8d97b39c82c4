------------------------------- MODULE MCEngine -------------------------------
(* Three requests, two of them with an alternative release, some releases       *)
(* shared, and a fourth request that is over as soon as it begins.              *)
EXTENDS Engine

CONSTANTS h1, h2, h3, r1, r2, r3, r4

Good(h) == [hash |-> h, scored |-> TRUE]
Poor(h) == [hash |-> h, scored |-> FALSE]

First == {<<Good(h2), Poor(h1)>>}
Second == {<<Good(h3), Good(h2)>>}
Third == {<<Good(h1)>>}

MCLists == First \cup Second \cup Third
MCRankedLists == [r \in Request |-> IF r = r1 THEN First ELSE IF r = r2 THEN Second ELSE Third]

\* The media file of the first release begins within a piece, that of the second
\* is no video, the third's is the larger of two.
Piece == 4
MCContent ==
  [h \in Hash |->
     IF h = h1 THEN [pieceLength |-> Piece,
                     files |-> <<[offset |-> 0, length |-> 3, video |-> FALSE],
                                 [offset |-> 3, length |-> 7, video |-> TRUE],
                                 [offset |-> 10, length |-> 9, video |-> FALSE]>>]
     ELSE IF h = h2 THEN [pieceLength |-> Piece,
                          files |-> <<[offset |-> 0, length |-> 5, video |-> FALSE]>>]
     ELSE [pieceLength |-> 2,
           files |-> <<[offset |-> 0, length |-> 3, video |-> TRUE],
                       [offset |-> 3, length |-> 5, video |-> TRUE]>>]]
MCRanges ==
  {NoRange, [first |-> 4, last |-> NoLast], [first |-> 2, last |-> 99],
   [first |-> 3, last |-> 2], [first |-> 9, last |-> NoLast]}
=============================================================================
