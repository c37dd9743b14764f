------------------------ MODULE MCOrderBookRefinement ------------------------
(* The refinement on small instances, for TLC.                             *)
EXTENDS OrderBookRefinement

CONSTANTS i1, i2, i3

\* Client ids are interchangeable: nothing compares them but for equality.
IdSymmetry == Permutations(Ids)
=============================================================================
