-------------------------------- MODULE MCKNN --------------------------------
(***************************************************************************)
(* All data sets of at most MaxRows rows with four distances and two       *)
(* classes.                                                                *)
(***************************************************************************)
EXTENDS KNN

CONSTANT MaxRows

Distances == 0..3
Classes == {0, 1}
Wanted == 0..3
DataSets == UNION {[1..n -> [distance : Distances, class : Classes]] : n \in 0..MaxRows}
=============================================================================
