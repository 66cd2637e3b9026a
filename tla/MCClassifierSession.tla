------------------------ MODULE MCClassifierSession ------------------------
(***************************************************************************)
(* A k-NN file with windows of three rows, one with windows of one row,    *)
(* and an SVM file.                                                        *)
(***************************************************************************)
EXTENDS ClassifierSession

CONSTANTS long, short, foreign, kNN, SVM, fist, wave

KnnFiles == {long, short}
AllFiles == {long, short, foreign}
Types == {kNN, SVM}
Classes == {fist, wave}

MCTypeOf == [f \in File |-> IF f = foreign THEN SVM ELSE kNN]
MCRepsOf == [f \in File |-> IF f = long THEN 3 ELSE 1]
MCModeOf == [f \in File |-> IF f = foreign THEN "SAMPLE_MODE" ELSE "GESTURE_MODE"]
MCClassesOf == [f \in File |-> IF f = short THEN {fist} ELSE Classes]
=============================================================================
