--------------------------------- MODULE KNN ---------------------------------
(***************************************************************************)
(* kNN::classify, one step per row of the data set and per slot of its     *)
(* inner search, then the vote.  The arithmetic of the distances is        *)
(* abstracted: a row is known by its distance to the row to classify and   *)
(* its class.  Distances are natural numbers, One of them is the 1.0 of    *)
(* the code and Scale divides by each of them, so that sums of weights     *)
(* are exact.                                                              *)
(***************************************************************************)
EXTENDS Integers, Sequences, FiniteSets, FiniteSetsExt

CONSTANTS Distance,   \* distances of rows
          Class,      \* mClass of rows
          DataSet,    \* data sets: sequences of rows
          RowsWanted, \* values of records_to_classify
          One,        \* 1.0 as a distance
          Scale       \* 1.0 as a weight of ONE_ON_DISTANCE

Row == [distance : Distance, class : Class]
Weights == {"DEMOCRATIC", "ONE_ON_DISTANCE", "ONE_MINUS_DISTANCE"}

ASSUME DistanceAssumption == Distance \subseteq Nat /\ Class \subseteq Int
ASSUME DataSetAssumption == DataSet \subseteq Seq(Row)
ASSUME WantedAssumption == RowsWanted \subseteq Nat
ASSUME WeightAssumption == One \in Nat /\ Scale \in Nat

VARIABLES
    mDataSet,          \* rows, in the order of the file
    nNN,               \* neighbours to select
    typeWeight,        \* DistanceWeight
    pc,                \* "scan", "search", "vote", "done" or "crashed"
    row,               \* row the outer loop is at
    slot,              \* slot the inner loop is at
    selected,          \* row in each slot, 0 for null
    rowAdded,          \* slots filled
    mostDistanceField, \* slot replaced next, 0 for null
    result             \* winner and its probability num/den, NaN when den = 0

input == <<mDataSet, nNN, typeWeight>>
vars == <<input, pc, row, slot, selected, rowAdded, mostDistanceField, result>>

Rows == DOMAIN mDataSet
Slots == 1..nNN
DistanceOf(r) == mDataSet[r].distance

\* kNNImp asks for min(mMinRowToGetClass, mMinRowPerClass) neighbours, where
\* mMinRowPerClass counts the rows of the rarest class: the most that every
\* class has.
CountOf(data, c) == Cardinality({r \in DOMAIN data : data[r].class = c})
ClassesIn(data) == {data[r].class : r \in DOMAIN data}
Neighbours(data, wanted) ==
    {n \in 0..wanted :
        /\ \A c \in ClassesIn(data) : CountOf(data, c) >= n
        /\ n = wanted \/ \E c \in ClassesIn(data) : CountOf(data, c) = n}

NoResult == [success |-> FALSE, class |-> 0, num |-> 0, den |-> 1]

Init ==
    /\ mDataSet \in DataSet
    /\ \E wanted \in RowsWanted : nNN \in Neighbours(mDataSet, wanted)
    /\ typeWeight \in Weights
    /\ pc = "scan"
    /\ row = 1
    /\ slot = 1
    /\ selected = [s \in Slots |-> 0]
    /\ rowAdded = 0
    /\ mostDistanceField = 0
    /\ result = NoResult

-----------------------------------------------------------------------------
(* Selection.                                                              *)

\* Mutant: the loop over the slots is not left at the first free one.
FillAll ==
    /\ pc = "scan" /\ row \in Rows
    /\ rowAdded < nNN
    /\ selected' = [s \in Slots |-> IF selected[s] = 0 THEN row ELSE selected[s]]
    /\ mostDistanceField' = IF mostDistanceField = 0 THEN 1 ELSE mostDistanceField
    /\ rowAdded' = nNN
    /\ row' = row + 1
    /\ UNCHANGED <<input, pc, slot, result>>

\* A slot is free: the row goes to the first free one, and is the most
\* distant if it is farther than the most distant so far.
Fill ==
    /\ pc = "scan" /\ row \in Rows
    /\ rowAdded < nNN
    /\ \E s \in Slots :
          /\ selected[s] = 0
          /\ \A t \in Slots : t < s => selected[t] # 0
          /\ selected' = [selected EXCEPT ![s] = row]
          /\ mostDistanceField' =
                IF \/ mostDistanceField = 0
                   \/ DistanceOf(selected[mostDistanceField]) < DistanceOf(row)
                THEN s ELSE mostDistanceField
    /\ rowAdded' = rowAdded + 1
    /\ row' = row + 1
    /\ UNCHANGED <<input, pc, slot, result>>

\* Mutant: the comparison is reversed.
ReplaceByFarther ==
    /\ pc = "scan" /\ row \in Rows
    /\ rowAdded >= nNN /\ mostDistanceField # 0
    /\ DistanceOf(selected[mostDistanceField]) < DistanceOf(row)
    /\ selected' = [selected EXCEPT ![mostDistanceField] = row]
    /\ pc' = "search"
    /\ slot' = 1
    /\ UNCHANGED <<input, row, rowAdded, mostDistanceField, result>>

\* All slots are taken: a row nearer than the most distant one replaces it,
\* and the most distant one is searched again.
Replace ==
    /\ pc = "scan" /\ row \in Rows
    /\ rowAdded >= nNN /\ mostDistanceField # 0
    /\ DistanceOf(selected[mostDistanceField]) > DistanceOf(row)
    /\ selected' = [selected EXCEPT ![mostDistanceField] = row]
    /\ pc' = "search"
    /\ slot' = 1
    /\ UNCHANGED <<input, row, rowAdded, mostDistanceField, result>>

\* Mutant: the search moves past the last slot.
SearchTooFar ==
    /\ pc = "search" /\ slot \in Slots
    /\ mostDistanceField' =
          IF DistanceOf(selected[mostDistanceField]) <= DistanceOf(row)
          THEN slot + 1 ELSE mostDistanceField
    /\ slot' = slot + 1
    /\ UNCHANGED <<input, pc, row, selected, rowAdded, result>>

\* The search compares the most distant row with the row that has just come.
Search ==
    /\ pc = "search" /\ slot \in Slots
    /\ mostDistanceField' =
          IF DistanceOf(selected[mostDistanceField]) < DistanceOf(row)
          THEN slot ELSE mostDistanceField
    /\ slot' = slot + 1
    /\ UNCHANGED <<input, pc, row, selected, rowAdded, result>>

SearchEnds ==
    /\ pc = "search" /\ slot \notin Slots
    /\ pc' = "scan"
    /\ row' = row + 1
    /\ UNCHANGED <<input, slot, selected, rowAdded, mostDistanceField, result>>

Pass ==
    /\ pc = "scan" /\ row \in Rows
    /\ rowAdded >= nNN /\ mostDistanceField # 0
    /\ DistanceOf(selected[mostDistanceField]) <= DistanceOf(row)
    /\ row' = row + 1
    /\ UNCHANGED <<input, pc, slot, selected, rowAdded, mostDistanceField, result>>

\* No neighbour is asked for: mostDistanceField is null when it is read.
NullField ==
    /\ pc = "scan" /\ row \in Rows
    /\ rowAdded >= nNN /\ mostDistanceField = 0
    /\ pc' = "crashed"
    /\ UNCHANGED <<input, row, slot, selected, rowAdded, mostDistanceField, result>>

\* Mutant: the last row is not looked at.
ScanEndsEarly ==
    /\ pc = "scan" /\ row >= Len(mDataSet)
    /\ pc' = "vote"
    /\ UNCHANGED <<input, row, slot, selected, rowAdded, mostDistanceField, result>>

ScanEnds ==
    /\ pc = "scan" /\ row \notin Rows
    /\ pc' = "vote"
    /\ UNCHANGED <<input, row, slot, selected, rowAdded, mostDistanceField, result>>

-----------------------------------------------------------------------------
(* Vote.                                                                   *)

Chosen == {selected[s] : s \in Slots} \ {0}
ChosenClasses == {mDataSet[r].class : r \in Chosen}
ChosenOf(c) == {s \in Slots : selected[s] # 0 /\ mDataSet[selected[s]].class = c}
ChosenDistance(s) == DistanceOf(selected[s])

\* The sum of weights is infinite when a ONE_ON_DISTANCE row is at distance 0.
Infinite(slots) ==
    typeWeight = "ONE_ON_DISTANCE" /\ \E s \in slots : ChosenDistance(s) = 0

\* What one selected row adds to the weight of its class.
WeightOf(s) ==
    CASE typeWeight = "DEMOCRATIC" -> 1
      [] typeWeight = "ONE_ON_DISTANCE" -> Scale \div ChosenDistance(s)
      [] typeWeight = "ONE_MINUS_DISTANCE" -> One - ChosenDistance(s)

Weight(slots) == MapThenSumSet(WeightOf, slots)

\* Mutant: the comparison of weights is reversed.
Lighter(c, d) ==
    LET C == ChosenOf(c)
        D == ChosenOf(d)
    IN ~Infinite(C) /\ (Infinite(D) \/ Weight(C) < Weight(D))

Heavier(c, d) ==
    LET C == ChosenOf(c)
        D == ChosenOf(d)
    IN ~Infinite(D) /\ (Infinite(C) \/ Weight(C) > Weight(D))

\* The map is scanned in the order of its keys: the first of the heaviest wins.
Winner ==
    CHOOSE c \in ChosenClasses :
        \A d \in ChosenClasses : ~Heavier(d, c) /\ (d < c => Heavier(c, d))

\* Sum of distances, which is what is left of ONE_MINUS_DISTANCE weights
\* when each is subtracted from its count.
Span(slots) == Cardinality(slots) * One - Weight(slots)

\* 1 - error, as a fraction.
Fraction(n, d) == [num |-> n, den |-> d]
Probability(c) ==
    LET C == ChosenOf(c)
        all == UNION {ChosenOf(d) : d \in ChosenClasses}
    IN CASE typeWeight = "DEMOCRATIC" -> Fraction(Weight(C), nNN)
         [] typeWeight = "ONE_ON_DISTANCE" ->
               IF Infinite(all) THEN Fraction(0, 0)
               ELSE Fraction(Weight(C), Weight(all))
         [] typeWeight = "ONE_MINUS_DISTANCE" -> Fraction(Span(C), Span(all))

Verdict ==
    IF Chosen = {} THEN NoResult
    ELSE LET p == Probability(Winner)
         IN [success |-> TRUE, class |-> Winner, num |-> p.num, den |-> p.den]

Vote ==
    /\ pc = "vote"
    /\ pc' = "done"
    /\ result' = Verdict
    /\ UNCHANGED <<input, row, slot, selected, rowAdded, mostDistanceField>>

-----------------------------------------------------------------------------
Next == Fill \/ Replace \/ Search \/ SearchEnds \/ Pass \/ NullField \/ ScanEnds \/ Vote

Spec == Init /\ [][Next]_vars

-----------------------------------------------------------------------------
(* Properties.                                                             *)

TypeOK ==
    /\ mDataSet \in Seq(Row)
    /\ nNN \in Nat
    /\ typeWeight \in Weights
    /\ pc \in {"scan", "search", "vote", "done", "crashed"}
    /\ row \in Nat \ {0}
    /\ slot \in Nat \ {0}
    /\ selected \in [Slots -> Rows \cup {0}]
    /\ rowAdded \in Nat
    /\ mostDistanceField \in Slots \cup {0}
    /\ result \in [success : BOOLEAN, class : Int, num : Int, den : Int]

\* Rows the outer loop has dealt with.
Seen == {r \in Rows : r < row \/ (pc = "search" /\ r = row)}

(* Every neighbour votes once: two slots never hold the same row.          *)
DistinctRows ==
    \A s, t \in Slots : selected[s] = selected[t] /\ selected[s] # 0 => s = t

(* Replacing never loses the nearest row: whatever slot is given up, one   *)
(* of the selected rows is as near as any row seen.                        *)
NearestKept ==
    nNN > 0 /\ Seen # {} =>
        \E s \in Slots : /\ selected[s] # 0
                         /\ \A r \in Seen : DistanceOf(selected[s]) <= DistanceOf(r)

\* The selected rows are nearest: no row left out is nearer than one of them.
Nearest == \A s \in Slots, r \in Rows :
              selected[s] # 0 /\ r \notin Chosen =>
                  DistanceOf(selected[s]) <= DistanceOf(r)

(* With one neighbour, or as many as there are rows, the selection is      *)
(* right.                                                                  *)
ExactWhenSmall == pc = "done" /\ (nNN = 1 \/ Len(mDataSet) <= nNN) => Nearest

(* The winner has at least the average share of the vote, so that a        *)
(* filter below 1/classes never silences it: counts and inverse distances. *)
WinnerShare ==
    result.success /\ typeWeight # "ONE_MINUS_DISTANCE" /\ result.den # 0 =>
        /\ result.num <= result.den
        /\ result.num * Cardinality(ChosenClasses) >= result.den

(* kNN.cpp:30 calls the selected rows the list of k nearest neighbours.    *)
KNearest == pc = "done" => Nearest

(* Division by zero does not lose the class: when inverse distances weigh   *)
(* and a selected row is at distance 0, the winner is a class with such a   *)
(* row, although its probability, infinity over infinity, is not a number.  *)
ExactMatchDecides ==
    result.success /\ typeWeight = "ONE_ON_DISTANCE" =>
        LET exact == {mDataSet[r].class : r \in {q \in Chosen : DistanceOf(q) = 0}}
        IN exact # {} => result.class \in exact /\ result.den = 0
=============================================================================
