------------------------------ MODULE KNNProofs ------------------------------
(***************************************************************************)
(* Theorems about kNN::classify, for any data set, any number of           *)
(* neighbours and any distances: first the selection of the rows, then     *)
(* their vote.                                                             *)
(***************************************************************************)
EXTENDS KNN, FiniteSetTheorems, TLAPS

-----------------------------------------------------------------------------
(* The slots.                                                              *)

Typed ==
    /\ mDataSet \in Seq(Row)
    /\ nNN \in Nat
    /\ pc \in {"scan", "search", "vote", "done", "crashed"}
    /\ row \in Nat \ {0}
    /\ selected \in [Slots -> Rows \cup {0}]
    /\ rowAdded \in 0..nNN
    /\ mostDistanceField \in Slots \cup {0}

\* The slots are filled from the first, with rows that were seen, and the most
\* distant one is a filled one.
Filled ==
    /\ \A s \in Slots : selected[s] # 0 <=> s <= rowAdded
    /\ \A s \in Slots : selected[s] # 0 => selected[s] \in Seen
    /\ mostDistanceField # 0 => mostDistanceField <= rowAdded

\* While the most distant row is searched, it is the row that has just come.
Searching == pc = "search" =>
    /\ row \in Rows
    /\ mostDistanceField # 0 /\ selected[mostDistanceField] = row

\* The vote comes after the last row.
Scanned == pc \in {"vote", "done"} => row \notin Rows

\* As long as there are slots for all rows, nothing is replaced.
InOrder == Len(mDataSet) <= nNN =>
    /\ pc # "search"
    /\ pc # "crashed" => rowAdded = row - 1
    /\ \A s \in Slots : s <= rowAdded => selected[s] = s

SlotsInv == Typed /\ Filled /\ Searching /\ Scanned /\ DistinctRows
Selection == SlotsInv /\ NearestKept /\ InOrder

LEMMA RowsAreNumbers ==
    ASSUME Typed
    PROVE  /\ Rows = 1..Len(mDataSet) /\ Len(mDataSet) \in Nat
           /\ Slots \subseteq Nat \ {0}
           /\ \A r \in Rows : DistanceOf(r) \in Nat
<1>1. mDataSet \in Seq(Row)
  BY DEF Typed
<1>2. Rows = 1..Len(mDataSet) /\ Len(mDataSet) \in Nat
  BY <1>1 DEF Rows
<1>3. \A r \in Rows : mDataSet[r] \in Row
  BY <1>1, <1>2
<1>4. \A r \in Rows : DistanceOf(r) \in Nat
  BY <1>3, DistanceAssumption DEF Row, DistanceOf
<1>5. Slots \subseteq Nat \ {0}
  BY DEF Typed, Slots
<1>6. QED
  BY <1>2, <1>4, <1>5

LEMMA InitSelection == Init => Selection
<1> SUFFICES ASSUME Init PROVE Selection
  OBVIOUS
<1>1. mDataSet \in Seq(Row)
  BY DataSetAssumption DEF Init
<1>2. nNN \in Nat
  <2>1. PICK wanted \in RowsWanted : nNN \in Neighbours(mDataSet, wanted)
    BY DEF Init
  <2>2. wanted \in Nat /\ nNN \in 0..wanted
    BY <2>1, WantedAssumption DEF Neighbours
  <2>3. QED
    BY <2>2
<1>3. selected = [s \in Slots |-> 0] /\ row = 1 /\ rowAdded = 0 /\ mostDistanceField = 0
      /\ pc = "scan"
  BY DEF Init
<1>4. Typed
  BY <1>1, <1>2, <1>3 DEF Typed
<1>5. Seen = {}
  BY <1>3, <1>4, RowsAreNumbers DEF Seen
<1>6. Filled /\ Searching /\ Scanned /\ DistinctRows /\ NearestKept
  BY <1>3, <1>4, <1>5, RowsAreNumbers DEF Filled, Searching, Scanned, DistinctRows, NearestKept
<1>7. InOrder
  BY <1>3, <1>4, RowsAreNumbers DEF InOrder
<1>8. QED
  BY <1>4, <1>6, <1>7 DEF Selection, SlotsInv

-----------------------------------------------------------------------------
(* One lemma per kind of step.                                             *)

LEMMA FillSelects ==
    ASSUME Selection, Fill
    PROVE  Selection'
<1> USE DEF Selection, SlotsInv
<1>1. /\ Rows = 1..Len(mDataSet) /\ Len(mDataSet) \in Nat
      /\ Slots = 1..nNN /\ nNN \in Nat
      /\ \A r \in Rows : DistanceOf(r) \in Nat
  BY RowsAreNumbers DEF Slots, Typed
<1>2. UNCHANGED <<mDataSet, nNN, pc>> /\ pc = "scan" /\ row \in Rows
  BY DEF Fill, input
<1>3. Rows' = Rows /\ Slots' = Slots /\ \A r \in Rows : DistanceOf(r)' = DistanceOf(r)
  BY <1>2 DEF Rows, Slots, DistanceOf
<1>4. row' = row + 1 /\ rowAdded' = rowAdded + 1 /\ rowAdded < nNN
  BY DEF Fill
<1>5. PICK s \in Slots :
         /\ selected[s] = 0
         /\ \A t \in Slots : t < s => selected[t] # 0
         /\ selected' = [selected EXCEPT ![s] = row]
         /\ mostDistanceField' \in {s, mostDistanceField}
         /\ mostDistanceField = 0 => mostDistanceField' = s
  BY Zenon DEF Fill
<1>6. s = rowAdded + 1
  <2>1. ~(s <= rowAdded)
    BY <1>5 DEF Filled
  <2>2. rowAdded + 1 \in Slots /\ selected[rowAdded + 1] = 0
    BY <1>1, <1>4 DEF Filled, Typed
  <2>3. ~(rowAdded + 1 < s)
    BY <1>5, <2>2
  <2>4. QED
    BY <1>1, <2>1, <2>3 DEF Typed
<1>7. selected'[s] = row /\ \A t \in Slots : t # s => selected'[t] = selected[t]
  BY <1>5 DEF Typed
<1>8. Seen' = Seen \cup {row} /\ row \notin Seen
  BY <1>1, <1>2, <1>3, <1>4 DEF Seen, Typed
<1>9. Typed'
  <2>1. selected' \in [Slots -> Rows \cup {0}]
    BY <1>2, <1>5 DEF Typed
  <2>2. rowAdded' \in 0..nNN
    BY <1>1, <1>4 DEF Typed
  <2>3. QED
    BY <1>1, <1>2, <1>3, <1>4, <1>5, <2>1, <2>2 DEF Typed
<1>10. Filled'
  BY <1>1, <1>2, <1>3, <1>4, <1>5, <1>6, <1>7, <1>8 DEF Filled, Typed
<1>11. Searching' /\ Scanned'
  BY <1>2 DEF Searching, Scanned
<1>12. DistinctRows'
  BY <1>3, <1>7, <1>8 DEF DistinctRows, Filled
<1>13. NearestKept'
  <2>1. CASE Seen = {}
    BY <1>1, <1>2, <1>3, <1>7, <1>8, <2>1 DEF NearestKept
  <2>2. CASE Seen # {}
    <3>1. PICK t \in Slots : /\ selected[t] # 0
                             /\ \A r \in Seen : DistanceOf(selected[t]) <= DistanceOf(r)
      BY <1>1, <1>4, <2>2 DEF NearestKept, Typed
    <3>2. t # s /\ selected'[t] = selected[t] /\ selected[t] \in Rows
      BY <1>5, <1>7, <3>1 DEF Typed
    <3>3. CASE DistanceOf(row) < DistanceOf(selected[t])
      <4>1. \A r \in Seen' : DistanceOf(row) <= DistanceOf(r)
        BY <1>1, <1>2, <1>8, <3>1, <3>2, <3>3 DEF Seen
      <4>2. QED
        BY <1>1, <1>2, <1>3, <1>7, <1>8, <4>1 DEF NearestKept, Seen
    <3>4. CASE DistanceOf(selected[t]) <= DistanceOf(row)
      <4>1. \A r \in Seen' : DistanceOf(selected[t]) <= DistanceOf(r)
        BY <1>8, <3>1, <3>4
      <4>2. QED
        BY <1>2, <1>3, <1>8, <3>1, <3>2, <4>1 DEF NearestKept, Seen
    <3>5. QED
      BY <1>1, <1>2, <3>2, <3>3, <3>4
  <2>3. QED
    BY <2>1, <2>2
<1>14. InOrder'
  BY <1>1, <1>2, <1>3, <1>4, <1>6, <1>7 DEF InOrder, Typed
<1>15. QED
  BY <1>9, <1>10, <1>11, <1>12, <1>13, <1>14

LEMMA ReplaceSelects ==
    ASSUME Selection, Replace
    PROVE  Selection'
<1> USE DEF Selection, SlotsInv
<1> DEFINE m == mostDistanceField
<1>1. /\ Rows = 1..Len(mDataSet) /\ Len(mDataSet) \in Nat
      /\ Slots = 1..nNN /\ nNN \in Nat
      /\ \A r \in Rows : DistanceOf(r) \in Nat
  BY RowsAreNumbers DEF Slots, Typed
<1>2. /\ UNCHANGED <<mDataSet, nNN, row, rowAdded, mostDistanceField>>
      /\ pc = "scan" /\ pc' = "search" /\ row \in Rows
      /\ rowAdded >= nNN /\ m # 0
      /\ DistanceOf(selected[m]) > DistanceOf(row)
      /\ selected' = [selected EXCEPT ![m] = row]
  BY DEF Replace, input
<1>3. Rows' = Rows /\ Slots' = Slots /\ \A r \in Rows : DistanceOf(r)' = DistanceOf(r)
  BY <1>2 DEF Rows, Slots, DistanceOf
<1>4. /\ m \in Slots
      /\ selected'[m] = row
      /\ \A t \in Slots : t # m => selected'[t] = selected[t]
  BY <1>2 DEF Typed
<1>5. Seen' = Seen \cup {row} /\ row \notin Seen
  BY <1>1, <1>2, <1>3 DEF Seen, Typed
<1>6. selected[m] # 0 /\ selected[m] \in Seen /\ selected[m] \in Rows
  BY <1>2, <1>4 DEF Filled, Seen
<1>7. Typed'
  <2>1. selected' \in [Slots -> Rows \cup {0}]
    BY <1>2 DEF Typed
  <2>2. QED
    BY <1>2, <1>3, <2>1 DEF Typed
<1>8. Filled'
  BY <1>1, <1>2, <1>3, <1>4, <1>5, <1>6 DEF Filled, Typed
<1>9. Searching' /\ Scanned'
  BY <1>2, <1>3, <1>4 DEF Searching, Scanned
<1>10. DistinctRows'
  BY <1>3, <1>4, <1>5 DEF DistinctRows, Filled
<1>11. NearestKept'
  <2>1. PICK t \in Slots : /\ selected[t] # 0
                           /\ \A r \in Seen : DistanceOf(selected[t]) <= DistanceOf(r)
    BY <1>1, <1>4, <1>6 DEF NearestKept
  <2>2. selected[t] \in Rows /\ row \in Nat \ {0}
    BY <1>1, <1>2, <2>1 DEF Typed
  <2>3. CASE t = m \/ DistanceOf(row) < DistanceOf(selected[t])
    <3>1. \A r \in Seen' : DistanceOf(row) <= DistanceOf(r)
      BY <1>1, <1>2, <1>5, <2>1, <2>2, <2>3 DEF Seen
    <3>2. PICK w \in Slots : w = m
      BY <1>4
    <3>3. w \in Slots' /\ selected'[w] = row /\ selected'[w] # 0
      BY <1>3, <1>4, <2>2, <3>2
    <3>4. \A r \in Seen' : DistanceOf(selected[w])' <= DistanceOf(r)'
      BY <1>2, <1>3, <3>1, <3>3 DEF DistanceOf, Seen
    <3>5. QED
      BY <3>3, <3>4 DEF NearestKept
  <2>4. CASE t # m /\ DistanceOf(selected[t]) <= DistanceOf(row)
    <3>1. \A r \in Seen' : DistanceOf(selected[t]) <= DistanceOf(r)
      BY <1>5, <2>1, <2>4
    <3>2. selected'[t] = selected[t]
      BY <1>4, <2>4
    <3>3. t \in Slots' /\ selected'[t] # 0
      BY <1>3, <2>1, <3>2
    <3>4. \A r \in Seen' : DistanceOf(selected[t])' <= DistanceOf(r)'
      BY <1>2, <3>1, <3>2, <1>3 DEF DistanceOf, Seen
    <3>5. QED
      BY <3>3, <3>4 DEF NearestKept
  <2>5. QED
    BY <1>1, <1>2, <2>2, <2>3, <2>4
<1>12. InOrder'
  BY <1>1, <1>2, <1>3 DEF InOrder
<1>13. QED
  BY <1>7, <1>8, <1>9, <1>10, <1>11, <1>12

\* The row that has just come is no farther than itself: the search moves
\* nothing.
LEMMA SearchMovesNothing ==
    ASSUME Selection, Search
    PROVE  UNCHANGED <<input, pc, row, selected, rowAdded, mostDistanceField>>
<1>1. selected[mostDistanceField] = row /\ row \in Rows
  BY DEF Search, Selection, SlotsInv, Searching
<1>2. DistanceOf(row) \in Nat
  BY <1>1, RowsAreNumbers DEF Selection, SlotsInv
<1>3. ~(DistanceOf(selected[mostDistanceField]) < DistanceOf(row))
  BY <1>1, <1>2
<1>4. QED
  BY <1>3, Zenon DEF Search, input

LEMMA OthersSelect ==
    ASSUME Selection,
           \/ Search \/ SearchEnds \/ Pass \/ NullField \/ ScanEnds \/ Vote
           \/ UNCHANGED vars
    PROVE  Selection'
<1> USE DEF Selection, SlotsInv
<1>1. /\ Rows = 1..Len(mDataSet) /\ Len(mDataSet) \in Nat
      /\ Slots = 1..nNN /\ nNN \in Nat
      /\ \A r \in Rows : DistanceOf(r) \in Nat
  BY RowsAreNumbers DEF Slots, Typed
<1>2. UNCHANGED <<mDataSet, nNN, selected, rowAdded, mostDistanceField>>
  BY SearchMovesNothing DEF SearchEnds, Pass, NullField, ScanEnds, Vote, vars, input
<1>3. Rows' = Rows /\ Slots' = Slots /\ \A r \in Rows : DistanceOf(r)' = DistanceOf(r)
  BY <1>2 DEF Rows, Slots, DistanceOf
<1>4. DistinctRows'
  BY <1>2, <1>3 DEF DistinctRows
<1>5. CASE Search \/ UNCHANGED vars
  <2>1. UNCHANGED <<pc, row>>
    BY <1>5, SearchMovesNothing DEF vars
  <2>2. Seen' = Seen
    BY <1>3, <2>1 DEF Seen
  <2>3. QED
    BY <1>2, <1>3, <1>4, <2>1, <2>2 DEF Typed, Filled, Searching, Scanned, NearestKept,
       InOrder, Seen
<1>6. CASE SearchEnds
  <2>1. pc = "search" /\ pc' = "scan" /\ row' = row + 1
    BY <1>6 DEF SearchEnds
  <2>2. Seen' = Seen
    BY <1>1, <1>3, <2>1 DEF Seen, Typed
  <2>3. QED
    BY <1>1, <1>2, <1>3, <1>4, <2>1, <2>2 DEF Typed, Filled, Searching, Scanned,
       NearestKept, InOrder, Seen
<1>7. CASE Pass
  <2>1. /\ pc = "scan" /\ pc' = "scan" /\ row' = row + 1 /\ row \in Rows
        /\ rowAdded >= nNN /\ mostDistanceField # 0
        /\ DistanceOf(selected[mostDistanceField]) <= DistanceOf(row)
    BY <1>7 DEF Pass
  <2>2. Seen' = Seen \cup {row}
    BY <1>1, <1>3, <2>1 DEF Seen, Typed
  <2>3. selected[mostDistanceField] # 0 /\ selected[mostDistanceField] \in Seen
    BY <2>1 DEF Filled, Typed
  <2>4. PICK t \in Slots : /\ selected[t] # 0
                           /\ \A r \in Seen : DistanceOf(selected[t]) <= DistanceOf(r)
    BY <1>1, <2>1, <2>3 DEF NearestKept, Typed
  <2>5. selected[t] \in Rows /\ selected[mostDistanceField] \in Rows
    BY <2>3, <2>4 DEF Typed, Seen
  <2>6. \A r \in Seen' : DistanceOf(selected[t]) <= DistanceOf(r)
    BY <1>1, <2>1, <2>2, <2>3, <2>4, <2>5
  <2>7. NearestKept'
    BY <1>2, <1>3, <2>2, <2>4, <2>5, <2>6 DEF NearestKept, Seen
  <2>8. Typed' /\ Filled' /\ Searching' /\ Scanned'
    BY <1>1, <1>2, <1>3, <2>1, <2>2 DEF Typed, Filled, Searching, Scanned
  <2>9. InOrder'
    BY <1>1, <1>2, <1>3, <2>1 DEF InOrder, Typed
  <2>10. QED
    BY <1>4, <2>7, <2>8, <2>9
<1>8. CASE NullField \/ ScanEnds \/ Vote
  <2>1. /\ UNCHANGED row /\ pc' \in {"crashed", "vote", "done"} /\ pc # "search"
        /\ pc' \in {"vote", "done"} => row \notin Rows
        /\ pc' # "crashed" => pc # "crashed"
    BY <1>8 DEF NullField, ScanEnds, Vote, Scanned
  <2>2. Seen' = Seen
    BY <1>3, <2>1 DEF Seen
  <2>3. QED
    BY <1>2, <1>3, <1>4, <2>1, <2>2 DEF Typed, Filled, Searching, Scanned, NearestKept,
       InOrder, Seen
<1>9. QED
  BY <1>5, <1>6, <1>7, <1>8

LEMMA Invariance == Spec => []Selection
<1>1. Selection /\ [Next]_vars => Selection'
  BY FillSelects, ReplaceSelects, OthersSelect DEF Next
<1>2. QED
  BY <1>1, InitSelection, PTL DEF Spec

-----------------------------------------------------------------------------
\* Every neighbour votes once, however often slots are replaced
\* (kNN.cpp:63-99).
THEOREM NeighboursDistinct == Spec => []DistinctRows
<1>1. Selection => DistinctRows
  BY DEF Selection, SlotsInv
<1>2. QED
  BY <1>1, Invariance, PTL

\* The nearest row is selected, although the k nearest need not be.
THEOREM NearestSelected == Spec => []NearestKept
<1>1. Selection => NearestKept
  BY DEF Selection
<1>2. QED
  BY <1>1, Invariance, PTL

\* With one neighbour, or no more rows than neighbours, no row left out is
\* nearer than a selected one.
THEOREM SmallSelections == Spec => []ExactWhenSmall
<1>1. Selection => ExactWhenSmall
  <2> SUFFICES ASSUME Selection, pc = "done", nNN = 1 \/ Len(mDataSet) <= nNN,
                      NEW s \in Slots, NEW r \in Rows, selected[s] # 0, r \notin Chosen
               PROVE  DistanceOf(selected[s]) <= DistanceOf(r)
    BY DEF ExactWhenSmall, Nearest
  <2> USE DEF Selection, SlotsInv
  <2>1. /\ Rows = 1..Len(mDataSet) /\ Len(mDataSet) \in Nat
        /\ Slots = 1..nNN /\ nNN \in Nat
    BY RowsAreNumbers DEF Slots, Typed
  <2>2. row \notin Rows /\ row \in Nat \ {0}
    BY DEF Scanned, Typed
  <2>3. Seen = Rows
    BY <2>1, <2>2 DEF Seen
  <2>4. CASE nNN = 1
    BY <2>1, <2>3, <2>4 DEF NearestKept
  <2>5. CASE Len(mDataSet) <= nNN
    <3>1. rowAdded = row - 1 /\ \A t \in Slots : t <= rowAdded => selected[t] = t
      BY <2>5 DEF InOrder
    <3>2. r \in Slots /\ selected[r] = r
      BY <2>1, <2>2, <2>5, <3>1
    <3>3. r \in Chosen
      BY <2>1, <3>2 DEF Chosen
    <3>4. QED
      BY <3>3
  <2>6. QED
    BY <2>4, <2>5
<1>2. QED
  BY <1>1, Invariance, PTL
-----------------------------------------------------------------------------
(* Sums over finite sets.                                                  *)
(*                                                                         *)
(* The weight of a set of slots is a fold.  What it computes is proved     *)
(* without an induction principle: a finite set of sets in which a         *)
(* statement fails has a smallest member, and there it is refuted.         *)

LEMMA SmallestSubset ==
    ASSUME NEW S, IsFiniteSet(S), NEW Bad, Bad \subseteq SUBSET S, Bad # {}
    PROVE  \E T \in Bad : \A U \in Bad : U \subseteq T => U = T
<1>1. IsWellFoundedOn(StrictSubsetOrdering(S), SUBSET S)
  BY FS_StrictSubsetOrderingWellFounded, FS_FiniteSubsetsOfFinite
<1>2. PICK T \in Bad : \A U \in Bad : ~(<<U, T>> \in StrictSubsetOrdering(S))
  BY <1>1, WFMin
<1>3. QED BY <1>2 DEF StrictSubsetOrdering

Pick(T) == CHOOSE x \in T : TRUE

LEMMA Picked == \A T : T # {} => Pick(T) \in T
BY DEF Pick

\* The function on the subsets of S that the fold goes through.
IsFold(f, S) ==
    f = [T \in SUBSET S |->
            IF T = {} THEN 0 ELSE WeightOf(Pick(T)) + f[T \ {Pick(T)}]]

LEMMA WeightIsFold == ASSUME NEW S PROVE Weight(S) = (CHOOSE f : IsFold(f, S))[S]
BY DEF Weight, MapThenSumSet, MapThenFoldSet, IsFold, Pick

LEMMA FoldAt ==
    ASSUME NEW S, NEW f, IsFold(f, S), NEW T \in SUBSET S
    PROVE  f[T] = IF T = {} THEN 0 ELSE WeightOf(Pick(T)) + f[T \ {Pick(T)}]
BY DEF IsFold

\* Two such functions agree where both are defined.
LEMMA FoldUnique ==
    ASSUME NEW S, IsFiniteSet(S), NEW R, NEW f, NEW g, IsFold(f, S), IsFold(g, R),
           NEW V \in SUBSET S, V \in SUBSET R
    PROVE  f[V] = g[V]
<1> DEFINE Bad == {T \in SUBSET S : T \in SUBSET R /\ f[T] # g[T]}
<1> SUFFICES ASSUME Bad # {} PROVE FALSE
  OBVIOUS
<1>1. PICK T \in Bad : \A U \in Bad : U \subseteq T => U = T
  <2>1. Bad \subseteq SUBSET S
    OBVIOUS
  <2> HIDE DEF Bad
  <2>2. QED BY <2>1, SmallestSubset
<1>2. T # {}
  BY FoldAt
<1>3. Pick(T) \in T
  BY <1>2, Picked
<1>4. f[T \ {Pick(T)}] = g[T \ {Pick(T)}]
  BY <1>1, <1>3
<1>5. f[T] = g[T]
  BY <1>2, <1>4, FoldAt
<1>6. QED BY <1>5

LEMMA FoldExists == ASSUME NEW S, IsFiniteSet(S) PROVE \E f : IsFold(f, S)
<1> DEFINE Bad == {T \in SUBSET S : ~\E f : IsFold(f, T)}
<1> SUFFICES ASSUME Bad # {} PROVE FALSE
  OBVIOUS
<1>1. PICK T \in Bad : \A U \in Bad : U \subseteq T => U = T
  <2>1. Bad \subseteq SUBSET S
    OBVIOUS
  <2> HIDE DEF Bad
  <2>2. QED BY <2>1, SmallestSubset
<1> DEFINE Fold(U) == CHOOSE g : IsFold(g, U)
           Rest(U) == U \ {Pick(U)}
           f == [U \in SUBSET T |->
                    IF U = {} THEN 0 ELSE WeightOf(Pick(U)) + Fold(Rest(U))[Rest(U)]]
<1>2. \A U \in SUBSET T : U # T => IsFold(Fold(U), U)
  BY <1>1
<1>3. ASSUME NEW U \in SUBSET T, U # {}
      PROVE  Rest(U) \in SUBSET T /\ Rest(U) # T /\ IsFiniteSet(Rest(U))
  <2>1. Pick(U) \in U
    BY <1>3, Picked
  <2>2. QED BY <1>1, <2>1, FS_Subset
<1>4. ASSUME NEW U \in SUBSET T, U # {}
      PROVE  f[Rest(U)] = Fold(Rest(U))[Rest(U)]
  <2>1. PICK V : V = Rest(U)
    OBVIOUS
  <2>2. PICK g : g = Fold(V)
    OBVIOUS
  <2>3. V \in SUBSET T /\ V # T /\ IsFiniteSet(V) /\ IsFold(g, V)
    BY <1>2, <1>3, <1>4, <2>1, <2>2
  <2>4. g[V] = IF V = {} THEN 0 ELSE WeightOf(Pick(V)) + g[Rest(V)]
    BY <2>3, FoldAt
  <2>5. ASSUME V # {} PROVE g[Rest(V)] = Fold(Rest(V))[Rest(V)]
    <3>1. PICK W : W = Rest(V)
      OBVIOUS
    <3>2. PICK k : k = Fold(W)
      OBVIOUS
    <3>3. W \in SUBSET T /\ W # T /\ W \in SUBSET V
      BY <1>3, <2>3, <2>5, <3>1
    <3>4. IsFold(k, W)
      BY <1>2, <3>2, <3>3
    <3>5. g[W] = k[W]
      BY <2>3, <3>3, <3>4, FoldUnique
    <3>6. QED BY <3>1, <3>2, <3>5
  <2>6. f[V] = IF V = {} THEN 0 ELSE WeightOf(Pick(V)) + Fold(Rest(V))[Rest(V)]
    BY <2>3
  <2>7. f[V] = g[V]
    BY <2>4, <2>5, <2>6
  <2> HIDE DEF f, Fold, Rest
  <2>8. QED BY <2>1, <2>2, <2>7
<1>5. f = [U \in SUBSET T |-> IF U = {} THEN 0 ELSE WeightOf(Pick(U)) + f[Rest(U)]]
  <2> DEFINE h == [U \in SUBSET T |-> IF U = {} THEN 0 ELSE WeightOf(Pick(U)) + f[Rest(U)]]
  <2>1. ASSUME NEW U \in SUBSET T PROVE f[U] = h[U]
    <3>1. f[U] = IF U = {} THEN 0 ELSE WeightOf(Pick(U)) + Fold(Rest(U))[Rest(U)]
      OBVIOUS
    <3>2. U # {} => f[Rest(U)] = Fold(Rest(U))[Rest(U)]
      BY <1>4
    <3> HIDE DEF f, Fold, Rest
    <3>3. h[U] = IF U = {} THEN 0 ELSE WeightOf(Pick(U)) + f[Rest(U)]
      OBVIOUS
    <3>4. QED BY <3>1, <3>2, <3>3
  <2>2. f = [U \in SUBSET T |-> f[U]]
    OBVIOUS
  <2> HIDE DEF f, Rest
  <2>3. h = [U \in SUBSET T |-> h[U]]
    OBVIOUS
  <2> HIDE DEF h
  <2>4. f = h
    BY <2>1, <2>2, <2>3
  <2>5. QED BY <2>4 DEF h
<1>6. IsFold(f, T)
  <2> HIDE DEF f
  <2>1. QED BY <1>5 DEF IsFold
<1>7. QED BY <1>6

\* The weight of a set, unfolded once.
LEMMA WeightUnfolds ==
    ASSUME NEW S, IsFiniteSet(S)
    PROVE  Weight(S) = IF S = {} THEN 0 ELSE WeightOf(Pick(S)) + Weight(S \ {Pick(S)})
<1> DEFINE R == S \ {Pick(S)}
           f == CHOOSE g : IsFold(g, S)
           h == CHOOSE g : IsFold(g, R)
<1>1. IsFiniteSet(R)
  BY FS_Subset
<1>2. IsFold(f, S) /\ IsFold(h, R)
  BY <1>1, FoldExists
<1>3. Weight(S) = f[S] /\ Weight(R) = h[R]
  BY WeightIsFold
<1> HIDE DEF f, h
<1>4. f[R] = h[R]
  BY <1>2, FoldUnique
<1>5. QED BY <1>2, <1>3, <1>4, FoldAt

\* Any element can be taken out of a sum.
LEMMA WeightRemove ==
    ASSUME NEW S, IsFiniteSet(S), \A s \in S : WeightOf(s) \in Int
    PROVE  /\ Weight(S) \in Int
           /\ \A x \in S : Weight(S) = WeightOf(x) + Weight(S \ {x})
<1> DEFINE Good(T) == /\ Weight(T) \in Int
                      /\ \A x \in T : Weight(T) = WeightOf(x) + Weight(T \ {x})
           Bad == {T \in SUBSET S : ~Good(T)}
<1> SUFFICES ASSUME Bad # {} PROVE FALSE
  OBVIOUS
<1>1. PICK T \in Bad : \A U \in Bad : U \subseteq T => U = T
  <2>1. Bad \subseteq SUBSET S
    OBVIOUS
  <2> HIDE DEF Bad
  <2>2. QED BY <2>1, SmallestSubset
<1>2. IsFiniteSet(T) /\ Weight(T) = IF T = {} THEN 0
                                    ELSE WeightOf(Pick(T)) + Weight(T \ {Pick(T)})
  BY FS_Subset, WeightUnfolds
<1>3. T # {}
  BY <1>2
<1>4. PICK p \in T : p = Pick(T)
  BY <1>3, Picked
<1>5. \A U \in SUBSET T : U # T => Good(U)
  BY <1>1
<1>6. Weight(T \ {p}) \in Int /\ Weight(T) = WeightOf(p) + Weight(T \ {p})
  BY <1>2, <1>3, <1>4, <1>5
<1>7. ASSUME NEW x \in T, x # p PROVE Weight(T) = WeightOf(x) + Weight(T \ {x})
  <2>1. PICK U : U = (T \ {p}) \ {x}
    OBVIOUS
  <2>2. (T \ {x}) \ {p} = U
    BY <2>1
  <2>3. Weight(T \ {p}) = WeightOf(x) + Weight(U)
    BY <1>5, <1>7, <2>1
  <2>4. Weight(T \ {x}) = WeightOf(p) + Weight(U)
    BY <1>5, <1>7, <2>2
  <2>5. Weight(U) \in Int /\ WeightOf(x) \in Int /\ WeightOf(p) \in Int
    BY <1>5, <1>7, <2>1
  <2>6. QED BY <1>6, <2>3, <2>4, <2>5
<1>8. Weight(T) \in Int
  <2>1. WeightOf(p) \in Int
    OBVIOUS
  <2>2. QED BY <1>6, <2>1
<1>9. \A x \in T : Weight(T) = WeightOf(x) + Weight(T \ {x})
  BY <1>6, <1>7
<1>10. QED BY <1>8, <1>9

LEMMA WeightEmpty == Weight({}) = 0
BY FS_EmptySet, WeightUnfolds

\* Sums of disjoint sets add up.
LEMMA WeightUnion ==
    ASSUME NEW A, NEW B, IsFiniteSet(A), IsFiniteSet(B), A \cap B = {},
           \A s \in A \cup B : WeightOf(s) \in Int
    PROVE  Weight(A \cup B) = Weight(A) + Weight(B)
<1> DEFINE Bad == {T \in SUBSET A : Weight(T \cup B) # Weight(T) + Weight(B)}
<1> SUFFICES ASSUME Bad # {} PROVE FALSE
  OBVIOUS
<1>1. PICK T \in Bad : \A U \in Bad : U \subseteq T => U = T
  <2>1. Bad \subseteq SUBSET A
    OBVIOUS
  <2> HIDE DEF Bad
  <2>2. QED BY <2>1, SmallestSubset
<1>2. IsFiniteSet(T) /\ IsFiniteSet(T \cup B)
  BY FS_Subset, FS_Union
<1>3. Weight(B) \in Int
  BY WeightRemove
<1>4. CASE T = {}
  <2>1. T \cup B = B
    BY <1>4
  <2>2. QED BY <1>3, <1>4, <2>1, WeightEmpty
<1>5. CASE T # {}
  <2>1. PICK x \in T : TRUE
    BY <1>5
  <2>2. PICK U : U = T \ {x}
    OBVIOUS
  <2>3. (T \cup B) \ {x} = U \cup B
    BY <2>2
  <2>4. Weight(T \cup B) = WeightOf(x) + Weight(U \cup B)
    BY <1>2, <2>3, WeightRemove
  <2>5. Weight(T) = WeightOf(x) + Weight(U)
    BY <1>2, <2>2, WeightRemove
  <2>6. Weight(U \cup B) = Weight(U) + Weight(B)
    BY <1>1, <2>2
  <2>7. Weight(U) \in Int /\ WeightOf(x) \in Int
    BY <1>2, <2>2, FS_Subset, WeightRemove
  <2>8. QED BY <1>3, <2>4, <2>5, <2>6, <2>7
<1>6. QED BY <1>4, <1>5

\* A sum of natural numbers is one.
LEMMA WeightNat ==
    ASSUME NEW S, IsFiniteSet(S), \A s \in S : WeightOf(s) \in Nat
    PROVE  Weight(S) \in Nat
<1> DEFINE Bad == {T \in SUBSET S : Weight(T) \notin Nat}
<1> SUFFICES ASSUME Bad # {} PROVE FALSE
  OBVIOUS
<1>1. PICK T \in Bad : \A U \in Bad : U \subseteq T => U = T
  <2>1. Bad \subseteq SUBSET S
    OBVIOUS
  <2> HIDE DEF Bad
  <2>2. QED BY <2>1, SmallestSubset
<1>2. IsFiniteSet(T) /\ \A s \in T : WeightOf(s) \in Nat /\ WeightOf(s) \in Int
  BY FS_Subset
<1>3. PICK x \in T : TRUE
  BY WeightEmpty
<1>4. Weight(T) = WeightOf(x) + Weight(T \ {x})
  BY <1>2, WeightRemove
<1>5. Weight(T \ {x}) \in Nat
  BY <1>1, <1>3
<1>6. QED BY <1>2, <1>4, <1>5

\* A part of natural numbers weighs no more than all of them.
LEMMA WeightGrows ==
    ASSUME NEW S, IsFiniteSet(S), \A s \in S : WeightOf(s) \in Nat, NEW T \in SUBSET S
    PROVE  Weight(T) <= Weight(S)
<1>1. PICK U : U = S \ T
  OBVIOUS
<1>2. IsFiniteSet(T) /\ IsFiniteSet(U) /\ T \cap U = {} /\ T \cup U = S
  BY <1>1, FS_Subset
<1>3. \A s \in T \cup U : WeightOf(s) \in Nat /\ WeightOf(s) \in Int
  BY <1>2
<1>4. Weight(S) = Weight(T) + Weight(U)
  BY <1>2, <1>3, WeightUnion
<1>5. Weight(T) \in Nat /\ Weight(U) \in Nat
  BY <1>2, <1>3, WeightNat
<1>6. QED BY <1>4, <1>5

\* Rows that count one each weigh what they number.
LEMMA WeightCounts ==
    ASSUME NEW S, IsFiniteSet(S), \A s \in S : WeightOf(s) = 1
    PROVE  Weight(S) = Cardinality(S)
<1> DEFINE Bad == {T \in SUBSET S : Weight(T) # Cardinality(T)}
<1> SUFFICES ASSUME Bad # {} PROVE FALSE
  OBVIOUS
<1>1. PICK T \in Bad : \A U \in Bad : U \subseteq T => U = T
  <2>1. Bad \subseteq SUBSET S
    OBVIOUS
  <2> HIDE DEF Bad
  <2>2. QED BY <2>1, SmallestSubset
<1>2. IsFiniteSet(T) /\ \A s \in T : WeightOf(s) = 1 /\ WeightOf(s) \in Int
  BY FS_Subset
<1>3. PICK x \in T : TRUE
  BY WeightEmpty, FS_EmptySet
<1>4. Weight(T) = 1 + Weight(T \ {x})
  BY <1>2, WeightRemove
<1>5. Weight(T \ {x}) = Cardinality(T \ {x})
  BY <1>1, <1>3
<1>6. Cardinality(T \ {x}) = Cardinality(T) - 1 /\ Cardinality(T) \in Nat
  BY <1>2, FS_RemoveElement, FS_CardinalityType
<1>7. QED BY <1>4, <1>5, <1>6

-----------------------------------------------------------------------------
(* The vote.                                                               *)

All == UNION {ChosenOf(d) : d \in ChosenClasses}

\* The chosen rows are finite in number, and have whole weights unless one
\* of them is at distance 0.
LEMMA VotersAreFinite ==
    ASSUME Typed
    PROVE  /\ \A T \in SUBSET Slots : IsFiniteSet(T)
           /\ IsFiniteSet(ChosenClasses)
           /\ ChosenClasses \subseteq Int
           /\ \A c \in ChosenClasses : ChosenOf(c) \in SUBSET Slots /\ ChosenOf(c) # {}
           /\ All = {s \in Slots : selected[s] # 0}
<1>1. IsFiniteSet(Slots)
  BY FS_Interval DEF Slots, Typed
<1>2. \A T \in SUBSET Slots : IsFiniteSet(T)
  BY <1>1, FS_Subset
<1>3. Chosen \subseteq Rows
  BY DEF Chosen, Typed
<1>4. IsFiniteSet(ChosenClasses)
  <2> DEFINE f == [s \in Slots |-> selected[s]]
             g == [r \in Chosen |-> mDataSet[r].class]
             S == {selected[s] : s \in Slots}
  <2>1. f \in Surjection(Slots, S)
    BY DEF Surjection
  <2> HIDE DEF f
  <2>2. IsFiniteSet(S)
    BY <1>1, <2>1, FS_Surjection
  <2>3. IsFiniteSet(Chosen)
    BY <2>2, FS_Subset DEF Chosen
  <2>4. g \in Surjection(Chosen, ChosenClasses)
    BY DEF Surjection, ChosenClasses
  <2> HIDE DEF g
  <2>5. QED BY <2>3, <2>4, FS_Surjection
<1>5. ChosenClasses \subseteq Int
  <2>1. \A r \in Rows : mDataSet[r] \in Row
    BY RowsAreNumbers DEF Typed
  <2>2. QED BY <1>3, <2>1, DistanceAssumption DEF ChosenClasses, Row
<1>6. ASSUME NEW c \in ChosenClasses PROVE ChosenOf(c) \in SUBSET Slots /\ ChosenOf(c) # {}
  <2>1. PICK r \in Chosen : c = mDataSet[r].class
    BY DEF ChosenClasses
  <2>2. PICK s \in Slots : selected[s] = r /\ r # 0
    BY DEF Chosen
  <2>3. QED BY <2>1, <2>2 DEF ChosenOf
<1>7. All = {s \in Slots : selected[s] # 0}
  BY DEF All, ChosenOf, ChosenClasses, Chosen
<1>8. QED BY <1>2, <1>4, <1>5, <1>6, <1>7

LEMMA WeightsAreWhole ==
    ASSUME Typed, typeWeight \in Weights,
           NEW T \in SUBSET All, ~Infinite(T)
    PROVE  /\ \A s \in T : WeightOf(s) \in Int
           /\ typeWeight # "ONE_MINUS_DISTANCE" => \A s \in T : WeightOf(s) \in Nat
           /\ typeWeight = "DEMOCRATIC" => \A s \in T : WeightOf(s) = 1
           /\ IsFiniteSet(T)
           /\ Weight(T) \in Int
<1>1. IsFiniteSet(T) /\ \A s \in T : s \in Slots /\ selected[s] # 0
  BY VotersAreFinite
<1>2. \A s \in T : ChosenDistance(s) \in Nat
  BY <1>1, RowsAreNumbers DEF ChosenDistance, Typed
<1>3. CASE typeWeight = "DEMOCRATIC"
  <2>1. \A s \in T : WeightOf(s) = 1
    BY <1>3 DEF WeightOf
  <2>2. QED BY <1>1, <1>3, <2>1, WeightRemove
<1>4. CASE typeWeight = "ONE_ON_DISTANCE"
  <2>1. ASSUME NEW s \in T PROVE WeightOf(s) \in Nat
    <3>1. WeightOf(s) = Scale \div ChosenDistance(s)
      BY <1>4 DEF WeightOf
    <3>2. ChosenDistance(s) \in Nat \ {0}
      BY <1>2, <1>4 DEF Infinite
    <3>3. QED BY <3>1, <3>2, WeightAssumption
  <2>2. QED BY <1>1, <1>4, <2>1, WeightRemove
<1>5. CASE typeWeight = "ONE_MINUS_DISTANCE"
  <2>1. ASSUME NEW s \in T PROVE WeightOf(s) \in Int
    <3>1. WeightOf(s) = One - ChosenDistance(s)
      BY <1>5 DEF WeightOf
    <3>2. QED BY <1>2, <3>1, WeightAssumption
  <2>2. QED BY <1>1, <1>5, <2>1, WeightRemove
<1>6. QED BY <1>3, <1>4, <1>5 DEF Weights

\* The first of the heaviest classes exists: weights are compared by a total
\* order in which infinity comes last, and keys of the map by another.
First(K, c) == c \in K /\ \A d \in K : ~Heavier(d, c) /\ (d < c => Heavier(c, d))

LEMMA FirstExists ==
    ASSUME Typed, typeWeight \in Weights, NEW S \in SUBSET ChosenClasses, S # {}
    PROVE  \E c \in S : First(S, c)
<1> DEFINE Bad == {K \in SUBSET S : K # {} /\ ~\E c \in K : First(K, c)}
<1> SUFFICES ASSUME Bad # {} PROVE FALSE
  OBVIOUS
<1>1. PICK K \in Bad : \A U \in Bad : U \subseteq K => U = K
  <2>1. Bad \subseteq SUBSET S
    OBVIOUS
  <2>2. IsFiniteSet(S)
    BY VotersAreFinite, FS_Subset
  <2> HIDE DEF Bad
  <2>3. QED BY <2>1, <2>2, SmallestSubset
<1>2. \A c \in K : c \in Int /\ (Infinite(ChosenOf(c)) \/ Weight(ChosenOf(c)) \in Int)
  <2>1. ASSUME NEW c \in K PROVE c \in Int /\ ChosenOf(c) \in SUBSET All
    BY VotersAreFinite DEF All
  <2>2. QED BY <2>1, WeightsAreWhole
<1>3. PICK x \in K : TRUE
  OBVIOUS
<1>4. ~Heavier(x, x)
  BY <1>2 DEF Heavier
<1>5. PICK R : R = K \ {x}
  OBVIOUS
<1>6. CASE R = {}
  <2>1. \A d \in K : d = x
    BY <1>5, <1>6
  <2>2. First(K, x)
    BY <1>2, <1>4, <2>1 DEF First
  <2>3. QED BY <2>2
<1>7. CASE R # {}
  <2>1. PICK c \in R : First(R, c)
    BY <1>1, <1>5, <1>7
  <2>2. c \in K /\ \A d \in K : d = x \/ d \in R
    BY <1>5
  <2>3. ASSUME Heavier(x, c) \/ (~Heavier(c, x) /\ x < c) PROVE First(K, x)
    <3>1. ASSUME NEW d \in R PROVE ~Heavier(d, x) /\ (d < x => Heavier(x, d))
      <4>1. ~Heavier(d, c) /\ (d < c => Heavier(c, d)) /\ d \in K
        BY <1>5, <2>1 DEF First
      <4>2. QED BY <1>2, <2>2, <2>3, <4>1 DEF Heavier
    <3>2. QED BY <1>2, <1>4, <2>2, <3>1 DEF First
  <2>4. ASSUME ~(Heavier(x, c) \/ (~Heavier(c, x) /\ x < c)) PROVE First(K, c)
    BY <2>1, <2>2, <2>4 DEF First
  <2>5. QED BY <2>2, <2>3, <2>4
<1>8. QED BY <1>6, <1>7

\* The winner is a chosen class, and none is heavier.
LEMMA WinnerIsFirst ==
    ASSUME Typed, typeWeight \in Weights, Chosen # {}
    PROVE  Winner \in ChosenClasses /\ \A d \in ChosenClasses : ~Heavier(d, Winner)
<1>1. ChosenClasses # {}
  BY DEF ChosenClasses
<1>2. PICK c \in ChosenClasses : First(ChosenClasses, c)
  BY <1>1, FirstExists
<1>3. Winner = CHOOSE w \in ChosenClasses : First(ChosenClasses, w)
  BY DEF Winner, First
<1>4. QED BY <1>2, <1>3 DEF First

\* No class heavier than b: all of them are no heavier than b times their
\* number.
LEMMA SharesAddUp ==
    ASSUME Typed, typeWeight \in Weights, ~Infinite(All),
           NEW b \in Int, \A c \in ChosenClasses : Weight(ChosenOf(c)) <= b
    PROVE  Weight(All) <= b * Cardinality(ChosenClasses)
<1> DEFINE Of(K) == UNION {ChosenOf(c) : c \in K}
           Bad == {K \in SUBSET ChosenClasses : ~(Weight(Of(K)) <= b * Cardinality(K))}
<1> SUFFICES ASSUME Bad # {} PROVE FALSE
  BY DEF All
<1>1. PICK K \in Bad : \A U \in Bad : U \subseteq K => U = K
  <2>1. Bad \subseteq SUBSET ChosenClasses
    OBVIOUS
  <2> HIDE DEF Bad
  <2>2. QED BY <2>1, VotersAreFinite, SmallestSubset
<1>2. ASSUME NEW U \in SUBSET ChosenClasses
      PROVE  /\ Of(U) \in SUBSET All /\ ~Infinite(Of(U))
             /\ IsFiniteSet(U) /\ Cardinality(U) \in Nat
  BY VotersAreFinite, FS_Subset, FS_CardinalityType DEF All, Infinite
<1>3. CASE K = {}
  <2>1. Cardinality(K) = 0 /\ b * 0 = 0
    BY <1>3, FS_EmptySet
  <2>2. PICK X : X = Of(K)
    OBVIOUS
  <2>3. X = {}
    BY <1>3, <2>2
  <2>4. Weight(X) = 0
    BY <2>3, WeightEmpty
  <2>5. QED BY <2>1, <2>2, <2>4
<1>4. CASE K # {}
  <2>1. PICK x \in K : TRUE
    BY <1>4
  <2>2. PICK R : R = K \ {x}
    OBVIOUS
  <2>3. PICK X : X = ChosenOf(x)
    OBVIOUS
  <2>4. PICK Y : Y = Of(R)
    OBVIOUS
  <2>5. Of(K) = X \cup Y /\ X \cap Y = {}
    BY <2>2, <2>3, <2>4 DEF ChosenOf
  <2>6. X \in SUBSET All /\ ~Infinite(X) /\ Y \in SUBSET All /\ ~Infinite(Y)
    BY <1>2, <2>2, <2>3, <2>4 DEF All, Infinite
  <2>7. Weight(Of(K)) = Weight(X) + Weight(Y) /\ Weight(X) \in Int /\ Weight(Y) \in Int
    BY <2>5, <2>6, WeightsAreWhole, WeightUnion
  <2>8. Weight(X) <= b /\ Weight(Y) <= b * Cardinality(R)
    BY <1>1, <2>1, <2>2, <2>3, <2>4
  <2>9. PICK n \in Nat : n = Cardinality(R) /\ Cardinality(K) = n + 1
    <3>1. Cardinality(R) = Cardinality(K) - 1 /\ Cardinality(K) \in Nat
      BY <1>2, <2>1, <2>2, FS_RemoveElement
    <3>2. Cardinality(R) \in Nat
      BY <1>2, <2>2
    <3>3. QED BY <3>1, <3>2
  <2>10. b * (n + 1) = b * n + b /\ b * n \in Int
    OBVIOUS
  <2>11. Weight(Of(K)) <= b * Cardinality(K)
    BY <2>7, <2>8, <2>9, <2>10
  <2>12. QED BY <2>11
<1>5. QED BY <1>3, <1>4

Results == [success : BOOLEAN, class : Int, num : Int, den : Int]

\* While a slot is free every row fills one; and there are rows for all slots.
Growing == rowAdded < nNN => rowAdded = row - 1 /\ pc # "search"
Enough == mDataSet # <<>> => nNN <= Len(mDataSet)

Voting ==
    /\ Selection
    /\ slot \in Nat \ {0} /\ typeWeight \in Weights /\ result \in Results
    /\ Growing /\ Enough
    /\ pc # "done" => result = NoResult
    /\ WinnerShare
    /\ ExactMatchDecides

LEMMA InitVoting == Init => Voting
<1> SUFFICES ASSUME Init PROVE Voting
  OBVIOUS
<1>1. Selection
  BY InitSelection
<1>2. Enough
  <2> SUFFICES ASSUME mDataSet # <<>> PROVE nNN <= Len(mDataSet)
    BY DEF Enough
  <2>1. mDataSet \in Seq(Row)
    BY DataSetAssumption DEF Init
  <2>2. DOMAIN mDataSet = 1..Len(mDataSet) /\ Len(mDataSet) \in Nat \ {0}
    BY <2>1
  <2>3. PICK wanted \in RowsWanted : nNN \in Neighbours(mDataSet, wanted)
    BY DEF Init
  <2>4. PICK c \in ClassesIn(mDataSet) : TRUE
    BY <2>2 DEF ClassesIn
  <2>5. CountOf(mDataSet, c) >= nNN /\ nNN \in Nat
    BY <2>3, <2>4, WantedAssumption DEF Neighbours
  <2>6. CountOf(mDataSet, c) <= Len(mDataSet) /\ CountOf(mDataSet, c) \in Nat
    <3>1. IsFiniteSet(1..Len(mDataSet)) /\ Cardinality(1..Len(mDataSet)) = Len(mDataSet)
      BY <2>2, FS_Interval
    <3>2. QED BY <2>2, <3>1, FS_Subset, FS_CardinalityType DEF CountOf
  <2>7. QED BY <2>2, <2>5, <2>6
<1>3. Growing
  BY DEF Init, Growing
<1>4. NoResult \in Results /\ ~NoResult.success
  BY DEF NoResult, Results
<1>5. WinnerShare /\ ExactMatchDecides
  BY <1>4 DEF Init, WinnerShare, ExactMatchDecides
<1>6. QED
  BY <1>1, <1>2, <1>3, <1>4, <1>5 DEF Init, Voting

\* Once the rows are over, every slot is filled or none is.
LEMMA VotersAreAll ==
    ASSUME Voting, pc = "vote", Chosen # {}
    PROVE  All = Slots /\ Cardinality(All) = nNN
<1> USE DEF Voting, Selection, SlotsInv
<1>1. /\ Rows = 1..Len(mDataSet) /\ Len(mDataSet) \in Nat
      /\ row \notin Rows /\ row \in Nat \ {0}
      /\ nNN \in Nat /\ rowAdded \in 0..nNN
  BY RowsAreNumbers DEF Typed, Scanned
<1>2. mDataSet # <<>>
  <2>1. PICK r \in Chosen : r \in Rows
    BY DEF Chosen, Typed
  <2>2. Len(mDataSet) # 0
    BY <1>1, <2>1
  <2>3. QED BY <2>2
<1>3. rowAdded = nNN
  BY <1>1, <1>2 DEF Growing, Enough
<1>4. \A s \in Slots : selected[s] # 0
  BY <1>1, <1>3 DEF Filled, Slots
<1>5. All = Slots
  BY <1>4, VotersAreFinite
<1>6. QED
  BY <1>1, <1>5, FS_Interval DEF Slots

\* What the vote returns.
LEMMA VerdictIsFair ==
    ASSUME Voting, pc = "vote"
    PROVE  /\ Verdict \in Results
           /\ Verdict.success /\ typeWeight # "ONE_MINUS_DISTANCE" /\ Verdict.den # 0 =>
                 /\ Verdict.num <= Verdict.den
                 /\ Verdict.num * Cardinality(ChosenClasses) >= Verdict.den
           /\ Verdict.success /\ typeWeight = "ONE_ON_DISTANCE" =>
                 LET exact == {mDataSet[r].class : r \in {q \in Chosen : DistanceOf(q) = 0}}
                 IN exact # {} => Verdict.class \in exact /\ Verdict.den = 0
<1>1. CASE Chosen = {}
  <2>1. Verdict = NoResult
    BY <1>1 DEF Verdict
  <2>2. QED BY <2>1 DEF NoResult, Results
<1>2. CASE Chosen # {}
  <2>1. Typed /\ typeWeight \in Weights
    BY DEF Voting, Selection, SlotsInv
  <2>2. PICK w : w = Winner
    OBVIOUS
  <2>3. w \in ChosenClasses /\ \A d \in ChosenClasses : ~Heavier(d, w)
    BY <1>2, <2>1, <2>2, WinnerIsFirst
  <2>4. PICK C : C = ChosenOf(w)
    OBVIOUS
  <2>5. w \in Int /\ C \in SUBSET All /\ All \in SUBSET All /\ IsFiniteSet(C) /\ IsFiniteSet(All)
    BY <2>1, <2>3, <2>4, VotersAreFinite DEF All
  <2>6. Verdict = [success |-> TRUE, class |-> w, num |-> Probability(w).num,
                   den |-> Probability(w).den]
    BY <1>2, <2>2 DEF Verdict
  <2>7. Infinite(C) => Infinite(All)
    BY <2>5 DEF Infinite
  <2>8. Probability(w) =
           CASE typeWeight = "DEMOCRATIC" -> Fraction(Weight(C), nNN)
             [] typeWeight = "ONE_ON_DISTANCE" ->
                   IF Infinite(All) THEN Fraction(0, 0)
                   ELSE Fraction(Weight(C), Weight(All))
             [] typeWeight = "ONE_MINUS_DISTANCE" -> Fraction(Span(C), Span(All))
    BY <2>4 DEF Probability, All
  <2>9. CASE Infinite(All)
    <3>1. typeWeight = "ONE_ON_DISTANCE" /\ Probability(w) = Fraction(0, 0)
      BY <2>8, <2>9 DEF Infinite
    <3>2. Verdict = [success |-> TRUE, class |-> w, num |-> 0, den |-> 0]
      BY <2>6, <3>1 DEF Fraction
    <3>3. PICK s \in All : ChosenDistance(s) = 0
      BY <2>9 DEF Infinite
    <3>4. PICK d \in ChosenClasses : s \in ChosenOf(d)
      BY <3>3 DEF All
    <3>5. Infinite(ChosenOf(d)) /\ ~Heavier(d, w)
      BY <2>3, <3>1, <3>3, <3>4 DEF Infinite
    <3>6. Infinite(C)
      BY <2>4, <3>5 DEF Heavier
    <3>7. PICK t \in Slots : /\ selected[t] # 0 /\ ChosenDistance(t) = 0
                             /\ mDataSet[selected[t]].class = w
      BY <2>4, <3>6 DEF Infinite, ChosenOf
    <3>8. w \in {mDataSet[r].class : r \in {q \in Chosen : DistanceOf(q) = 0}}
      BY <3>7 DEF Chosen, ChosenDistance
    <3>9. QED BY <2>5, <3>2, <3>8 DEF Results
  <2>10. CASE ~Infinite(All)
    <3>1. Weight(C) \in Int /\ Weight(All) \in Int
      BY <2>1, <2>5, <2>7, <2>10, WeightsAreWhole
    <3>2. Span(C) \in Int /\ Span(All) \in Int
      <4>1. Cardinality(C) \in Nat /\ Cardinality(All) \in Nat /\ One \in Nat
        BY <2>5, FS_CardinalityType, WeightAssumption
      <4>2. QED BY <3>1, <4>1 DEF Span
    <3>3. All = Slots /\ Cardinality(All) = nNN /\ nNN \in Int
      BY <1>2, <2>1, VotersAreAll DEF Typed
    <3>4. PICK num \in Int, den \in Int :
             Verdict = [success |-> TRUE, class |-> w, num |-> num, den |-> den]
      <4>1. PICK p : p = Probability(w)
        OBVIOUS
      <4>2. p.num \in Int /\ p.den \in Int
        <5>1. CASE typeWeight = "DEMOCRATIC"
          <6>1. p = Fraction(Weight(C), nNN)
            BY <2>8, <4>1, <5>1
          <6>2. QED BY <3>1, <3>3, <6>1 DEF Fraction
        <5>2. CASE typeWeight = "ONE_ON_DISTANCE"
          <6>1. p = Fraction(Weight(C), Weight(All))
            BY <2>8, <2>10, <4>1, <5>2
          <6>2. QED BY <3>1, <6>1 DEF Fraction
        <5>3. CASE typeWeight = "ONE_MINUS_DISTANCE"
          <6>1. p = Fraction(Span(C), Span(All))
            BY <2>8, <4>1, <5>3
          <6>2. QED BY <3>2, <6>1 DEF Fraction
        <5>4. QED BY <2>1, <5>1, <5>2, <5>3 DEF Weights
      <4>3. QED BY <2>6, <4>1, <4>2
    <3>5. ASSUME typeWeight # "ONE_MINUS_DISTANCE"
          PROVE  num <= den /\ num * Cardinality(ChosenClasses) >= den
      <4>1. num = Weight(C) /\ den = Weight(All)
        <5>1. CASE typeWeight = "DEMOCRATIC"
          <6>1. Weight(All) = nNN
            BY <2>1, <2>5, <2>10, <3>3, <5>1, WeightsAreWhole, WeightCounts
          <6>2. QED BY <2>6, <2>8, <3>4, <5>1, <6>1 DEF Fraction
        <5>2. CASE typeWeight = "ONE_ON_DISTANCE"
          BY <2>6, <2>8, <2>10, <3>4, <5>2 DEF Fraction
        <5>3. QED BY <2>1, <3>5, <5>1, <5>2 DEF Weights
      <4>2. Weight(C) <= Weight(All)
        BY <2>1, <2>5, <2>10, <3>5, WeightsAreWhole, WeightGrows
      <4>3. ASSUME NEW c \in ChosenClasses PROVE Weight(ChosenOf(c)) <= num
        <5>1. ChosenOf(c) \in SUBSET All /\ ~Infinite(ChosenOf(c))
          BY <2>10 DEF All, Infinite
        <5>2. Weight(ChosenOf(c)) \in Int
          BY <2>1, <5>1, WeightsAreWhole
        <5>3. ~Heavier(c, w) /\ ~Infinite(C)
          BY <2>3, <2>7, <2>10
        <5>4. QED BY <2>4, <3>1, <4>1, <5>2, <5>3 DEF Heavier
      <4>4. Weight(All) <= num * Cardinality(ChosenClasses)
        BY <2>1, <2>10, <4>3, SharesAddUp
      <4>5. Cardinality(ChosenClasses) \in Int
        BY <2>1, VotersAreFinite, FS_CardinalityType
      <4>6. num * Cardinality(ChosenClasses) \in Int
        BY <4>5
      <4>7. QED BY <3>1, <4>1, <4>2, <4>4, <4>6
    <3>6. ASSUME typeWeight = "ONE_ON_DISTANCE"
          PROVE  {q \in Chosen : DistanceOf(q) = 0} = {}
      BY <2>1, <2>10, <3>3, <3>6 DEF Infinite, Chosen, ChosenDistance
    <3>7. QED BY <2>5, <3>4, <3>5, <3>6 DEF Results
  <2>11. QED BY <2>9, <2>10
<1>3. QED BY <1>1, <1>2

LEMMA VoteIsFair ==
    ASSUME Voting, Vote
    PROVE  result' \in Results /\ WinnerShare' /\ ExactMatchDecides'
<1>1. pc = "vote" /\ result' = Verdict /\ UNCHANGED <<mDataSet, nNN, typeWeight, selected>>
  BY DEF Vote, input
<1>2. /\ Chosen' = Chosen /\ ChosenClasses' = ChosenClasses
      /\ \A r : DistanceOf(r)' = DistanceOf(r)
  BY <1>1 DEF Chosen, ChosenClasses, Slots, DistanceOf
<1>3. PICK v : v = Verdict
  OBVIOUS
<1>4. result' = v
  BY <1>1, <1>3
<1>5. v \in Results
  BY <1>1, <1>3, VerdictIsFair
<1>6. WinnerShare'
  <2>1. v.success /\ typeWeight # "ONE_MINUS_DISTANCE" /\ v.den # 0 =>
           v.num <= v.den /\ v.num * Cardinality(ChosenClasses) >= v.den
    BY <1>1, <1>3, VerdictIsFair
  <2>2. QED BY <1>1, <1>2, <1>4, <2>1 DEF WinnerShare
<1>7. ExactMatchDecides'
  <2> DEFINE exact == {mDataSet[r].class : r \in {q \in Chosen : DistanceOf(q) = 0}}
  <2>1. v.success /\ typeWeight = "ONE_ON_DISTANCE" =>
           (exact # {} => v.class \in exact /\ v.den = 0)
    BY <1>1, <1>3, VerdictIsFair
  <2>2. exact' = exact
    BY <1>1, <1>2
  <2>3. ExactMatchDecides' <=>
           (result.success' /\ typeWeight' = "ONE_ON_DISTANCE" =>
              (exact' # {} => result.class' \in exact' /\ result.den' = 0))
    BY DEF ExactMatchDecides
  <2> HIDE DEF exact
  <2>4. QED BY <1>1, <1>4, <2>1, <2>2, <2>3
<1>8. QED BY <1>4, <1>5, <1>6, <1>7

LEMMA VotingInductive == Voting /\ [Next]_vars => Voting'
<1> SUFFICES ASSUME Voting, [Next]_vars PROVE Voting'
  OBVIOUS
<1>1. Selection'
  BY FillSelects, ReplaceSelects, OthersSelect DEF Voting, Next
<1>2. UNCHANGED input
  BY DEF Next, Fill, Replace, Search, SearchEnds, Pass, NullField, ScanEnds, Vote, vars
<1>3. Enough' /\ typeWeight' \in Weights
  BY <1>2 DEF Voting, Enough, input
<1>4. slot' \in Nat \ {0}
  BY DEF Voting, Next, Fill, Replace, Search, SearchEnds, Pass, NullField, ScanEnds, Vote, vars
<1>5. Growing'
  <2> USE DEF Voting, Growing, Selection, SlotsInv
  <2>1. row \in Nat /\ rowAdded \in Nat /\ nNN \in Nat /\ nNN' = nNN
    BY <1>2 DEF Typed, input
  <2>2. CASE Fill
    BY <2>1, <2>2 DEF Fill
  <2>3. CASE Search
    BY <2>1, <2>3, SearchMovesNothing DEF Search
  <2>4. CASE Replace \/ SearchEnds \/ Pass \/ NullField \/ ScanEnds \/ Vote
    BY <2>1, <2>4 DEF Replace, SearchEnds, Pass, NullField, ScanEnds, Vote
  <2>5. CASE UNCHANGED vars
    BY <2>1, <2>5 DEF vars
  <2>6. QED BY <2>2, <2>3, <2>4, <2>5 DEF Next
<1>6. CASE Vote
  <2>1. pc' = "done"
    BY <1>6 DEF Vote
  <2>2. QED BY <1>1, <1>3, <1>4, <1>5, <1>6, <2>1, VoteIsFair DEF Voting
<1>7. CASE UNCHANGED vars
  <2>1. UNCHANGED <<result, pc, mDataSet, nNN, typeWeight, selected>>
    BY <1>7 DEF vars, input
  <2>2. WinnerShare' /\ ExactMatchDecides'
    BY <2>1 DEF Voting, WinnerShare, ExactMatchDecides, Chosen, ChosenClasses, Slots, DistanceOf
  <2>3. QED BY <1>1, <1>3, <1>4, <1>5, <2>1, <2>2 DEF Voting
<1>8. CASE Fill \/ Replace \/ Search \/ SearchEnds \/ Pass \/ NullField \/ ScanEnds
  <2>1. pc # "done" /\ pc' # "done" /\ result' = result
    BY <1>8 DEF Fill, Replace, Search, SearchEnds, Pass, NullField, ScanEnds
  <2>2. result' = NoResult
    BY <2>1 DEF Voting
  <2>3. NoResult \in Results /\ ~NoResult.success
    BY DEF NoResult, Results
  <2>4. WinnerShare' /\ ExactMatchDecides'
    BY <2>2, <2>3 DEF WinnerShare, ExactMatchDecides
  <2>5. QED BY <1>1, <1>3, <1>4, <1>5, <2>1, <2>2, <2>3, <2>4 DEF Voting
<1>9. QED BY <1>6, <1>7, <1>8 DEF Next

LEMMA VotingHolds == Spec => []Voting
BY InitVoting, VotingInductive, PTL DEF Spec

-----------------------------------------------------------------------------
\* The state of kNN::classify stays of its type, sums of weights and the
\* class of the winner included (kNN.cpp:45-170).
THEOREM ClassifyTyped == Spec => []TypeOK
<1>1. Voting => TypeOK
  BY DEF Voting, Selection, SlotsInv, Typed, TypeOK, Results
<1>2. QED BY <1>1, VotingHolds, PTL

\* The winner has no more than the whole vote and at least the average share
\* of it, when rows are counted and when inverse distances weigh
\* (kNN.cpp:115-170).
THEOREM WinnerIsAboveAverage == Spec => []WinnerShare
<1>1. Voting => WinnerShare
  BY DEF Voting
<1>2. QED BY <1>1, VotingHolds, PTL

\* With inverse distances and a selected row at distance 0, the winner is the
\* class of such a row and its probability is not a number (kNN.cpp:123-170).
THEOREM ExactRowsDecide == Spec => []ExactMatchDecides
<1>1. Voting => ExactMatchDecides
  BY DEF Voting
<1>2. QED BY <1>1, VotingHolds, PTL
=============================================================================
