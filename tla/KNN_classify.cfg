SPECIFICATION Spec
CONSTANTS
    Distance <- Distances
    Class <- Classes
    DataSet <- DataSets
    RowsWanted <- Wanted
    One = 2
    Scale = 6
    MaxRows = 4
INVARIANTS TypeOK DistinctRows NearestKept ExactWhenSmall WinnerShare ExactMatchDecides
CHECK_DEADLOCK FALSE
