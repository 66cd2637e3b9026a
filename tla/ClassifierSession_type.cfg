SPECIFICATION Spec
CONSTANTS
    long = long
    short = short
    foreign = foreign
    kNN = kNN
    SVM = SVM
    fist = fist
    wave = wave
    NoType = NoType
    NoClass = NoClass
    File <- AllFiles
    Type <- Types
    Class <- Classes
    TypeOf <- MCTypeOf
    RepsOf <- MCRepsOf
    ModeOf <- MCModeOf
    ClassesOf <- MCClassesOf
    MaxSessions = 2
INVARIANT TypeSelected
CHECK_DEADLOCK FALSE
