SPECIFICATION Spec
CONSTANTS
    help = help
    a1 = a1
    a2 = a2
    custom = custom
    NoName = NoName
    ArgId <- MCArgId
    Help = help
    TypeName <- MCTypeName
    Nargs <- MCNargs
    MutexId <- MCMutexId
    Action <- MCAction
    Text <- MCText
    ArgCapacity = 1
    GroupCapacity = 1
    MaxDependencies = 1
    MaxCalls = 5
    MaxFailures = 1
SYMMETRY MCSymmetry
INVARIANTS
    TypeOK
    FlagsFollowNargs
    IndexedInOrder
    GroupIdsAreIndices
    CrashesExplained
    HelpShowsEach
PROPERTY
    LostOnlyTwoWays
