SPECIFICATION FairInTableSpec
CONSTANTS
    Alphabet <- MCAlphabet
    MaxCode = 4
    WordBytes = 3
    Place <- MCPlace
    Targets <- MCTargets
    U32Size = 6
    U64Size = 8
INVARIANTS
    TypeOK
    JumpdestsAreLabels
    ScansAgree
    JumpdestsAreEvms
    BlocksAreStraightLine
    FallThroughIsNextBlock
    GlobalIndexIsOrdinal
    PushesEvmImmediate
    AlwaysLinked
PROPERTIES
    Terminates
    GoesWhereEvmGoes
CHECK_DEADLOCK FALSE
