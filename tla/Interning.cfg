SPECIFICATION Spec
CONSTANTS
    ByteSize = 4
    WordBytes = 3
    SmallLimit = 4
    IndexLimit = 16
    Words <- MCWords
    Jumpdests <- MCJumpdests
    MaxPrinted = 4
INVARIANTS
    TypeOK
    NamesAreDistinct
    UsesAreDeclared
    UntracedIsInDict
CHECK_DEADLOCK FALSE
