SPECIFICATION Spec
CONSTANTS
    Entries <- MCEntries
    Sources <- MCSources
    MaxEntries = 4
    ShownBytes = 2
INVARIANT
    ParsedAsDescribed
CHECK_DEADLOCK FALSE
