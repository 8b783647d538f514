SPECIFICATION Spec
CONSTANTS
    Entries <- MCEntries
    Sources <- MCSources
    MaxEntries = 4
    ShownBytes = 2
INVARIANTS
    SourceMapTypeOK
    CopiesAgree
    ShowsSource
    OldDepthIsZero
    FullMapsParse
CHECK_DEADLOCK FALSE
