SPECIFICATION FairSpec
CONSTANTS
    Contracts = {c1, c2}
    MaxTranslations = 3
    Modes <- MCModes
INVARIANTS
    SuccessIsWhole
    SuccessIsIncluded
    IncludedIsWhole
PROPERTIES
    IncludesAreKept
    FormattedForGood
CHECK_DEADLOCK FALSE
