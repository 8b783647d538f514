SPECIFICATION Spec
CONSTANTS
    Keys <- MCKeys
    Lookups <- MCLookups
    MaxContracts = 3
    CommandLines <- MCCommandLines
    Colon <- MCColon
    Underscore <- MCUnderscore
    LowerCase <- MCLowerCase
INVARIANTS
    BestMatchWins
    MatchesAreFound
    AllOrError
    AbisAreTranslateds
CHECK_DEADLOCK FALSE
