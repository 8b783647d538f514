SPECIFICATION EvalSpec
CONSTANTS
    WordSize = 16
    MCWordSize = 16
    WordBytes = 2
    ByteBits = 2
    UsizeMax = 7
    EvalOpcodes <- MCEvalOpcodes
    EvalIndex = 7
    Pow2 <- MCPow2
    Exp <- MCExp
    BitAnd <- MCBitAnd
    BitOr <- MCBitOr
    BitXor <- MCBitXor
INVARIANTS
    FoldMatchesEvm
CHECK_DEADLOCK FALSE
