SPECIFICATION EmitSpec
CONSTANTS
    WordSize = 4
    MCWordSize = 4
    WordBytes = 2
    ByteBits = 1
    UsizeMax = 2
    Pow2 <- MCPow2
    Exp <- MCExp
    BitAnd <- MCBitAnd
    BitOr <- MCBitOr
    BitXor <- MCBitXor
    FrameLen = 2
    Opcodes <- MCOpcodes
    Immediates <- MCImmediates
    MaxInsts = 4
    StackLimit = 5
    EntryHeights <- MCEntryHeights
INVARIANTS
    OnlySwappedAreUndeclared
    ThrowsOnlyAsEvm
    LeavesAsEvm
    UnderflowIsNoticed
CHECK_DEADLOCK FALSE
