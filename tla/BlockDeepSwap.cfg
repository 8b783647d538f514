SPECIFICATION Spec
CONSTANTS
    WordSize = 4
    MCWordSize = 4
    WordBytes = 2
    ByteBits = 1
    UsizeMax = 2
    Pow2 <- MCPow2
    Exp <- MCExp
    BitAnd <- MCBitAnd
    BitOr <- MCBitOr
    BitXor <- MCBitXor
    FrameLen = 2
    Opcodes <- MCSwapOpcodes
    Immediates <- MCImmediates
    MaxInsts = 3
    EntryStacks <- MCEntryStacks
PROPERTIES
    ImplementsEvm
CHECK_DEADLOCK FALSE
