SPECIFICATION Spec
CONSTANTS
    WordSize = 4
    MCWordSize = 4
    WordBytes = 2
    ByteBits = 1
    UsizeMax = 2
    Pow2 <- MCPow2
    Exp <- MCExp
    BitAnd <- MCBitAnd
    BitOr <- MCBitOr
    BitXor <- MCBitXor
    FrameLen = 2
    Opcodes <- MCPopOpcodes
    Immediates <- MCImmediates
    MaxInsts = 4
    EntryStacks <- MCEntryStacks
PROPERTIES
    StackLooksTheSame
CHECK_DEADLOCK FALSE
