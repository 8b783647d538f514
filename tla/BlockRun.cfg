SPECIFICATION InFrameSpec
CONSTANTS
    WordSize = 4
    MCWordSize = 4
    WordBytes = 2
    ByteBits = 1
    UsizeMax = 2
    Pow2 <- MCPow2
    Exp <- MCExp
    BitAnd <- MCBitAnd
    BitOr <- MCBitOr
    BitXor <- MCBitXor
    FrameLen = 2
    Opcodes <- MCInFrameOpcodes
    Immediates <- MCImmediates
    MaxInsts = 4
    EntryStacks <- MCEntryStacks
INVARIANTS
    TypeOK
    UsesAreDefined
    StaysOnStack
    StackPointerIsRight
PROPERTIES
    ImplementsEvm
CHECK_DEADLOCK FALSE
