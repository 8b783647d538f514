---------------------------- MODULE Instructions ----------------------------
(***************************************************************************)
(* The EVM instruction set as evm2cpp tabulates it: which bytes are        *)
(* instructions (the enum Instruction and its from_u8), what the           *)
(* classification methods answer, and how many stack words each            *)
(* instruction takes and returns (the INSTRUCTIONS table).  An instruction *)
(* is its byte; gas tiers and mnemonics are left out.                      *)
(***************************************************************************)
EXTENDS Integers

Byte == 0..255

\* Instruction::from_u8 answers Some(_) on exactly these bytes.
Instruction ==
    (0..11) \cup (16..29) \cup {32} \cup (48..62) \cup (64..71) \cup (80..91)
      \cup (96..164) \cup (240..245) \cup {250, 253, 254, 255}

STOP         == 0
ADD          == 1
MUL          == 2
SUB          == 3
DIV          == 4
MOD          == 6
ADDMOD       == 8
MULMOD       == 9
EXP          == 10
LT           == 16
GT           == 17
EQ           == 20
ISZERO       == 21
AND          == 22
OR           == 23
XOR          == 24
NOT          == 25
BYTE         == 26
SHL          == 27
SHR          == 28
POP          == 80
MLOAD        == 81
MSTORE       == 82
JUMP         == 86
JUMPI        == 87
PC           == 88
JUMPDEST     == 91
PUSH1        == 96
PUSH32       == 127
DUP1         == 128
DUP16        == 143
SWAP1        == 144
SWAP16       == 159
RETURN       == 243
REVERT       == 253
INVALID      == 254
SELFDESTRUCT == 255

is_push(op) == op \in PUSH1..PUSH32

pushes_constant(op) == is_push(op) \/ op = PC

stops(op) == op \in {SELFDESTRUCT, STOP, REVERT, RETURN, INVALID}

is_jump(op) == op \in {JUMP, JUMPI}

\* push_bytes().unwrap_or(0): the number of immediate bytes after the opcode.
push_bytes(op) == IF is_push(op) THEN op - PUSH1 + 1 ELSE 0

is_dup(op) == op \in DUP1..DUP16

is_swap(op) == op \in SWAP1..SWAP16

\* The 0-based depth that DUPn copies and SWAPn exchanges with the top.
dup_position(op)  == op - DUP1
swap_position(op) == op - SWAP1 + 1

\* InstructionInfo.args: the stack words an instruction takes.
Args(op) ==
    IF is_dup(op) THEN dup_position(op) + 1
    ELSE IF is_swap(op) THEN swap_position(op) + 1
    ELSE IF op \in {21, 25, 49, 53, 59, 64, 80, 81, 84, 86, 255} THEN 1
    ELSE IF op \in (1..7) \cup {10, 11} \cup (16..20) \cup (22..24) \cup (26..29)
                   \cup {32, 82, 83, 85, 87, 160, 243, 253} THEN 2
    ELSE IF op \in {8, 9, 55, 57, 62, 161, 240} THEN 3
    ELSE IF op \in {60, 162, 245} THEN 4
    ELSE IF op = 163 THEN 5
    ELSE IF op \in {164, 244, 250} THEN 6
    ELSE IF op \in {241, 242} THEN 7
    ELSE 0

\* InstructionInfo.ret: the stack words an instruction returns.
Ret(op) ==
    IF is_dup(op) THEN dup_position(op) + 2
    ELSE IF is_swap(op) THEN swap_position(op) + 1
    ELSE IF op \in {0, 55, 57, 60, 62, 80, 82, 83, 85, 86, 87, 91}
                   \cup (160..164) \cup {243, 253, 254, 255} THEN 0
    ELSE 1
=============================================================================
