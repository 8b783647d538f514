------------------------------ MODULE Bytecode ------------------------------
(***************************************************************************)
(* Program::new of analysis.rs: the bytecode is scanned twice, once by     *)
(* BasicBlock::parse, which cuts it into basic blocks, and once by         *)
(* CodeMeta::new, which marks the valid jump destinations and the data     *)
(* bytes.  The scans share nothing, and codegen.rs joins their results:    *)
(* the jump table holds the address &&pc_x of a label for every marked     *)
(* destination x, and only a block emits a label.                          *)
(*                                                                         *)
(* Addresses are 0-based as in the code, so the byte at p is code[p+1].    *)
(* A word is WordBytes bytes, big end first (32 in the code).              *)
(***************************************************************************)
EXTENDS EvmCode, FiniteSets

CONSTANTS
    Alphabet,   \* the bytes a bytecode is made of
    MaxCode,    \* the longest bytecode
    WordBytes,  \* the bytes of a word
    Place(_)    \* what the k-th byte of a word counts for, from the big end

ASSUME AlphabetAssumption  == Alphabet \subseteq Byte
ASSUME MaxCodeAssumption   == MaxCode \in Nat
ASSUME WordBytesAssumption == WordBytes \in Nat \ {0}
ASSUME PlaceAssumption     == \A k \in 1..WordBytes : Place(k) \in Nat \ {0}

VARIABLES
    code,               \* the bytecode
    phase,              \* where Program::new is
    pc,                 \* parse: the address of the next instruction
    bb,                 \* parse: the block being built
    blocks,             \* Program::new: the blocks built so far
    inst_global_index,  \* Program::new: the instructions in those blocks
    i,                  \* CodeMeta::new: the next position to classify
    jumpdests,          \* CodeMeta.jumpdests, as the set of its one bits
    iscode              \* CodeMeta.iscode, as the set of its one bits

vars == <<code, phase, pc, bb, blocks, inst_global_index, i, jumpdests, iscode>>
parseVars == <<pc, bb, blocks, inst_global_index>>
metaVars  == <<i, jumpdests, iscode>>

Word == [1..WordBytes -> Byte]
Zero == [k \in 1..WordBytes |-> 0]

Positions == 0..(Len(code) - 1)
ByteAt(p) == code[p + 1]

\* One past the instruction at p, its immediate bytes included.
NextPc(p) == p + 1 + push_bytes(ByteAt(p))

-----------------------------------------------------------------------------
(* BasicBlock::parse *)

IInstruction ==
    [address: Nat, global_idx: Nat, opcode: Byte, valid: BOOLEAN, value: Word]

BasicBlock ==
    [address: Nat, instructions: Seq(IInstruction), ends_on_invalid: BOOLEAN]

EmptyBlock(start) ==
    [address |-> start, instructions |-> <<>>, ends_on_invalid |-> FALSE]

\* U256::from_big_endian of the bytes from first up to, not including, last.
FromBigEndian(first, last) ==
    [k \in 1..WordBytes |->
        LET p == last - WordBytes + k - 1 IN IF p >= first THEN ByteAt(p) ELSE 0]

\* Mutant of PushValue: the slice stops one byte short.
PushValue_ShortSlice(p) ==
    IF p + 1 = Len(code) THEN Zero
    ELSE FromBigEndian(p + 1, IF NextPc(p) < Len(code) THEN NextPc(p) - 1 ELSE Len(code))

\* The constant of a PUSH at p; a PUSH that the code cuts off keeps what is
\* left of its immediate.
PushValue(p) ==
    LET n == push_bytes(ByteAt(p)) IN
    IF p + 1 + n < Len(code) THEN FromBigEndian(p + 1, p + 1 + n)
    ELSE IF p + 1 = Len(code) THEN Zero
    ELSE FromBigEndian(p + 1, Len(code))

\* U256::from of an address: what PC pushes.
FromAddress(p) == [k \in 1..WordBytes |-> (p \div Place(k)) % 256]

\* The operands parse puts into an instruction are left out, emulate_bb puts
\* its own; so is the value of CODESIZE, which nothing but a comment shows.
Decode(p) ==
    [address    |-> p,
     global_idx |-> inst_global_index + Len(bb.instructions),
     opcode     |-> ByteAt(p),
     valid      |-> ByteAt(p) \in Instruction,
     value      |-> IF is_push(ByteAt(p)) THEN PushValue(p)
                    ELSE IF ByteAt(p) = PC THEN FromAddress(p) ELSE Zero]

NextIsJumpdest(p) == NextPc(p) < Len(code) /\ ByteAt(NextPc(p)) = JUMPDEST

\* Mutants of EndsBlock: the look-ahead, or the stopping instructions, are forgotten.
EndsBlock_NoLookAhead(p) ==
    ByteAt(p) \notin Instruction \/ stops(ByteAt(p)) \/ is_jump(ByteAt(p))
EndsBlock_NoStops(p) ==
    ByteAt(p) \notin Instruction \/ is_jump(ByteAt(p)) \/ NextIsJumpdest(p)

\* should_break: the instruction at p is the last of its block.
EndsBlock(p) ==
    \/ ByteAt(p) \notin Instruction
    \/ stops(ByteAt(p))
    \/ is_jump(ByteAt(p))
    \/ NextIsJumpdest(p)

\* Mutant of ParseInstruction: the immediate bytes of the last PUSH are not skipped.
ParseInstruction_NoSkip ==
    /\ phase = "parse"
    /\ bb' = [bb EXCEPT !.instructions = Append(@, Decode(pc)),
                        !.ends_on_invalid = ByteAt(pc) \notin Instruction]
    /\ pc' = IF EndsBlock(pc) THEN pc + 1 ELSE NextPc(pc)
    /\ phase' = IF EndsBlock(pc) \/ pc' >= Len(code) THEN "push" ELSE "parse"
    /\ UNCHANGED <<code, blocks, inst_global_index, metaVars>>

\* One turn of the loop of parse.
ParseInstruction ==
    /\ phase = "parse"
    /\ bb' = [bb EXCEPT !.instructions = Append(@, Decode(pc)),
                        !.ends_on_invalid = ByteAt(pc) \notin Instruction]
    /\ pc' = NextPc(pc)
    /\ phase' = IF EndsBlock(pc) \/ NextPc(pc) >= Len(code) THEN "push" ELSE "parse"
    /\ UNCHANGED <<code, blocks, inst_global_index, metaVars>>

\* Mutant of PushBlock: Program::new does not count the instructions.
PushBlock_NoCount ==
    /\ phase = "push"
    /\ blocks' = Append(blocks, bb)
    /\ bb' = EmptyBlock(pc)
    /\ phase' = IF pc < Len(code) THEN "parse" ELSE "meta"
    /\ UNCHANGED <<code, pc, inst_global_index, metaVars>>

\* parse returns: Program::new keeps the block and starts the next one.
PushBlock ==
    /\ phase = "push"
    /\ blocks' = Append(blocks, bb)
    /\ inst_global_index' = inst_global_index + Len(bb.instructions)
    /\ bb' = EmptyBlock(pc)
    /\ phase' = IF pc < Len(code) THEN "parse" ELSE "meta"
    /\ UNCHANGED <<code, pc, metaVars>>

-----------------------------------------------------------------------------
(* CodeMeta::new *)

\* Mutant of MarkJumpdest: the position is advanced before it is marked.
MarkJumpdest_AfterAdvance ==
    /\ phase = "meta" /\ i < Len(code)
    /\ ByteAt(i) = JUMPDEST
    /\ i' = i + 1
    /\ jumpdests' = jumpdests \cup {i'}
    /\ UNCHANGED <<code, phase, iscode, parseVars>>

MarkJumpdest ==
    /\ phase = "meta" /\ i < Len(code)
    /\ ByteAt(i) = JUMPDEST
    /\ jumpdests' = jumpdests \cup {i}
    /\ i' = i + 1
    /\ UNCHANGED <<code, phase, iscode, parseVars>>

\* Mutants of MarkPush: the immediate is walked as code, or one byte of it stays code.
MarkPush_WalksData ==
    /\ phase = "meta" /\ i < Len(code)
    /\ is_push(ByteAt(i))
    /\ iscode' = iscode \ {j \in Positions : i + 1 <= j /\ j < NextPc(i)}
    /\ i' = i + 1
    /\ UNCHANGED <<code, phase, jumpdests, parseVars>>
MarkPush_ShortData ==
    /\ phase = "meta" /\ i < Len(code)
    /\ is_push(ByteAt(i))
    /\ iscode' = iscode \ {j \in Positions : i + 1 <= j /\ j < NextPc(i) - 1}
    /\ i' = NextPc(i)
    /\ UNCHANGED <<code, phase, jumpdests, parseVars>>

MarkPush ==
    /\ phase = "meta" /\ i < Len(code)
    /\ is_push(ByteAt(i))
    /\ iscode' = iscode \ {j \in Positions : i + 1 <= j /\ j < NextPc(i)}
    /\ i' = NextPc(i)
    /\ UNCHANGED <<code, phase, jumpdests, parseVars>>

\* Mutant of MarkOther: an invalid byte does not advance.
MarkOther_StuckOnInvalid ==
    /\ phase = "meta" /\ i < Len(code)
    /\ ByteAt(i) # JUMPDEST /\ ~is_push(ByteAt(i))
    /\ i' = IF ByteAt(i) \in Instruction THEN i + 1 ELSE i
    /\ UNCHANGED <<code, phase, jumpdests, iscode, parseVars>>

\* Any other instruction and any invalid byte: one byte long.
MarkOther ==
    /\ phase = "meta" /\ i < Len(code)
    /\ ByteAt(i) # JUMPDEST /\ ~is_push(ByteAt(i))
    /\ i' = i + 1
    /\ UNCHANGED <<code, phase, jumpdests, iscode, parseVars>>

Finish ==
    /\ phase = "meta" /\ i >= Len(code)
    /\ phase' = "done"
    /\ UNCHANGED <<code, parseVars, metaVars>>

-----------------------------------------------------------------------------

Init ==
    /\ code \in UNION {[1..n -> Alphabet] : n \in 0..MaxCode}
    /\ phase = IF Len(code) = 0 THEN "meta" ELSE "parse"
    /\ pc = 0
    /\ bb = EmptyBlock(0)
    /\ blocks = <<>>
    /\ inst_global_index = 0
    /\ i = 0
    /\ jumpdests = {}
    /\ iscode = Positions

Next == ParseInstruction \/ PushBlock \/ MarkJumpdest \/ MarkPush \/ MarkOther \/ Finish

Spec == Init /\ [][Next]_vars

\* A sequential function that nothing blocks: it keeps taking steps.
FairSpec == Spec /\ WF_vars(Next)

-----------------------------------------------------------------------------
(* Properties *)

\* The variables stay in the types of the Rust fields they stand for.
TypeOK ==
    /\ code \in Seq(Byte)
    /\ phase \in {"parse", "push", "meta", "done"}
    /\ pc \in Nat
    /\ bb \in BasicBlock
    /\ blocks \in Seq(BasicBlock)
    /\ inst_global_index \in Nat
    /\ i \in Nat
    /\ jumpdests \subseteq Positions
    /\ iscode \subseteq Positions

Heads == {blocks[j].address : j \in DOMAIN blocks}

InstructionsOf(b) == {b.instructions[k] : k \in DOMAIN b.instructions}
Addresses(b) == {x.address : x \in InstructionsOf(b)}
Parsed == UNION {Addresses(blocks[j]) : j \in DOMAIN blocks}

\* Every jump destination that CodeMeta::new marks begins a block: the label
\* &&pc_x that emit_jumptable and emit_jump name for it is always emitted.
JumpdestsAreLabels == jumpdests \subseteq Heads

\* The two scans agree on what is an instruction: once both have run, the
\* positions that is_instruction accepts are the addresses parse decoded.
ScansAgree == phase = "done" => iscode = Parsed

\* A destination is valid for the translator exactly when it is for the EVM:
\* a JUMPDEST byte at an instruction boundary, never inside a PUSH.
JumpdestsAreEvms == phase = "done" => jumpdests = EvmJumpdests(code)

\* Control enters a block only at its head and leaves it only at its end.
StraightLine(b) ==
    \A k \in DOMAIN b.instructions :
        LET op == b.instructions[k].opcode IN
        /\ k > 1 => op # JUMPDEST
        /\ k < Len(b.instructions) =>
              op \in Instruction /\ ~stops(op) /\ ~is_jump(op)

\* Every block is straight-line code that starts at its label, and
\* ends_on_invalid says whether its last byte is no instruction.
BlocksAreStraightLine ==
    \A j \in DOMAIN blocks :
        LET b == blocks[j] IN
        /\ StraightLine(b)
        /\ b.instructions # <<>> /\ b.instructions[1].address = b.address
        /\ b.ends_on_invalid =
              (b.instructions[Len(b.instructions)].opcode \notin Instruction)

\* Falling through works: blocks are emitted one after the other, so a block
\* must begin where the one before it ends.
FallThroughIsNextBlock ==
    \A j \in 1..(Len(blocks) - 1) :
        LET b == blocks[j].instructions IN
        blocks[j + 1].address = NextPc(b[Len(b)].address)

\* global_idx, the key into the source map, is the ordinal of the instruction
\* in the program although parse counts from a number Program::new keeps.
GlobalIndexIsOrdinal ==
    \A j \in DOMAIN blocks : \A x \in InstructionsOf(blocks[j]) :
        x.global_idx =
            Cardinality({y \in UNION {InstructionsOf(blocks[m]) : m \in DOMAIN blocks} :
                            y.address < x.address})

\* What the EVM pushes: bytes past the end of the code read as zero.
EvmImmediate(p) ==
    LET n == push_bytes(ByteAt(p)) IN
    [k \in 1..WordBytes |->
        LET q == p + n + k - WordBytes
        IN  IF q > p /\ q \in Positions THEN ByteAt(q) ELSE 0]

\* Every PUSH has the constant the EVM pushes; the only one that may not is
\* a PUSH that the end of the code cuts off, after which nothing runs.
PushesEvmImmediate ==
    \A j \in DOMAIN blocks : \A x \in InstructionsOf(blocks[j]) :
        is_push(x.opcode) =>
            \/ x.value = EvmImmediate(x.address)
            \/ NextPc(x.address) > Len(code) /\ j = Len(blocks)

\* Both scans end on every bytecode, a PUSH cut off at the end included.
Terminates == <>(phase = "done")
=============================================================================
