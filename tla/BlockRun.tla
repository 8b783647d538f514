------------------------------ MODULE BlockRun ------------------------------
(***************************************************************************)
(* A translated basic block at work: emulate_bb (EmulateBB) and, in step   *)
(* with it, the code that emit_basic_block of codegen.rs prints for each   *)
(* instruction it emulates, run on a stack.  The printed instructions run  *)
(* in the order they are emulated, on                                      *)
(*    s_0_k   the word in slot k when the block was entered (entry, which  *)
(*            the peeks at the head of the block read),                    *)
(*    v_k_0   the result of the instruction k (results), and               *)
(*    ctxt->s the stack (real), untouched until the finalizer but for the  *)
(*            swaps that reach beyond the emulated stack.                  *)
(* The block's promise is EvmBlock: whatever the block and the stack, the  *)
(* same interactions with the same arguments, and the same stack at the    *)
(* end.  Blocks are run on stacks that are deep enough for them.           *)
(***************************************************************************)
EXTENDS EmulateBB

CONSTANT EntryStacks   \* the stacks a block is entered with

ASSUME EntryStacksAssumption == EntryStacks \subseteq Seq(Word)

VARIABLES entry, real, results, trace

runVars == <<entry, real, results, trace>>
vars == <<bbVars, runVars>>

\* What an operand is printed as, evaluated.
Eval(o) ==
    IF IsConstant(o) THEN o.n
    ELSE IF o.kind = "StackRef" THEN entry[o.n + 1]
    ELSE results[o.n + 1]

\* The stack that evm_stack and pops_at_end stand for, over the real one.
Depth == Len(evm_stack) + Len(real) - FrameLen - pops_at_end
Worth(pos) ==
    IF pos < Len(evm_stack) THEN Eval(evm_stack[pos + 1])
    ELSE real[pos - Len(evm_stack) + FrameLen + pops_at_end + 1]
Denoted == [k \in 1..Depth |-> Worth(k - 1)]

\* The finalizer: sets, then pops, then pushes with the last return first.
AfterSets ==
    [k \in 1..Len(real) |->
        IF k - 1 \in DOMAIN stack_sets THEN Eval(stack_sets[k - 1]) ELSE real[k]]
FinalStack ==
    [k \in 1..Len(returns) |-> Eval(returns[k])]
        \o SubSeq(AfterSets, pops_at_end + 1, Len(AfterSets))

-----------------------------------------------------------------------------

\* Nothing is printed for the instruction.
NoCode == UNCHANGED <<entry, real, trace>> /\ results' = Append(results, 0)

Push(op, w) == EmulatePush(op, w) /\ NoCode

Dup(op) == EmulateDup(op) /\ Depth > dup_position(op) /\ NoCode

Swap(op) == EmulateSwap(op) /\ Depth > swap_position(op) /\ NoCode

Pop(op) == EmulatePop(op) /\ Depth > 0 /\ NoCode

Jumpdest(op) == EmulateJumpdest(op) /\ NoCode

\* The swaps that are emitted write the slot of their second operand; when
\* both operands are slots, also slot 0.
WriteSlots(x, y) ==
    [k \in DOMAIN real |->
        IF x.kind = "StackRef" /\ k = 1 THEN Eval(y)
        ELSE IF k = y.n + 1 THEN Eval(x)
        ELSE real[k]]

SwapCode(op) ==
    /\ Depth > swap_position(op)
    /\ real' = WriteSlots(OperandAt(0), OperandAt(swap_position(op)))
    /\ results' = Append(results, 0)
    /\ UNCHANGED <<entry, trace>>

SwapOut(op)   == EmulateSwapOut(op) /\ SwapCode(op)
SwapBelow(op) == EmulateSwapBelow(op) /\ SwapCode(op)

Folds(op) == Evaluated(op).is_constant
ArgumentsOf(op) == [k \in 1..Args(op) |-> Eval(OperandsOf(op)[k])]

Folded(op) ==
    /\ EmulateOperation(op) /\ Depth >= Args(op)
    /\ Folds(op)
    /\ NoCode

\* The handler of a stack-only instruction: v_k_0 = op_v(arguments).
Computed(op) ==
    /\ EmulateOperation(op) /\ Depth >= Args(op)
    /\ ~Folds(op) /\ op \in Arithmetic
    /\ results' = Append(results, Alu(op, ArgumentsOf(op)))
    /\ UNCHANGED <<entry, real, trace>>

\* Any other handler, jumps included.
Interacted(op, answer) ==
    /\ EmulateOperation(op) /\ Depth >= Args(op)
    /\ ~Folds(op) /\ op \notin Arithmetic
    /\ trace' = Append(trace, [opcode |-> op, args |-> ArgumentsOf(op)])
    /\ results' = Append(results, IF Ret(op) = 0 THEN 0 ELSE answer)
    /\ UNCHANGED <<entry, real>>

Thrown(op) == EmulateInvalid(op) /\ NoCode

Finish == FinishBB /\ UNCHANGED runVars

Init ==
    /\ InitBB
    /\ entry \in EntryStacks
    /\ real = entry
    /\ results = <<>>
    /\ trace = <<>>

\* What the frame of FrameLen slots is enough for.
InFrameStep(op) ==
    \/ \E w \in Immediates : Push(op, w)
    \/ Dup(op)
    \/ Swap(op)
    \/ Pop(op)
    \/ Jumpdest(op)
    \/ Computed(op)
    \/ \E answer \in Word : Interacted(op, answer)
    \/ Thrown(op)

Next ==
    \/ \E op \in Opcodes :
          InFrameStep(op) \/ Folded(op) \/ SwapOut(op) \/ SwapBelow(op)
    \/ Finish

Spec == Init /\ [][Next]_vars

-----------------------------------------------------------------------------
(* The blocks that are translated faithfully: no swap reaches beyond the   *)
(* emulated stack, nothing is left on an emulated stack that was emptied   *)
(* before, and no power of a constant 0 is taken.                          *)

PowerOfZero(op) ==
    op = EXP /\ OperandAt(0) = Zero /\ ~IsConstant(OperandAt(1))

InFrameNext ==
    \/ \E op \in Opcodes :
          InFrameStep(op) \/ (Folded(op) /\ ~PowerOfZero(op))
    \/ Finish /\ (pops_at_end = 0 \/ evm_stack = <<>>)

InFrameSpec == Init /\ [][InFrameNext]_vars

-----------------------------------------------------------------------------
(* Properties *)

Ended ==
    /\ insts # <<>>
    /\ LET last == insts[Len(insts)].opcode
       IN  last \notin Instruction \/ stops(last) \/ is_jump(last)

Evm == INSTANCE EvmBlock WITH
    prog  <- [k \in 1..Len(insts) |-> [opcode |-> insts[k].opcode, imm |-> insts[k].imm]],
    stack <- IF phase = "done" THEN FinalStack ELSE Denoted,
    ended <- Ended

\* The translated block does what the EVM does with the block, instruction by
\* instruction, and its finalizer leaves the stack the EVM leaves.
ImplementsEvm == Evm!Spec

\* analysis.rs says of the end of emulate_bb: "if we would execute all stack
\* operations then the stack should look the same at the end of the basic block".
StackLooksTheSame == [][FinishBB => FinalStack' = Denoted]_vars

\* The emulation and the run-time state keep their types.
TypeOK ==
    /\ insts \in Seq([opcode : Byte, imm : Word, operands : Seq(Operand), ignoreable : BOOLEAN])
    /\ evm_stack \in Seq(Operand)
    /\ pops_at_end \in Nat
    /\ DOMAIN stack_sets \subseteq Nat
    /\ \A s \in DOMAIN stack_sets : stack_sets[s] \in Operand
    /\ returns \in Seq(Operand)
    /\ phase \in {"emulate", "bailed", "done"}
    /\ entry \in Seq(Word) /\ real \in Seq(Word) /\ Len(real) = Len(entry)
    /\ results \in Seq(Word) /\ Len(results) = Len(insts)
    /\ trace \in Seq([opcode : Byte, args : Seq(Word)])

\* v_k_0 is declared by then: instruction k is earlier, it is emitted, and it
\* returns a word.
IsDefined(o, before) ==
    o.kind = "InstructionRef" =>
        /\ o.n < before
        /\ ~insts[o.n + 1].ignoreable
        /\ Ret(insts[o.n + 1].opcode) = 1

\* Every variable the printed block names is declared before its use, in each
\* instruction and in the finalizer, although folding removes instructions
\* and moves what they would have returned.
UsesAreDefined ==
    /\ \A k \in DOMAIN insts : \A j \in DOMAIN insts[k].operands :
          IsDefined(insts[k].operands[j], k - 1)
    /\ \A s \in DOMAIN stack_sets : IsDefined(stack_sets[s], Len(insts))
    /\ \A k \in DOMAIN returns : IsDefined(returns[k], Len(insts))

\* A peek that is hoisted to the head of the block, a set or a pop never
\* reaches below the stack of a block that the EVM runs without underflow.
StaysOnStack ==
    LET fits(o) == o.kind = "StackRef" => o.n < Len(entry) IN
    /\ \A k \in DOMAIN insts : \A j \in DOMAIN insts[k].operands : fits(insts[k].operands[j])
    /\ \A s \in DOMAIN stack_sets : s < Len(entry) /\ fits(stack_sets[s])
    /\ \A k \in DOMAIN returns : fits(returns[k])
    /\ phase = "done" => pops_at_end <= Len(entry)

\* The words an executed block adds to the stack, by the instruction table.
NetEffect == EvmHeights(0)[Len(insts)]

\* The finalizer moves the stack pointer by what the block's instructions move
\* it, swaps and pops beyond the frame and folded instructions included.
StackPointerIsRight ==
    phase = "done" => Len(FinalStack) - Len(entry) = NetEffect
=============================================================================
