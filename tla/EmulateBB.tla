----------------------------- MODULE EmulateBB -----------------------------
(***************************************************************************)
(* BasicBlock::emulate_bb of analysis.rs: the block is run on an abstract  *)
(* stack of operands.  What it leaves is all that the generated code is    *)
(* made from: per instruction its operands and whether it is emitted at    *)
(* all, and per block the finalizer: stack_sets, pops_at_end and returns.  *)
(*                                                                         *)
(* The block is not given beforehand: each step takes the next instruction *)
(* of a block that may be any block, so a behaviour is one block's         *)
(* emulation.  pops_at_end is dual-purposed, as in the code: until the end *)
(* it counts the pops beyond the frame of FrameLen slots.                  *)
(***************************************************************************)
EXTENDS EvalOpcode, FiniteSets

CONSTANTS
    FrameLen,    \* evm_stack_initial_len: the slots emulated at first (32)
    Opcodes,     \* the bytes a block is made of
    Immediates,  \* the words a PUSH or PC pushes
    MaxInsts     \* the longest block

ASSUME FrameLenAssumption == FrameLen \in Nat \ {0}
ASSUME OpcodesAssumption ==
    Opcodes \subseteq Byte /\ Immediates \subseteq Word /\ MaxInsts \in Nat

VARIABLES
    insts,        \* self.instructions, as far as it has been emulated
    evm_stack,    \* the abstract stack, its top first
    pops_at_end,
    stack_sets,   \* a function on the slots it sets
    returns,
    phase         \* "emulate", "bailed" (a byte that is no instruction), "done"

bbVars == <<insts, evm_stack, pops_at_end, stack_sets, returns, phase>>

NatMin(a, b) == IF a < b THEN a ELSE b

\* Mutant of OperandAt: the slot below the one meant.
OperandAt_SlotBelow(pos) ==
    IF pos < Len(evm_stack) THEN evm_stack[pos + 1]
    ELSE StackRef(pos - Len(evm_stack) + FrameLen + pops_at_end + 1)

\* The operand at depth pos; beyond the emulated stack it is the slot that
\* depth had when the block was entered.
OperandAt(pos) ==
    IF pos < Len(evm_stack) THEN evm_stack[pos + 1]
    ELSE StackRef(pos - Len(evm_stack) + FrameLen + pops_at_end)

\* The first instruction only may be a JUMPDEST and nothing follows a
\* terminator: parse cuts blocks so.
Takes(op) ==
    /\ phase = "emulate"
    /\ op \in Opcodes /\ Len(insts) < MaxInsts
    /\ op = JUMPDEST => insts = <<>>
    /\ insts # <<>> =>
          LET last == insts[Len(insts)].opcode IN ~stops(last) /\ ~is_jump(last)

Emulated(op, imm, operands, ignoreable) ==
    insts' = Append(insts, [opcode |-> op, imm |-> imm,
                            operands |-> operands, ignoreable |-> ignoreable])

Running == UNCHANGED <<stack_sets, returns, phase>>

EmulatePush(op, w) ==
    /\ Takes(op) /\ pushes_constant(op)
    /\ evm_stack' = <<Constant(w)>> \o evm_stack
    /\ Emulated(op, w, <<>>, TRUE)
    /\ Running /\ UNCHANGED pops_at_end

EmulateDup(op) ==
    /\ Takes(op) /\ is_dup(op)
    /\ LET x == OperandAt(dup_position(op))
       IN  /\ evm_stack' = <<x>> \o evm_stack
           /\ Emulated(op, 0, <<x>>, TRUE)
    /\ Running /\ UNCHANGED pops_at_end

\* Both words are on the emulated stack.
EmulateSwap(op) ==
    /\ Takes(op) /\ is_swap(op)
    /\ swap_position(op) < Len(evm_stack)
    /\ LET x == evm_stack[1]
           y == evm_stack[swap_position(op) + 1]
       IN  /\ evm_stack' = [evm_stack EXCEPT ![1] = y, ![swap_position(op) + 1] = x]
           /\ Emulated(op, 0, <<x, y>>, TRUE)
    /\ Running /\ UNCHANGED pops_at_end

\* The top word is emulated, the other one is not: the swap is emitted.
EmulateSwapOut(op) ==
    /\ Takes(op) /\ is_swap(op)
    /\ evm_stack # <<>> /\ swap_position(op) >= Len(evm_stack)
    /\ LET y == OperandAt(swap_position(op))
       IN  /\ evm_stack' = <<y>> \o Tail(evm_stack)
           /\ Emulated(op, 0, <<evm_stack[1], y>>, FALSE)
    /\ Running /\ UNCHANGED pops_at_end

\* Neither word is emulated: the swap is emitted, the emulation forgets it.
EmulateSwapBelow(op) ==
    /\ Takes(op) /\ is_swap(op)
    /\ evm_stack = <<>>
    /\ Emulated(op, 0, <<OperandAt(0), OperandAt(swap_position(op))>>, FALSE)
    /\ Running /\ UNCHANGED <<evm_stack, pops_at_end>>

\* Mutant of EmulatePop: pops beyond the frame are not counted.
EmulatePop_Uncounted(op) ==
    /\ Takes(op) /\ op = POP
    /\ evm_stack' = IF evm_stack # <<>> THEN Tail(evm_stack) ELSE evm_stack
    /\ Emulated(op, 0, <<>>, TRUE)
    /\ Running /\ UNCHANGED pops_at_end

EmulatePop(op) ==
    /\ Takes(op) /\ op = POP
    /\ IF evm_stack # <<>>
       THEN evm_stack' = Tail(evm_stack) /\ UNCHANGED pops_at_end
       ELSE pops_at_end' = pops_at_end + 1 /\ UNCHANGED evm_stack
    /\ Emulated(op, 0, <<>>, TRUE)
    /\ Running

EmulateJumpdest(op) ==
    /\ Takes(op) /\ op = JUMPDEST
    /\ Emulated(op, 0, <<>>, TRUE)
    /\ Running /\ UNCHANGED <<evm_stack, pops_at_end>>

IsOperation(op) ==
    /\ op \in Instruction
    /\ ~pushes_constant(op) /\ ~is_dup(op) /\ ~is_swap(op)
    /\ op \notin {POP, JUMPDEST}

OperandsOf(op) == [k \in 1..Args(op) |-> OperandAt(k - 1)]

Evaluated(op) == evaluate_opcode(op, Len(insts), OperandsOf(op))

\* Mutant of EmulateOperation: the arguments found on the emulated stack are
\* not told from those below it.
EmulateOperation_Miscounts(op) ==
    /\ Takes(op) /\ IsOperation(op)
    /\ LET taken == NatMin(Args(op), Len(evm_stack))
       IN  /\ evm_stack' = Evaluated(op).ret \o SubSeq(evm_stack, taken + 1, Len(evm_stack))
           /\ pops_at_end' = pops_at_end + Args(op) - Len(evm_stack)
    /\ Emulated(op, 0, OperandsOf(op), Evaluated(op).is_constant)
    /\ Running

\* Any other instruction: it takes its arguments, is folded if it can be, and
\* pushes its result or what the result was folded to.
EmulateOperation(op) ==
    /\ Takes(op) /\ IsOperation(op)
    /\ LET taken == NatMin(Args(op), Len(evm_stack))
       IN  /\ evm_stack' = Evaluated(op).ret \o SubSeq(evm_stack, taken + 1, Len(evm_stack))
           /\ pops_at_end' = pops_at_end + Args(op) - taken
    /\ Emulated(op, 0, OperandsOf(op), Evaluated(op).is_constant)
    /\ Running

\* emulate_bb returns None at a byte that is no instruction.
EmulateInvalid(op) ==
    /\ Takes(op) /\ op \notin Instruction
    /\ Emulated(op, 0, <<>>, FALSE)
    /\ phase' = "bailed"
    /\ UNCHANGED <<evm_stack, pops_at_end, stack_sets, returns>>

Emulate(op) ==
    \/ \E w \in Immediates : EmulatePush(op, w)
    \/ EmulateDup(op)
    \/ EmulateSwap(op)
    \/ EmulateSwapOut(op)
    \/ EmulateSwapBelow(op)
    \/ EmulatePop(op)
    \/ EmulateJumpdest(op)
    \/ EmulateOperation(op)
    \/ EmulateInvalid(op)

\* The end of the block: what lies above the frame is returned, what is
\* missing from it is popped, and each slot left that does not hold the word
\* it had is set, at its index plus the offset of the missing ones.
Excess  == IF Len(evm_stack) > FrameLen THEN Len(evm_stack) - FrameLen ELSE 0
Missing == IF Len(evm_stack) < FrameLen THEN FrameLen - Len(evm_stack) ELSE 0

\* Mutant of LeftInSlot: the returned words are not skipped.
LeftInSlot_ReturnsToo(slot) == evm_stack[slot - Missing + 1]

LeftInSlot(slot) == evm_stack[slot - Missing + Excess + 1]

FinishBB ==
    /\ phase = "emulate" /\ insts # <<>>
    /\ returns' = SubSeq(evm_stack, 1, Excess)
    /\ pops_at_end' = pops_at_end + Missing
    /\ stack_sets' =
          [slot \in {s \in Missing..(FrameLen - 1) : LeftInSlot(s) # StackRef(s)}
                |-> LeftInSlot(slot)]
    /\ phase' = "done"
    /\ UNCHANGED <<insts, evm_stack>>

InitBB ==
    /\ insts = <<>>
    /\ evm_stack = [k \in 1..FrameLen |-> StackRef(k - 1)]
    /\ pops_at_end = 0
    /\ stack_sets = <<>>
    /\ returns = <<>>
    /\ phase = "emulate"

NextBB == FinishBB \/ \E op \in Opcodes : Emulate(op)

SpecBB == InitBB /\ [][NextBB]_bbVars

-----------------------------------------------------------------------------
(* What the EVM does meanwhile *)

\* The height of a stack of n words after each instruction of the block.
EvmHeights(n) ==
    LET h[k \in 0..Len(insts)] ==
            IF k = 0 THEN n
            ELSE h[k - 1] + Ret(insts[k].opcode) - Args(insts[k].opcode)
    IN  h
=============================================================================
