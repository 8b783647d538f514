------------------------------- MODULE EmitBB -------------------------------
(***************************************************************************)
(* emit_basic_block of codegen.rs: how the code of a basic block is put    *)
(* together, and what becomes of control and of the height of the stack    *)
(* when that code runs.  BlockRun asks for the words a block computes; here*)
(* a word is only the name it is printed as.                               *)
(*                                                                         *)
(* A behaviour emulates a block (EmulateBB), prints the finalizer, prints  *)
(* the instructions one by one, assembles the text and runs it statement   *)
(* by statement on a stack of some height.  The stack of the runtime is    *)
(* not in this repository: its operations are taken to check their bounds. *)
(***************************************************************************)
EXTENDS EmulateBB, SequencesExt

CONSTANTS
    StackLimit,      \* the words an EVM stack holds at most (1024)
    EntryHeights     \* the heights of the stack a block is entered with

ASSUME HeightsAssumption ==
    StackLimit \in Nat /\ EntryHeights \subseteq 0..StackLimit

VARIABLES
    stage,               \* "emulate", "print", "run", "left"
    stack_peeks,         \* the slots s_0_k is declared for
    instructions_gen,    \* the code of each instruction printed so far
    finalizer_emitted,
    text,                \* the block's statements
    at,                  \* the statements executed
    entered, height,     \* the height of ctxt->s at first and now
    left                 \* how the block was left, "no" before that

printVars == <<stack_peeks, instructions_gen, finalizer_emitted>>
execVars  == <<at, entered, height, left>>
emitVars  == <<bbVars, stage, printVars, text, execVars>>

\* The statements: what one does, to what, and the operands it names.
Statement(do, n, uses) == [do |-> do, n |-> n, uses |-> uses]

Peek(slot)       == Statement("peek", slot, {})
SetSlot(slot, o) == Statement("set", slot, {o})
DropN(n)         == Statement("drop", n, {})
PushWord(o)      == Statement("push", 0, {o})
Handler(k, os)   == Statement("handler", k, os)
If(o, body)      == <<Statement("if", Len(body), {o})>> \o body
Goto(o)          == Statement("jump", 0, {o})
Exit             == Statement("exit", 0, {})
ExitOnError      == Statement("exit_on_error", 0, {})
Throw            == Statement("throw", 0, {})

\* A set of slots in ascending order, as BTreeMap and BTreeSet iterate.
Ascending(slots) ==
    LET below[n \in 0..(Max(slots \cup {0}) + 1)] ==
            IF n = 0 THEN <<>>
            ELSE IF n - 1 \in slots THEN Append(below[n - 1], n - 1)
            ELSE below[n - 1]
    IN  below[Max(slots \cup {0}) + 1]

SlotsOf(os) == {o.n : o \in {p \in os : p.kind = "StackRef"}}

-----------------------------------------------------------------------------
(* The finalizer *)

SlotsSet == Ascending(DOMAIN stack_sets)

SetCode == [k \in DOMAIN SlotsSet |-> SetSlot(SlotsSet[k], stack_sets[SlotsSet[k]])]

DropCode == IF pops_at_end > 0 THEN <<DropN(pops_at_end)>> ELSE <<>>

ReturnCode == [k \in DOMAIN returns |-> PushWord(Reverse(returns)[k])]

\* Mutant of Finalizer: the returns are pushed before the pops.
Finalizer_PushesFirst == SetCode \o ReturnCode \o DropCode

Finalizer == SetCode \o DropCode \o ReturnCode

FinalizerPeeks == SlotsOf(Range(stack_sets) \cup Range(returns))

PrintFinalizer ==
    /\ stage = "emulate" /\ phase # "emulate"
    /\ stage' = "print"
    /\ stack_peeks' = FinalizerPeeks
    /\ UNCHANGED <<bbVars, instructions_gen, finalizer_emitted, text, execVars>>

-----------------------------------------------------------------------------
(* The instructions *)

Turn == Len(instructions_gen) + 1
Inst == insts[Turn]
Operands == ToSet(Inst.operands)

\* The operands are printed, and their slots peeked, before it is seen
\* whether the instruction is.
Prints(code) ==
    /\ stage = "print" /\ Turn <= Len(insts)
    /\ instructions_gen' = Append(instructions_gen, code)
    /\ UNCHANGED <<bbVars, stage, text, execVars>>

PeeksOperands == stack_peeks' = stack_peeks \cup SlotsOf(Operands)

Emits == Turn <= Len(insts) /\ Inst.opcode \in Instruction /\ ~Inst.ignoreable

\* Mutant of PrintIgnoreable: an instruction that is not emitted peeks nothing.
PrintIgnoreable_NoPeek ==
    /\ Turn <= Len(insts) /\ Inst.ignoreable
    /\ Prints(<<>>)
    /\ UNCHANGED <<stack_peeks, finalizer_emitted>>

PrintIgnoreable ==
    /\ Turn <= Len(insts) /\ Inst.ignoreable
    /\ Prints(<<>>)
    /\ PeeksOperands
    /\ UNCHANGED finalizer_emitted

PrintJump ==
    /\ Emits /\ Inst.opcode = JUMP
    /\ Prints(Finalizer \o <<Goto(Inst.operands[1])>>)
    /\ PeeksOperands
    /\ finalizer_emitted' = TRUE

PrintJumpI ==
    /\ Emits /\ Inst.opcode = JUMPI
    /\ Prints(If(Inst.operands[2], Finalizer \o <<Goto(Inst.operands[1])>>))
    /\ PeeksOperands
    /\ UNCHANGED finalizer_emitted

\* A swap with a slot below the emulated stack; of two slots both are written.
PrintSwap ==
    /\ Emits /\ is_swap(Inst.opcode) /\ ~IsConstant(Inst.operands[1])
    /\ LET x == Inst.operands[1]
           y == Inst.operands[2]
           top == IF x.kind = "StackRef" THEN <<SetSlot(0, y)>> ELSE <<>>
       IN  Prints(<<SetSlot(y.n, x)>> \o top)
    /\ PeeksOperands
    /\ UNCHANGED finalizer_emitted

\* A constant does not need the word it is swapped with: its peek is removed.
PrintSwapOfConstant ==
    /\ Emits /\ is_swap(Inst.opcode) /\ IsConstant(Inst.operands[1])
    /\ LET y == Inst.operands[2]
       IN  /\ Prints(<<SetSlot(y.n, Inst.operands[1])>>)
           /\ stack_peeks' = (stack_peeks \cup SlotsOf(Operands)) \ {y.n}
    /\ UNCHANGED finalizer_emitted

\* CALL, STATICCALL, DELEGATECALL, CALLCODE, CREATE and CREATE2.
MayFail(op) == op \in {240, 241, 242, 244, 245, 250}

\* Mutant of PrintHandler: a block that stops does not leave.
PrintHandler_NoExit ==
    /\ Emits /\ ~is_jump(Inst.opcode) /\ ~is_swap(Inst.opcode)
    /\ Prints(<<Handler(Turn - 1, Operands)>>
                \o (IF MayFail(Inst.opcode) THEN <<ExitOnError>> ELSE <<>>))
    /\ PeeksOperands
    /\ UNCHANGED finalizer_emitted

PrintHandler ==
    /\ Emits /\ ~is_jump(Inst.opcode) /\ ~is_swap(Inst.opcode)
    /\ Prints(<<Handler(Turn - 1, Operands)>>
                \o (IF stops(Inst.opcode) THEN <<Exit>> ELSE <<>>)
                \o (IF MayFail(Inst.opcode) THEN <<ExitOnError>> ELSE <<>>))
    /\ PeeksOperands
    /\ UNCHANGED finalizer_emitted

PrintInvalid ==
    /\ Turn <= Len(insts) /\ Inst.opcode \notin Instruction
    /\ Prints(<<Throw>>)
    /\ UNCHANGED <<stack_peeks, finalizer_emitted>>

-----------------------------------------------------------------------------
(* The block *)

\* All peeks are of instruction 0: they come first, in the order of the slots.
PeekCode ==
    LET slots == Ascending(stack_peeks)
    IN  [k \in DOMAIN slots |-> Peek(slots[k])]

\* Mutant of Assemble: the peeks come after the instruction they belong to.
Assemble_PeeksLate ==
    /\ stage = "print" /\ Turn > Len(insts)
    /\ text' = Head(instructions_gen) \o PeekCode \o FlattenSeq(Tail(instructions_gen))
                 \o (IF finalizer_emitted THEN <<>> ELSE Finalizer)
    /\ stage' = "run"
    /\ UNCHANGED <<bbVars, printVars, execVars>>

Assemble ==
    /\ stage = "print" /\ Turn > Len(insts)
    /\ text' = PeekCode \o FlattenSeq(instructions_gen)
                 \o (IF finalizer_emitted THEN <<>> ELSE Finalizer)
    /\ stage' = "run"
    /\ UNCHANGED <<bbVars, printVars, execVars>>

-----------------------------------------------------------------------------
(* The block at run time *)

Fits(st) ==
    /\ st.do \in {"peek", "set"} => st.n < height
    /\ st.do = "drop" => st.n <= height
    /\ st.do = "push" => height < StackLimit

HeightAfter(st) ==
    IF st.do = "drop" THEN height - st.n
    ELSE IF st.do = "push" THEN height + 1
    ELSE height

Runs(st) == stage = "run" /\ at < Len(text) /\ st = text[at + 1]

Leave(how) ==
    /\ stage' = "left" /\ left' = how
    /\ UNCHANGED <<bbVars, printVars, text, at, entered, height>>

\* The statement is done and the next one, or the one after a branch not
\* taken, follows.
StepOver(st) ==
    /\ Runs(st) /\ Fits(st)
    /\ st.do \notin {"jump", "exit", "throw"}
    /\ at' \in {at + 1} \cup (IF st.do = "if" THEN {at + 1 + st.n} ELSE {})
    /\ height' = HeightAfter(st)
    /\ UNCHANGED <<bbVars, stage, printVars, text, entered, left>>

ThrowAt(st)  == Runs(st) /\ (~Fits(st) \/ st.do = "throw") /\ Leave("threw")
JumpAt(st)   == Runs(st) /\ st.do = "jump" /\ Leave("jumped")
ExitAt(st)   == Runs(st) /\ st.do \in {"exit", "exit_on_error"} /\ Leave("exited")
FallThrough  == stage = "run" /\ at = Len(text) /\ Leave("fell")

EmitInit ==
    /\ InitBB
    /\ stage = "emulate"
    /\ stack_peeks = {} /\ instructions_gen = <<>> /\ finalizer_emitted = FALSE
    /\ text = <<>>
    /\ at = 0 /\ entered \in EntryHeights /\ height = entered /\ left = "no"

EmitNext ==
    \/ NextBB /\ UNCHANGED <<stage, printVars, text, execVars>>
    \/ PrintFinalizer
    \/ PrintIgnoreable \/ PrintJump \/ PrintJumpI
    \/ PrintSwap \/ PrintSwapOfConstant \/ PrintHandler \/ PrintInvalid
    \/ Assemble
    \/ \E st \in ToSet(text) : StepOver(st) \/ ThrowAt(st) \/ JumpAt(st) \/ ExitAt(st)
    \/ FallThrough

EmitSpec == EmitInit /\ [][EmitNext]_emitVars

-----------------------------------------------------------------------------
(* What the EVM does with the height of the stack *)

EvmHeight == EvmHeights(entered)

EvmUnderflows == \E k \in DOMAIN insts : EvmHeight[k - 1] < Args(insts[k].opcode)
EvmOverflows  == \E k \in DOMAIN insts : EvmHeight[k] > StackLimit
EvmThrows ==
    EvmUnderflows \/ EvmOverflows \/ \E k \in DOMAIN insts : insts[k].opcode \notin Instruction

LastOpcode == Last(insts).opcode

-----------------------------------------------------------------------------
(* Properties *)

\* The names declared before statement i.
Declared(i) ==
    {StackRef(text[j].n) : j \in {h \in 1..(i - 1) : text[h].do = "peek"}}
    \cup {InstructionRef(text[j].n) : j \in {h \in 1..(i - 1) :
              text[h].do = "handler" /\ Ret(insts[text[h].n + 1].opcode) = 1}}

\* The names statement i uses without a declaration.
Undeclared(i) == {o \in text[i].uses : ~IsConstant(o)} \ Declared(i)

\* Names are declared before they are used, hoisted peeks and the finalizer's
\* names included, but for a slot that a constant was swapped with.
OnlySwappedAreUndeclared ==
    \A i \in DOMAIN text : \A o \in Undeclared(i) :
        \E k \in DOMAIN insts :
            /\ is_swap(insts[k].opcode) /\ ~insts[k].ignoreable
            /\ IsConstant(insts[k].operands[1]) /\ insts[k].operands[2] = o

\* The translated block throws only when the EVM throws in that block, however
\* early the hoisted peeks and however late the pops and pushes are.
ThrowsOnlyAsEvm == left = "threw" => EvmThrows

\* The block is left the way its instructions are and at the height they
\* leave, whichever copy of the finalizer was run.
LeavesAsEvm ==
    /\ left \in {"jumped", "fell"} => height = EvmHeight[Len(insts)]
    /\ left = "jumped" => is_jump(LastOpcode)
    /\ left = "fell" => LastOpcode \in Instruction \ {JUMP} /\ ~stops(LastOpcode)
    /\ left = "exited" =>
          stops(LastOpcode) \/ \E k \in DOMAIN insts : MayFail(insts[k].opcode)

\* A block that goes on to the next one did not underflow, even if it never
\* used the words that were missing: their slots are peeked, set or dropped.
\* Blocks that pop beyond the frame and push again are left out.
PopsInFrame == pops_at_end = Missing \/ evm_stack = <<>>
UnderflowIsNoticed == left \in {"jumped", "fell"} /\ PopsInFrame => ~EvmUnderflows

-----------------------------------------------------------------------------
(* What does not hold *)

\* A block is C++ that compiles: every name is declared before it is used.
\* README.md:3 promises "semantically equivalent C++ code".
NamesAreDeclared == \A i \in DOMAIN text : Undeclared(i) = {}

\* Blocks that stop did not underflow, either, as README.md:3 promises "semantically
\* equivalent C++ code".
StopNoticesUnderflow == left = "exited" /\ stops(LastOpcode) => ~EvmUnderflows

\* A block in which the stack exceeds its limit throws, as in the EVM
\* (README.md:3).
OverflowIsNoticed == left \in {"jumped", "fell"} => ~EvmOverflows
=============================================================================
