--------------------------- MODULE BlockRun_proofs ---------------------------
(***************************************************************************)
(* Theorems about BlockRun, for every frame length, word size, set of      *)
(* instructions and entry stack: the emulation keeps its types; a          *)
(* translated block whose accesses stay within the emulated frame          *)
(* implements the EVM's execution of the block; and, whatever the block,   *)
(* its code uses only names that are declared and slots that are there.    *)
(***************************************************************************)
EXTENDS BlockRun, EmulateBB_proofs

-----------------------------------------------------------------------------
(* The inductive invariant: while the block is emulated, its instructions  *)
(* are instructions, and every operand down to the depth of the stack is   *)
(* a word, a slot of the entry stack or the result of an instruction that  *)
(* was already executed.  FinishBB needs no more of the emulation.         *)

Interaction == [opcode : Byte, args : Seq(Word)]

OnlyInstructions == phase = "emulate" /\ insts # <<>> => insts[Len(insts)].opcode \in Instruction

SoundStack == phase # "done" => Sound(evm_stack, pops_at_end, Len(entry), Len(results))

IInv == TypeOK /\ OnlyInstructions /\ SoundStack

D == DepthOf(evm_stack, pops_at_end, Len(entry))

\* What every emulated instruction does besides its effect on the stack.
Emits(op, imm, operands, ignoreable, x) ==
    /\ phase = "emulate"
    /\ op \in Byte /\ imm \in Word /\ operands \in Seq(Operand) /\ ignoreable \in BOOLEAN
    /\ x \in Word
    /\ Emulated(op, imm, operands, ignoreable)
    /\ results' = Append(results, x)
    /\ UNCHANGED <<stack_sets, returns, entry>>
    /\ phase' \in {"emulate", "bailed"}
    /\ phase' = "emulate" => op \in Instruction

\* The stack of the real machine and the interactions stay well-typed.
KeepsMachine == real' \in Seq(Word) /\ Len(real') = Len(real) /\ trace' \in Seq(Interaction)

LEMMA InvKept ==
    ASSUME TypeOK, NEW op, NEW imm, NEW operands, NEW ignoreable, NEW x,
           Emits(op, imm, operands, ignoreable, x), KeepsMachine,
           evm_stack' \in Seq(Operand), pops_at_end' \in Nat,
           Sound(evm_stack', pops_at_end', Len(entry), Len(results) + 1)
    PROVE  IInv'
<1> DEFINE inst == [opcode |-> op, imm |-> imm, operands |-> operands, ignoreable |-> ignoreable]
<1>1. /\ inst \in InstType /\ x \in Word
      /\ insts' = Append(insts, inst) /\ results' = Append(results, x)
    BY DEF Emits, Emulated, InstType
<1>2. insts \in Seq(InstType) /\ results \in Seq(Word) /\ Len(results) = Len(insts)
    BY DEF TypeOK, InstType
<1>3. inst.opcode = op OBVIOUS
<1> HIDE DEF inst
<1>4. /\ insts' \in Seq(InstType) /\ Len(insts') = Len(insts) + 1
      /\ insts'[Len(insts) + 1] = inst
      /\ results' \in Seq(Word) /\ Len(results') = Len(results) + 1
    BY ONLY <1>1, <1>2, AppendProperties
<1>5. TypeOK'
    <2>1. /\ stack_sets' = stack_sets /\ returns' = returns /\ entry' = entry
          /\ phase' \in {"emulate", "bailed"}
        BY DEF Emits
    <2>2. /\ DOMAIN stack_sets' \subseteq Nat
          /\ \A s \in DOMAIN stack_sets' : stack_sets'[s] \in Operand
          /\ returns' \in Seq(Operand) /\ entry' \in Seq(Word)
        BY ONLY <2>1, TypeOK DEF TypeOK
    <2>3. real' \in Seq(Word) /\ Len(real') = Len(entry')
        BY ONLY <2>1, TypeOK, KeepsMachine DEF TypeOK, KeepsMachine
    <2>4. trace' \in Seq([opcode : Byte, args : Seq(Word)])
        BY ONLY KeepsMachine DEF KeepsMachine, Interaction
    <2>5. /\ insts' \in Seq([opcode : Byte, imm : Word, operands : Seq(Operand), ignoreable : BOOLEAN])
          /\ results' \in Seq(Word) /\ Len(results') = Len(insts')
        BY ONLY <1>2, <1>4 DEF InstType
    <2> QED
        BY ONLY <2>1, <2>2, <2>3, <2>4, <2>5, evm_stack' \in Seq(Operand), pops_at_end' \in Nat
        DEF TypeOK
<1>6. OnlyInstructions'
    BY ONLY <1>3, <1>4, Emits(op, imm, operands, ignoreable, x) DEF OnlyInstructions, Emits
<1>7. SoundStack'
    <2>1. entry' = entry BY DEF Emits
    <2> QED
        BY ONLY <1>4, <2>1, Sound(evm_stack', pops_at_end', Len(entry), Len(results) + 1)
        DEF SoundStack
<1> QED BY <1>5, <1>6, <1>7 DEF IInv

\* An instruction that takes a operands and puts r.
Puts(op, imm, operands, ignoreable, x, a, r) ==
    /\ Emits(op, imm, operands, ignoreable, x)
    /\ a \in Nat /\ r \in Seq(Operand) /\ a <= D
    /\ Replaces(evm_stack, pops_at_end, a, r, evm_stack', pops_at_end')
    /\ \A k \in 1..Len(r) : Refers(r[k], Len(entry), Len(results) + 1)

LEMMA PutsKeepsInv ==
    ASSUME IInv, KeepsMachine,
           NEW op, NEW imm, NEW operands, NEW ignoreable, NEW x, NEW a, NEW r,
           Puts(op, imm, operands, ignoreable, x, a, r)
    PROVE  IInv'
<1>1. /\ a \in Nat /\ r \in Seq(Operand)
      /\ Replaces(evm_stack, pops_at_end, a, r, evm_stack', pops_at_end')
      /\ a <= DepthOf(evm_stack, pops_at_end, Len(entry))
      /\ \A k \in 1..Len(r) : Refers(r[k], Len(entry), Len(results) + 1)
      /\ Emits(op, imm, operands, ignoreable, x)
    BY DEF Puts, D
<1>2. evm_stack \in Seq(Operand) /\ pops_at_end \in Nat /\ entry \in Seq(Word) /\ results \in Seq(Word)
    BY DEF IInv, TypeOK
<1>3. /\ Len(entry) \in Nat /\ Len(results) \in Nat
      /\ Len(results) + 1 \in Nat /\ Len(results) <= Len(results) + 1
    BY ONLY <1>2, LenProperties
<1>4. Sound(evm_stack, pops_at_end, Len(entry), Len(results))
    BY <1>1 DEF IInv, SoundStack, Emits
<1>5. evm_stack' \in Seq(Operand) /\ pops_at_end' \in Nat
    BY ONLY <1>1, <1>2, ReplaceTop
<1>6. Sound(evm_stack', pops_at_end', Len(entry), Len(results) + 1)
    BY ONLY <1>1, <1>2, <1>3, <1>4, SoundAfter
<1> QED BY ONLY <1>1, <1>5, <1>6, IInv, KeepsMachine, InvKept DEF IInv

-----------------------------------------------------------------------------
(* The stack instructions, as what they take and put *)

LEMMA Facts ==
    ASSUME IInv, phase = "emulate"
    PROVE  /\ evm_stack \in Seq(Operand) /\ pops_at_end \in Nat
           /\ entry \in Seq(Word) /\ results \in Seq(Word) /\ real \in Seq(Word)
           /\ Len(entry) \in Nat /\ Len(results) \in Nat /\ Len(evm_stack) \in Nat
           /\ Len(real) = Len(entry)
           /\ Sound(evm_stack, pops_at_end, Len(entry), Len(results))
           /\ Depth = D /\ D \in Nat
<1>1. /\ evm_stack \in Seq(Operand) /\ pops_at_end \in Nat
      /\ entry \in Seq(Word) /\ results \in Seq(Word) /\ real \in Seq(Word)
      /\ Len(real) = Len(entry)
      /\ Sound(evm_stack, pops_at_end, Len(entry), Len(results))
    BY DEF IInv, TypeOK, SoundStack
<1>2. Len(entry) \in Nat /\ Len(results) \in Nat /\ Len(evm_stack) \in Nat
    BY ONLY <1>1, LenProperties
<1>3. Depth = D /\ D \in Int
    BY ONLY <1>1, <1>2, FrameLenAssumption DEF Depth, D, DepthOf
<1>4. D >= 0 BY ONLY <1>1 DEF Sound, D
<1> QED BY <1>1, <1>2, <1>3, <1>4

LEMMA OperandRefers ==
    ASSUME IInv, phase = "emulate", NEW pos \in Nat, pos < D, NEW m \in Nat, Len(results) <= m
    PROVE  Refers(OperandAt(pos), Len(entry), m) /\ OperandAt(pos) \in Operand
<1>1. /\ Sound(evm_stack, pops_at_end, Len(entry), Len(results))
      /\ Len(results) \in Nat
    BY Facts
<1>2. Refers(At(evm_stack, pops_at_end, pos), Len(entry), Len(results))
    BY ONLY <1>1, pos \in Nat, pos < D DEF Sound, D
<1>3. OperandAt(pos) = At(evm_stack, pops_at_end, pos) BY OperandAtIsAt
<1> QED BY ONLY <1>1, <1>2, <1>3, m \in Nat, Len(results) <= m DEF Refers, Operand

LEMMA PushPuts ==
    ASSUME IInv, NEW op, NEW w \in Immediates, Push(op, w)
    PROVE  Puts(op, w, <<>>, TRUE, 0, 0, <<Constant(w)>>)
<1>1. Takes(op) /\ pushes_constant(op) BY DEF Push, EmulatePush
<1>2. op \in Byte /\ phase = "emulate" BY <1>1, TakesFacts
<1>3. w \in Word /\ 0 \in Word /\ w \in Nat BY OpcodesAssumption, WordFacts
<1>4. op \in Instruction
    BY <1>1 DEF pushes_constant, is_push, PUSH1, PUSH32, PC, Instruction
<1>5. Emits(op, w, <<>>, TRUE, 0)
    BY ONLY <1>2, <1>3, <1>4, Push(op, w), EmptySeq DEF Emits, Push, EmulatePush, NoCode, Running
<1>6. Constant(w) \in Operand /\ Refers(Constant(w), Len(entry), Len(results) + 1)
    BY <1>3 DEF Constant, Operand, Refers, IsConstant
<1>7. 0 <= D BY <1>2, Facts
<1>8. Replaces(evm_stack, pops_at_end, 0, <<Constant(w)>>, evm_stack', pops_at_end')
    BY <1>2, <1>6, Facts, OnePushed DEF Push, EmulatePush
<1>9. <<Constant(w)>> \in Seq(Operand) /\ Len(<<Constant(w)>>) = 1 BY ONLY <1>6
<1>10. \A k \in 1..Len(<<Constant(w)>>) :
          Refers(<<Constant(w)>>[k], Len(entry), Len(results) + 1)
    BY ONLY <1>6, <1>9
<1> QED BY ONLY <1>5, <1>7, <1>8, <1>9, <1>10 DEF Puts

LEMMA DupPuts ==
    ASSUME IInv, NEW op, Dup(op)
    PROVE  Puts(op, 0, <<OperandAt(dup_position(op))>>, TRUE, 0, 0,
                <<OperandAt(dup_position(op))>>)
<1> DEFINE o == OperandAt(dup_position(op))
<1>1. Takes(op) /\ is_dup(op) BY DEF Dup, EmulateDup
<1>2. op \in Byte /\ phase = "emulate" BY <1>1, TakesFacts
<1>3. 0 \in Word BY WordFacts
<1>4. op \in Instruction /\ dup_position(op) \in Nat
    BY <1>1 DEF is_dup, DUP1, DUP16, Instruction, dup_position
<1>5. dup_position(op) < D /\ 0 <= D
    BY <1>2, <1>4, Facts DEF Dup
<1>6. o \in Operand /\ Refers(o, Len(entry), Len(results) + 1)
    BY <1>2, <1>4, <1>5, Facts, OperandRefers
<1>7. /\ evm_stack' = <<o>> \o evm_stack /\ Emulated(op, 0, <<o>>, TRUE)
      /\ UNCHANGED <<stack_sets, returns, phase, pops_at_end, entry>>
      /\ results' = Append(results, 0)
    BY DEF Dup, EmulateDup, NoCode, Running
<1> HIDE DEF o
<1>8. <<o>> \in Seq(Operand) /\ Len(<<o>>) = 1 /\ <<o>>[1] = o BY ONLY <1>6
<1>9. Emits(op, 0, <<o>>, TRUE, 0)
    BY ONLY <1>2, <1>3, <1>4, <1>7, <1>8 DEF Emits
<1>10. Replaces(evm_stack, pops_at_end, 0, <<o>>, evm_stack', pops_at_end')
    BY <1>2, <1>6, <1>7, Facts, OnePushed
<1>11. \A k \in 1..Len(<<o>>) : Refers(<<o>>[k], Len(entry), Len(results) + 1)
    BY ONLY <1>6, <1>8
<1>12. Puts(op, 0, <<o>>, TRUE, 0, 0, <<o>>)
    BY ONLY <1>5, <1>8, <1>9, <1>10, <1>11 DEF Puts
<1> QED BY <1>12 DEF o

\* To put no operand is enough to know what was taken.
LEMMA NothingPut ==
    ASSUME NEW op, NEW imm, NEW operands, NEW ignoreable, NEW x, NEW a \in Nat,
           Emits(op, imm, operands, ignoreable, x), a <= D,
           Replaces(evm_stack, pops_at_end, a, <<>>, evm_stack', pops_at_end')
    PROVE  Puts(op, imm, operands, ignoreable, x, a, <<>>)
<1>1. <<>> \in Seq(Operand) /\ Len(<<>>) = 0 BY EmptySeq
<1>2. \A k : k \notin 1..0 OBVIOUS
<1>3. \A k \in 1..Len(<<>>) : Refers(<<>>[k], Len(entry), Len(results) + 1)
    BY ONLY <1>1, <1>2
<1> QED BY <1>1, <1>3 DEF Puts

LEMMA PopPuts ==
    ASSUME IInv, NEW op, Pop(op) PROVE Puts(op, 0, <<>>, TRUE, 0, 1, <<>>)
<1>1. Takes(op) /\ op = POP BY DEF Pop, EmulatePop
<1>2. op \in Byte /\ phase = "emulate" BY <1>1, TakesFacts
<1>3. 0 \in Word BY WordFacts
<1>4. op \in Instruction BY <1>1 DEF POP, Instruction
<1>5. Emits(op, 0, <<>>, TRUE, 0)
    BY ONLY <1>2, <1>3, <1>4, Pop(op), EmptySeq DEF Emits, Pop, EmulatePop, NoCode, Running
<1>6. 1 <= D BY <1>2, Facts DEF Pop
<1>7. <<>> \in Seq(Operand) BY EmptySeq
<1>8. Replaces(evm_stack, pops_at_end, 1, <<>>, evm_stack', pops_at_end')
    <2>1. evm_stack \in Seq(Operand) /\ pops_at_end \in Nat BY <1>2, Facts
    <2>2. CASE evm_stack # <<>>
        <3>1. evm_stack' = Tail(evm_stack) /\ pops_at_end' = pops_at_end
            BY <2>2 DEF Pop, EmulatePop
        <3>2. Tail(evm_stack) \in Seq(Operand) BY ONLY <2>1, <2>2, HeadTailProperties
        <3>3. <<>> \o Tail(evm_stack) = Tail(evm_stack) BY ONLY <3>2, ConcatEmptySeq
        <3> QED BY ONLY <1>7, <2>1, <2>2, <3>1, <3>3, OneReplaced
    <2>3. CASE evm_stack = <<>>
        <3>1. evm_stack' = evm_stack /\ pops_at_end' = pops_at_end + 1
            BY <2>3 DEF Pop, EmulatePop
        <3> QED BY ONLY <2>1, <2>3, <3>1, OnePopped
    <2> QED BY <2>2, <2>3
<1> QED BY ONLY <1>5, <1>6, <1>8, NothingPut

LEMMA JumpdestPuts ==
    ASSUME IInv, NEW op, Jumpdest(op) PROVE Puts(op, 0, <<>>, TRUE, 0, 0, <<>>)
<1>1. Takes(op) /\ op = JUMPDEST BY DEF Jumpdest, EmulateJumpdest
<1>2. op \in Byte /\ phase = "emulate" BY <1>1, TakesFacts
<1>3. 0 \in Word BY WordFacts
<1>4. op \in Instruction BY <1>1 DEF JUMPDEST, Instruction
<1>5. Emits(op, 0, <<>>, TRUE, 0)
    BY ONLY <1>2, <1>3, <1>4, Jumpdest(op), EmptySeq
    DEF Emits, Jumpdest, EmulateJumpdest, NoCode, Running
<1>6. 0 <= D BY <1>2, Facts
<1>7. <<>> \in Seq(Operand) BY EmptySeq
<1>8. Replaces(evm_stack, pops_at_end, 0, <<>>, evm_stack', pops_at_end')
    BY <1>2, Facts, NothingReplaced DEF Jumpdest, EmulateJumpdest
<1> QED BY ONLY <1>5, <1>6, <1>8, NothingPut

LEMMA ThrownPuts ==
    ASSUME IInv, NEW op, Thrown(op) PROVE Puts(op, 0, <<>>, FALSE, 0, 0, <<>>)
<1>1. Takes(op) /\ op \notin Instruction BY DEF Thrown, EmulateInvalid
<1>2. op \in Byte /\ phase = "emulate" BY <1>1, TakesFacts
<1>3. 0 \in Word BY WordFacts
<1>5. Emits(op, 0, <<>>, FALSE, 0)
    BY ONLY <1>2, <1>3, Thrown(op), EmptySeq DEF Emits, Thrown, EmulateInvalid, NoCode
<1>6. 0 <= D BY <1>2, Facts
<1>7. <<>> \in Seq(Operand) BY EmptySeq
<1>8. Replaces(evm_stack, pops_at_end, 0, <<>>, evm_stack', pops_at_end')
    BY <1>2, Facts, NothingReplaced DEF Thrown, EmulateInvalid
<1> QED BY ONLY <1>5, <1>6, <1>8, NothingPut

-----------------------------------------------------------------------------
(* Swaps *)

LEMMA SwapSwaps ==
    ASSUME IInv, NEW op, Swap(op)
    PROVE  /\ Emits(op, 0, <<evm_stack[1], evm_stack[swap_position(op) + 1]>>, TRUE, 0)
           /\ Swaps(evm_stack, swap_position(op), evm_stack')
           /\ swap_position(op) < D
           /\ pops_at_end' = pops_at_end
<1> DEFINE n == swap_position(op)
           x == evm_stack[1]
           y == evm_stack[n + 1]
<1>1. Takes(op) /\ is_swap(op) /\ n < Len(evm_stack) BY DEF Swap, EmulateSwap
<1>2. op \in Byte /\ phase = "emulate" BY <1>1, TakesFacts
<1>3. 0 \in Word BY WordFacts
<1>4. op \in Instruction /\ n \in Nat /\ n >= 1 BY <1>1, SwapPosition
<1>5. evm_stack \in Seq(Operand) /\ Len(evm_stack) \in Nat /\ Depth = D BY <1>2, Facts
<1>6. /\ evm_stack' = [evm_stack EXCEPT ![1] = y, ![n + 1] = x]
      /\ Emulated(op, 0, <<x, y>>, TRUE)
      /\ UNCHANGED <<stack_sets, returns, phase, pops_at_end, entry>>
      /\ results' = Append(results, 0)
      /\ Depth > n
    BY DEF Swap, EmulateSwap, NoCode, Running
<1> HIDE DEF n
<1>7. 1 \in 1..Len(evm_stack) /\ n + 1 \in 1..Len(evm_stack) /\ n \in 1..(Len(evm_stack) - 1)
    BY ONLY <1>1, <1>4, <1>5
<1>8. x \in Operand /\ y \in Operand BY ONLY <1>5, <1>7, ElementOfSeq
<1>9. Swaps(evm_stack, n, evm_stack') BY ONLY <1>6, <1>7 DEF Swaps
<1> HIDE DEF x, y
<1>10. <<x, y>> \in Seq(Operand) BY ONLY <1>8
<1>11. Emits(op, 0, <<x, y>>, TRUE, 0)
    BY ONLY <1>2, <1>3, <1>4, <1>6, <1>10 DEF Emits
<1>12. n < D BY ONLY <1>5, <1>6
<1> QED BY <1>6, <1>9, <1>11, <1>12 DEF n, x, y

LEMMA SwapOutPuts ==
    ASSUME IInv, NEW op, SwapOut(op)
    PROVE  Puts(op, 0, <<evm_stack[1], OperandAt(swap_position(op))>>, FALSE, 0, 1,
                <<OperandAt(swap_position(op))>>)
<1> DEFINE n == swap_position(op)
           x == evm_stack[1]
           y == OperandAt(n)
<1>1. Takes(op) /\ is_swap(op) /\ evm_stack # <<>> BY DEF SwapOut, EmulateSwapOut
<1>2. op \in Byte /\ phase = "emulate" BY <1>1, TakesFacts
<1>3. 0 \in Word BY WordFacts
<1>4. op \in Instruction /\ n \in Nat /\ n >= 1 BY <1>1, SwapPosition
<1>5. /\ evm_stack \in Seq(Operand) /\ pops_at_end \in Nat /\ Depth = D /\ D \in Nat
      /\ Len(results) \in Nat
    BY <1>2, Facts
<1>6. /\ evm_stack' = <<y>> \o Tail(evm_stack)
      /\ Emulated(op, 0, <<x, y>>, FALSE)
      /\ UNCHANGED <<stack_sets, returns, phase, pops_at_end, entry>>
      /\ results' = Append(results, 0)
      /\ Depth > n
    BY DEF SwapOut, EmulateSwapOut, SwapCode, Running
<1> HIDE DEF n
<1>7. n < D /\ 1 <= D BY ONLY <1>4, <1>5, <1>6
<1>8. Len(results) + 1 \in Nat /\ Len(results) <= Len(results) + 1 BY ONLY <1>5
<1>9. y \in Operand /\ Refers(y, Len(entry), Len(results) + 1)
    BY <1>2, <1>4, <1>7, <1>8, OperandRefers
<1>10. x \in Operand
    <2>1. Len(evm_stack) \in Nat \ {0} BY ONLY <1>1, <1>5, EmptySeq
    <2>2. 1 \in 1..Len(evm_stack) BY ONLY <2>1
    <2> QED BY ONLY <1>5, <2>2, ElementOfSeq
<1> HIDE DEF x, y
<1>11. <<x, y>> \in Seq(Operand) /\ <<y>> \in Seq(Operand) /\ Len(<<y>>) = 1 /\ <<y>>[1] = y
    BY ONLY <1>9, <1>10
<1>12. Emits(op, 0, <<x, y>>, FALSE, 0)
    BY ONLY <1>2, <1>3, <1>4, <1>6, <1>11 DEF Emits
<1>13. Replaces(evm_stack, pops_at_end, 1, <<y>>, evm_stack', pops_at_end')
    BY ONLY <1>1, <1>5, <1>6, <1>11, OneReplaced
<1>14. \A k \in 1..Len(<<y>>) : Refers(<<y>>[k], Len(entry), Len(results) + 1)
    BY ONLY <1>9, <1>11
<1>15. Puts(op, 0, <<x, y>>, FALSE, 0, 1, <<y>>)
    BY ONLY <1>7, <1>11, <1>12, <1>13, <1>14 DEF Puts
<1> QED BY <1>15 DEF x, y, n

LEMMA SwapBelowPuts ==
    ASSUME IInv, NEW op, SwapBelow(op)
    PROVE  Puts(op, 0, <<OperandAt(0), OperandAt(swap_position(op))>>, FALSE, 0, 0, <<>>)
<1> DEFINE n == swap_position(op)
           x == OperandAt(0)
           y == OperandAt(n)
<1>1. Takes(op) /\ is_swap(op) BY DEF SwapBelow, EmulateSwapBelow
<1>2. op \in Byte /\ phase = "emulate" BY <1>1, TakesFacts
<1>3. 0 \in Word BY WordFacts
<1>4. op \in Instruction /\ n \in Nat /\ n >= 1 BY <1>1, SwapPosition
<1>5. /\ evm_stack \in Seq(Operand) /\ pops_at_end \in Nat /\ Depth = D /\ D \in Nat
      /\ Len(results) \in Nat
    BY <1>2, Facts
<1>6. /\ Emulated(op, 0, <<x, y>>, FALSE)
      /\ UNCHANGED <<evm_stack, stack_sets, returns, phase, pops_at_end, entry>>
      /\ results' = Append(results, 0)
      /\ Depth > n
    BY DEF SwapBelow, EmulateSwapBelow, SwapCode, Running
<1> HIDE DEF n
<1>7. n < D /\ 0 < D /\ 0 <= D BY ONLY <1>4, <1>5, <1>6
<1>8. x \in Operand /\ y \in Operand
    <2>1. Len(results) <= Len(results) /\ 0 \in Nat BY ONLY <1>5
    <2> QED BY <1>2, <1>4, <1>5, <1>7, <2>1, OperandRefers
<1> HIDE DEF x, y
<1>9. <<x, y>> \in Seq(Operand) BY ONLY <1>8
<1>10. Emits(op, 0, <<x, y>>, FALSE, 0)
    BY ONLY <1>2, <1>3, <1>4, <1>6, <1>9 DEF Emits
<1>11. Replaces(evm_stack, pops_at_end, 0, <<>>, evm_stack', pops_at_end')
    BY ONLY <1>5, <1>6, NothingReplaced
<1>12. Puts(op, 0, <<x, y>>, FALSE, 0, 0, <<>>)
    BY ONLY <1>7, <1>10, <1>11, NothingPut
<1> QED BY <1>12 DEF x, y, n

LEMMA EvalIsVal == \A o : Eval(o) = Val(o, entry, results)
BY DEF Eval, Val

\* The swaps that are emitted write words.
LEMMA SwapCodeKeeps ==
    ASSUME IInv, phase = "emulate", NEW op, is_swap(op), SwapCode(op)
    PROVE  KeepsMachine
<1> DEFINE x == OperandAt(0)
           y == OperandAt(swap_position(op))
<1>1. /\ real \in Seq(Word) /\ entry \in Seq(Word) /\ results \in Seq(Word)
      /\ Depth = D /\ D \in Nat /\ Len(results) \in Nat
    BY Facts
<1>2. swap_position(op) \in Nat BY SwapPosition
<1>3. swap_position(op) < D /\ 0 < D BY ONLY <1>1, <1>2, SwapCode(op) DEF SwapCode
<1>4. Refers(x, Len(entry), Len(results)) /\ Refers(y, Len(entry), Len(results))
    <2>1. Len(results) <= Len(results) /\ 0 \in Nat BY ONLY <1>1
    <2> QED BY <1>1, <1>2, <1>3, <2>1, OperandRefers
<1>5. Eval(x) \in Word /\ Eval(y) \in Word
    BY ONLY <1>1, <1>4, ValType, EvalIsVal
<1>6. real' = WriteSlots(x, y) /\ trace' = trace BY DEF SwapCode
<1> HIDE DEF x, y
<1>7. Len(real) \in Nat /\ DOMAIN real = 1..Len(real) /\ real \in [1..Len(real) -> Word]
    BY ONLY <1>1, LenProperties
<1>8. real' \in [1..Len(real) -> Word]
    BY ONLY <1>5, <1>6, <1>7 DEF WriteSlots
<1>9. real' \in Seq(Word) BY ONLY <1>7, <1>8, SeqDef
<1>10. Len(real') = Len(real)
    <2>1. DOMAIN real' = 1..Len(real) BY ONLY <1>8
    <2> QED BY ONLY <1>7, <1>9, <2>1, LenProperties
<1>11. trace' \in Seq(Interaction) BY <1>6 DEF IInv, TypeOK, Interaction
<1> QED BY <1>9, <1>10, <1>11 DEF KeepsMachine

-----------------------------------------------------------------------------
(* Operations: what the generated code passes to a handler *)

LEMMA OperandsRefer ==
    ASSUME IInv, phase = "emulate", NEW op \in Byte, Depth >= Args(op)
    PROVE  /\ Args(op) \in Nat /\ Args(op) <= D
           /\ OperandsOf(op) \in Seq(Operand) /\ Len(OperandsOf(op)) = Args(op)
           /\ \A k \in 1..Args(op) :
                 /\ OperandsOf(op)[k] = OperandAt(k - 1)
                 /\ Refers(OperandsOf(op)[k], Len(entry), Len(results))
                 /\ ArgumentsOf(op)[k] = Val(OperandsOf(op)[k], entry, results)
                 /\ Describes(OperandsOf(op)[k], ArgumentsOf(op)[k])
           /\ ArgumentsOf(op) \in Seq(Word)
<1>1. /\ Depth = D /\ D \in Nat /\ Len(results) \in Nat
      /\ entry \in Seq(Word) /\ results \in Seq(Word)
    BY Facts
<1>2. Args(op) \in Nat BY ArgsInNat
<1>3. Args(op) <= D BY ONLY <1>1, <1>2, Depth >= Args(op)
<1> DEFINE n == Args(op)
<1>4. OperandsOf(op) = [k \in 1..n |-> OperandAt(k - 1)] BY DEF OperandsOf
<1>5. ArgumentsOf(op) = [k \in 1..n |-> Eval(OperandsOf(op)[k])] BY DEF ArgumentsOf
<1>6. n \in Nat /\ n <= D BY <1>2, <1>3
<1> HIDE DEF n
<1>7. ASSUME NEW k \in 1..n
      PROVE  /\ OperandsOf(op)[k] = OperandAt(k - 1)
             /\ OperandsOf(op)[k] \in Operand
             /\ Refers(OperandsOf(op)[k], Len(entry), Len(results))
             /\ ArgumentsOf(op)[k] = Val(OperandsOf(op)[k], entry, results)
             /\ ArgumentsOf(op)[k] \in Word
             /\ Describes(OperandsOf(op)[k], ArgumentsOf(op)[k])
    <2>1. k - 1 \in Nat /\ k - 1 < D /\ Len(results) <= Len(results)
        BY ONLY <1>1, <1>6, k \in 1..n
    <2>2. OperandsOf(op)[k] = OperandAt(k - 1) BY ONLY <1>4, k \in 1..n
    <2>3. Refers(OperandAt(k - 1), Len(entry), Len(results)) /\ OperandAt(k - 1) \in Operand
        BY <1>1, <2>1, OperandRefers
    <2>4. ArgumentsOf(op)[k] = Val(OperandsOf(op)[k], entry, results)
        BY ONLY <1>5, EvalIsVal, k \in 1..n
    <2>5. ArgumentsOf(op)[k] \in Word BY ONLY <1>1, <2>2, <2>3, <2>4, ValType
    <2>6. IsConstant(OperandsOf(op)[k]) => OperandsOf(op)[k].n = ArgumentsOf(op)[k]
        BY ONLY <2>4 DEF Val
    <2> QED BY ONLY <2>2, <2>3, <2>4, <2>5, <2>6 DEF Describes
<1>8. OperandsOf(op) \in Seq(Operand) /\ Len(OperandsOf(op)) = n
    <2>1. OperandsOf(op) \in [1..n -> Operand]
        <3>1. \A k \in 1..n : OperandAt(k - 1) \in Operand BY ONLY <1>7
        <3> QED BY ONLY <1>4, <3>1
    <2>2. OperandsOf(op) \in Seq(Operand) BY ONLY <1>6, <2>1, SeqDef
    <2> QED BY ONLY <1>4, <1>6, <2>2
<1>9. ArgumentsOf(op) \in Seq(Word)
    <2>1. ArgumentsOf(op) \in [1..n -> Word]
        <3>1. \A k \in 1..n : Eval(OperandsOf(op)[k]) \in Word BY ONLY <1>5, <1>7
        <3> QED BY ONLY <1>5, <3>1
    <2> QED BY ONLY <1>6, <2>1, SeqDef
<1> QED BY <1>6, <1>7, <1>8, <1>9 DEF n

\* What an operation is folded to makes sense; if it is not a power of a
\* constant 0 it is also worth what the EVM computes.
LEMMA FoldRefers ==
    ASSUME IInv, phase = "emulate", NEW op \in Byte, IsOperation(op), Depth >= Args(op),
           Folds(op)
    PROVE  LET o == Fold(op, OperandsOf(op)) IN
           /\ Refers(o, Len(entry), Len(results))
           /\ ~PowerOfZero(op) => /\ op \in Arithmetic
                                  /\ Val(o, entry, results) = Alu(op, ArgumentsOf(op))
<1> DEFINE o == Fold(op, OperandsOf(op))
           w == Alu(op, ArgumentsOf(op))
<1>1. /\ Args(op) \in Nat
      /\ OperandsOf(op) \in Seq(Operand) /\ Len(OperandsOf(op)) = Args(op)
      /\ \A k \in 1..Args(op) :
            /\ OperandsOf(op)[k] = OperandAt(k - 1)
            /\ Refers(OperandsOf(op)[k], Len(entry), Len(results))
            /\ ArgumentsOf(op)[k] = Val(OperandsOf(op)[k], entry, results)
            /\ Describes(OperandsOf(op)[k], ArgumentsOf(op)[k])
    BY OperandsRefer
<1>2. o # NoFold BY EvaluatedIs DEF Folds, Evaluated
<1>3. CASE IsPowerOfZero(op, OperandsOf(op))
    <2>1. PowerOfZero(op)
        <3>1. 1 \in 1..Args(op) /\ 2 \in 1..Args(op) /\ 1 - 1 = 0 /\ 2 - 1 = 1
            BY <1>1, <1>3 DEF IsPowerOfZero
        <3>2. OperandsOf(op)[1] = OperandAt(0) /\ OperandsOf(op)[2] = OperandAt(1)
            BY ONLY <1>1, <3>1
        <3> QED BY ONLY <1>3, <3>2 DEF IsPowerOfZero, PowerOfZero
    <2>2. o = Zero \/ o = OperandsOf(op)[1] \/ o = One
        <3>1. op = EXP /\ Len(OperandsOf(op)) = 2 /\ ~IsConstant(OperandsOf(op)[2])
            BY ONLY <1>3 DEF IsPowerOfZero
        <3>2. o = FoldIdentity(op, OperandsOf(op)[1], OperandsOf(op)[2])
            BY ONLY <3>1 DEF Fold
        <3> QED BY ONLY <1>2, <3>1, <3>2
                DEF FoldIdentity, EXP, ADD, SUB, MUL, DIV, SHL, SHR
    <2>3. OperandsOf(op)[1] = Zero BY ONLY <1>3 DEF IsPowerOfZero
    <2>4. o = Zero \/ o = One BY ONLY <2>2, <2>3
    <2>5. Refers(o, Len(entry), Len(results))
        BY ONLY <2>4, WordFacts DEF Refers, Zero, One, Constant, IsConstant, Operand
    <2> QED BY <2>1, <2>5
<1>4. CASE ~IsPowerOfZero(op, OperandsOf(op))
    <2>1. /\ op \in Arithmetic
          /\ \/ o = Constant(w)
             \/ \E k \in 1..Len(OperandsOf(op)) : o = OperandsOf(op)[k] /\ w = ArgumentsOf(op)[k]
        <3>1. \A k \in 1..Len(OperandsOf(op)) : Describes(OperandsOf(op)[k], ArgumentsOf(op)[k])
            BY ONLY <1>1
        <3> QED BY ONLY <1>1, <1>2, <1>4, <3>1, FoldSound
    <2>2. w \in Word
        <3>1. \A k \in 1..Args(op) : ArgumentsOf(op)[k] \in Word BY <1>1 DEF Describes
        <3> QED BY ONLY <2>1, <3>1, AluType
    <2>3. CASE o = Constant(w)
        <3>1. w \in Nat BY <2>2, WordFacts
        <3>2. Refers(o, Len(entry), Len(results)) /\ Val(o, entry, results) = w
            BY ONLY <2>2, <2>3, <3>1 DEF Refers, Val, Constant, IsConstant, Operand
        <3> QED BY <2>1, <3>2
    <2>4. CASE \E k \in 1..Len(OperandsOf(op)) : o = OperandsOf(op)[k] /\ w = ArgumentsOf(op)[k]
        BY <1>1, <2>1, <2>4
    <2> QED BY <2>1, <2>3, <2>4
<1> QED BY <1>3, <1>4

\* Every operation takes its arguments and puts what evaluate_opcode returns.
LEMMA OperationPuts ==
    ASSUME IInv, NEW op, EmulateOperation(op), Depth >= Args(op),
           NEW x \in Word, results' = Append(results, x), entry' = entry
    PROVE  Puts(op, 0, OperandsOf(op), Folds(op), x, Args(op), Evaluated(op).ret)
<1> DEFINE r == Evaluated(op).ret
<1>1. Takes(op) /\ IsOperation(op) BY DEF EmulateOperation
<1>2. op \in Byte /\ phase = "emulate" BY <1>1, TakesFacts
<1>3. 0 \in Word BY WordFacts
<1>4. op \in Instruction BY <1>1 DEF IsOperation
<1>5. /\ Args(op) \in Nat /\ Args(op) <= D /\ OperandsOf(op) \in Seq(Operand)
    BY <1>2, OperandsRefer
<1>6. Len(results) \in Nat /\ Len(insts) = Len(results)
    BY <1>2, Facts DEF IInv, TypeOK
<1>7. /\ Folds(op) \in BOOLEAN
      /\ r = IF Folds(op) THEN <<Fold(op, OperandsOf(op))>>
             ELSE IF Ret(op) = 1 THEN <<InstructionRef(Len(insts))>> ELSE <<>>
    BY <1>1, EvaluatedIs DEF Folds, Evaluated
<1>8. r \in Seq(Operand) /\ \A k \in 1..Len(r) : Refers(r[k], Len(entry), Len(results) + 1)
    <2>1. ASSUME NEW o, Refers(o, Len(entry), Len(results) + 1), r = <<o>>
          PROVE  r \in Seq(Operand) /\ \A k \in 1..Len(r) : Refers(r[k], Len(entry), Len(results) + 1)
        <3>1. o \in Operand BY <2>1 DEF Refers
        <3>2. <<o>> \in Seq(Operand) /\ Len(<<o>>) = 1 /\ <<o>>[1] = o BY ONLY <3>1
        <3>3. \A k \in 1..1 : k = 1 OBVIOUS
        <3> QED BY ONLY <2>1, <3>2, <3>3
    <2>2. CASE Folds(op)
        <3>1. Refers(Fold(op, OperandsOf(op)), Len(entry), Len(results))
            BY <1>1, <1>2, <2>2, FoldRefers
        <3>2. Refers(Fold(op, OperandsOf(op)), Len(entry), Len(results) + 1)
            BY ONLY <1>6, <3>1 DEF Refers, Operand
        <3> QED BY ONLY <1>7, <2>1, <2>2, <3>2
    <2>3. CASE ~Folds(op) /\ Ret(op) = 1
        <3>1. Refers(InstructionRef(Len(insts)), Len(entry), Len(results) + 1)
            BY ONLY <1>6 DEF Refers, InstructionRef, IsConstant, Operand
        <3> QED BY ONLY <1>7, <2>1, <2>3, <3>1
    <2>4. CASE ~Folds(op) /\ Ret(op) # 1
        <3>1. r = <<>> BY ONLY <1>7, <2>4
        <3>2. <<>> \in Seq(Operand) /\ Len(<<>>) = 0 BY EmptySeq
        <3>3. \A k : k \notin 1..0 OBVIOUS
        <3> QED BY ONLY <3>1, <3>2, <3>3
    <2> QED BY ONLY <2>2, <2>3, <2>4
<1>9. Replaces(evm_stack, pops_at_end, Args(op), r, evm_stack', pops_at_end')
    BY DEF EmulateOperation, Replaces
<1>10. Emits(op, 0, OperandsOf(op), Folds(op), x)
    BY <1>2, <1>3, <1>4, <1>5, <1>7 DEF Emits, EmulateOperation, Running, Folds
<1> QED BY ONLY <1>5, <1>8, <1>9, <1>10 DEF Puts

-----------------------------------------------------------------------------
(* The invariant is inductive *)

LEMMA InitInv == Init => IInv
<1> SUFFICES ASSUME Init PROVE IInv OBVIOUS
<1>1. /\ insts = <<>> /\ pops_at_end = 0 /\ stack_sets = <<>> /\ returns = <<>>
      /\ phase = "emulate" /\ results = <<>> /\ trace = <<>> /\ real = entry
      /\ evm_stack = [k \in 1..FrameLen |-> StackRef(k - 1)]
      /\ entry \in Seq(Word)
    BY EntryStacksAssumption DEF Init, InitBB
<1>2. FrameLen \in Nat BY FrameLenAssumption
<1>3. evm_stack \in Seq(Operand) /\ Len(evm_stack) = FrameLen
    <2>1. \A k \in 1..FrameLen : StackRef(k - 1) \in Operand
        BY <1>2 DEF StackRef, Operand
    <2>2. evm_stack \in [1..FrameLen -> Operand] BY ONLY <1>1, <2>1
    <2>3. evm_stack \in Seq(Operand) BY ONLY <1>2, <2>2, SeqDef
    <2> QED BY ONLY <1>1, <1>2, <2>3
<1>4. TypeOK
    <2>1. DOMAIN stack_sets = {} BY <1>1
    <2>2. /\ insts \in Seq([opcode : Byte, imm : Word, operands : Seq(Operand), ignoreable : BOOLEAN])
          /\ returns \in Seq(Operand) /\ results \in Seq(Word)
          /\ trace \in Seq([opcode : Byte, args : Seq(Word)])
          /\ Len(results) = Len(insts)
        BY <1>1, EmptySeq
    <2> QED BY <1>1, <1>3, <2>1, <2>2 DEF TypeOK
<1>5. OnlyInstructions BY <1>1 DEF OnlyInstructions
<1>6. SoundStack
    <2>1. Len(entry) \in Nat /\ Len(results) \in Nat /\ Len(results) = 0
        <3>1. Len(entry) \in Nat BY <1>1, LenProperties
        <3> QED BY <1>1, <3>1
    <2>2. DepthOf(evm_stack, pops_at_end, Len(entry)) = Len(entry)
        BY ONLY <1>1, <1>2, <1>3, <2>1 DEF DepthOf
    <2>3. ASSUME NEW pos \in Nat, pos < Len(entry)
          PROVE  Refers(At(evm_stack, pops_at_end, pos), Len(entry), Len(results))
        <3>1. At(evm_stack, pops_at_end, pos) = StackRef(pos)
            <4>1. CASE pos < FrameLen
                <5>1. pos + 1 \in 1..FrameLen /\ pos + 1 - 1 = pos BY ONLY <1>2, <4>1, pos \in Nat
                <5>2. evm_stack[pos + 1] = StackRef(pos) BY ONLY <1>1, <5>1
                <5> QED BY ONLY <1>3, <4>1, <5>2 DEF At
            <4>2. CASE ~(pos < FrameLen)
                <5>1. pos - FrameLen + FrameLen + 0 = pos BY ONLY <1>2, pos \in Nat
                <5> QED BY ONLY <1>1, <1>3, <4>2, <5>1 DEF At
            <4> QED BY ONLY <4>1, <4>2
        <3> QED BY ONLY <2>3, <3>1, pos \in Nat DEF Refers, StackRef, IsConstant, Operand
    <2>4. Len(entry) >= 0 BY ONLY <2>1
    <2> QED BY ONLY <2>2, <2>3, <2>4 DEF SoundStack, Sound
<1> QED BY <1>4, <1>5, <1>6 DEF IInv

\* The finalizer's operands are what the emulation left.
LEMMA FinishFacts ==
    ASSUME IInv, FinishBB
    PROVE  /\ phase = "emulate"
           /\ Excess \in Nat /\ Missing \in Nat
           /\ Len(evm_stack) = FrameLen + Excess - Missing
           /\ Excess <= Len(evm_stack) /\ Missing <= FrameLen
           /\ Excess = 0 \/ Missing = 0
           /\ returns' = SubSeq(evm_stack, 1, Excess)
           /\ returns' \in Seq(Operand) /\ Len(returns') = Excess
           /\ \A k \in 1..Excess : returns'[k] = evm_stack[k]
           /\ \A s \in Missing..(FrameLen - 1) : LeftInSlot(s) \in Operand
<1>1. phase = "emulate" BY DEF FinishBB
<1>2. evm_stack \in Seq(Operand) /\ Len(evm_stack) \in Nat BY <1>1, Facts
<1>3. FrameLen \in Nat BY FrameLenAssumption
<1>4. /\ Excess \in Nat /\ Missing \in Nat
      /\ Len(evm_stack) = FrameLen + Excess - Missing
      /\ Excess <= Len(evm_stack) /\ Missing <= FrameLen
      /\ Excess = 0 \/ Missing = 0
    BY ONLY <1>2, <1>3 DEF Excess, Missing
<1>5. returns' = SubSeq(evm_stack, 1, Excess) BY DEF FinishBB
<1>6. /\ returns' \in Seq(Operand) /\ Len(returns') = Excess
      /\ \A k \in 1..Excess : returns'[k] = evm_stack[k]
    <2>1. \A k \in 1..Excess : k \in 1..Len(evm_stack) BY ONLY <1>2, <1>4
    <2>2. \A k \in 1..Excess : evm_stack[k] \in Operand BY ONLY <1>2, <2>1, ElementOfSeq
    <2>3. 1 \in Int /\ Excess \in Int BY ONLY <1>4
    <2>4. /\ returns' \in Seq(Operand)
          /\ Len(returns') = IF 1 <= Excess THEN Excess - 1 + 1 ELSE 0
          /\ \A k \in 1..(Excess - 1 + 1) : returns'[k] = evm_stack[1 + k - 1]
        BY ONLY <1>5, <2>2, <2>3, SubSeqProperties
    <2> QED BY ONLY <1>4, <2>4
<1>7. ASSUME NEW s \in Missing..(FrameLen - 1) PROVE LeftInSlot(s) \in Operand
    <2>1. s - Missing + Excess + 1 \in 1..Len(evm_stack)
        BY ONLY <1>2, <1>3, <1>4, s \in Missing..(FrameLen - 1)
    <2>2. evm_stack[s - Missing + Excess + 1] \in Operand BY ONLY <1>2, <2>1, ElementOfSeq
    <2> QED BY ONLY <2>2 DEF LeftInSlot
<1> QED BY <1>1, <1>4, <1>5, <1>6, <1>7

LEMMA FinishInv == IInv /\ Finish => IInv'
<1> SUFFICES ASSUME IInv, Finish PROVE IInv' OBVIOUS
<1>1. FinishBB /\ UNCHANGED <<entry, real, results, trace>> BY DEF Finish, runVars
<1>2. /\ phase = "emulate"
      /\ Missing \in Nat /\ returns' \in Seq(Operand)
      /\ \A s \in Missing..(FrameLen - 1) : LeftInSlot(s) \in Operand
    BY <1>1, FinishFacts
<1>3. phase' = "done" /\ UNCHANGED <<insts, evm_stack>> /\ pops_at_end' = pops_at_end + Missing
    BY <1>1 DEF FinishBB
<1>4. DOMAIN stack_sets' \subseteq Nat /\ \A s \in DOMAIN stack_sets' : stack_sets'[s] \in Operand
    <2>1. stack_sets' = [slot \in {s \in Missing..(FrameLen - 1) : LeftInSlot(s) # StackRef(s)}
                            |-> LeftInSlot(slot)]
        BY <1>1 DEF FinishBB
    <2>2. Missing..(FrameLen - 1) \subseteq Nat BY ONLY <1>2, FrameLenAssumption
    <2> QED BY ONLY <1>2, <2>1, <2>2
<1>5. pops_at_end' \in Nat
    <2>1. pops_at_end \in Nat BY <1>2, Facts
    <2> QED BY ONLY <1>2, <1>3, <2>1
<1>6. TypeOK' BY <1>1, <1>2, <1>3, <1>4, <1>5 DEF IInv, TypeOK
<1>7. OnlyInstructions' /\ SoundStack' BY <1>3 DEF OnlyInstructions, SoundStack
<1> QED BY <1>6, <1>7 DEF IInv

\* The steps that leave the real stack and the trace alone.
LEMMA NoCodeKeeps == IInv /\ NoCode => KeepsMachine
BY DEF IInv, TypeOK, NoCode, KeepsMachine, Interaction

LEMMA NextInv == IInv /\ [Next]_vars => IInv'
<1> SUFFICES ASSUME IInv, [Next]_vars PROVE IInv' OBVIOUS
<1>1. ASSUME NEW op \in Opcodes, NEW w \in Immediates, Push(op, w) PROVE IInv'
    BY <1>1, PushPuts, PutsKeepsInv, NoCodeKeeps DEF Push
<1>2. ASSUME NEW op \in Opcodes, Dup(op) PROVE IInv'
    BY <1>2, DupPuts, PutsKeepsInv, NoCodeKeeps DEF Dup
<1>3. ASSUME NEW op \in Opcodes, Swap(op) PROVE IInv'
    <2>1. /\ Emits(op, 0, <<evm_stack[1], evm_stack[swap_position(op) + 1]>>, TRUE, 0)
          /\ Swaps(evm_stack, swap_position(op), evm_stack')
          /\ swap_position(op) < D
          /\ pops_at_end' = pops_at_end
        BY <1>3, SwapSwaps
    <2>2. phase = "emulate" BY <2>1 DEF Emits
    <2>3. KeepsMachine BY <1>3, NoCodeKeeps DEF Swap
    <2>4. /\ evm_stack \in Seq(Operand) /\ pops_at_end \in Nat
          /\ Len(entry) \in Nat /\ Len(results) \in Nat
          /\ Sound(evm_stack, pops_at_end, Len(entry), Len(results))
        BY <2>2, Facts
    <2>5. Len(results) + 1 \in Nat /\ Len(results) <= Len(results) + 1 BY ONLY <2>4
    <2>6. evm_stack' \in Seq(Operand) BY ONLY <2>1, <2>4, SwapDepths
    <2>7. Sound(evm_stack', pops_at_end, Len(entry), Len(results) + 1)
        BY ONLY <2>1, <2>4, <2>5, SwapSound DEF D
    <2> QED BY ONLY IInv, <2>1, <2>3, <2>4, <2>6, <2>7, InvKept DEF IInv
<1>4. ASSUME NEW op \in Opcodes, Pop(op) PROVE IInv'
    BY <1>4, PopPuts, PutsKeepsInv, NoCodeKeeps DEF Pop
<1>5. ASSUME NEW op \in Opcodes, Jumpdest(op) PROVE IInv'
    BY <1>5, JumpdestPuts, PutsKeepsInv, NoCodeKeeps DEF Jumpdest
<1>6. ASSUME NEW op \in Opcodes, Computed(op) PROVE IInv'
    <2>1. /\ EmulateOperation(op) /\ Depth >= Args(op) /\ op \in Arithmetic
          /\ results' = Append(results, Alu(op, ArgumentsOf(op)))
          /\ UNCHANGED <<entry, real, trace>>
        BY <1>6 DEF Computed
    <2>2. op \in Byte /\ phase = "emulate" BY <2>1, TakesFacts DEF EmulateOperation
    <2>3. Alu(op, ArgumentsOf(op)) \in Word
        <3>1. \A k \in 1..Args(op) : ArgumentsOf(op)[k] \in Word
            BY <2>1, <2>2, OperandsRefer DEF Describes
        <3> QED BY <2>1, <3>1, AluType
    <2>4. Puts(op, 0, OperandsOf(op), Folds(op), Alu(op, ArgumentsOf(op)), Args(op), Evaluated(op).ret)
        BY <2>1, <2>3, OperationPuts
    <2>5. KeepsMachine BY <2>1 DEF IInv, TypeOK, KeepsMachine, Interaction
    <2> QED BY ONLY IInv, <2>4, <2>5, PutsKeepsInv
<1>7. ASSUME NEW op \in Opcodes, NEW answer \in Word, Interacted(op, answer) PROVE IInv'
    <2> DEFINE x == IF Ret(op) = 0 THEN 0 ELSE answer
    <2>1. /\ EmulateOperation(op) /\ Depth >= Args(op)
          /\ results' = Append(results, x)
          /\ trace' = Append(trace, [opcode |-> op, args |-> ArgumentsOf(op)])
          /\ UNCHANGED <<entry, real>>
        BY <1>7 DEF Interacted
    <2>2. op \in Byte /\ phase = "emulate" BY <2>1, TakesFacts DEF EmulateOperation
    <2>3. x \in Word BY WordFacts
    <2> HIDE DEF x
    <2>4. Puts(op, 0, OperandsOf(op), Folds(op), x, Args(op), Evaluated(op).ret)
        BY <2>1, <2>3, OperationPuts
    <2>5. KeepsMachine
        <3>1. ArgumentsOf(op) \in Seq(Word) BY <2>1, <2>2, OperandsRefer
        <3>2. [opcode |-> op, args |-> ArgumentsOf(op)] \in Interaction
            BY ONLY <2>2, <3>1 DEF Interaction
        <3>3. trace \in Seq(Interaction) BY DEF IInv, TypeOK, Interaction
        <3>4. trace' \in Seq(Interaction) BY ONLY <2>1, <3>2, <3>3, AppendProperties
        <3> QED BY <2>1, <3>4 DEF IInv, TypeOK, KeepsMachine
    <2> QED BY ONLY IInv, <2>4, <2>5, PutsKeepsInv
<1>8. ASSUME NEW op \in Opcodes, Thrown(op) PROVE IInv'
    BY <1>8, ThrownPuts, PutsKeepsInv, NoCodeKeeps DEF Thrown
<1>9. ASSUME NEW op \in Opcodes, Folded(op) PROVE IInv'
    <2>1. /\ EmulateOperation(op) /\ Depth >= Args(op)
          /\ results' = Append(results, 0) /\ entry' = entry
        BY <1>9 DEF Folded, NoCode
    <2>2. 0 \in Word BY WordFacts
    <2>3. Puts(op, 0, OperandsOf(op), Folds(op), 0, Args(op), Evaluated(op).ret)
        BY <2>1, <2>2, OperationPuts
    <2>4. KeepsMachine BY <1>9, NoCodeKeeps DEF Folded
    <2> QED BY ONLY IInv, <2>3, <2>4, PutsKeepsInv
<1>10. ASSUME NEW op \in Opcodes, SwapOut(op) PROVE IInv'
    <2>1. Takes(op) /\ is_swap(op) /\ SwapCode(op) BY <1>10 DEF SwapOut, EmulateSwapOut
    <2>2. KeepsMachine BY <2>1, TakesFacts, SwapCodeKeeps
    <2> QED BY <1>10, <2>2, SwapOutPuts, PutsKeepsInv
<1>11. ASSUME NEW op \in Opcodes, SwapBelow(op) PROVE IInv'
    <2>1. Takes(op) /\ is_swap(op) /\ SwapCode(op) BY <1>11 DEF SwapBelow, EmulateSwapBelow
    <2>2. KeepsMachine BY <2>1, TakesFacts, SwapCodeKeeps
    <2> QED BY <1>11, <2>2, SwapBelowPuts, PutsKeepsInv
<1>12. CASE Finish BY <1>12, FinishInv
<1>13. CASE UNCHANGED vars
    BY <1>13 DEF vars, bbVars, runVars, IInv, TypeOK, OnlyInstructions, SoundStack
<1>14. ASSUME NEW op \in Opcodes, InFrameStep(op) PROVE IInv'
    BY <1>1, <1>2, <1>3, <1>4, <1>5, <1>6, <1>7, <1>8, <1>14 DEF InFrameStep
<1>15. CASE Next BY <1>9, <1>10, <1>11, <1>12, <1>14, <1>15 DEF Next
<1> QED BY <1>13, <1>15

LEMMA SpecInv == Spec => []IInv
<1> QED BY InitInv, NextInv, PTL DEF Spec

\* Whatever block is emulated on whatever stack that is deep enough, the
\* operands, the results and the interactions keep their types: no operand
\* ever carries more than a word, and the code of a block never changes how
\* many words the stack holds before its finalizer.
THEOREM TypeCorrect == Spec => []TypeOK
<1>1. IInv => TypeOK BY DEF IInv
<1> QED BY SpecInv, <1>1, PTL

-----------------------------------------------------------------------------
(* The blocks that stay within the frame never touch the real stack *)

FrameInv == IInv /\ real = entry

LEMMA InFrameIsNext == InFrameNext => Next
BY DEF InFrameNext, Next

LEMMA FrameInvInit == Init => FrameInv
BY InitInv DEF FrameInv, Init

LEMMA FrameInvNext == FrameInv /\ [InFrameNext]_vars => FrameInv'
<1> SUFFICES ASSUME FrameInv, [InFrameNext]_vars PROVE FrameInv' OBVIOUS
<1>1. IInv' BY InFrameIsNext, NextInv DEF FrameInv
<1>2. UNCHANGED <<entry, real>>
    <2>1. ASSUME NEW op, InFrameStep(op) PROVE UNCHANGED <<entry, real>>
        BY <2>1 DEF InFrameStep, Push, Dup, Swap, Pop, Jumpdest, Computed, Interacted, Thrown, NoCode
    <2>2. ASSUME NEW op, Folded(op) PROVE UNCHANGED <<entry, real>>
        BY <2>2 DEF Folded, NoCode
    <2>3. CASE Finish BY <2>3 DEF Finish, runVars
    <2>4. CASE UNCHANGED vars BY <2>4 DEF vars, runVars
    <2> QED BY <2>1, <2>2, <2>3, <2>4 DEF InFrameNext
<1> QED BY <1>1, <1>2 DEF FrameInv

LEMMA InFrameInv == InFrameSpec => []FrameInv
<1> QED BY FrameInvInit, FrameInvNext, PTL DEF InFrameSpec

\* On an untouched real stack, the stack that the emulation stands for is a
\* function of the operands, the entry stack and the results.
LEMMA DenotedIsView ==
    FrameInv => Denoted = View(evm_stack, pops_at_end, entry, results)
<1> SUFFICES ASSUME FrameInv
             PROVE  Denoted = View(evm_stack, pops_at_end, entry, results)
    OBVIOUS
<1>1. evm_stack \in Seq(Operand) /\ pops_at_end \in Nat /\ real = entry /\ entry \in Seq(Word)
    BY DEF FrameInv, IInv, TypeOK
<1>2. Len(evm_stack) \in Nat /\ Len(entry) \in Nat BY ONLY <1>1, LenProperties
<1>3. Depth = DepthOf(evm_stack, pops_at_end, Len(entry))
    BY ONLY <1>1, <1>2, FrameLenAssumption DEF Depth, DepthOf
<1>4. ASSUME NEW k \in 1..Depth
      PROVE  Worth(k - 1) = Val(At(evm_stack, pops_at_end, k - 1), entry, results)
    <2>1. CASE k - 1 < Len(evm_stack) BY ONLY <2>1, EvalIsVal DEF Worth, At
    <2>2. CASE ~(k - 1 < Len(evm_stack))
        <3>1. At(evm_stack, pops_at_end, k - 1)
                  = StackRef(k - 1 - Len(evm_stack) + FrameLen + pops_at_end)
            BY ONLY <2>2 DEF At
        <3>2. \A n : Val(StackRef(n), entry, results) = entry[n + 1]
            BY ONLY TRUE DEF Val, StackRef, IsConstant
        <3>3. Worth(k - 1) = real[k - 1 - Len(evm_stack) + FrameLen + pops_at_end + 1]
            BY ONLY <2>2 DEF Worth
        <3> QED BY ONLY <1>1, <3>1, <3>2, <3>3
    <2> QED BY ONLY <2>1, <2>2
<1>5. [k \in 1..Depth |-> Worth(k - 1)]
          = [k \in 1..Depth |-> Val(At(evm_stack, pops_at_end, k - 1), entry, results)]
    BY ONLY <1>4
<1> QED BY ONLY <1>3, <1>5 DEF Denoted, View

LEMMA DenotedType ==
    ASSUME FrameInv, phase = "emulate"
    PROVE  /\ Denoted \in Seq(Word) /\ Len(Denoted) = D /\ D \in Nat /\ Depth = D
           /\ \A k \in 1..D : Denoted[k] = Val(At(evm_stack, pops_at_end, k - 1), entry, results)
<1>1. /\ evm_stack \in Seq(Operand) /\ pops_at_end \in Nat
      /\ entry \in Seq(Word) /\ results \in Seq(Word)
      /\ Sound(evm_stack, pops_at_end, Len(entry), Len(results))
      /\ Depth = D
    BY Facts DEF FrameInv
<1>2. Denoted = View(evm_stack, pops_at_end, entry, results) BY DenotedIsView
<1> QED BY ONLY <1>1, <1>2, ViewType DEF D

\* An instruction that takes a words and puts words worth q does so to the
\* stack that the emulation stands for.
LEMMA PutsDenoted ==
    ASSUME FrameInv, FrameInv',
           NEW op, NEW imm, NEW operands, NEW ignoreable, NEW x, NEW a, NEW r,
           Puts(op, imm, operands, ignoreable, x, a, r),
           NEW q \in Seq(Word), AreWorth(r, q, entry, Append(results, x))
    PROVE  Denoted' = OnTop(q, a, Denoted)
<1>1. /\ a \in Nat /\ r \in Seq(Operand) /\ a <= DepthOf(evm_stack, pops_at_end, Len(entry))
      /\ Replaces(evm_stack, pops_at_end, a, r, evm_stack', pops_at_end')
      /\ AreSound(r, Len(entry), Len(results))
      /\ x \in Word /\ phase = "emulate"
      /\ results' = Append(results, x) /\ entry' = entry
    BY DEF Puts, Emits, D, AreSound
<1>2. /\ evm_stack \in Seq(Operand) /\ pops_at_end \in Nat
      /\ entry \in Seq(Word) /\ results \in Seq(Word)
      /\ Sound(evm_stack, pops_at_end, Len(entry), Len(results))
    BY <1>1, Facts DEF FrameInv
<1>3. Denoted = View(evm_stack, pops_at_end, entry, results) BY DenotedIsView
<1>4. Denoted' = View(evm_stack', pops_at_end', entry', results')
    <2>1. (FrameInv => Denoted = View(evm_stack, pops_at_end, entry, results))'
        BY DenotedIsView, PTL
    <2> QED BY <2>1
<1>5. View(evm_stack', pops_at_end', entry, Append(results, x)) =
          OnTop(q, a, View(evm_stack, pops_at_end, entry, results))
    BY ONLY <1>1, <1>2, ViewAfter, q \in Seq(Word), AreWorth(r, q, entry, Append(results, x))
<1> QED BY ONLY <1>1, <1>3, <1>4, <1>5

-----------------------------------------------------------------------------
(* The finalizer *)

\* What the sets leave in slot k of an untouched stack.
SlotAfterSets(k) ==
    IF k - 1 \in Missing..(FrameLen - 1)
    THEN Val(LeftInSlot(k - 1), entry, results)
    ELSE entry[k]

LEMMA SetsLeaveSlots ==
    ASSUME FrameInv, FinishBB, UNCHANGED runVars, pops_at_end = 0 \/ evm_stack = <<>>
    PROVE  /\ AfterSets' \in Seq(Word) /\ Len(AfterSets') = Len(entry)
           /\ \A k \in 1..Len(entry) : AfterSets'[k] = SlotAfterSets(k)
<1>1. /\ phase = "emulate"
      /\ Missing \in Nat /\ Excess \in Nat
      /\ Len(evm_stack) = FrameLen + Excess - Missing
      /\ \A s \in Missing..(FrameLen - 1) : LeftInSlot(s) \in Operand
    BY FinishFacts DEF FrameInv
<1>2. /\ entry \in Seq(Word) /\ results \in Seq(Word) /\ Len(entry) \in Nat
      /\ evm_stack \in Seq(Operand) /\ pops_at_end \in Nat /\ real = entry
      /\ Sound(evm_stack, pops_at_end, Len(entry), Len(results))
      /\ D \in Nat
    BY <1>1, Facts DEF FrameInv
<1>3. /\ entry' = entry /\ results' = results /\ real' = entry
      /\ stack_sets' = [slot \in {s \in Missing..(FrameLen - 1) : LeftInSlot(s) # StackRef(s)}
                            |-> LeftInSlot(slot)]
    BY <1>2 DEF runVars, FinishBB
<1>4. AfterSets' = [k \in 1..Len(entry) |->
                       IF k - 1 \in DOMAIN stack_sets'
                       THEN Val(stack_sets'[k - 1], entry, results) ELSE entry[k]]
    <2>1. (\A o : Eval(o) = Val(o, entry, results))' BY EvalIsVal, PTL
    <2>2. AfterSets' = [k \in 1..Len(real') |->
                           IF k - 1 \in DOMAIN stack_sets'
                           THEN Val(stack_sets'[k - 1], entry', results') ELSE real'[k]]
        BY ONLY <2>1 DEF AfterSets
    <2> QED BY ONLY <1>3, <2>2
<1>5. ASSUME NEW k \in 1..Len(entry)
      PROVE  AfterSets'[k] = SlotAfterSets(k)
    <2>1. CASE k - 1 \in Missing..(FrameLen - 1) /\ LeftInSlot(k - 1) # StackRef(k - 1)
        <3>1. k - 1 \in DOMAIN stack_sets' /\ stack_sets'[k - 1] = LeftInSlot(k - 1)
            BY ONLY <1>3, <2>1
        <3> QED BY ONLY <1>4, <2>1, <3>1, k \in 1..Len(entry) DEF SlotAfterSets
    <2>2. CASE k - 1 \in Missing..(FrameLen - 1) /\ LeftInSlot(k - 1) = StackRef(k - 1)
        <3>1. k - 1 \notin DOMAIN stack_sets' BY ONLY <1>3, <2>2
        <3>2. Val(StackRef(k - 1), entry, results) = entry[k]
            <4>1. k - 1 + 1 = k BY ONLY <1>2, k \in 1..Len(entry)
            <4>2. Val(StackRef(k - 1), entry, results) = entry[k - 1 + 1]
                BY ONLY TRUE DEF Val, StackRef, IsConstant
            <4> QED BY ONLY <4>1, <4>2
        <3> QED BY ONLY <1>4, <2>2, <3>1, <3>2, k \in 1..Len(entry) DEF SlotAfterSets
    <2>3. CASE k - 1 \notin Missing..(FrameLen - 1)
        <3>1. k - 1 \notin DOMAIN stack_sets' BY ONLY <1>3, <2>3
        <3> QED BY ONLY <1>4, <2>3, <3>1, k \in 1..Len(entry) DEF SlotAfterSets
    <2> QED BY ONLY <2>1, <2>2, <2>3
<1>6. ASSUME NEW k \in 1..Len(entry)
      PROVE  SlotAfterSets(k) \in Word
    <2>1. CASE k - 1 \in Missing..(FrameLen - 1)
        <3> DEFINE pos == k - 1 - Missing + Excess
        <3>1. Len(evm_stack) # 0
            BY ONLY <1>1, <2>1, FrameLenAssumption
        <3>2. pops_at_end = 0 BY <3>1
        <3>3. pos \in Nat /\ pos < Len(evm_stack) /\ pos < D
            BY ONLY <1>1, <1>2, <2>1, <3>2, FrameLenAssumption, k \in 1..Len(entry) DEF D, DepthOf
        <3>4. LeftInSlot(k - 1) = At(evm_stack, pops_at_end, pos)
            BY ONLY <3>3 DEF LeftInSlot, At
        <3>5. Refers(LeftInSlot(k - 1), Len(entry), Len(results))
            BY ONLY <1>2, <3>3, <3>4 DEF Sound, D
        <3>6. Val(LeftInSlot(k - 1), entry, results) \in Word BY ONLY <1>2, <3>5, ValType
        <3> QED BY ONLY <2>1, <3>6 DEF SlotAfterSets
    <2>2. CASE k - 1 \notin Missing..(FrameLen - 1)
        <3>1. entry[k] \in Word BY ONLY <1>2, k \in 1..Len(entry), ElementOfSeq
        <3> QED BY ONLY <2>2, <3>1 DEF SlotAfterSets
    <2> QED BY ONLY <2>1, <2>2
<1>7. AfterSets' \in [1..Len(entry) -> Word]
    <2>1. AfterSets' = [k \in 1..Len(entry) |-> AfterSets'[k]] BY ONLY <1>4
    <2>2. \A k \in 1..Len(entry) : AfterSets'[k] \in Word BY ONLY <1>5, <1>6
    <2> QED BY ONLY <2>1, <2>2
<1>8. AfterSets' \in Seq(Word) BY ONLY <1>2, <1>7, SeqDef
<1>9. Len(AfterSets') = Len(entry) BY ONLY <1>2, <1>4
<1> QED BY <1>5, <1>8, <1>9

\* The finalizer leaves the stack that the emulation stands for.
LEMMA FinishDenoted ==
    ASSUME FrameInv, FinishBB, UNCHANGED runVars, pops_at_end = 0 \/ evm_stack = <<>>
    PROVE  FinalStack' = Denoted
<1> DEFINE q == [k \in 1..Excess |-> Val(evm_stack[k], entry, results)]
           a == pops_at_end + Missing
           w == AfterSets'
<1>1. /\ phase = "emulate"
      /\ Missing \in Nat /\ Excess \in Nat
      /\ Len(evm_stack) = FrameLen + Excess - Missing
      /\ Excess <= Len(evm_stack) /\ Missing <= FrameLen
      /\ Excess = 0 \/ Missing = 0
      /\ Len(returns') = Excess
      /\ \A k \in 1..Excess : returns'[k] = evm_stack[k]
    BY FinishFacts DEF FrameInv
<1>2. /\ Len(entry) \in Nat /\ Len(evm_stack) \in Nat /\ pops_at_end \in Nat
      /\ entry' = entry /\ results' = results
      /\ pops_at_end' = a
    BY <1>1, Facts DEF FrameInv, runVars, FinishBB
<1>3. /\ Denoted \in Seq(Word) /\ Len(Denoted) = D /\ D \in Nat
      /\ \A k \in 1..D : Denoted[k] = Val(At(evm_stack, pops_at_end, k - 1), entry, results)
    BY <1>1, DenotedType
<1>4. D = Len(evm_stack) - pops_at_end + Len(entry) - FrameLen BY DEF D, DepthOf
<1>5. /\ w \in Seq(Word) /\ Len(w) = Len(entry)
      /\ \A k \in 1..Len(entry) : w[k] = SlotAfterSets(k)
    BY SetsLeaveSlots
<1>6. a \in Nat BY ONLY <1>1, <1>2
<1>7. pops_at_end = 0 \/ Len(evm_stack) = 0 OBVIOUS
<1>8. FinalStack' = q \o SubSeq(w, a + 1, Len(w))
    <2>1. (\A o : Eval(o) = Val(o, entry, results))' BY EvalIsVal, PTL
    <2>2. [k \in 1..Len(returns') |-> Eval(returns[k])'] = q
        BY ONLY <1>1, <1>2, <2>1
    <2> QED BY ONLY <1>2, <2>2 DEF FinalStack
<1> HIDE DEF w, a
<1>9. a <= Len(w)
    BY <1>1, <1>2, <1>3, <1>4, <1>5, <1>7, FrameLenAssumption DEF a
<1>10. q \in Seq(Word) /\ Len(q) = Excess /\ \A k \in 1..Excess : q[k] = Denoted[k]
    <2>1. ASSUME NEW k \in 1..Excess
          PROVE  q[k] = Denoted[k] /\ k \in 1..D
        <3>1. k - 1 < Len(evm_stack) /\ k - 1 + 1 = k /\ k \in 1..D
            BY ONLY <1>1, <1>2, <1>3, <1>4, <1>7, <2>1, FrameLenAssumption
        <3>2. At(evm_stack, pops_at_end, k - 1) = evm_stack[k] BY ONLY <3>1 DEF At
        <3> QED BY <1>3, <3>1, <3>2
    <2>2. \A k \in 1..Excess : Denoted[k] \in Word BY ONLY <1>3, <2>1, ElementOfSeq
    <2>3. q \in [1..Excess -> Word] BY ONLY <2>1, <2>2
    <2>4. q \in Seq(Word) BY ONLY <1>1, <2>3, SeqDef
    <2>5. Len(q) = Excess BY ONLY <1>1
    <2> QED BY <2>1, <2>4, <2>5
<1> HIDE DEF q
<1>11. Len(Denoted) = Len(q) + Len(w) - a
    <2>1. D = Excess + Len(entry) - (pops_at_end + Missing) BY ONLY <1>1, <1>2, <1>4, FrameLenAssumption
    <2> QED BY ONLY <1>3, <1>5, <1>10, <2>1 DEF a
<1>12. ASSUME NEW k \in 1..Len(Denoted)
       PROVE  Denoted[k] = IF k <= Len(q) THEN q[k] ELSE w[k - Len(q) + a]
    <2>1. CASE k <= Len(q)
        <3>1. k \in 1..Excess BY ONLY <1>1, <1>3, <1>10, <2>1, k \in 1..Len(Denoted)
        <3> QED BY ONLY <1>10, <2>1, <3>1
    <2>2. CASE ~(k <= Len(q)) /\ k <= Len(evm_stack)
        <3>1. pops_at_end = 0
            BY ONLY <1>1, <1>2, <1>3, <1>7, <1>10, <2>2, k \in 1..Len(Denoted)
        <3> DEFINE slot == k - Excess + Missing - 1
        <3>2. /\ slot \in Missing..(FrameLen - 1)
              /\ slot + 1 \in 1..Len(entry) /\ slot + 1 - 1 = slot
              /\ slot - Missing + Excess + 1 = k
              /\ k \in 1..D /\ k - 1 < Len(evm_stack) /\ k - 1 + 1 = k
            BY ONLY <1>1, <1>2, <1>3, <1>4, <1>10, <2>2, <3>1, FrameLenAssumption, k \in 1..Len(Denoted)
        <3>3. k - Len(q) + a = slot + 1
            BY ONLY <1>1, <1>3, <1>10, <3>1, k \in 1..Len(Denoted) DEF a
        <3> HIDE DEF slot
        <3>4. LeftInSlot(slot) = evm_stack[k] BY ONLY <3>2 DEF LeftInSlot
        <3>5. w[slot + 1] = Val(evm_stack[k], entry, results)
            BY ONLY <1>5, <3>2, <3>4 DEF SlotAfterSets
        <3>6. Denoted[k] = Val(evm_stack[k], entry, results) BY ONLY <1>3, <3>2 DEF At
        <3> QED BY ONLY <2>2, <3>3, <3>5, <3>6
    <2>3. CASE ~(k <= Len(q)) /\ ~(k <= Len(evm_stack))
        <3> DEFINE j == k - Excess + Missing + pops_at_end
        <3>1. /\ j \in 1..Len(entry) /\ ~(j - 1 <= FrameLen - 1)
              /\ k - 1 - Len(evm_stack) + FrameLen + pops_at_end + 1 = j
              /\ k \in 1..D /\ ~(k - 1 < Len(evm_stack))
            BY ONLY <1>1, <1>2, <1>3, <1>4, <1>10, <2>3, FrameLenAssumption, k \in 1..Len(Denoted)
        <3>2. k - Len(q) + a = j BY ONLY <1>1, <1>2, <1>3, <1>10, k \in 1..Len(Denoted) DEF a
        <3> HIDE DEF j
        <3>3. j - 1 \notin Missing..(FrameLen - 1) BY ONLY <3>1
        <3>4. w[j] = entry[j] BY ONLY <1>5, <3>1, <3>3 DEF SlotAfterSets
        <3>5. Denoted[k] = entry[j]
            <4>1. Denoted[k] = Val(StackRef(k - 1 - Len(evm_stack) + FrameLen + pops_at_end), entry, results)
                BY ONLY <1>3, <3>1 DEF At
            <4>2. \A n : Val(StackRef(n), entry, results) = entry[n + 1]
                BY ONLY TRUE DEF Val, StackRef, IsConstant
            <4> QED BY ONLY <3>1, <4>1, <4>2
        <3> QED BY ONLY <2>3, <3>2, <3>4, <3>5
    <2> QED BY ONLY <2>1, <2>2, <2>3
<1>13. Denoted = q \o SubSeq(w, a + 1, Len(w))
    BY ONLY <1>3, <1>5, <1>6, <1>9, <1>10, <1>11, <1>12, IsConcat
<1> QED BY <1>8, <1>13

-----------------------------------------------------------------------------
(* Each step is a step of the EVM.  The modules share the instruction table, *)
(* which is instantiated with its own constants.                             *)

LEMMA SameTable ==
    /\ Evm!Instruction = Instruction /\ Evm!Arithmetic = Arithmetic
    /\ Evm!POP = POP /\ Evm!JUMPDEST = JUMPDEST /\ Evm!Word = Word
    /\ \A op : /\ Evm!pushes_constant(op) = pushes_constant(op)
               /\ Evm!is_dup(op) = is_dup(op) /\ Evm!is_swap(op) = is_swap(op)
               /\ Evm!stops(op) = stops(op) /\ Evm!is_jump(op) = is_jump(op)
<1>1. /\ Evm!Instruction = Instruction
      /\ Evm!POP = POP /\ Evm!JUMPDEST = JUMPDEST /\ Evm!Word = Word
    BY DEF Evm!Instruction, Instruction, Evm!POP, POP, Evm!JUMPDEST, JUMPDEST, Evm!Word, Word
<1>2. Evm!Arithmetic = Arithmetic
    BY DEF Evm!Arithmetic, Arithmetic, Evm!Arithmetic1, Arithmetic1, Evm!Arithmetic2, Arithmetic2,
           Evm!Arithmetic3, Arithmetic3, Evm!ISZERO, ISZERO, Evm!NOT, NOT, Evm!ADD, ADD, Evm!MUL, MUL,
           Evm!SUB, SUB, Evm!DIV, DIV, Evm!MOD, MOD, Evm!EXP, EXP, Evm!LT, LT, Evm!GT, GT,
           Evm!EQ, EQ, Evm!AND, AND, Evm!OR, OR, Evm!XOR, XOR, Evm!BYTE, BYTE, Evm!SHL, SHL,
           Evm!SHR, SHR, Evm!ADDMOD, ADDMOD, Evm!MULMOD, MULMOD
<1>3. ASSUME NEW op
      PROVE  /\ Evm!pushes_constant(op) = pushes_constant(op)
             /\ Evm!is_dup(op) = is_dup(op) /\ Evm!is_swap(op) = is_swap(op)
             /\ Evm!stops(op) = stops(op) /\ Evm!is_jump(op) = is_jump(op)
    BY DEF Evm!pushes_constant, pushes_constant, Evm!is_push, is_push, Evm!PC, PC,
           Evm!PUSH1, PUSH1, Evm!PUSH32, PUSH32, Evm!is_dup, is_dup, Evm!DUP1, DUP1,
           Evm!DUP16, DUP16, Evm!is_swap, is_swap, Evm!SWAP1, SWAP1, Evm!SWAP16, SWAP16,
           Evm!stops, stops, Evm!SELFDESTRUCT, SELFDESTRUCT, Evm!STOP, STOP, Evm!REVERT, REVERT,
           Evm!RETURN, RETURN, Evm!INVALID, INVALID, Evm!is_jump, is_jump, Evm!JUMP, JUMP,
           Evm!JUMPI, JUMPI
<1> QED BY <1>1, <1>2, <1>3

LEMMA SamePositions ==
    \A op : /\ Evm!dup_position(op) = dup_position(op)
            /\ Evm!swap_position(op) = swap_position(op)
BY DEF Evm!dup_position, dup_position, Evm!swap_position, swap_position,
       Evm!DUP1, DUP1, Evm!SWAP1, SWAP1

LEMMA SameArgs == \A op : Evm!Args(op) = Args(op) /\ Evm!Ret(op) = Ret(op)
<1> SUFFICES ASSUME NEW op PROVE Evm!Args(op) = Args(op) /\ Evm!Ret(op) = Ret(op)
    OBVIOUS
<1>1. Evm!is_dup(op) = is_dup(op) /\ Evm!is_swap(op) = is_swap(op) BY SameTable
<1>2. Evm!dup_position(op) = dup_position(op) /\ Evm!swap_position(op) = swap_position(op)
    BY SamePositions
<1>3. Evm!Args(op) = Args(op) BY ONLY <1>1, <1>2 DEF Evm!Args, Args
<1>4. Evm!Ret(op) = Ret(op) BY ONLY <1>1, <1>2 DEF Evm!Ret, Ret
<1> QED BY <1>3, <1>4

LEMMA SameAlu == \A op, args : Evm!Alu(op, args) = Alu(op, args)
<1> SUFFICES ASSUME NEW op, NEW args PROVE Evm!Alu(op, args) = Alu(op, args) OBVIOUS
<1>1. ASSUME NEW a PROVE Evm!Alu1(op, a) = Alu1(op, a)
    BY DEF Evm!Alu1, Alu1, Evm!ISZERO, ISZERO, Evm!Bit, Bit
<1>2. ASSUME NEW a, NEW b PROVE Evm!Alu2(op, a, b) = Alu2(op, a, b)
    BY DEF Evm!Alu2, Alu2, Evm!Bit, Bit, Evm!ByteOf, ByteOf, Evm!ADD, ADD, Evm!MUL, MUL,
           Evm!SUB, SUB, Evm!DIV, DIV, Evm!MOD, MOD, Evm!EXP, EXP, Evm!LT, LT, Evm!GT, GT,
           Evm!EQ, EQ, Evm!AND, AND, Evm!OR, OR, Evm!XOR, XOR, Evm!BYTE, BYTE, Evm!SHL, SHL
<1>3. ASSUME NEW a, NEW b, NEW c PROVE Evm!Alu3(op, a, b, c) = Alu3(op, a, b, c)
    BY DEF Evm!Alu3, Alu3, Evm!ADDMOD, ADDMOD
<1>4. Evm!Arithmetic1 = Arithmetic1 /\ Evm!Arithmetic2 = Arithmetic2
    BY DEF Evm!Arithmetic1, Arithmetic1, Evm!Arithmetic2, Arithmetic2,
           Evm!ISZERO, ISZERO, Evm!NOT, NOT, Evm!ADD, ADD, Evm!MUL, MUL,
           Evm!SUB, SUB, Evm!DIV, DIV, Evm!MOD, MOD, Evm!EXP, EXP, Evm!LT, LT, Evm!GT, GT,
           Evm!EQ, EQ, Evm!AND, AND, Evm!OR, OR, Evm!XOR, XOR, Evm!BYTE, BYTE, Evm!SHL, SHL,
           Evm!SHR, SHR
<1> QED BY <1>1, <1>2, <1>3, <1>4 DEF Evm!Alu, Alu

\* The executed instructions, as the EVM sees them.
Program == [k \in 1..Len(insts) |-> [opcode |-> insts[k].opcode, imm |-> insts[k].imm]]

LEMMA EmitsExecutes ==
    ASSUME IInv, NEW op, NEW imm, NEW operands, NEW ignoreable, NEW x,
           Takes(op), Emits(op, imm, operands, ignoreable, x)
    PROVE  /\ Evm!Execute(op, imm)
           /\ phase = "emulate" /\ phase' # "done"
<1> DEFINE inst == [opcode |-> op, imm |-> imm, operands |-> operands, ignoreable |-> ignoreable]
<1>1. /\ inst \in InstType /\ insts' = Append(insts, inst)
      /\ inst.opcode = op /\ inst.imm = imm
      /\ phase = "emulate" /\ phase' # "done"
    BY DEF Emits, Emulated, InstType
<1>2. insts \in Seq(InstType) BY DEF IInv, TypeOK, InstType
<1> HIDE DEF inst
<1>3. /\ insts' \in Seq(InstType) /\ Len(insts') = Len(insts) + 1 /\ insts' # <<>>
      /\ Len(insts) \in Nat
      /\ \A k \in 1..Len(insts) : insts'[k] = insts[k]
      /\ insts'[Len(insts) + 1] = inst
    BY ONLY <1>1, <1>2, AppendProperties, LenProperties
<1>4. ~Ended
    <2>1. insts # <<>> => insts[Len(insts)].opcode \in Instruction
        BY <1>1 DEF IInv, OnlyInstructions
    <2> QED BY ONLY <2>1, Takes(op) DEF Takes, Ended
<1>5. Ended' = (op \notin Evm!Instruction \/ Evm!stops(op) \/ Evm!is_jump(op))
    <2>1. insts'[Len(insts')].opcode = op BY ONLY <1>1, <1>3
    <2>2. Ended' = (op \notin Instruction \/ stops(op) \/ is_jump(op))
        BY ONLY <1>3, <2>1 DEF Ended
    <2> QED BY ONLY <2>2, SameTable
<1>6. Program' = Append(Program, Evm!Executed(op, imm))
    <2> DEFINE S == [opcode : Byte, imm : Word]
               e == [opcode |-> op, imm |-> imm]
               n == Len(insts)
    <2>1. e \in S BY DEF Emits
    <2> HIDE DEF S
    <2>2. Program \in Seq(S) /\ Len(Program) = n /\ \A k \in 1..n :
              Program[k] = [opcode |-> insts[k].opcode, imm |-> insts[k].imm]
        <3>1. \A k \in 1..n : insts[k] \in InstType BY ONLY <1>2, ElementOfSeq
        <3>2. \A k \in 1..n : [opcode |-> insts[k].opcode, imm |-> insts[k].imm] \in S
            BY ONLY <3>1 DEF InstType, S
        <3>3. Program = [k \in 1..n |-> [opcode |-> insts[k].opcode, imm |-> insts[k].imm]]
            BY DEF Program
        <3>4. Program \in [1..n -> S] BY ONLY <3>2, <3>3
        <3>5. Program \in Seq(S) BY ONLY <1>3, <3>4, SeqDef
        <3> QED BY ONLY <1>3, <3>3, <3>5
    <2>3. Program' = [k \in 1..(n + 1) |-> [opcode |-> insts'[k].opcode, imm |-> insts'[k].imm]]
        BY ONLY <1>3 DEF Program
    <2>4. ASSUME NEW k \in 1..n
          PROVE  Program'[k] = Program[k]
        <3>1. k \in 1..(n + 1) BY ONLY <1>3, k \in 1..n
        <3> QED BY ONLY <1>3, <2>2, <2>3, <3>1, k \in 1..n
    <2>5. Program'[n + 1] = e
        <3>1. n + 1 \in 1..(n + 1) BY ONLY <1>3
        <3> QED BY ONLY <1>1, <1>3, <2>3, <3>1
    <2> HIDE DEF n
    <2>6. n \in Nat BY <1>3 DEF n
    <2>7. Program' \in Seq(S) /\ Len(Program') = n + 1
        <3>1. \A k \in 1..n : Program'[k] \in S BY ONLY <2>2, <2>4, ElementOfSeq
        <3>2. \A k \in 1..(n + 1) : k \in 1..n \/ k = n + 1 BY ONLY <2>6
        <3>3. \A k \in 1..(n + 1) : Program'[k] \in S BY ONLY <2>1, <2>5, <3>1, <3>2
        <3>4. Program' = [k \in 1..(n + 1) |-> Program'[k]] BY ONLY <2>3
        <3>5. Program' \in [1..(n + 1) -> S] BY ONLY <3>3, <3>4
        <3>6. n + 1 \in Nat BY ONLY <2>6
        <3>7. Program' \in Seq(S) BY ONLY <3>5, <3>6, SeqDef
        <3> QED BY ONLY <2>3, <3>6, <3>7
    <2>8. /\ Append(Program, e) \in Seq(S) /\ Len(Append(Program, e)) = n + 1
          /\ \A k \in 1..n : Append(Program, e)[k] = Program[k]
          /\ Append(Program, e)[n + 1] = e
        BY ONLY <2>1, <2>2, AppendProperties
    <2>9. \A k \in 1..(n + 1) : Program'[k] = Append(Program, e)[k]
        <3>1. \A k \in 1..(n + 1) : k \in 1..n \/ k = n + 1 BY ONLY <2>6
        <3> QED BY ONLY <2>4, <2>5, <2>8, <3>1
    <2>10. Program' = Append(Program, e) BY ONLY <2>7, <2>8, <2>9, SeqEqual
    <2> QED BY <2>10 DEF Evm!Executed
<1> QED BY <1>1, <1>4, <1>5, <1>6 DEF Evm!Execute, Program

LEMMA OneWorth ==
    ASSUME NEW e, NEW v, NEW o, NEW w, Val(o, e, v) = w
    PROVE  AreWorth(<<o>>, <<w>>, e, v)
<1>1. Len(<<o>>) = 1 /\ Len(<<w>>) = 1 /\ <<o>>[1] = o /\ <<w>>[1] = w OBVIOUS
<1>2. \A k \in 1..1 : k = 1 OBVIOUS
<1> QED BY ONLY <1>1, <1>2, Val(o, e, v) = w DEF AreWorth

LEMMA NoneWorth == ASSUME NEW e, NEW v PROVE AreWorth(<<>>, <<>>, e, v)
<1>1. Len(<<>>) = 0 OBVIOUS
<1>2. \A k : k \notin 1..0 OBVIOUS
<1> QED BY ONLY <1>1, <1>2 DEF AreWorth

LEMMA OnTopIs ==
    ASSUME NEW S, NEW w \in Seq(S), NEW q
    PROVE  /\ OnTop(q, 0, w) = q \o w
           /\ OnTop(<<>>, 0, w) = w
           /\ OnTop(<<>>, 1, w) = SubSeq(w, 1 + 1, Len(w))
<1>1. SubSeq(w, 0 + 1, Len(w)) = w BY SubSeqFull
<1>2. <<>> \o w = w BY ConcatEmptySeq
<1>3. SubSeq(w, 1 + 1, Len(w)) \in Seq(S)
    <2>1. Len(w) \in Nat BY LenProperties
    <2>2. \A k \in (1 + 1)..Len(w) : k \in 1..Len(w) BY ONLY <2>1
    <2>3. \A k \in (1 + 1)..Len(w) : w[k] \in S BY <2>2, ElementOfSeq
    <2>4. 1 + 1 \in Int /\ Len(w) \in Int BY ONLY <2>1
    <2> QED BY ONLY <2>3, <2>4, SubSeqProperties
<1>4. <<>> \o SubSeq(w, 1 + 1, Len(w)) = SubSeq(w, 1 + 1, Len(w))
    BY ONLY <1>3, ConcatEmptySeq
<1> QED BY ONLY <1>1, <1>2, <1>4 DEF OnTop

LEMMA PushStep ==
    ASSUME FrameInv, FrameInv', NEW op, NEW w \in Immediates, Push(op, w)
    PROVE  Evm!Push(op, w)
<1>1. Puts(op, w, <<>>, TRUE, 0, 0, <<Constant(w)>>) BY PushPuts DEF FrameInv
<1>2. Takes(op) /\ pushes_constant(op) /\ trace' = trace BY DEF Push, EmulatePush, NoCode
<1>3. /\ Evm!Execute(op, w) /\ phase = "emulate" /\ phase' # "done"
    BY <1>1, <1>2, EmitsExecutes DEF Puts, FrameInv
<1>4. w \in Word BY OpcodesAssumption
<1>5. AreWorth(<<Constant(w)>>, <<w>>, entry, Append(results, 0))
    <2>1. Val(Constant(w), entry, Append(results, 0)) = w BY DEF Val, Constant, IsConstant
    <2> QED BY <2>1, OneWorth
<1>6. Denoted \in Seq(Word) BY <1>3, DenotedType
<1>7. Denoted' = <<w>> \o Denoted
    <2>1. <<w>> \in Seq(Word) BY ONLY <1>4
    <2>2. Denoted' = OnTop(<<w>>, 0, Denoted)
        BY ONLY FrameInv, FrameInv', <1>1, <1>5, <2>1, PutsDenoted
    <2> QED BY ONLY <1>6, <2>2, OnTopIs
<1>8. Evm!pushes_constant(op) BY <1>2, SameTable
<1> QED BY <1>2, <1>3, <1>7, <1>8 DEF Evm!Push, Evm!Put

LEMMA DupStep ==
    ASSUME FrameInv, FrameInv', NEW op, Dup(op)
    PROVE  Evm!Dup(op)
<1> DEFINE n == dup_position(op)
           o == OperandAt(n)
           x == Denoted[n + 1]
<1>1. Puts(op, 0, <<o>>, TRUE, 0, 0, <<o>>) BY DupPuts DEF FrameInv
<1>2. Takes(op) /\ is_dup(op) /\ trace' = trace /\ Depth > n BY DEF Dup, EmulateDup, NoCode
<1>3. /\ Evm!Execute(op, 0) /\ phase = "emulate" /\ phase' # "done"
    BY <1>1, <1>2, EmitsExecutes DEF Puts, FrameInv
<1>4. n \in Nat BY <1>2 DEF is_dup, dup_position, DUP1, DUP16
<1>5. /\ Denoted \in Seq(Word) /\ Len(Denoted) = D /\ D \in Nat /\ Depth = D
      /\ \A k \in 1..D : Denoted[k] = Val(At(evm_stack, pops_at_end, k - 1), entry, results)
    BY <1>3, DenotedType
<1> HIDE DEF n
<1>6. n + 1 \in 1..D /\ n + 1 - 1 = n /\ n < D BY ONLY <1>2, <1>4, <1>5
<1>7. x \in Word BY ONLY <1>5, <1>6, ElementOfSeq
<1>8. Val(o, entry, Append(results, 0)) = x
    <2>1. x = Val(o, entry, results)
        <3>1. ASSUME NEW j \in Nat, j < D
              PROVE  Denoted[j + 1] = Val(At(evm_stack, pops_at_end, j), entry, results)
            <4>1. j + 1 \in 1..D /\ (j + 1) - 1 = j BY ONLY <1>5, <3>1, j \in Nat
            <4> QED BY ONLY <1>5, <4>1
        <3>2. Denoted[n + 1] = Val(At(evm_stack, pops_at_end, n), entry, results)
            BY ONLY <1>4, <1>6, <3>1
        <3>3. o = At(evm_stack, pops_at_end, n) BY ONLY OperandAtIsAt
        <3> QED BY ONLY <3>2, <3>3
    <2>2. Len(results) \in Nat /\ results \in Seq(Word) /\ 0 \in Word
        BY <1>3, Facts, WordFacts DEF FrameInv
    <2>3. Len(results) <= Len(results) BY ONLY <2>2
    <2>4. Refers(o, Len(entry), Len(results))
        BY <1>3, <1>4, <1>6, <2>2, <2>3, OperandRefers DEF FrameInv
    <2>5. Val(o, entry, Append(results, 0)) = Val(o, entry, results)
        BY ONLY <2>2, <2>4, ValKept
    <2> QED BY <2>1, <2>5
<1> HIDE DEF x, o
<1>9. AreWorth(<<o>>, <<x>>, entry, Append(results, 0)) BY ONLY <1>8, OneWorth
<1>10. Denoted' = <<x>> \o Denoted
    <2>1. <<x>> \in Seq(Word) BY ONLY <1>7
    <2>2. Denoted' = OnTop(<<x>>, 0, Denoted)
        BY ONLY FrameInv, FrameInv', <1>1, <1>9, <2>1, PutsDenoted
    <2> QED BY ONLY <1>5, <2>2, OnTopIs
<1>11. Len(Denoted) > n BY ONLY <1>5, <1>6, <1>4
<1>12. Evm!is_dup(op) /\ Evm!dup_position(op) = n BY <1>2, SameTable, SamePositions DEF n
<1> QED BY <1>2, <1>3, <1>10, <1>11, <1>12 DEF Evm!Dup, Evm!Put, x

LEMMA SwapStep ==
    ASSUME FrameInv, FrameInv', NEW op, Swap(op)
    PROVE  Evm!Swap(op)
<1> DEFINE n == swap_position(op)
<1>1. /\ Emits(op, 0, <<evm_stack[1], evm_stack[n + 1]>>, TRUE, 0)
      /\ Swaps(evm_stack, n, evm_stack') /\ n < D /\ pops_at_end' = pops_at_end
    BY SwapSwaps DEF FrameInv
<1>2. Takes(op) /\ is_swap(op) /\ trace' = trace BY DEF Swap, EmulateSwap, NoCode
<1>3. /\ Evm!Execute(op, 0) /\ phase = "emulate" /\ phase' # "done"
    BY <1>1, <1>2, EmitsExecutes DEF FrameInv
<1>4. n \in Nat BY <1>2, SwapPosition
<1>5. Denoted \in Seq(Word) /\ Len(Denoted) = D /\ D \in Nat BY <1>3, DenotedType
<1>6. results' = Append(results, 0) /\ entry' = entry /\ 0 \in Word BY <1>1 DEF Emits
<1>7. /\ evm_stack \in Seq(Operand) /\ pops_at_end \in Nat
      /\ entry \in Seq(Word) /\ results \in Seq(Word)
      /\ Sound(evm_stack, pops_at_end, Len(entry), Len(results))
    BY <1>3, Facts DEF FrameInv
<1>8. Denoted = View(evm_stack, pops_at_end, entry, results) BY DenotedIsView
<1>9. Denoted' = View(evm_stack', pops_at_end', entry', results')
    <2>1. (FrameInv => Denoted = View(evm_stack, pops_at_end, entry, results))'
        BY DenotedIsView, PTL
    <2> QED BY <2>1
<1> HIDE DEF n
<1>10. Denoted' = [Denoted EXCEPT ![1] = Denoted[n + 1], ![n + 1] = Denoted[1]]
    <2>1. View(evm_stack', pops_at_end, entry, Append(results, 0)) =
              [View(evm_stack, pops_at_end, entry, results)
                  EXCEPT ![1] = View(evm_stack, pops_at_end, entry, results)[n + 1],
                         ![n + 1] = View(evm_stack, pops_at_end, entry, results)[1]]
        BY ONLY <1>1, <1>6, <1>7, SwapView DEF D
    <2> QED BY ONLY <1>1, <1>6, <1>8, <1>9, <2>1
<1>11. Len(Denoted) > n BY ONLY <1>1, <1>4, <1>5
<1>12. Evm!is_swap(op) /\ Evm!swap_position(op) = n BY <1>2, SameTable, SamePositions DEF n
<1> QED BY <1>2, <1>3, <1>10, <1>11, <1>12 DEF Evm!Swap

LEMMA PopStep ==
    ASSUME FrameInv, FrameInv', NEW op, Pop(op)
    PROVE  Evm!Pop(op)
<1>1. Puts(op, 0, <<>>, TRUE, 0, 1, <<>>) BY PopPuts DEF FrameInv
<1>2. Takes(op) /\ op = POP /\ trace' = trace BY DEF Pop, EmulatePop, NoCode
<1>3. /\ Evm!Execute(op, 0) /\ phase = "emulate" /\ phase' # "done"
    BY <1>1, <1>2, EmitsExecutes DEF Puts, FrameInv
<1>4. Denoted \in Seq(Word) /\ Len(Denoted) = D /\ D \in Nat BY <1>3, DenotedType
<1>5. Len(Denoted) > 0 BY ONLY <1>1, <1>4 DEF Puts
<1>6. Denoted' = SubSeq(Denoted, 1 + 1, Len(Denoted))
    <2>1. <<>> \in Seq(Word) BY EmptySeq
    <2>2. AreWorth(<<>>, <<>>, entry, Append(results, 0)) BY NoneWorth
    <2>3. Denoted' = OnTop(<<>>, 1, Denoted)
        BY ONLY FrameInv, FrameInv', <1>1, <2>1, <2>2, PutsDenoted
    <2> QED BY ONLY <1>4, <2>3, OnTopIs
<1>7. op = Evm!POP BY <1>2, SameTable
<1> QED BY <1>2, <1>3, <1>5, <1>6, <1>7 DEF Evm!Pop, Evm!Drop

LEMMA JumpdestStep ==
    ASSUME FrameInv, FrameInv', NEW op, Jumpdest(op)
    PROVE  Evm!Jumpdest(op)
<1>1. Puts(op, 0, <<>>, TRUE, 0, 0, <<>>) BY JumpdestPuts DEF FrameInv
<1>2. Takes(op) /\ op = JUMPDEST /\ trace' = trace BY DEF Jumpdest, EmulateJumpdest, NoCode
<1>3. /\ Evm!Execute(op, 0) /\ phase = "emulate" /\ phase' # "done"
    BY <1>1, <1>2, EmitsExecutes DEF Puts, FrameInv
<1>4. Denoted \in Seq(Word) BY <1>3, DenotedType
<1>5. Denoted' = Denoted
    <2>1. <<>> \in Seq(Word) BY EmptySeq
    <2>2. AreWorth(<<>>, <<>>, entry, Append(results, 0)) BY NoneWorth
    <2>3. Denoted' = OnTop(<<>>, 0, Denoted)
        BY ONLY FrameInv, FrameInv', <1>1, <2>1, <2>2, PutsDenoted
    <2> QED BY ONLY <1>4, <2>3, OnTopIs
<1>6. op = Evm!JUMPDEST BY <1>2, SameTable
<1> QED BY <1>2, <1>3, <1>5, <1>6 DEF Evm!Jumpdest

LEMMA ThrownStep ==
    ASSUME FrameInv, FrameInv', NEW op, Thrown(op)
    PROVE  Evm!Throw(op)
<1>1. Puts(op, 0, <<>>, FALSE, 0, 0, <<>>) BY ThrownPuts DEF FrameInv
<1>2. Takes(op) /\ op \notin Instruction /\ trace' = trace
    BY DEF Thrown, EmulateInvalid, NoCode
<1>3. /\ Evm!Execute(op, 0) /\ phase = "emulate" /\ phase' # "done"
    BY <1>1, <1>2, EmitsExecutes DEF Puts, FrameInv
<1>4. Denoted \in Seq(Word) BY <1>3, DenotedType
<1>5. Denoted' = Denoted
    <2>1. <<>> \in Seq(Word) BY EmptySeq
    <2>2. AreWorth(<<>>, <<>>, entry, Append(results, 0)) BY NoneWorth
    <2>3. Denoted' = OnTop(<<>>, 0, Denoted)
        BY ONLY FrameInv, FrameInv', <1>1, <2>1, <2>2, PutsDenoted
    <2> QED BY ONLY <1>4, <2>3, OnTopIs
<1>6. op \notin Evm!Instruction BY <1>2, SameTable
<1> QED BY <1>2, <1>3, <1>5, <1>6 DEF Evm!Throw

\* The handler is passed the words on top of the stack.
LEMMA ArgumentsAreTop ==
    ASSUME FrameInv, phase = "emulate", NEW op \in Byte, Depth >= Args(op)
    PROVE  /\ Len(Denoted) >= Args(op) /\ Args(op) \in Nat
           /\ ArgumentsOf(op) = [k \in 1..Args(op) |-> Denoted[k]]
<1> DEFINE n == Args(op)
<1>1. /\ n \in Nat /\ n <= D
      /\ \A k \in 1..n : /\ OperandsOf(op)[k] = OperandAt(k - 1)
                         /\ ArgumentsOf(op)[k] = Val(OperandsOf(op)[k], entry, results)
    BY OperandsRefer DEF FrameInv
<1>2. /\ Len(Denoted) = D /\ D \in Nat
      /\ \A k \in 1..D : Denoted[k] = Val(At(evm_stack, pops_at_end, k - 1), entry, results)
    BY DenotedType
<1>3. ArgumentsOf(op) = [k \in 1..n |-> Eval(OperandsOf(op)[k])] BY DEF ArgumentsOf
<1> HIDE DEF n
<1>4. ASSUME NEW k \in 1..n PROVE Eval(OperandsOf(op)[k]) = Denoted[k]
    <2>1. k \in 1..D BY ONLY <1>1, <1>2, k \in 1..n
    <2>2. OperandsOf(op)[k] = At(evm_stack, pops_at_end, k - 1)
        BY ONLY <1>1, OperandAtIsAt, k \in 1..n
    <2> QED BY ONLY <1>2, <2>1, <2>2, EvalIsVal
<1>5. ArgumentsOf(op) = [k \in 1..n |-> Denoted[k]] BY ONLY <1>3, <1>4
<1>6. Len(Denoted) >= n BY ONLY <1>1, <1>2
<1> QED BY <1>1, <1>5, <1>6 DEF n

\* An operation that puts operands worth q.
LEMMA OperationDenoted ==
    ASSUME FrameInv, FrameInv', NEW op, EmulateOperation(op), Depth >= Args(op),
           NEW x \in Word, results' = Append(results, x), entry' = entry,
           NEW q \in Seq(Word), AreWorth(Evaluated(op).ret, q, entry, Append(results, x))
    PROVE  /\ Evm!Execute(op, 0) /\ phase = "emulate" /\ phase' # "done"
           /\ Denoted' = q \o SubSeq(Denoted, Args(op) + 1, Len(Denoted))
<1>1. Puts(op, 0, OperandsOf(op), Folds(op), x, Args(op), Evaluated(op).ret)
    BY OperationPuts DEF FrameInv
<1>2. /\ Evm!Execute(op, 0) /\ phase = "emulate" /\ phase' # "done"
    BY <1>1, EmitsExecutes DEF Puts, FrameInv, EmulateOperation
<1>3. Denoted' = OnTop(q, Args(op), Denoted)
    BY ONLY FrameInv, FrameInv', <1>1, q \in Seq(Word),
            AreWorth(Evaluated(op).ret, q, entry, Append(results, x)), PutsDenoted
<1> QED BY ONLY <1>2, <1>3 DEF OnTop

\* What an operation that is not folded returns.
LEMMA OwnResult ==
    ASSUME IInv, phase = "emulate", NEW op, IsOperation(op), ~Folds(op),
           NEW x \in Word
    PROVE  IF Ret(op) = 0 THEN AreWorth(Evaluated(op).ret, <<>>, entry, Append(results, x))
           ELSE AreWorth(Evaluated(op).ret, <<x>>, entry, Append(results, x))
<1>1. Evaluated(op).ret = IF Ret(op) = 1 THEN <<InstructionRef(Len(insts))>> ELSE <<>>
    BY EvaluatedIs DEF Evaluated, Folds
<1>2. results \in Seq(Word) /\ Len(results) = Len(insts) BY DEF IInv, TypeOK
<1>3. Append(results, x)[Len(insts) + 1] = x
    BY ONLY <1>2, x \in Word, AppendProperties
<1>4. Val(InstructionRef(Len(insts)), entry, Append(results, x)) = x
    BY ONLY <1>3 DEF Val, InstructionRef, IsConstant
<1>5. AreWorth(<<InstructionRef(Len(insts))>>, <<x>>, entry, Append(results, x))
    BY ONLY <1>4, OneWorth
<1>6. AreWorth(<<>>, <<>>, entry, Append(results, x)) BY ONLY NoneWorth
<1>7. Ret(op) \in {0, 1} BY RetOfOperation
<1> QED BY ONLY <1>1, <1>5, <1>6, <1>7

LEMMA ComputeStep ==
    ASSUME FrameInv, FrameInv', NEW op, op \in Arithmetic,
           EmulateOperation(op), Depth >= Args(op), UNCHANGED <<entry, trace>>,
           NEW x \in Word, results' = Append(results, x),
           AreWorth(Evaluated(op).ret, <<Alu(op, ArgumentsOf(op))>>, entry, Append(results, x))
    PROVE  Evm!Compute(op)
<1> DEFINE w == Alu(op, ArgumentsOf(op))
<1>1. op \in Byte /\ phase = "emulate" BY TakesFacts DEF EmulateOperation
<1>2. w \in Word
    <2>1. \A k \in 1..Args(op) : ArgumentsOf(op)[k] \in Word
        BY <1>1, OperandsRefer DEF Describes, FrameInv
    <2> QED BY <2>1, AluType
<1>3. /\ Len(Denoted) >= Args(op) /\ ArgumentsOf(op) = [k \in 1..Args(op) |-> Denoted[k]]
    BY <1>1, ArgumentsAreTop
<1>4. <<w>> \in Seq(Word) BY ONLY <1>2
<1>5. /\ Evm!Execute(op, 0) /\ phase = "emulate" /\ phase' # "done"
      /\ Denoted' = <<w>> \o SubSeq(Denoted, Args(op) + 1, Len(Denoted))
    BY <1>4, OperationDenoted
<1>6. /\ op \in Evm!Arithmetic /\ Evm!Args(op) = Args(op)
      /\ Evm!Alu(op, ArgumentsOf(op)) = w
    BY SameTable, SameArgs, SameAlu
<1> HIDE DEF w
<1> QED BY ONLY <1>3, <1>5, <1>6, trace' = trace
        DEF Evm!Compute, Evm!Put, Evm!Drop, Evm!Arguments

LEMMA ComputedStep ==
    ASSUME FrameInv, FrameInv', NEW op, Computed(op)
    PROVE  Evm!Compute(op)
<1> DEFINE w == Alu(op, ArgumentsOf(op))
<1>1. /\ EmulateOperation(op) /\ Depth >= Args(op) /\ ~Folds(op) /\ op \in Arithmetic
      /\ results' = Append(results, w) /\ UNCHANGED <<entry, trace>>
    BY DEF Computed
<1>2. op \in Byte /\ phase = "emulate" /\ IsOperation(op)
    BY <1>1, TakesFacts DEF EmulateOperation
<1>3. w \in Word
    <2>1. \A k \in 1..Args(op) : ArgumentsOf(op)[k] \in Word
        BY <1>1, <1>2, OperandsRefer DEF Describes, FrameInv
    <2> QED BY <1>1, <2>1, AluType
<1>4. Ret(op) = 1 BY <1>1, ArithmeticIsOperation
<1>5. AreWorth(Evaluated(op).ret, <<w>>, entry, Append(results, w))
    BY <1>1, <1>2, <1>3, <1>4, OwnResult DEF FrameInv
<1> QED BY <1>1, <1>3, <1>5, ComputeStep

LEMMA FoldedStep ==
    ASSUME FrameInv, FrameInv', NEW op, Folded(op), ~PowerOfZero(op)
    PROVE  Evm!Compute(op)
<1> DEFINE w == Alu(op, ArgumentsOf(op))
           o == Fold(op, OperandsOf(op))
<1>1. /\ EmulateOperation(op) /\ Depth >= Args(op) /\ Folds(op)
      /\ results' = Append(results, 0) /\ UNCHANGED <<entry, trace>>
    BY DEF Folded, NoCode
<1>2. op \in Byte /\ phase = "emulate" /\ IsOperation(op)
    BY <1>1, TakesFacts DEF EmulateOperation
<1>3. /\ Refers(o, Len(entry), Len(results))
      /\ op \in Arithmetic /\ Val(o, entry, results) = w
    BY <1>1, <1>2, FoldRefers DEF FrameInv
<1>4. results \in Seq(Word) /\ 0 \in Word
    BY <1>2, Facts, WordFacts DEF FrameInv
<1>5. Evaluated(op).ret = <<o>> BY <1>1, <1>2, EvaluatedIs DEF Evaluated, Folds
<1> HIDE DEF w, o
<1>6. Val(o, entry, Append(results, 0)) = w BY ONLY <1>3, <1>4, ValKept
<1>7. AreWorth(Evaluated(op).ret, <<w>>, entry, Append(results, 0))
    BY ONLY <1>5, <1>6, OneWorth
<1> QED BY <1>1, <1>3, <1>4, <1>7, ComputeStep DEF w

LEMMA InteractStep ==
    ASSUME FrameInv, FrameInv', NEW op, NEW answer \in Word, Interacted(op, answer)
    PROVE  Evm!Interact(op, answer)
<1> DEFINE x == IF Ret(op) = 0 THEN 0 ELSE answer
           q == IF Ret(op) = 0 THEN <<>> ELSE <<answer>>
<1>1. /\ EmulateOperation(op) /\ Depth >= Args(op) /\ ~Folds(op) /\ op \notin Arithmetic
      /\ results' = Append(results, x) /\ entry' = entry
      /\ trace' = Append(trace, [opcode |-> op, args |-> ArgumentsOf(op)])
    BY DEF Interacted
<1>2. op \in Byte /\ phase = "emulate" /\ IsOperation(op)
    BY <1>1, TakesFacts DEF EmulateOperation
<1>3. x \in Word BY WordFacts
<1>4. q \in Seq(Word)
    <2>1. <<>> \in Seq(Word) /\ <<answer>> \in Seq(Word) BY EmptySeq
    <2> QED BY <2>1
<1>5. AreWorth(Evaluated(op).ret, q, entry, Append(results, x))
    <2>1. IF Ret(op) = 0 THEN AreWorth(Evaluated(op).ret, <<>>, entry, Append(results, x))
          ELSE AreWorth(Evaluated(op).ret, <<x>>, entry, Append(results, x))
        BY <1>1, <1>2, <1>3, OwnResult DEF FrameInv
    <2> QED BY <2>1
<1> HIDE DEF x, q
<1>6. /\ Evm!Execute(op, 0) /\ phase = "emulate" /\ phase' # "done"
      /\ Denoted' = q \o SubSeq(Denoted, Args(op) + 1, Len(Denoted))
    BY <1>1, <1>3, <1>4, <1>5, OperationDenoted
<1>7. Denoted' = IF Ret(op) = 0 THEN SubSeq(Denoted, Args(op) + 1, Len(Denoted))
                 ELSE <<answer>> \o SubSeq(Denoted, Args(op) + 1, Len(Denoted))
    <2>1. Denoted \in Seq(Word) BY <1>2, DenotedType
    <2>2. Args(op) \in Nat /\ Len(Denoted) \in Nat
        BY <1>1, <1>2, <2>1, ArgumentsAreTop, LenProperties
    <2>3. \A k \in (Args(op) + 1)..Len(Denoted) : k \in 1..Len(Denoted) BY ONLY <2>2
    <2>4. \A k \in (Args(op) + 1)..Len(Denoted) : Denoted[k] \in Word
        BY ONLY <2>1, <2>3, ElementOfSeq
    <2>5. Args(op) + 1 \in Int /\ Len(Denoted) \in Int BY ONLY <2>2
    <2>6. SubSeq(Denoted, Args(op) + 1, Len(Denoted)) \in Seq(Word)
        BY ONLY <2>4, <2>5, SubSeqProperties
    <2>7. <<>> \o SubSeq(Denoted, Args(op) + 1, Len(Denoted))
              = SubSeq(Denoted, Args(op) + 1, Len(Denoted))
        BY ONLY <2>6, ConcatEmptySeq
    <2> QED BY ONLY <1>6, <2>7 DEF q
<1>8. Len(Denoted) >= Args(op) /\ ArgumentsOf(op) = [k \in 1..Args(op) |-> Denoted[k]]
    BY <1>1, <1>2, ArgumentsAreTop
<1>9. Evm!Args(op) = Args(op) /\ Evm!Ret(op) = Ret(op) BY SameArgs
<1>10. Evm!IsInteraction(op)
    <2>1. /\ op \in Instruction \ Arithmetic
          /\ ~pushes_constant(op) /\ ~is_dup(op) /\ ~is_swap(op)
          /\ op \notin {POP, JUMPDEST}
        BY <1>1, <1>2 DEF IsOperation
    <2> QED BY ONLY <2>1, SameTable DEF Evm!IsInteraction
<1>11. trace' = Append(trace, [opcode |-> op, args |-> Evm!Arguments(op)])
    BY ONLY <1>1, <1>6, <1>8, <1>9 DEF Evm!Arguments
<1> QED BY ONLY <1>6, <1>7, <1>8, <1>9, <1>10, <1>11
        DEF Evm!Interact, Evm!Put, Evm!Drop

LEMMA FinishStep ==
    ASSUME FrameInv, Finish, pops_at_end = 0 \/ evm_stack = <<>>
    PROVE  UNCHANGED Evm!vars
<1>1. FinishBB /\ UNCHANGED runVars BY DEF Finish
<1>2. FinalStack' = Denoted BY <1>1, FinishDenoted
<1>3. phase # "done" /\ phase' = "done" /\ insts' = insts /\ trace' = trace
    BY <1>1 DEF FinishBB, runVars
<1>4. Program' = Program /\ Ended' = Ended BY ONLY <1>3 DEF Program, Ended
<1> QED BY ONLY <1>2, <1>3, <1>4 DEF Evm!vars, Program

LEMMA InFrameRefines == FrameInv /\ [InFrameNext]_vars => [Evm!Next]_(Evm!vars)
<1> SUFFICES ASSUME FrameInv, [InFrameNext]_vars PROVE [Evm!Next]_(Evm!vars) OBVIOUS
<1>0. FrameInv' BY FrameInvNext
<1>1. ASSUME NEW op \in Opcodes, InFrameStep(op) PROVE Evm!Next
    <2>1. ASSUME NEW w \in Immediates, Push(op, w) PROVE Evm!Next
        <3>1. w \in Evm!Word BY OpcodesAssumption, SameTable
        <3> QED BY <1>0, <2>1, <3>1, PushStep DEF Evm!Next
    <2>2. CASE Dup(op) BY <1>0, <2>2, DupStep DEF Evm!Next
    <2>3. CASE Swap(op) BY <1>0, <2>3, SwapStep DEF Evm!Next
    <2>4. CASE Pop(op) BY <1>0, <2>4, PopStep DEF Evm!Next
    <2>5. CASE Jumpdest(op) BY <1>0, <2>5, JumpdestStep DEF Evm!Next
    <2>6. CASE Computed(op) BY <1>0, <2>6, ComputedStep DEF Evm!Next
    <2>7. ASSUME NEW answer \in Word, Interacted(op, answer) PROVE Evm!Next
        <3>1. answer \in Evm!Word BY SameTable
        <3> QED BY <1>0, <2>7, <3>1, InteractStep DEF Evm!Next
    <2>8. CASE Thrown(op) BY <1>0, <2>8, ThrownStep DEF Evm!Next
    <2> QED BY ONLY <1>1, <2>1, <2>2, <2>3, <2>4, <2>5, <2>6, <2>7, <2>8 DEF InFrameStep
<1>2. ASSUME NEW op \in Opcodes, Folded(op), ~PowerOfZero(op) PROVE Evm!Next
    BY <1>0, <1>2, FoldedStep DEF Evm!Next
<1>3. ASSUME Finish, pops_at_end = 0 \/ evm_stack = <<>> PROVE UNCHANGED Evm!vars
    BY <1>3, FinishStep
<1>4. CASE UNCHANGED vars
    <2>1. /\ insts' = insts /\ evm_stack' = evm_stack /\ pops_at_end' = pops_at_end
          /\ stack_sets' = stack_sets /\ returns' = returns /\ phase' = phase
          /\ entry' = entry /\ real' = real /\ results' = results /\ trace' = trace
        BY <1>4 DEF vars, bbVars, runVars
    <2>2. Program' = Program /\ Ended' = Ended BY ONLY <2>1 DEF Program, Ended
    <2>3. \A o : Eval(o)' = Eval(o) BY ONLY <2>1 DEF Eval
    <2>4. Denoted' = Denoted BY ONLY <2>1, <2>3 DEF Denoted, Depth, Worth
    <2>5. FinalStack' = FinalStack BY ONLY <2>1, <2>3 DEF FinalStack, AfterSets
    <2> QED BY ONLY <2>1, <2>2, <2>4, <2>5 DEF Evm!vars, Program
<1> QED BY ONLY [InFrameNext]_vars, <1>1, <1>2, <1>3, <1>4 DEF InFrameNext

LEMMA InitRefines == Init => Evm!Init
<1> SUFFICES ASSUME Init PROVE Evm!Init OBVIOUS
<1>1. FrameInv /\ insts = <<>> /\ trace = <<>> /\ phase = "emulate"
    BY FrameInvInit DEF Init, InitBB
<1>2. Denoted \in Seq(Word) BY <1>1, DenotedType
<1>3. Program = <<>>
    <2>1. Len(insts) = 0 BY <1>1
    <2> QED BY ONLY <2>1 DEF Program
<1>4. Ended = FALSE BY <1>1 DEF Ended
<1>5. Evm!Word = Word BY SameTable
<1> QED BY ONLY <1>1, <1>2, <1>3, <1>4, <1>5 DEF Evm!Init, Program

\* A translated block whose accesses stay within the emulated frame, that
\* takes no power of a constant 0 and that leaves no word on an emulated stack
\* it popped beyond, implements the EVM's execution of the block: the same
\* instructions, the same interactions with the same arguments, and, when its
\* finalizer has run, the same stack.
THEOREM BlockImplementsEvm == InFrameSpec => ImplementsEvm
<1> QED BY InitRefines, InFrameRefines, InFrameInv, PTL
        DEF InFrameSpec, ImplementsEvm, Evm!Spec

-----------------------------------------------------------------------------
(* The names and the heights: a run of a translated block is an emulation  *)
(* (EmulateBB_proofs) on a stack that is deep enough for it.               *)

\* The entry stack is deep enough for every instruction so far.
DeepInv == \A h : AreHeights(h, insts, Len(entry)) => Deep(h, insts)

RunInv == IInv /\ NamesInv /\ HeightsInv /\ DeepInv

LEMMA IsEmulation == [Next]_vars => [NextBB]_bbVars
<1>1. ASSUME NEW op \in Opcodes, InFrameStep(op) \/ Folded(op) \/ SwapOut(op) \/ SwapBelow(op)
      PROVE  Emulate(op)
    BY <1>1 DEF InFrameStep, Push, Dup, Swap, Pop, Jumpdest, Computed, Interacted, Thrown,
               Folded, SwapOut, SwapBelow, Emulate
<1>2. Finish => FinishBB BY DEF Finish
<1>3. UNCHANGED vars => UNCHANGED bbVars BY DEF vars
<1> QED BY <1>1, <1>2, <1>3 DEF Next, NextBB

\* The steps that emulate an instruction find its operands on the stack.
LEMMA FindsOperands ==
    ASSUME IInv, NEW op \in Opcodes,
           InFrameStep(op) \/ Folded(op) \/ SwapOut(op) \/ SwapBelow(op)
    PROVE  /\ Takes(op) /\ entry' = entry /\ Args(op) <= D
           /\ insts'[Len(insts) + 1].opcode = op
<1>1. /\ Takes(op) /\ entry' = entry
      /\ \E imm, operands, ignoreable : Emulated(op, imm, operands, ignoreable)
    BY DEF InFrameStep, Push, Dup, Swap, Pop, Jumpdest, Computed, Interacted, Thrown, Folded,
           SwapOut, SwapBelow, SwapCode, NoCode, EmulatePush, EmulateDup, EmulateSwap,
           EmulateSwapOut, EmulateSwapBelow, EmulatePop, EmulateJumpdest, EmulateOperation,
           EmulateInvalid
<1>2. op \in Byte /\ phase = "emulate" BY ONLY <1>1, TakesFacts
<1>3. Depth = D /\ D \in Nat BY ONLY <1>2, IInv, Facts
<1>4. \/ pushes_constant(op) \/ op = JUMPDEST \/ op \notin Instruction
      \/ is_dup(op) /\ Depth > dup_position(op)
      \/ is_swap(op) /\ Depth > swap_position(op)
      \/ op = POP /\ Depth > 0
      \/ Depth >= Args(op)
    BY DEF InFrameStep, Push, Dup, Swap, Pop, Jumpdest, Computed, Interacted, Thrown, Folded,
           SwapOut, SwapBelow, SwapCode, EmulatePush, EmulateDup, EmulateSwap,
           EmulateSwapOut, EmulateSwapBelow, EmulatePop, EmulateJumpdest, EmulateInvalid
<1>5. /\ Args(op) \in Nat
      /\ pushes_constant(op) \/ op = JUMPDEST \/ op \notin Instruction => Args(op) = 0
      /\ is_dup(op) => dup_position(op) \in Nat /\ Args(op) = dup_position(op) + 1
      /\ is_swap(op) => swap_position(op) \in Nat /\ Args(op) = swap_position(op) + 1
      /\ op = POP => Args(op) = 1
    BY ONLY <1>2, Classes
<1>6. Args(op) <= D BY ONLY <1>3, <1>4, <1>5
<1>7. insts'[Len(insts) + 1].opcode = op
    <2>1. insts \in Seq(InstType) BY DEF IInv, TypeOK, InstType
    <2>2. PICK inst : insts' = Append(insts, inst) /\ inst.opcode = op
        BY ONLY <1>1 DEF Emulated
    <2>3. Append(insts, inst)[Len(insts) + 1] = inst BY ONLY <2>1, AppendProperties
    <2> QED BY ONLY <2>2, <2>3
<1> QED BY ONLY <1>1, <1>6, <1>7

LEMMA DeepInit == Init => DeepInv
<1> SUFFICES ASSUME Init PROVE DeepInv OBVIOUS
<1>1. Len(insts) = 0 BY EmptySeq DEF Init, InitBB
<1>2. \A k : k \notin 1..0 OBVIOUS
<1> QED BY ONLY <1>1, <1>2 DEF DeepInv, Deep

LEMMA DeepNext == RunInv /\ [Next]_vars => DeepInv'
<1> SUFFICES ASSUME RunInv, [Next]_vars PROVE DeepInv' OBVIOUS
<1>1. IInv /\ NamesInv /\ HeightsInv /\ DeepInv BY DEF RunInv
<1>2. ASSUME NEW op \in Opcodes, InFrameStep(op) \/ Folded(op) \/ SwapOut(op) \/ SwapBelow(op)
      PROVE  DeepInv'
    <2>1. Takes(op) /\ entry' = entry /\ Args(op) <= D /\ insts'[Len(insts) + 1].opcode = op
        BY ONLY <1>1, <1>2, FindsOperands
    <2>2. phase = "emulate" /\ TypeBB /\ StackIsNamed BY ONLY <1>1, <2>1, TakesFacts DEF NamesInv
    <2>3. Emulate(op)
        BY <1>2 DEF InFrameStep, Push, Dup, Swap, Pop, Jumpdest, Computed, Interacted, Thrown,
                    Folded, SwapOut, SwapBelow, Emulate
    <2>4. PICK inst : Codes(inst) /\ Effect(inst) BY ONLY <2>2, <2>3, EmulateIs
    <2>5. inst.opcode = op BY ONLY <2>1, <2>2, <2>4, Appended
    <2>6. Len(entry) \in Nat BY ONLY <1>1, <2>2, Facts
    <2>7. ASSUME NEW h, AreHeights(h, insts', Len(entry))
          PROVE  Deep(h, insts')
        <3>1. /\ AreHeights(h, insts, Len(entry))
              /\ Deep(h, insts') <=> Deep(h, insts) /\ Args(op) <= h[Len(insts)]
            BY ONLY <2>2, <2>4, <2>5, <2>6, <2>7, HeightsAppended
        <3>2. Deep(h, insts) BY ONLY <1>1, <3>1 DEF DeepInv
        <3>3. h[Len(insts)] = D
            BY ONLY <1>1, <2>2, <2>6, <3>1 DEF HeightsInv, HeightsAre, EmulatedHeights, D
        <3> QED BY ONLY <2>1, <3>1, <3>2, <3>3
    <2> QED BY ONLY <2>1, <2>7 DEF DeepInv
<1>3. CASE Finish
    <2>1. insts' = insts /\ entry' = entry BY <1>3 DEF Finish, FinishBB, runVars
    <2> QED BY ONLY <1>1, <2>1 DEF DeepInv
<1>4. CASE UNCHANGED vars
    <2>1. insts' = insts /\ entry' = entry BY <1>4 DEF vars, bbVars, runVars
    <2> QED BY ONLY <1>1, <2>1 DEF DeepInv
<1> QED BY ONLY [Next]_vars, <1>2, <1>3, <1>4 DEF Next

LEMMA SpecRun == Spec => []RunInv
<1>1. Init => RunInv BY InitInv, NamesInit, HeightsInit, DeepInit DEF RunInv, Init
<1>2. RunInv /\ [Next]_vars => RunInv'
    BY NextInv, IsEmulation, NamesNext, HeightsNext, DeepNext DEF RunInv
<1> QED BY <1>1, <1>2, PTL DEF Spec

LEMMA IsDefinedIs == \A o, before : IsDefined(o, before) <=> DefinedIn(o, before, insts)
BY DEF IsDefined, DefinedIn

\* Every variable that the code of a block names is declared before its use,
\* in each instruction and in the finalizer, although folding removes
\* instructions and moves what they would have returned.
THEOREM UsesAreDefinedAlways == Spec => []UsesAreDefined
<1>1. NamesInv => UsesAreDefined
    <2> SUFFICES ASSUME NamesInv PROVE UsesAreDefined OBVIOUS
    <2>1. TypeBB /\ CodeIsNamed /\ FinalizerIsNamed BY DEF NamesInv
    <2>2. ASSUME NEW k \in DOMAIN insts, NEW j \in DOMAIN insts[k].operands
          PROVE  IsDefined(insts[k].operands[j], k - 1)
        <3>1. insts \in Seq(InstType) /\ k \in 1..Len(insts)
            BY ONLY <2>1, k \in DOMAIN insts, LenProperties DEF TypeBB
        <3>0. insts[k] \in InstType BY ONLY <3>1, ElementOfSeq
        <3>2. insts[k].operands \in Seq(Operand) BY ONLY <3>0 DEF InstType
        <3>3. j \in 1..Len(insts[k].operands) BY ONLY <3>2, j \in DOMAIN insts[k].operands, LenProperties
        <3> QED BY ONLY <2>1, <3>1, <3>3, IsDefinedIs DEF CodeIsNamed, Named
    <2>3. ASSUME NEW s \in DOMAIN stack_sets PROVE IsDefined(stack_sets[s], Len(insts))
        BY ONLY <2>1, s \in DOMAIN stack_sets, IsDefinedIs DEF FinalizerIsNamed, Named
    <2>4. ASSUME NEW k \in DOMAIN returns PROVE IsDefined(returns[k], Len(insts))
        <3>1. k \in 1..Len(returns)
            BY ONLY <2>1, k \in DOMAIN returns, LenProperties DEF TypeBB
        <3> QED BY ONLY <2>1, <3>1, IsDefinedIs DEF FinalizerIsNamed, Named
    <2> QED BY ONLY <2>2, <2>3, <2>4 DEF UsesAreDefined
<1>2. RunInv => NamesInv BY DEF RunInv
<1> QED BY SpecRun, <1>1, <1>2, PTL

\* What the heights say at the end of a block that is entered with entry.
LEMMA DeepBlock ==
    ASSUME RunInv
    PROVE  /\ insts \in Seq(InstType) /\ returns \in Seq(Operand) /\ Len(entry) \in Nat
           /\ pops_at_end \in Nat
           /\ OnStack(insts, Len(entry))
           /\ phase # "done" => DOMAIN stack_sets = {} /\ returns = <<>>
           /\ phase = "done" =>
                 /\ pops_at_end <= Len(entry)
                 /\ \A s \in DOMAIN stack_sets :
                       /\ s < Len(entry)
                       /\ stack_sets[s].kind = "StackRef" => stack_sets[s].n < Len(entry)
                 /\ \A k \in 1..Len(returns) :
                       returns[k].kind = "StackRef" => returns[k].n < Len(entry)
<1>1. IInv /\ NamesInv /\ HeightsInv /\ DeepInv BY DEF RunInv
<1>2. /\ insts \in Seq(InstType) /\ returns \in Seq(Operand) /\ Len(entry) \in Nat
      /\ pops_at_end \in Nat
    BY ONLY <1>1, LenProperties DEF NamesInv, TypeBB, IInv, TypeOK
<1>3. PICK h : AreHeights(h, insts, Len(entry))
    <2>1. Len(entry) \in Int BY ONLY <1>2
    <2> QED BY ONLY <1>2, <2>1, HeightsExist
<1>4. Deep(h, insts) BY ONLY <1>1, <1>3 DEF DeepInv
<1>5. HeightsAre(h, Len(entry)) BY ONLY <1>1, <1>2, <1>3 DEF HeightsInv
<1>6. phase # "done" => DOMAIN stack_sets = {} /\ returns = <<>>
    BY ONLY <1>1 DEF NamesInv, FinalizerIsNamed
<1> QED BY ONLY <1>2, <1>4, <1>5, <1>6 DEF HeightsAre, FinalHeights

\* The peeks at the head of a block, the finalizer's sets and its pops stay on
\* the stack of every block that the EVM runs without underflow.
THEOREM StaysOnStackAlways == Spec => []StaysOnStack
<1>1. RunInv => StaysOnStack
    <2> SUFFICES ASSUME RunInv PROVE StaysOnStack OBVIOUS
    <2>1. /\ insts \in Seq(InstType) /\ returns \in Seq(Operand)
          /\ OnStack(insts, Len(entry))
          /\ phase # "done" => DOMAIN stack_sets = {} /\ returns = <<>>
          /\ phase = "done" =>
                /\ pops_at_end <= Len(entry)
                /\ \A s \in DOMAIN stack_sets :
                      /\ s < Len(entry)
                      /\ stack_sets[s].kind = "StackRef" => stack_sets[s].n < Len(entry)
                /\ \A k \in 1..Len(returns) :
                      returns[k].kind = "StackRef" => returns[k].n < Len(entry)
        BY DeepBlock
    <2>2. ASSUME NEW k \in DOMAIN insts, NEW j \in DOMAIN insts[k].operands
          PROVE  insts[k].operands[j].kind = "StackRef" => insts[k].operands[j].n < Len(entry)
        <3>1. k \in 1..Len(insts) BY ONLY <2>1, k \in DOMAIN insts, LenProperties
        <3>0. insts[k] \in InstType BY ONLY <2>1, <3>1, ElementOfSeq
        <3>2. insts[k].operands \in Seq(Operand) BY ONLY <3>0 DEF InstType
        <3>3. j \in 1..Len(insts[k].operands) BY ONLY <3>2, j \in DOMAIN insts[k].operands, LenProperties
        <3> QED BY ONLY <2>1, <3>1, <3>3 DEF OnStack
    <2>3. DOMAIN returns = 1..Len(returns) BY ONLY <2>1, LenProperties
    <2>4. returns = <<>> => Len(returns) = 0 BY ONLY EmptySeq
    <2>5. \A k : k \notin 1..0 OBVIOUS
    <2> QED BY ONLY <2>1, <2>2, <2>3, <2>4, <2>5 DEF StaysOnStack
<1> QED BY SpecRun, <1>1, PTL

\* The finalizer moves the stack pointer by the difference of what the
\* instructions of the block take and put.
THEOREM StackPointerIsRightAlways == Spec => []StackPointerIsRight
<1>1. RunInv => StackPointerIsRight
    <2> SUFFICES ASSUME RunInv, phase = "done" PROVE Len(FinalStack) - Len(entry) = NetEffect
        BY DEF StackPointerIsRight
    <2>1. /\ insts \in Seq(InstType) /\ returns \in Seq(Operand) /\ Len(entry) \in Nat
          /\ pops_at_end \in Nat /\ pops_at_end <= Len(entry)
        BY DeepBlock
    <2>2. Len(real) = Len(entry) /\ Len(returns) \in Nat
        BY ONLY <2>1, RunInv, LenProperties DEF RunInv, IInv, TypeOK
    <2>3. NetEffect = Len(returns) - pops_at_end
        <3>1. 0 \in Int /\ 0 \in Nat OBVIOUS
        <3>2. AreHeights(EvmHeights(0), insts, 0) BY ONLY <2>1, <3>1, HeightsExist
        <3>3. HeightsAre(EvmHeights(0), 0) BY ONLY <3>1, <3>2, RunInv DEF RunInv, HeightsInv
        <3>4. EvmHeights(0)[Len(insts)] = 0 + Len(returns) - pops_at_end
            BY ONLY <3>3, phase = "done" DEF HeightsAre, FinalHeights
        <3> QED BY ONLY <2>1, <2>2, <3>4 DEF NetEffect
    <2> DEFINE pushed == [k \in 1..Len(returns) |-> Eval(returns[k])]
               kept == SubSeq(AfterSets, pops_at_end + 1, Len(AfterSets))
               W == {AfterSets[k] : k \in 1..Len(real)} \cup {pushed[k] : k \in 1..Len(returns)}
    <2>4. pushed \in Seq(W) /\ Len(pushed) = Len(returns)
        <3>1. pushed \in [1..Len(returns) -> W] OBVIOUS
        <3>2. DOMAIN pushed = 1..Len(returns) OBVIOUS
        <3> HIDE DEF pushed, W
        <3>3. pushed \in Seq(W) BY ONLY <2>2, <3>1, SeqDef
        <3> QED BY ONLY <2>2, <3>2, <3>3, LenProperties
    <2>5. AfterSets \in Seq(W) /\ Len(AfterSets) = Len(real)
        <3>1. DOMAIN AfterSets = 1..Len(real) BY DEF AfterSets
        <3>2. AfterSets \in [1..Len(real) -> W] BY <3>1 DEF AfterSets
        <3> HIDE DEF pushed, W
        <3>3. AfterSets \in Seq(W) BY ONLY <2>1, <2>2, <3>2, SeqDef
        <3> QED BY ONLY <2>1, <2>2, <3>1, <3>3, LenProperties
    <2> HIDE DEF pushed, W
    <2>6. kept \in Seq(W) /\ Len(kept) = Len(entry) - pops_at_end
        <3>1. \A k \in (pops_at_end + 1)..Len(AfterSets) : AfterSets[k] \in W
            BY ONLY <2>1, <2>2, <2>5, ElementOfSeq
        <3>2. pops_at_end + 1 \in Int /\ Len(AfterSets) \in Int BY ONLY <2>1, <2>2, <2>5
        <3>3. /\ kept \in Seq(W)
              /\ Len(kept) = IF pops_at_end + 1 <= Len(AfterSets)
                             THEN Len(AfterSets) - (pops_at_end + 1) + 1 ELSE 0
            BY ONLY <3>1, <3>2, SubSeqProperties
        <3> QED BY ONLY <2>1, <2>2, <2>5, <3>3
    <2> HIDE DEF kept
    <2>7. Len(pushed \o kept) = Len(returns) + (Len(entry) - pops_at_end)
        <3>1. Len(pushed \o kept) = Len(pushed) + Len(kept)
            BY ONLY <2>4, <2>6, ConcatProperties
        <3> QED BY ONLY <2>4, <2>6, <3>1
    <2>8. FinalStack = pushed \o kept BY DEF FinalStack, pushed, kept
    <2> QED BY ONLY <2>1, <2>2, <2>3, <2>7, <2>8
<1> QED BY SpecRun, <1>1, PTL
=============================================================================
