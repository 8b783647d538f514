----------------------------- MODULE EvalOpcode -----------------------------
(***************************************************************************)
(* evaluate_opcode of analysis.rs: constant folding of one instruction.    *)
(* The operands are what emulate_bb knows of the arguments: a constant,    *)
(* the word in a stack slot when the block was entered, or the result of   *)
(* an earlier instruction of the block.                                    *)
(***************************************************************************)
EXTENDS Words, Sequences

\* The Operand enum; n is the word, the stack slot, or the instruction.  The
\* instruction a Constant came from and the number of an instruction's result
\* are left out: only the codegen's comments show the first, and no
\* instruction that is kept as an operand has more than one result.
Operand == [kind : {"Constant", "StackRef", "InstructionRef"}, n : Nat]

Constant(w)       == [kind |-> "Constant", n |-> w]
StackRef(s)       == [kind |-> "StackRef", n |-> s]
InstructionRef(k) == [kind |-> "InstructionRef", n |-> k]
NoFold            == [kind |-> "NoFold", n |-> 0]

IsConstant(o) == o.kind = "Constant"
Zero == Constant(0)
One  == Constant(1)

\* Shr of U256 by a usize.
ShiftRight(w, n) == w \div Pow2(n)

-----------------------------------------------------------------------------
(* const_eval_result, by the number of arguments *)

Fold1(op, x) ==
    IF op = ISZERO /\ IsConstant(x) THEN Constant(Bit(x.n = 0))
    ELSE IF op = NOT /\ IsConstant(x) THEN Constant(WordSize - 1 - x.n)
    ELSE NoFold

\* Mutant of Fold2Constants: the shift distance is cut to a usize first.
Fold2Constants_NoUsizeGuard(op, a, b) ==
    IF op = SHR THEN Constant(ShiftRight(b, a % (UsizeMax + 1)))
    ELSE IF op \in Arithmetic2 THEN Constant(Alu2(op, a, b))
    ELSE NoFold

\* Both arguments are constants.
Fold2Constants(op, a, b) ==
    IF op = ADD THEN Constant((a + b) % WordSize)
    ELSE IF op = MUL THEN Constant((a * b) % WordSize)
    ELSE IF op = SUB THEN Constant((a - b) % WordSize)
    ELSE IF op = DIV THEN Constant(IF b = 0 THEN 0 ELSE a \div b)
    ELSE IF op = MOD THEN Constant(IF b = 0 THEN 0 ELSE a % b)
    ELSE IF op = EXP THEN Constant(Exp(a, b))
    ELSE IF op = LT THEN Constant(Bit(a < b))
    ELSE IF op = GT THEN Constant(Bit(a > b))
    ELSE IF op = EQ THEN Constant(Bit(a = b))
    ELSE IF op = AND THEN Constant(BitAnd(a, b))
    ELSE IF op = OR THEN Constant(BitOr(a, b))
    ELSE IF op = XOR THEN Constant(BitXor(a, b))
    ELSE IF op = BYTE THEN Constant(
        IF a < WordBytes THEN ShiftRight(b, ByteBits * (WordBytes - 1 - a)) % Pow2(ByteBits)
        ELSE 0)
    ELSE IF op = SHR THEN Constant(IF a <= UsizeMax THEN ShiftRight(b, a) ELSE 0)
    ELSE IF op = SHL THEN Constant(IF a <= UsizeMax THEN (b * Pow2(a)) % WordSize ELSE 0)
    ELSE NoFold

\* At most one argument is a constant: identities that need no other value.
\* 0 ** x is folded to 0, whatever x is.
FoldIdentity(op, x, y) ==
    IF op \in {ADD, SUB} /\ y = Zero THEN x
    ELSE IF op = ADD /\ x = Zero THEN y
    ELSE IF op \in {MUL, DIV, EXP} /\ y = One THEN x
    ELSE IF op = MUL /\ x = One THEN y
    ELSE IF op \in {MUL, DIV} /\ (x = Zero \/ y = Zero) THEN Zero
    ELSE IF op = EXP /\ y = Zero THEN One
    ELSE IF op = EXP /\ x = Zero THEN Zero
    ELSE IF op \in {SHL, SHR} /\ x = Zero THEN y
    ELSE NoFold

Fold3(op, x, y, z) ==
    IF op \in {ADDMOD, MULMOD} /\ IsConstant(x) /\ IsConstant(y) /\ z = Zero
    THEN Zero ELSE NoFold

Fold(op, args) ==
    IF Len(args) = 1 THEN Fold1(op, args[1])
    ELSE IF Len(args) = 2 THEN
        IF IsConstant(args[1]) /\ IsConstant(args[2])
        THEN Fold2Constants(op, args[1].n, args[2].n)
        ELSE FoldIdentity(op, args[1], args[2])
    ELSE IF Len(args) = 3 THEN Fold3(op, args[1], args[2], args[3])
    ELSE NoFold

\* Mutant of evaluate_opcode: what is not folded has no result operand.
evaluate_opcode_NoPadding(op, idx, args) ==
    LET res == Fold(op, args)
    IN  [ret |-> IF res = NoFold THEN <<>> ELSE <<res>>, is_constant |-> res # NoFold]

\* Mutant of evaluate_opcode: an instruction on constants is done with even if
\* it was not folded.
evaluate_opcode_KeepsConstant(op, idx, args) ==
    LET res == Fold(op, args)
        ret == IF res = NoFold THEN <<>> ELSE <<res>>
    IN  [ret |-> ret \o [k \in 1..(Ret(op) - Len(ret)) |-> InstructionRef(idx)],
         is_constant |-> \A k \in 1..Len(args) : IsConstant(args[k])]

\* What evaluate_opcode returns: the operands to push, and whether the
\* instruction is done with at compile time.
evaluate_opcode(op, idx, args) ==
    LET res == Fold(op, args)
        ret == IF res = NoFold THEN <<>> ELSE <<res>>
    IN  IF Len(ret) < Ret(op)
        THEN [ret |-> ret \o [k \in 1..(Ret(op) - Len(ret)) |-> InstructionRef(idx)],
              is_constant |-> FALSE]
        ELSE [ret |-> ret, is_constant |-> res # NoFold]
=============================================================================
