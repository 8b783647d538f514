--------------------------- MODULE EmulateBB_proofs ---------------------------
(***************************************************************************)
(* Proofs about the emulation of a block, for every frame length, word     *)
(* size and set of instructions.                                           *)
(*                                                                         *)
(*  - Constant folding is sound: what evaluate_opcode replaces an          *)
(*    instruction by is worth what the EVM computes, unless it is 0 ** x   *)
(*    with an unknown x.                                                   *)
(*  - Lemmas about the abstract stack: what an instruction that takes and  *)
(*    puts operands does to it, when its operands make sense (Sound), and  *)
(*    which stack of words it stands for (View).                           *)
(*  - Names: every operand of the code and of the finalizer can be named   *)
(*    where it is used.                                                    *)
(*  - Heights: the emulation reaches below the EVM's stack only if the EVM *)
(*    does, and the finalizer leaves the height the EVM leaves.            *)
(*  - A call of evaluate_opcode, as EvalRun has it.                        *)
(***************************************************************************)
EXTENDS EmulateBB, EvalRun, SequenceTheorems, WellFoundedInduction, TLAPS

-----------------------------------------------------------------------------
(* Arithmetic on words *)

LEMMA WordFacts ==
    /\ 0 \in Word /\ 1 \in Word
    /\ \A x \in Word : x \in Nat /\ x < WordSize
BY WordSizeAssumption DEF Word

\* The neutral and absorbing elements of the word operations.
LEMMA Neutral ==
    ASSUME NEW x \in Word
    PROVE  /\ (x + 0) % WordSize = x /\ (0 + x) % WordSize = x
           /\ (x - 0) % WordSize = x
           /\ (x * 1) % WordSize = x /\ (1 * x) % WordSize = x
           /\ (x * 0) % WordSize = 0 /\ (0 * x) % WordSize = 0
           /\ x \div 1 = x
           /\ x # 0 => 0 \div x = 0
BY WordSizeAssumption DEF Word

\* Division, remainder and reduction stay within the words.
LEMMA Quotients ==
    /\ \A x \in Word, p \in Nat \ {0} : x \div p \in Word /\ x % p \in Word
    /\ \A x \in Int : x % WordSize \in Word
    /\ \A x, y, c \in Word : c # 0 => (x * y) % c \in Word /\ (x + y) % c \in Word
<1>1. ASSUME NEW x \in Word, NEW p \in Nat \ {0} PROVE x \div p \in Word /\ x % p \in Word
    BY WordSizeAssumption DEF Word
<1>2. ASSUME NEW x \in Int PROVE x % WordSize \in Word
    BY WordSizeAssumption DEF Word
<1>3. ASSUME NEW x \in Word, NEW y \in Word, NEW c \in Word, c # 0
      PROVE  (x * y) % c \in Word /\ (x + y) % c \in Word
    BY <1>3, WordSizeAssumption DEF Word
<1> QED BY <1>1, <1>2, <1>3

\* x ** 1 is x.
LEMMA ExpOne == ASSUME NEW x \in Word PROVE Exp(x, 0) = 1 /\ Exp(x, 1) = x
<1>1. 0 \in Word /\ 0 + 1 \in Word BY WordFacts
<1>2. Exp(x, 0) = 1 /\ Exp(x, 0 + 1) = (x * Exp(x, 0)) % WordSize
    BY <1>1, ExpAssumption
<1>3. (x * 1) % WordSize = x BY Neutral
<1> QED BY <1>2, <1>3

LEMMA ByteDistance ==
    ASSUME NEW a \in Word, a < WordBytes
    PROVE  ByteBits * (WordBytes - 1 - a) \in Distances
<1>1. a \in Nat BY WordFacts
<1>2. ByteBits * (WordBytes - 1 - a) \in 0..(WordBytes * ByteBits) BY <1>1, BytesAssumption
<1> QED BY <1>2 DEF Distances

-----------------------------------------------------------------------------
(* The EVM computes words *)

LEMMA Alu1Type == ASSUME NEW op, NEW a \in Word PROVE Alu1(op, a) \in Word
BY WordSizeAssumption DEF Alu1, Bit, Word

LEMMA Alu2Type ==
    ASSUME NEW op \in Arithmetic2, NEW a \in Word, NEW b \in Word
    PROVE  Alu2(op, a, b) \in Word
<1>1. a \in Nat /\ b \in Nat /\ 0 \in Word /\ 1 \in Word BY WordFacts
<1>2. a + b \in Int /\ a - b \in Int /\ a * b \in Int BY <1>1
<1>3. /\ (a + b) % WordSize \in Word
      /\ (a - b) % WordSize \in Word
      /\ (a * b) % WordSize \in Word
    BY <1>2, Quotients
<1>4. (IF b = 0 THEN 0 ELSE a \div b) \in Word /\ (IF b = 0 THEN 0 ELSE a % b) \in Word
    <2>1. CASE b = 0 BY <1>1, <2>1
    <2>2. CASE b # 0
        <3>1. b \in Nat \ {0} BY <1>1, <2>2
        <3> QED BY <2>2, <3>1, Quotients
    <2> QED BY <2>1, <2>2
<1>5. Exp(a, b) \in Word BY ExpAssumption
<1>6. Bit(a < b) \in Word /\ Bit(a > b) \in Word /\ Bit(a = b) \in Word
    BY <1>1 DEF Bit
<1>7. BitAnd(a, b) \in Word /\ BitOr(a, b) \in Word /\ BitXor(a, b) \in Word
    BY BitAssumption
<1>8. (IF a < WordBytes THEN ByteOf(b, a) ELSE 0) \in Word
    <2>1. CASE a < WordBytes
        <3>1. Pow2(ByteBits * (WordBytes - 1 - a)) \in Nat \ {0}
            BY <2>1, ByteDistance, Pow2Assumption
        <3>2. Pow2(ByteBits) \in Nat \ {0}
            <4>1. ByteBits \in 0..(WordBytes * ByteBits) BY BytesAssumption
            <4> QED BY <4>1, Pow2Assumption DEF Distances
        <3>3. b \div Pow2(ByteBits * (WordBytes - 1 - a)) \in Word BY <3>1, Quotients
        <3>4. ByteOf(b, a) \in Word BY <3>2, <3>3, Quotients DEF ByteOf
        <3> QED BY <2>1, <3>4
    <2>2. CASE ~(a < WordBytes) BY <1>1, <2>2
    <2> QED BY <2>1, <2>2
<1>9. Pow2(a) \in Nat \ {0} BY Pow2Assumption DEF Distances
<1>10. (b * Pow2(a)) % WordSize \in Word
    <2>1. b * Pow2(a) \in Int BY <1>1, <1>9
    <2> QED BY <2>1, Quotients
<1>11. b \div Pow2(a) \in Word BY <1>9, Quotients
<1> HIDE DEF Word
<1> QED
    BY <1>3, <1>4, <1>5, <1>6, <1>7, <1>8, <1>10, <1>11
    DEF Alu2, Arithmetic2

LEMMA Alu3Type ==
    ASSUME NEW op, NEW a \in Word, NEW b \in Word, NEW c \in Word
    PROVE  Alu3(op, a, b, c) \in Word
<1>1. CASE c = 0 BY <1>1, WordFacts DEF Alu3
<1>2. CASE c # 0 BY <1>2, Quotients DEF Alu3
<1> QED BY <1>1, <1>2

\* The arguments of an arithmetic instruction determine a word.
LEMMA AluType ==
    ASSUME NEW op \in Arithmetic, NEW args, \A k \in 1..Args(op) : args[k] \in Word
    PROVE  Alu(op, args) \in Word
<1>1. CASE op \in Arithmetic1
    <2>1. Args(op) = 1
        BY <1>1 DEF Arithmetic1, Args, ISZERO, NOT, is_dup, is_swap, DUP1, DUP16, SWAP1, SWAP16
    <2>2. args[1] \in Word BY <2>1
    <2> QED BY <1>1, <2>2, Alu1Type DEF Alu
<1>2. CASE op \in Arithmetic2
    <2>1. Args(op) = 2
        BY <1>2 DEF Arithmetic2, Args, is_dup, is_swap, DUP1, DUP16, SWAP1, SWAP16, ADD, MUL,
                    SUB, DIV, MOD, EXP, LT, GT, EQ, AND, OR, XOR, BYTE, SHL, SHR
    <2>2. args[1] \in Word /\ args[2] \in Word BY <2>1
    <2>3. op \notin Arithmetic1
        BY <1>2 DEF Arithmetic1, Arithmetic2, ISZERO, NOT, ADD, MUL,
                    SUB, DIV, MOD, EXP, LT, GT, EQ, AND, OR, XOR, BYTE, SHL, SHR
    <2> QED BY <1>2, <2>2, <2>3, Alu2Type DEF Alu
<1>3. CASE op \in Arithmetic3
    <2>1. Args(op) = 3
        BY <1>3 DEF Arithmetic3, Args, is_dup, is_swap, DUP1, DUP16, SWAP1, SWAP16, ADDMOD, MULMOD
    <2>2. args[1] \in Word /\ args[2] \in Word /\ args[3] \in Word BY <2>1
    <2>3. op \notin Arithmetic1 /\ op \notin Arithmetic2
        BY <1>3 DEF Arithmetic1, Arithmetic2, Arithmetic3, ISZERO, NOT, ADD, MUL, ADDMOD, MULMOD,
                    SUB, DIV, MOD, EXP, LT, GT, EQ, AND, OR, XOR, BYTE, SHL, SHR
    <2> QED BY <2>2, <2>3, Alu3Type DEF Alu
<1> QED BY <1>1, <1>2, <1>3 DEF Arithmetic

-----------------------------------------------------------------------------
(* Folding *)

\* What an operand is known to be, when w is the word it has at run time.
Describes(o, w) == o \in Operand /\ w \in Word /\ (IsConstant(o) => o.n = w)

LEMMA DescribesZeroOne ==
    ASSUME NEW o, NEW w, Describes(o, w)
    PROVE  /\ o = Zero => w = 0
           /\ o = One => w = 1
           /\ IsConstant(o) => o = Constant(w)
BY DEF Describes, Zero, One, Constant, IsConstant, Operand

\* Two constants are folded to what the EVM computes from them.
LEMMA FoldConstantsSound ==
    ASSUME NEW op, NEW a \in Word, NEW b \in Word, Fold2Constants(op, a, b) # NoFold
    PROVE  /\ op \in Arithmetic2
           /\ Fold2Constants(op, a, b) = Constant(Alu2(op, a, b))
<1>1. op \in Arithmetic2
    BY DEF Fold2Constants, Arithmetic2
<1>2. a \in Nat /\ UsizeMax \in Nat BY WordFacts, BytesAssumption
<1>3. CASE op = SHR
    <2>1. ~(a <= UsizeMax) => b \div Pow2(a) = 0
        BY <1>2, UsizeAssumption
    <2>2. Alu2(op, a, b) = b \div Pow2(a)
        BY <1>3 DEF Alu2, ADD, MUL, SUB, DIV, MOD, EXP, LT, GT, EQ, AND, OR, XOR, BYTE, SHL, SHR
    <2>3. Fold2Constants(op, a, b) = Constant(IF a <= UsizeMax THEN b \div Pow2(a) ELSE 0)
        BY <1>3 DEF Fold2Constants, ShiftRight, ADD, MUL, SUB, DIV, MOD, EXP, LT, GT, EQ,
                    AND, OR, XOR, BYTE, SHL, SHR
    <2> QED BY <1>1, <2>1, <2>2, <2>3
<1>4. CASE op = SHL
    <2>1. ~(a <= UsizeMax) => (b * Pow2(a)) % WordSize = 0
        BY <1>2, UsizeAssumption
    <2>2. Alu2(op, a, b) = (b * Pow2(a)) % WordSize
        BY <1>4 DEF Alu2, ADD, MUL, SUB, DIV, MOD, EXP, LT, GT, EQ, AND, OR, XOR, BYTE, SHL
    <2>3. Fold2Constants(op, a, b) =
              Constant(IF a <= UsizeMax THEN (b * Pow2(a)) % WordSize ELSE 0)
        BY <1>4 DEF Fold2Constants, ADD, MUL, SUB, DIV, MOD, EXP, LT, GT, EQ,
                    AND, OR, XOR, BYTE, SHL, SHR
    <2> QED BY <1>1, <2>1, <2>2, <2>3
<1>5. CASE op \in Arithmetic2 \ {SHL, SHR}
    BY <1>5 DEF Fold2Constants, Alu2, Arithmetic2, ShiftRight, ByteOf, ADD, MUL, SUB, DIV,
                MOD, EXP, LT, GT, EQ, AND, OR, XOR, BYTE, SHL, SHR
<1> QED BY <1>1, <1>3, <1>4, <1>5

\* An identity leaves one of the arguments, or a constant, that is worth what
\* the EVM computes from any words that the arguments may have.
IdentityIsSound(op, x, y, a, b) ==
    /\ Describes(x, a) /\ Describes(y, b)
    /\ FoldIdentity(op, x, y) # NoFold
    /\ ~(op = EXP /\ x = Zero)
    /\ ~(IsConstant(x) /\ IsConstant(y))
    => /\ op \in Arithmetic2
       /\ \/ FoldIdentity(op, x, y) = Constant(Alu2(op, a, b))
          \/ FoldIdentity(op, x, y) = x /\ Alu2(op, a, b) = a
          \/ FoldIdentity(op, x, y) = y /\ Alu2(op, a, b) = b

LEMMA FoldIdentitySound ==
    ASSUME NEW op, NEW x, NEW y, NEW a, NEW b
    PROVE  IdentityIsSound(op, x, y, a, b)
<1> SUFFICES ASSUME Describes(x, a), Describes(y, b), FoldIdentity(op, x, y) # NoFold,
                    ~(op = EXP /\ x = Zero), ~(IsConstant(x) /\ IsConstant(y))
             PROVE  /\ op \in Arithmetic2
                    /\ \/ FoldIdentity(op, x, y) = Constant(Alu2(op, a, b))
                       \/ FoldIdentity(op, x, y) = x /\ Alu2(op, a, b) = a
                       \/ FoldIdentity(op, x, y) = y /\ Alu2(op, a, b) = b
    BY DEF IdentityIsSound
<1>1. a \in Word /\ b \in Word BY DEF Describes
<1>2. /\ (x = Zero => a = 0) /\ (x = One => a = 1)
      /\ (y = Zero => b = 0) /\ (y = One => b = 1)
    BY DescribesZeroOne
<1>3. IsConstant(Zero) /\ IsConstant(One) BY DEF IsConstant, Zero, One, Constant
<1>4. CASE op = ADD /\ (x = Zero \/ y = Zero)
    <2>1. y = Zero => Alu2(op, a, b) = a BY <1>1, <1>2, <1>4, Neutral DEF Alu2
    <2>2. x = Zero => Alu2(op, a, b) = b BY <1>1, <1>2, <1>4, Neutral DEF Alu2
    <2>3. y = Zero => FoldIdentity(op, x, y) = x
        BY <1>4 DEF FoldIdentity
    <2>4. x = Zero /\ y # Zero => FoldIdentity(op, x, y) = y
        BY <1>4 DEF FoldIdentity, ADD, SUB, MUL, DIV, EXP, SHL, SHR
    <2> QED BY <1>4, <2>1, <2>2, <2>3, <2>4 DEF Arithmetic2
<1>5. CASE op = SUB /\ y = Zero
    <2>1. Alu2(op, a, b) = a BY <1>1, <1>2, <1>5, Neutral DEF Alu2, SUB, ADD, MUL
    <2>2. FoldIdentity(op, x, y) = x BY <1>5 DEF FoldIdentity
    <2> QED BY <1>5, <2>1, <2>2 DEF Arithmetic2
<1>6. CASE op = MUL
    <2>1. (y = One => Alu2(op, a, b) = a) /\ (x = One => Alu2(op, a, b) = b)
        BY <1>1, <1>2, <1>6, Neutral DEF Alu2, ADD, MUL
    <2>2. x = Zero \/ y = Zero => Alu2(op, a, b) = 0
        BY <1>1, <1>2, <1>6, Neutral DEF Alu2, ADD, MUL
    <2>3. FoldIdentity(op, x, y) = IF y = One THEN x ELSE IF x = One THEN y ELSE
                                   IF x = Zero \/ y = Zero THEN Zero ELSE NoFold
        BY <1>3, <1>6 DEF FoldIdentity, ADD, SUB, MUL, DIV, EXP, SHL, SHR
    <2> QED BY <1>6, <2>1, <2>2, <2>3 DEF Arithmetic2, Zero
<1>7. CASE op = DIV
    <2>1. y = One => Alu2(op, a, b) = a
        BY <1>1, <1>2, <1>7, Neutral DEF Alu2, ADD, MUL, SUB, DIV
    <2>2. x = Zero \/ y = Zero => Alu2(op, a, b) = 0
        BY <1>1, <1>2, <1>7, Neutral DEF Alu2, ADD, MUL, SUB, DIV
    <2>3. FoldIdentity(op, x, y) = IF y = One THEN x ELSE
                                   IF x = Zero \/ y = Zero THEN Zero ELSE NoFold
        BY <1>3, <1>7 DEF FoldIdentity, ADD, SUB, MUL, DIV, EXP, SHL, SHR
    <2> QED BY <1>7, <2>1, <2>2, <2>3 DEF Arithmetic2, Zero
<1>8. CASE op = EXP
    <2>1. y = One => Alu2(op, a, b) = a
        BY <1>1, <1>2, <1>8, ExpOne DEF Alu2, ADD, MUL, SUB, DIV, MOD, EXP
    <2>2. y = Zero => Alu2(op, a, b) = 1
        BY <1>1, <1>2, <1>8, ExpOne DEF Alu2, ADD, MUL, SUB, DIV, MOD, EXP
    <2>3. FoldIdentity(op, x, y) = IF y = One THEN x ELSE IF y = Zero THEN One ELSE NoFold
        BY <1>8 DEF FoldIdentity, ADD, SUB, MUL, DIV, EXP, SHL, SHR
    <2> QED BY <1>8, <2>1, <2>2, <2>3 DEF Arithmetic2, One
<1>9. CASE op \in {SHL, SHR} /\ x = Zero
    <2>1. Alu2(op, a, b) = b
        <3>1. Pow2(0) = 1 BY Pow2Assumption
        <3> QED
            BY <1>1, <1>2, <1>9, <3>1, Neutral
            DEF Alu2, ADD, MUL, SUB, DIV, MOD, EXP, LT, GT, EQ, AND, OR, XOR, BYTE, SHL, SHR
    <2>2. FoldIdentity(op, x, y) = y
        BY <1>9 DEF FoldIdentity, ADD, SUB, MUL, DIV, EXP, SHL, SHR
    <2> QED BY <1>9, <2>1, <2>2 DEF Arithmetic2
<1>10. \/ op = ADD /\ (x = Zero \/ y = Zero)
       \/ op = SUB /\ y = Zero
       \/ op \in {MUL, DIV, EXP}
       \/ op \in {SHL, SHR} /\ x = Zero
    BY DEF FoldIdentity
<1> QED BY <1>4, <1>5, <1>6, <1>7, <1>8, <1>9, <1>10

\* The one fold that is not sound: 0 ** x for an x that is not known.
IsPowerOfZero(op, args) ==
    op = EXP /\ Len(args) = 2 /\ args[1] = Zero /\ ~IsConstant(args[2])

\* Folding replaces an instruction only if it is arithmetic, and by an operand
\* that is worth what the EVM computes, for all words the arguments may have.
THEOREM FoldSound ==
    ASSUME NEW op, NEW args \in Seq(Operand), NEW w,
           \A k \in 1..Len(args) : Describes(args[k], w[k]),
           Fold(op, args) # NoFold, ~IsPowerOfZero(op, args)
    PROVE  /\ op \in Arithmetic
           /\ \/ Fold(op, args) = Constant(Alu(op, w))
              \/ \E k \in 1..Len(args) : Fold(op, args) = args[k] /\ Alu(op, w) = w[k]
<1>1. CASE Len(args) = 1
    <2>1. Describes(args[1], w[1]) BY <1>1
    <2>2. Fold(op, args) = Fold1(op, args[1]) BY <1>1 DEF Fold
    <2>3. op \in Arithmetic1 /\ IsConstant(args[1])
        BY <2>2 DEF Fold1, Arithmetic1
    <2>4. args[1].n = w[1] BY <2>1, <2>3 DEF Describes
    <2>5. Fold1(op, args[1]) = Constant(Alu1(op, w[1]))
        BY <2>3, <2>4 DEF Fold1, Alu1, Arithmetic1, ISZERO, NOT
    <2> QED BY <2>2, <2>3, <2>5 DEF Alu, Arithmetic
<1>2. CASE Len(args) = 2
    <2>1. Describes(args[1], w[1]) /\ Describes(args[2], w[2]) BY <1>2
    <2>2. op \notin Arithmetic2 \/ Alu(op, w) = Alu2(op, w[1], w[2])
        BY DEF Alu, Arithmetic1, Arithmetic2, ISZERO, NOT, ADD, MUL, SUB, DIV,
               MOD, EXP, LT, GT, EQ, AND, OR, XOR, BYTE, SHL, SHR
    <2>3. CASE IsConstant(args[1]) /\ IsConstant(args[2])
        <3>1. args[1].n = w[1] /\ args[2].n = w[2] /\ w[1] \in Word /\ w[2] \in Word
            BY <2>1, <2>3 DEF Describes
        <3>2. Fold(op, args) = Fold2Constants(op, w[1], w[2])
            BY <1>2, <2>3, <3>1 DEF Fold
        <3>3. op \in Arithmetic2 /\ Fold(op, args) = Constant(Alu2(op, w[1], w[2]))
            BY <3>1, <3>2, FoldConstantsSound
        <3> QED BY <2>2, <3>3 DEF Arithmetic
    <2>4. CASE ~(IsConstant(args[1]) /\ IsConstant(args[2]))
        <3>1. Fold(op, args) = FoldIdentity(op, args[1], args[2])
            BY <1>2, <2>4 DEF Fold
        <3>2. ~(op = EXP /\ args[1] = Zero)
            <4>1. IsConstant(Zero) BY DEF IsConstant, Zero, Constant
            <4> QED BY <1>2, <2>4, <4>1 DEF IsPowerOfZero
        <3>3. /\ op \in Arithmetic2
              /\ \/ Fold(op, args) = Constant(Alu2(op, w[1], w[2]))
                 \/ Fold(op, args) = args[1] /\ Alu2(op, w[1], w[2]) = w[1]
                 \/ Fold(op, args) = args[2] /\ Alu2(op, w[1], w[2]) = w[2]
            <4>1. FoldIdentity(op, args[1], args[2]) # NoFold BY <3>1
            <4>2. IdentityIsSound(op, args[1], args[2], w[1], w[2]) BY FoldIdentitySound
            <4> QED BY <2>1, <2>4, <3>1, <3>2, <4>1, <4>2 DEF IdentityIsSound
        <3>4. 1 \in 1..Len(args) /\ 2 \in 1..Len(args) BY <1>2
        <3> QED BY <2>2, <3>3, <3>4 DEF Arithmetic
    <2> QED BY <2>3, <2>4
<1>3. CASE Len(args) = 3
    <2>1. Describes(args[3], w[3]) BY <1>3
    <2>2. Fold(op, args) = Fold3(op, args[1], args[2], args[3]) BY <1>3 DEF Fold
    <2>3. op \in {ADDMOD, MULMOD} /\ args[3] = Zero /\ Fold(op, args) = Zero
        BY <2>2 DEF Fold3
    <2>4. w[3] = 0 BY <2>1, <2>3, DescribesZeroOne
    <2>5. Alu(op, w) = Alu3(op, w[1], w[2], w[3])
        BY <2>3 DEF Alu, Arithmetic1, Arithmetic2, ISZERO, NOT, ADD, MUL, SUB, DIV, ADDMOD,
               MULMOD, MOD, EXP, LT, GT, EQ, AND, OR, XOR, BYTE, SHL, SHR
    <2> QED BY <2>3, <2>4, <2>5 DEF Alu3, Arithmetic, Arithmetic3, Zero
<1>4. Len(args) \in {1, 2, 3} BY DEF Fold
<1> QED BY <1>1, <1>2, <1>3, <1>4

-----------------------------------------------------------------------------
(* The abstract stack as a function of the depth: the emulated part, and   *)
(* below it the slots of the real stack.                                   *)

At(s, p, pos) ==
    IF pos < Len(s) THEN s[pos + 1] ELSE StackRef(pos - Len(s) + FrameLen + p)

LEMMA OperandAtIsAt == \A pos : OperandAt(pos) = At(evm_stack, pops_at_end, pos)
BY DEF OperandAt, At

\* What an instruction does that takes a words off the abstract stack and
\* puts r on it: words that are not emulated are counted as pops.
Replaces(s, p, a, r, s2, p2) ==
    /\ s2 = r \o SubSeq(s, NatMin(a, Len(s)) + 1, Len(s))
    /\ p2 = p + a - NatMin(a, Len(s))

LEMMA ReplaceTop ==
    ASSUME NEW s \in Seq(Operand), NEW p \in Nat, NEW r \in Seq(Operand), NEW a \in Nat,
           NEW s2, NEW p2, Replaces(s, p, a, r, s2, p2)
    PROVE  /\ s2 \in Seq(Operand) /\ p2 \in Nat
           /\ Len(s2) - p2 = Len(s) - p + Len(r) - a
           /\ \A pos \in Nat :
                 At(s2, p2, pos) = IF pos < Len(r) THEN r[pos + 1] ELSE At(s, p, pos - Len(r) + a)
<1> DEFINE t == NatMin(a, Len(s))
           rest == SubSeq(s, t + 1, Len(s))
<1>0. p \in Nat /\ a \in Nat OBVIOUS
<1>1. Len(s) \in Nat /\ Len(r) \in Nat BY LenProperties
<1>2. /\ t \in Nat /\ t <= Len(s) /\ t <= a
      /\ t = a \/ t = Len(s)
    BY <1>1 DEF NatMin
<1> HIDE DEF t
<1>3. /\ rest \in Seq(Operand)
      /\ Len(rest) = Len(s) - t
      /\ \A k \in 1..Len(rest) : rest[k] = s[t + k]
    <2>1. \A k \in (t + 1)..Len(s) : s[k] \in Operand BY <1>1, <1>2
    <2>2. t + 1 \in Int /\ Len(s) \in Int BY <1>1, <1>2
    <2>3. /\ rest \in Seq(Operand)
          /\ Len(rest) = IF t + 1 <= Len(s) THEN Len(s) - (t + 1) + 1 ELSE 0
          /\ \A k \in 1..(Len(s) - (t + 1) + 1) : rest[k] = s[t + 1 + k - 1]
        BY ONLY <2>1, <2>2, SubSeqProperties
    <2>4. Len(rest) = Len(s) - t BY ONLY <1>1, <1>2, <2>3
    <2> QED BY ONLY <1>1, <1>2, <2>3, <2>4
<1> HIDE DEF rest
<1>4. s2 = r \o rest BY DEF Replaces, rest, t
<1>5. /\ s2 \in Seq(Operand)
      /\ Len(s2) = Len(r) + Len(rest)
      /\ \A k \in 1..(Len(r) + Len(rest)) : s2[k] = IF k <= Len(r) THEN r[k] ELSE rest[k - Len(r)]
    BY ONLY <1>3, <1>4, r \in Seq(Operand), ConcatProperties
<1>6. p2 = p + a - t BY DEF Replaces, t
<1>7. p2 \in Nat /\ Len(s2) - p2 = Len(s) - p + Len(r) - a
    BY ONLY <1>0, <1>1, <1>2, <1>3, <1>5, <1>6
<1>8. ASSUME NEW pos \in Nat
      PROVE  At(s2, p2, pos) = IF pos < Len(r) THEN r[pos + 1] ELSE At(s, p, pos - Len(r) + a)
    <2>1. CASE pos < Len(r)
        <3>1. pos < Len(s2) /\ pos + 1 \in 1..(Len(r) + Len(rest)) /\ pos + 1 <= Len(r)
            BY ONLY <1>1, <1>2, <1>3, <1>5, <2>1, pos \in Nat
        <3>2. s2[pos + 1] = r[pos + 1] BY <1>5, <3>1
        <3> QED BY <2>1, <3>1, <3>2 DEF At
    <2>2. CASE ~(pos < Len(r)) /\ pos < Len(s2)
        <3>1. t = a BY ONLY <1>0, <1>1, <1>2, <1>3, <1>5, <2>2, pos \in Nat
        <3>2. /\ pos + 1 \in 1..(Len(r) + Len(rest)) /\ ~(pos + 1 <= Len(r))
              /\ pos + 1 - Len(r) \in 1..Len(rest)
              /\ pos - Len(r) + a < Len(s)
              /\ t + (pos + 1 - Len(r)) = pos - Len(r) + a + 1
            BY ONLY <1>0, <1>1, <1>2, <1>3, <1>5, <2>2, <3>1, pos \in Nat
        <3>3. s2[pos + 1] = rest[pos + 1 - Len(r)] BY ONLY <1>5, <3>2
        <3>4. rest[pos + 1 - Len(r)] = s[pos - Len(r) + a + 1]
            BY <1>3, <3>2
        <3> QED BY <2>2, <3>2, <3>3, <3>4 DEF At
    <2>3. CASE ~(pos < Len(r)) /\ ~(pos < Len(s2))
        <3>1. ~(pos - Len(r) + a < Len(s))
            BY ONLY <1>0, <1>1, <1>2, <1>3, <1>5, <2>3, pos \in Nat
        <3>2. pos - Len(s2) + FrameLen + p2 = (pos - Len(r) + a) - Len(s) + FrameLen + p
            BY ONLY <1>0, <1>1, <1>2, <1>3, <1>5, <1>6, <2>3, FrameLenAssumption, pos \in Nat
        <3> QED BY <2>3, <3>1, <3>2 DEF At
    <2> QED BY <2>1, <2>2, <2>3
<1> QED BY <1>5, <1>7, <1>8

-----------------------------------------------------------------------------
(* Operands that make sense on an entry stack of n words, after m instructions *)

Refers(o, n, m) ==
    /\ o \in Operand
    /\ IsConstant(o) => o.n \in Word
    /\ o.kind = "StackRef" => o.n < n
    /\ o.kind = "InstructionRef" => o.n < m

DepthOf(s, p, n) == Len(s) - p + n - FrameLen

\* Everything on the abstract stack makes sense, down to its depth.
Sound(s, p, n, m) ==
    /\ DepthOf(s, p, n) >= 0
    /\ \A pos \in Nat : pos < DepthOf(s, p, n) => Refers(At(s, p, pos), n, m)

LEMMA SoundAfter ==
    ASSUME NEW s \in Seq(Operand), NEW p \in Nat, NEW r \in Seq(Operand), NEW a \in Nat,
           NEW s2, NEW p2, Replaces(s, p, a, r, s2, p2),
           NEW n \in Nat, NEW m \in Nat, NEW m2 \in Nat, m <= m2,
           Sound(s, p, n, m), a <= DepthOf(s, p, n),
           \A k \in 1..Len(r) : Refers(r[k], n, m2)
    PROVE  /\ Sound(s2, p2, n, m2)
           /\ DepthOf(s2, p2, n) = DepthOf(s, p, n) + Len(r) - a
<1>1. /\ s2 \in Seq(Operand) /\ p2 \in Nat
      /\ Len(s2) - p2 = Len(s) - p + Len(r) - a
      /\ \A pos \in Nat :
            At(s2, p2, pos) = IF pos < Len(r) THEN r[pos + 1] ELSE At(s, p, pos - Len(r) + a)
    BY ReplaceTop
<1>2. p \in Nat /\ a \in Nat /\ n \in Nat /\ Len(s) \in Nat /\ Len(r) \in Nat /\ Len(s2) \in Nat
    BY <1>1, LenProperties
<1>0. p2 \in Nat /\ Len(s2) - p2 = Len(s) - p + Len(r) - a BY <1>1
<1>3. a <= DepthOf(s, p, n) /\ DepthOf(s, p, n) \in Int /\ DepthOf(s2, p2, n) \in Int
    BY ONLY <1>0, <1>2, a <= DepthOf(s, p, n), FrameLenAssumption DEF DepthOf
<1>4. DepthOf(s2, p2, n) = DepthOf(s, p, n) + Len(r) - a
    BY ONLY <1>0, <1>2, FrameLenAssumption DEF DepthOf
<1>5. ASSUME NEW pos \in Nat, pos < DepthOf(s2, p2, n)
      PROVE  Refers(At(s2, p2, pos), n, m2)
    <2>1. CASE pos < Len(r)
        <3>1. pos + 1 \in 1..Len(r) BY ONLY <1>2, <2>1, pos \in Nat
        <3>2. At(s2, p2, pos) = r[pos + 1] BY ONLY <1>1, <2>1, pos \in Nat
        <3> QED BY <3>1, <3>2
    <2>2. CASE ~(pos < Len(r))
        <3>1. pos - Len(r) + a \in Nat /\ pos - Len(r) + a < DepthOf(s, p, n)
            BY ONLY <1>2, <1>3, <1>4, <1>5, <2>2, pos \in Nat
        <3>2. Refers(At(s, p, pos - Len(r) + a), n, m)
            BY ONLY <3>1, Sound(s, p, n, m) DEF Sound
        <3>3. At(s2, p2, pos) = At(s, p, pos - Len(r) + a) BY ONLY <1>1, <2>2, pos \in Nat
        <3> QED BY ONLY <3>2, <3>3, m <= m2, m \in Nat, m2 \in Nat DEF Refers, Operand
    <2> QED BY <2>1, <2>2
<1>6. DepthOf(s2, p2, n) >= 0 BY ONLY <1>2, <1>3, <1>4
<1> QED BY <1>4, <1>5, <1>6 DEF Sound

-----------------------------------------------------------------------------
(* What operands are worth, given the entry stack e and the results v *)

Val(o, e, v) ==
    IF IsConstant(o) THEN o.n
    ELSE IF o.kind = "StackRef" THEN e[o.n + 1]
    ELSE v[o.n + 1]

View(s, p, e, v) == [k \in 1..DepthOf(s, p, Len(e)) |-> Val(At(s, p, k - 1), e, v)]

LEMMA ValType ==
    ASSUME NEW e \in Seq(Word), NEW v \in Seq(Word), NEW o, Refers(o, Len(e), Len(v))
    PROVE  Val(o, e, v) \in Word
<1>1. o.n \in Nat /\ o.kind \in {"Constant", "StackRef", "InstructionRef"}
    BY DEF Refers, Operand
<1>2. CASE IsConstant(o) BY <1>2 DEF Val, Refers
<1>3. CASE o.kind = "StackRef"
    <2>1. o.n + 1 \in 1..Len(e)
        BY ONLY <1>1, <1>3, Refers(o, Len(e), Len(v)), e \in Seq(Word) DEF Refers
    <2> QED BY <1>3, <2>1, ElementOfSeq DEF Val, IsConstant
<1>4. CASE o.kind = "InstructionRef"
    <2>1. o.n + 1 \in 1..Len(v)
        BY ONLY <1>1, <1>4, Refers(o, Len(e), Len(v)), v \in Seq(Word) DEF Refers
    <2> QED BY <1>4, <2>1, ElementOfSeq DEF Val, IsConstant
<1> QED BY <1>1, <1>2, <1>3, <1>4 DEF IsConstant

\* Results that are added later do not change what an operand is worth.
LEMMA ValKept ==
    ASSUME NEW e, NEW v \in Seq(Word), NEW x \in Word, NEW n, NEW o, Refers(o, n, Len(v))
    PROVE  Val(o, e, Append(v, x)) = Val(o, e, v)
<1>1. o.n \in Nat /\ o.kind \in {"Constant", "StackRef", "InstructionRef"}
    BY DEF Refers, Operand
<1>2. CASE o.kind = "InstructionRef"
    <2>1. o.n + 1 \in 1..Len(v)
        BY ONLY <1>1, <1>2, Refers(o, n, Len(v)), v \in Seq(Word) DEF Refers
    <2>2. Append(v, x)[o.n + 1] = v[o.n + 1] BY ONLY <2>1, v \in Seq(Word), x \in Word, AppendProperties
    <2> QED BY <2>2 DEF Val
<1>3. CASE o.kind # "InstructionRef" BY <1>1, <1>3 DEF Val, IsConstant
<1> QED BY <1>2, <1>3

LEMMA ViewType ==
    ASSUME NEW s \in Seq(Operand), NEW p \in Nat, NEW e \in Seq(Word), NEW v \in Seq(Word),
           Sound(s, p, Len(e), Len(v))
    PROVE  /\ View(s, p, e, v) \in Seq(Word)
           /\ Len(View(s, p, e, v)) = DepthOf(s, p, Len(e))
           /\ DepthOf(s, p, Len(e)) \in Nat
           /\ \A k \in 1..DepthOf(s, p, Len(e)) : View(s, p, e, v)[k] = Val(At(s, p, k - 1), e, v)
<1>1. DepthOf(s, p, Len(e)) \in Nat
    <2>1. Len(s) \in Nat /\ Len(e) \in Nat BY LenProperties
    <2> QED BY ONLY <2>1, p \in Nat, Sound(s, p, Len(e), Len(v)), FrameLenAssumption DEF Sound, DepthOf
<1>2. ASSUME NEW k \in 1..DepthOf(s, p, Len(e))
      PROVE  Val(At(s, p, k - 1), e, v) \in Word
    <2>1. k - 1 \in Nat /\ k - 1 < DepthOf(s, p, Len(e)) BY ONLY <1>1, <1>2
    <2>2. Refers(At(s, p, k - 1), Len(e), Len(v)) BY <2>1 DEF Sound
    <2> QED BY <2>2, ValType
<1> DEFINE d == DepthOf(s, p, Len(e))
<1> HIDE DEF d
<1>3. View(s, p, e, v) = [k \in 1..d |-> Val(At(s, p, k - 1), e, v)] BY DEF View, d
<1>4. d \in Nat /\ \A k \in 1..d : Val(At(s, p, k - 1), e, v) \in Word BY <1>1, <1>2 DEF d
<1>5. View(s, p, e, v) \in [1..d -> Word] BY ONLY <1>3, <1>4
<1>6. View(s, p, e, v) \in Seq(Word) BY ONLY <1>4, <1>5, SeqDef
<1>7. Len(View(s, p, e, v)) = d BY ONLY <1>3, <1>4
<1>8. \A k \in 1..d : View(s, p, e, v)[k] = Val(At(s, p, k - 1), e, v) BY ONLY <1>3
<1> QED BY <1>4, <1>6, <1>7, <1>8 DEF d

\* Sequences are equal to a concatenation if they agree with its parts.
LEMMA IsConcat ==
    ASSUME NEW S, NEW s \in Seq(S), NEW q \in Seq(S), NEW a \in Nat, a <= Len(s),
           NEW s2 \in Seq(S), Len(s2) = Len(q) + Len(s) - a,
           \A k \in 1..Len(s2) : s2[k] = IF k <= Len(q) THEN q[k] ELSE s[k - Len(q) + a]
    PROVE  s2 = q \o SubSeq(s, a + 1, Len(s))
<1>1. Len(s) \in Nat /\ Len(q) \in Nat /\ Len(s2) \in Nat BY LenProperties
<1> DEFINE rest == SubSeq(s, a + 1, Len(s))
<1>2. rest \in Seq(S) /\ Len(rest) = Len(s) - a /\ \A k \in 1..Len(rest) : rest[k] = s[a + k]
    <2>1. \A k \in (a + 1)..Len(s) : s[k] \in S
        BY ONLY <1>1, a \in Nat, s \in Seq(S), ElementOfSeq
    <2>2. a + 1 \in Int /\ Len(s) \in Int BY ONLY <1>1, a \in Nat
    <2>3. /\ rest \in Seq(S)
          /\ Len(rest) = IF a + 1 <= Len(s) THEN Len(s) - (a + 1) + 1 ELSE 0
          /\ \A k \in 1..(Len(s) - (a + 1) + 1) : rest[k] = s[a + 1 + k - 1]
        BY ONLY <2>1, <2>2, SubSeqProperties
    <2>4. Len(rest) = Len(s) - a BY ONLY <1>1, <2>3, a \in Nat, a <= Len(s)
    <2> QED BY ONLY <1>1, <2>3, <2>4, a \in Nat
<1> HIDE DEF rest
<1>3. /\ q \o rest \in Seq(S)
      /\ Len(q \o rest) = Len(q) + Len(rest)
      /\ \A k \in 1..(Len(q) + Len(rest)) :
            (q \o rest)[k] = IF k <= Len(q) THEN q[k] ELSE rest[k - Len(q)]
    BY ONLY <1>2, q \in Seq(S), ConcatProperties
<1>4. Len(q \o rest) = Len(s2)
    BY ONLY <1>1, <1>2, <1>3, a \in Nat, Len(s2) = Len(q) + Len(s) - a
<1>5. ASSUME NEW k \in 1..Len(s2) PROVE s2[k] = (q \o rest)[k]
    <2>1. k \in 1..(Len(q) + Len(rest)) BY ONLY <1>3, <1>4, k \in 1..Len(s2)
    <2>2. CASE k <= Len(q)
        BY ONLY <1>3, <2>1, <2>2, k \in 1..Len(s2),
                \A j \in 1..Len(s2) : s2[j] = IF j <= Len(q) THEN q[j] ELSE s[j - Len(q) + a]
    <2>3. CASE ~(k <= Len(q))
        <3>1. k - Len(q) \in 1..Len(rest) /\ a + (k - Len(q)) = k - Len(q) + a
            BY ONLY <1>1, <1>2, <2>1, <2>3, a \in Nat, a <= Len(s)
        <3>2. rest[k - Len(q)] = s[k - Len(q) + a] BY ONLY <1>2, <3>1
        <3> QED
            BY ONLY <1>3, <2>1, <2>3, <3>2, k \in 1..Len(s2),
                    \A j \in 1..Len(s2) : s2[j] = IF j <= Len(q) THEN q[j] ELSE s[j - Len(q) + a]
    <2> QED BY <2>2, <2>3
<1>6. s2 = q \o rest BY ONLY <1>3, <1>4, <1>5, s2 \in Seq(S), SeqEqual
<1> QED BY <1>6 DEF rest

\* The operands r are worth the words q.
AreWorth(r, q, e, v) == Len(q) = Len(r) /\ \A k \in 1..Len(r) : Val(r[k], e, v) = q[k]

\* The operands r can be put by an instruction that follows m others.
AreSound(r, n, m) == \A k \in 1..Len(r) : Refers(r[k], n, m + 1)

\* The stack w with q in place of its a topmost words.
OnTop(q, a, w) == q \o SubSeq(w, a + 1, Len(w))

\* The stack that operands stand for, after an instruction that took a words
\* and put words worth q.
LEMMA ViewAfter ==
    ASSUME NEW s \in Seq(Operand), NEW p \in Nat, NEW r \in Seq(Operand), NEW a \in Nat,
           NEW s2, NEW p2, Replaces(s, p, a, r, s2, p2),
           NEW e \in Seq(Word), NEW v \in Seq(Word), NEW x \in Word,
           Sound(s, p, Len(e), Len(v)), a <= DepthOf(s, p, Len(e)),
           AreSound(r, Len(e), Len(v)),
           NEW q \in Seq(Word), AreWorth(r, q, e, Append(v, x))
    PROVE  View(s2, p2, e, Append(v, x)) = OnTop(q, a, View(s, p, e, v))
<1> DEFINE v2 == Append(v, x)
           d  == DepthOf(s, p, Len(e))
           d2 == DepthOf(s2, p2, Len(e))
           w  == View(s, p, e, v)
           w2 == View(s2, p2, e, v2)
<1>00. /\ Len(q) = Len(r)
      /\ \A k \in 1..Len(r) : Val(r[k], e, v2) = q[k]
    BY DEF AreWorth
<1>01. \A k \in 1..Len(r) : Refers(r[k], Len(e), Len(v) + 1)
    BY DEF AreSound
<1>1. v2 \in Seq(Word) /\ Len(v2) = Len(v) + 1 /\ Len(v) \in Nat /\ Len(e) \in Nat
    BY ONLY v \in Seq(Word), x \in Word, e \in Seq(Word), AppendProperties, LenProperties
<1>2. Len(v) <= Len(v) + 1 /\ Len(v) + 1 \in Nat BY ONLY <1>1
<1>3. /\ s2 \in Seq(Operand) /\ p2 \in Nat
      /\ \A pos \in Nat :
            At(s2, p2, pos) = IF pos < Len(r) THEN r[pos + 1] ELSE At(s, p, pos - Len(r) + a)
    BY ReplaceTop
<1>4. Sound(s2, p2, Len(e), Len(v) + 1) /\ d2 = d + Len(r) - a
    BY ONLY <1>1, <1>2, SoundAfter, s \in Seq(Operand), p \in Nat, r \in Seq(Operand), a \in Nat,
            Replaces(s, p, a, r, s2, p2), Sound(s, p, Len(e), Len(v)),
            a <= DepthOf(s, p, Len(e)), <1>01
<1>5. w \in Seq(Word) /\ Len(w) = d /\ d \in Nat /\ \A k \in 1..d : w[k] = Val(At(s, p, k - 1), e, v)
    BY ViewType
<1>6. /\ w2 \in Seq(Word) /\ Len(w2) = d2 /\ d2 \in Nat
      /\ \A k \in 1..d2 : w2[k] = Val(At(s2, p2, k - 1), e, v2)
    <2>1. Sound(s2, p2, Len(e), Len(v2)) BY ONLY <1>1, <1>4
    <2>2. s2 \in Seq(Operand) /\ p2 \in Nat /\ v2 \in Seq(Word) BY ONLY <1>1, <1>3
    <2> HIDE DEF v2
    <2> QED BY ONLY <2>1, <2>2, e \in Seq(Word), ViewType
<1>7. Len(r) \in Nat BY LenProperties
<1>8. ASSUME NEW k \in 1..d2
      PROVE  w2[k] = IF k <= Len(r) THEN q[k] ELSE w[k - Len(r) + a]
    <2>0. k - 1 \in Nat /\ w2[k] = Val(At(s2, p2, k - 1), e, v2) BY ONLY <1>6, k \in 1..d2
    <2>1. CASE k <= Len(r)
        <3>1. k \in 1..Len(r) /\ k - 1 < Len(r) /\ k - 1 + 1 = k
            BY ONLY <1>6, <1>7, <2>1, k \in 1..d2
        <3>2. At(s2, p2, k - 1) = r[k] BY ONLY <1>3, <2>0, <3>1
        <3>3. Val(r[k], e, v2) = q[k] BY ONLY <1>00, <3>1
        <3> QED BY ONLY <2>0, <2>1, <3>2, <3>3
    <2>2. CASE ~(k <= Len(r))
        <3>1. /\ ~(k - 1 < Len(r))
              /\ k - Len(r) + a \in 1..d
              /\ k - 1 - Len(r) + a = k - Len(r) + a - 1
              /\ k - Len(r) + a - 1 \in Nat /\ k - Len(r) + a - 1 < d
            BY ONLY <1>4, <1>5, <1>6, <1>7, <2>2, k \in 1..d2, a \in Nat
        <3>2. At(s2, p2, k - 1) = At(s, p, k - Len(r) + a - 1) BY ONLY <1>3, <2>0, <3>1
        <3>3. Refers(At(s, p, k - Len(r) + a - 1), Len(e), Len(v))
            BY ONLY <3>1, Sound(s, p, Len(e), Len(v)) DEF Sound
        <3>4. Val(At(s, p, k - Len(r) + a - 1), e, v2) = Val(At(s, p, k - Len(r) + a - 1), e, v)
            BY ONLY <3>3, v \in Seq(Word), x \in Word, ValKept
        <3> QED BY ONLY <1>5, <2>0, <2>2, <3>1, <3>2, <3>4
    <2> QED BY ONLY <2>1, <2>2
<1>0. a <= d OBVIOUS
<1> HIDE DEF v2, d, d2, w, w2
<1>9. a <= Len(w) /\ Len(w2) = Len(q) + Len(w) - a
    <2>1. /\ d2 = d + Len(r) - a /\ Len(w) = d /\ Len(w2) = d2
          /\ d \in Nat /\ d2 \in Nat
        BY ONLY <1>4, <1>5, <1>6
    <2> QED BY ONLY <1>0, <1>7, <1>00, <2>1, a \in Nat
<1>10. \A k \in 1..Len(w2) : w2[k] = IF k <= Len(q) THEN q[k] ELSE w[k - Len(q) + a]
    BY ONLY <1>6, <1>8, <1>00
<1>11. w2 = q \o SubSeq(w, a + 1, Len(w))
    <2>1. w \in Seq(Word) /\ w2 \in Seq(Word) BY ONLY <1>5, <1>6
    <2> QED BY ONLY <1>9, <1>10, <2>1, IsConcat, q \in Seq(Word), a \in Nat
<1> QED BY <1>11 DEF w, w2, v2, OnTop

-----------------------------------------------------------------------------
(* SWAP exchanges two operands *)

Swaps(s, n, s2) == n \in 1..(Len(s) - 1) /\ s2 = [s EXCEPT ![1] = s[n + 1], ![n + 1] = s[1]]

LEMMA SwapDepths ==
    ASSUME NEW s \in Seq(Operand), NEW p \in Nat, NEW n, NEW s2, Swaps(s, n, s2)
    PROVE  /\ s2 \in Seq(Operand) /\ Len(s2) = Len(s)
           /\ \A pos \in Nat :
                 At(s2, p, pos) = IF pos = 0 THEN At(s, p, n)
                                  ELSE IF pos = n THEN At(s, p, 0) ELSE At(s, p, pos)
<1>1. Len(s) \in Nat /\ n \in Nat /\ n >= 1 /\ n + 1 <= Len(s)
    BY LenProperties DEF Swaps
<1>2. 1 \in 1..Len(s) /\ n + 1 \in 1..Len(s) /\ n + 1 # 1 BY ONLY <1>1
<1>3. s[1] \in Operand /\ s[n + 1] \in Operand BY ONLY <1>2, s \in Seq(Operand), ElementOfSeq
<1>4. s2 = [s EXCEPT ![1] = s[n + 1], ![n + 1] = s[1]] BY DEF Swaps
<1>5. s \in [1..Len(s) -> Operand] BY ONLY s \in Seq(Operand), LenProperties
<1>6. /\ s2 \in [1..Len(s) -> Operand]
      /\ \A k \in 1..Len(s) :
            s2[k] = IF k = n + 1 THEN s[1] ELSE IF k = 1 THEN s[n + 1] ELSE s[k]
    BY ONLY <1>2, <1>3, <1>4, <1>5
<1>7. s2 \in Seq(Operand) BY ONLY <1>1, <1>6, SeqDef
<1>8. Len(s2) = Len(s)
    <2>1. DOMAIN s2 = 1..Len(s) BY ONLY <1>6
    <2>2. Len(s2) \in Nat /\ DOMAIN s2 = 1..Len(s2) BY ONLY <1>7, LenProperties
    <2> QED BY ONLY <1>1, <2>1, <2>2, LenProperties
<1>9. ASSUME NEW pos \in Nat
      PROVE  At(s2, p, pos) = IF pos = 0 THEN At(s, p, n)
                              ELSE IF pos = n THEN At(s, p, 0) ELSE At(s, p, pos)
    <2>1. CASE pos < Len(s)
        <3>1. /\ pos + 1 \in 1..Len(s)
              /\ (pos + 1 = n + 1) <=> (pos = n)
              /\ (pos + 1 = 1) <=> (pos = 0)
              /\ 0 < Len(s) /\ n < Len(s) /\ n # 0 /\ 0 + 1 = 1
            BY ONLY <1>1, <2>1, pos \in Nat
        <3>2. s2[pos + 1] = IF pos = n THEN s[1] ELSE IF pos = 0 THEN s[n + 1] ELSE s[pos + 1]
            BY ONLY <1>6, <3>1
        <3> QED BY ONLY <1>8, <2>1, <3>1, <3>2 DEF At
    <2>2. CASE ~(pos < Len(s))
        <3>1. pos # 0 /\ pos # n BY ONLY <1>1, <2>2, pos \in Nat
        <3> QED BY ONLY <1>8, <2>2, <3>1 DEF At
    <2> QED BY <2>1, <2>2
<1> QED BY <1>7, <1>8, <1>9

LEMMA SwapSound ==
    ASSUME NEW s \in Seq(Operand), NEW p \in Nat, NEW n, NEW s2, Swaps(s, n, s2),
           NEW len \in Nat, NEW m \in Nat, NEW m2 \in Nat, m <= m2,
           Sound(s, p, len, m), n < DepthOf(s, p, len)
    PROVE  Sound(s2, p, len, m2) /\ DepthOf(s2, p, len) = DepthOf(s, p, len)
<1>1. /\ s2 \in Seq(Operand) /\ Len(s2) = Len(s)
      /\ \A pos \in Nat :
            At(s2, p, pos) = IF pos = 0 THEN At(s, p, n)
                             ELSE IF pos = n THEN At(s, p, 0) ELSE At(s, p, pos)
    BY SwapDepths
<1>2. DepthOf(s2, p, len) = DepthOf(s, p, len) BY ONLY <1>1 DEF DepthOf
<1>3. n \in Nat BY LenProperties DEF Swaps
<1>4. DepthOf(s, p, len) \in Int
    <2>1. Len(s) \in Nat BY LenProperties
    <2> QED BY ONLY <2>1, p \in Nat, len \in Nat, FrameLenAssumption DEF DepthOf
<1>5. ASSUME NEW pos \in Nat, pos < DepthOf(s2, p, len)
      PROVE  Refers(At(s2, p, pos), len, m2)
    <2>1. PICK pos2 \in Nat : pos2 < DepthOf(s, p, len) /\ At(s2, p, pos) = At(s, p, pos2)
        <3>1. 0 < DepthOf(s, p, len) BY ONLY <1>2, <1>4, <1>5, pos \in Nat
        <3> QED BY ONLY <1>1, <1>2, <1>3, <1>5, <3>1, pos \in Nat, n < DepthOf(s, p, len)
    <2>2. Refers(At(s, p, pos2), len, m) BY ONLY <2>1, Sound(s, p, len, m) DEF Sound
    <2> QED BY ONLY <2>1, <2>2, m <= m2, m \in Nat, m2 \in Nat DEF Refers, Operand
<1> QED BY ONLY <1>2, <1>5, Sound(s, p, len, m) DEF Sound

LEMMA SwapView ==
    ASSUME NEW s \in Seq(Operand), NEW p \in Nat, NEW n, NEW s2, Swaps(s, n, s2),
           NEW e \in Seq(Word), NEW v \in Seq(Word), NEW x \in Word,
           Sound(s, p, Len(e), Len(v)), n < DepthOf(s, p, Len(e))
    PROVE  View(s2, p, e, Append(v, x)) =
               [View(s, p, e, v) EXCEPT ![1] = View(s, p, e, v)[n + 1],
                                        ![n + 1] = View(s, p, e, v)[1]]
<1> DEFINE v2 == Append(v, x)
           d  == DepthOf(s, p, Len(e))
           w  == View(s, p, e, v)
           w2 == View(s2, p, e, v2)
<1>1. Len(v) \in Nat /\ Len(v) + 1 \in Nat /\ Len(v) <= Len(v) + 1 /\ Len(e) \in Nat
    BY ONLY v \in Seq(Word), e \in Seq(Word), LenProperties
<1>2. DepthOf(s2, p, Len(e)) = d
    BY ONLY <1>1, SwapSound, s \in Seq(Operand), p \in Nat, Swaps(s, n, s2),
            Sound(s, p, Len(e), Len(v)), n < DepthOf(s, p, Len(e))
<1>3. \A pos \in Nat :
          At(s2, p, pos) = IF pos = 0 THEN At(s, p, n)
                           ELSE IF pos = n THEN At(s, p, 0) ELSE At(s, p, pos)
    BY SwapDepths
<1>4. d \in Nat /\ w = [k \in 1..d |-> Val(At(s, p, k - 1), e, v)]
    BY ViewType DEF View
<1>5. w2 = [k \in 1..d |-> Val(At(s2, p, k - 1), e, v2)] BY ONLY <1>2 DEF View
<1>6. n \in Nat /\ n # 0 BY LenProperties DEF Swaps
<1>7. ASSUME NEW k \in Nat, k < d
      PROVE  Val(At(s, p, k), e, v2) = Val(At(s, p, k), e, v)
    <2>1. Refers(At(s, p, k), Len(e), Len(v))
        BY ONLY <1>7, Sound(s, p, Len(e), Len(v)) DEF Sound
    <2> QED BY ONLY <2>1, v \in Seq(Word), x \in Word, ValKept
<1>0. n < d OBVIOUS
<1> HIDE DEF v2, d, w, w2
<1>8. ASSUME NEW k \in 1..d
      PROVE  w2[k] = IF k = n + 1 THEN w[1] ELSE IF k = 1 THEN w[n + 1] ELSE w[k]
    <2>1. /\ k - 1 \in Nat /\ k - 1 < d
          /\ (k - 1 = 0) <=> (k = 1)
          /\ (k - 1 = n) <=> (k = n + 1)
          /\ 1 \in 1..d /\ n + 1 \in 1..d /\ n + 1 - 1 = n /\ 1 - 1 = 0
          /\ 0 \in Nat /\ 0 < d /\ n + 1 # 1
        BY ONLY <1>0, <1>4, <1>6, k \in 1..d
    <2>2. w2[k] = Val(At(s2, p, k - 1), e, v2) BY ONLY <1>5, k \in 1..d
    <2>3. /\ w[k] = Val(At(s, p, k - 1), e, v)
          /\ w[1] = Val(At(s, p, 0), e, v)
          /\ w[n + 1] = Val(At(s, p, n), e, v)
        <3>1. ASSUME NEW j \in Nat, j < d PROVE w[j + 1] = Val(At(s, p, j), e, v)
            <4>1. j + 1 \in 1..d /\ (j + 1) - 1 = j BY ONLY <1>4, <3>1, j \in Nat
            <4> QED BY ONLY <1>4, <4>1
        <3>2. w[0 + 1] = Val(At(s, p, 0), e, v) BY ONLY <2>1, <3>1
        <3>3. w[n + 1] = Val(At(s, p, n), e, v) BY ONLY <1>0, <1>6, <3>1
        <3>4. 0 + 1 = 1 OBVIOUS
        <3> QED BY ONLY <1>4, <3>2, <3>3, <3>4, k \in 1..d
    <2>4. At(s2, p, k - 1) = IF k = 1 THEN At(s, p, n)
                             ELSE IF k = n + 1 THEN At(s, p, 0) ELSE At(s, p, k - 1)
        BY ONLY <1>3, <2>1
    <2>5. /\ Val(At(s, p, k - 1), e, v2) = Val(At(s, p, k - 1), e, v)
          /\ Val(At(s, p, 0), e, v2) = Val(At(s, p, 0), e, v)
          /\ Val(At(s, p, n), e, v2) = Val(At(s, p, n), e, v)
        BY ONLY <1>0, <1>6, <1>7, <2>1
    <2> QED BY ONLY <2>1, <2>2, <2>3, <2>4, <2>5
<1>9. w2 = [w EXCEPT ![1] = w[n + 1], ![n + 1] = w[1]]
    <2>1. DOMAIN w = 1..d /\ DOMAIN w2 = 1..d /\ w = [k \in 1..d |-> w[k]] /\ w2 = [k \in 1..d |-> w2[k]]
        BY ONLY <1>4, <1>5
    <2>2. 1 \in 1..d /\ n + 1 \in 1..d /\ n + 1 # 1 BY ONLY <1>0, <1>4, <1>6
    <2> QED BY ONLY <1>8, <2>1, <2>2
<1> QED BY <1>9 DEF w, w2, v2

-----------------------------------------------------------------------------
(* The instruction table and evaluate_opcode *)

LEMMA ArgsInNat == ASSUME NEW op \in Byte PROVE Args(op) \in Nat
BY DEF Byte, Args, is_dup, is_swap, dup_position, swap_position, DUP1, DUP16, SWAP1, SWAP16

\* Operations return one word or none.
LEMMA RetOfOperation == ASSUME NEW op, IsOperation(op) PROVE Ret(op) \in {0, 1}
BY DEF IsOperation, Ret

LEMMA ArithmeticIsOperation ==
    ASSUME NEW op \in Arithmetic PROVE IsOperation(op) /\ Ret(op) = 1
<1>1. op \in {1, 2, 3, 4, 6, 8, 9, 10, 16, 17, 20, 21, 22, 23, 24, 25, 26, 27, 28}
    BY DEF Arithmetic, Arithmetic1, Arithmetic2, Arithmetic3, ISZERO, NOT, ADD, MUL, SUB, DIV, MOD,
           EXP, LT, GT, EQ, AND, OR, XOR, BYTE, SHL, SHR, ADDMOD, MULMOD
<1>2. op \in Instruction BY ONLY <1>1 DEF Instruction
<1>3. /\ ~pushes_constant(op) /\ ~is_dup(op) /\ ~is_swap(op)
      /\ op \notin {POP, JUMPDEST}
    BY ONLY <1>1 DEF pushes_constant, is_push, is_dup, is_swap, PUSH1, PUSH32, DUP1, DUP16,
                     SWAP1, SWAP16, PC, POP, JUMPDEST
<1>4. Ret(op) = 1 BY ONLY <1>1, <1>3 DEF Ret
<1> QED BY <1>2, <1>3, <1>4 DEF IsOperation

\* An instruction that is not folded pushes its own result, if it has one.
LEMMA EvaluatedIs ==
    ASSUME NEW op, IsOperation(op), NEW idx, NEW args
    PROVE  LET evaluated == evaluate_opcode(op, idx, args) IN
           /\ evaluated.is_constant <=> Fold(op, args) # NoFold
           /\ evaluated.is_constant \in BOOLEAN
           /\ evaluated.ret = IF evaluated.is_constant THEN <<Fold(op, args)>>
                              ELSE IF Ret(op) = 1 THEN <<InstructionRef(idx)>> ELSE <<>>
<1> DEFINE res == Fold(op, args)
           ret == IF res = NoFold THEN <<>> ELSE <<res>>
<1>0. evaluate_opcode(op, idx, args) =
          IF Len(ret) < Ret(op)
          THEN [ret |-> ret \o [k \in 1..(Ret(op) - Len(ret)) |-> InstructionRef(idx)],
                is_constant |-> FALSE]
          ELSE [ret |-> ret, is_constant |-> res # NoFold]
    BY DEF evaluate_opcode
<1>1. Ret(op) \in {0, 1} BY RetOfOperation
<1> HIDE DEF res
<1>2. CASE res # NoFold
    <2>1. ret = <<res>> /\ Len(ret) = 1 BY <1>2
    <2>2. ~(Len(ret) < Ret(op)) BY ONLY <1>1, <2>1
    <2>3. evaluate_opcode(op, idx, args) = [ret |-> <<res>>, is_constant |-> TRUE]
        BY ONLY <1>0, <1>2, <2>1, <2>2
    <2> QED BY <1>2, <2>3 DEF res
<1>3. CASE res = NoFold /\ Ret(op) = 0
    <2>1. ret = <<>> /\ Len(ret) = 0 BY <1>3
    <2>2. ~(Len(ret) < Ret(op)) BY ONLY <1>3, <2>1
    <2>3. evaluate_opcode(op, idx, args) = [ret |-> <<>>, is_constant |-> FALSE]
        BY ONLY <1>0, <1>3, <2>1, <2>2
    <2> QED BY <1>3, <2>3 DEF res
<1>4. CASE res = NoFold /\ Ret(op) = 1
    <2>1. ret = <<>> /\ Len(ret) = 0 BY <1>4
    <2>2. Len(ret) < Ret(op) /\ Ret(op) - Len(ret) = 1 BY ONLY <1>4, <2>1
    <2>3. <<>> \o [k \in 1..1 |-> InstructionRef(idx)] = <<InstructionRef(idx)>>
        OBVIOUS
    <2>4. evaluate_opcode(op, idx, args) = [ret |-> <<InstructionRef(idx)>>, is_constant |-> FALSE]
        BY ONLY <1>0, <2>1, <2>2, <2>3
    <2> QED BY <1>4, <2>4 DEF res
<1> QED BY <1>1, <1>2, <1>3, <1>4

-----------------------------------------------------------------------------
(* The instructions of a block, and what they take and put *)

InstType == [opcode : Byte, imm : Word, operands : Seq(Operand), ignoreable : BOOLEAN]

LEMMA TakesFacts ==
    ASSUME NEW op, Takes(op)
    PROVE  op \in Byte /\ op \in Opcodes /\ phase = "emulate"
BY OpcodesAssumption DEF Takes

LEMMA SwapPosition ==
    ASSUME NEW op, is_swap(op)
    PROVE  op \in Instruction /\ swap_position(op) \in Nat /\ swap_position(op) >= 1
BY DEF is_swap, SWAP1, SWAP16, Instruction, swap_position

\* An instruction that leaves the abstract stack alone takes and puts nothing.
LEMMA NothingReplaced ==
    ASSUME NEW s \in Seq(Operand), NEW p \in Nat
    PROVE  Replaces(s, p, 0, <<>>, s, p)
<1>1. Len(s) \in Nat BY LenProperties
<1>2. NatMin(0, Len(s)) = 0 BY <1>1 DEF NatMin
<1>3. SubSeq(s, 0 + 1, Len(s)) = s BY SubSeqFull
<1>4. <<>> \o s = s BY ConcatEmptySeq
<1> QED BY ONLY <1>2, <1>3, <1>4, p \in Nat DEF Replaces

LEMMA OnePushed ==
    ASSUME NEW s \in Seq(Operand), NEW p \in Nat, NEW o \in Operand
    PROVE  Replaces(s, p, 0, <<o>>, <<o>> \o s, p)
<1>1. Len(s) \in Nat BY LenProperties
<1>2. NatMin(0, Len(s)) = 0 BY <1>1 DEF NatMin
<1>3. SubSeq(s, 0 + 1, Len(s)) = s BY SubSeqFull
<1> QED BY ONLY <1>2, <1>3, p \in Nat DEF Replaces

LEMMA OneReplaced ==
    ASSUME NEW s \in Seq(Operand), NEW p \in Nat, NEW r \in Seq(Operand), s # <<>>
    PROVE  Replaces(s, p, 1, r, r \o Tail(s), p)
<1>1. Len(s) \in Nat /\ Len(s) >= 1
    <2>1. Len(s) \in Nat \ {0} BY ONLY s \in Seq(Operand), s # <<>>, EmptySeq
    <2> QED BY ONLY <2>1
<1>2. NatMin(1, Len(s)) = 1
    <2>1. \A n \in Nat : n >= 1 => NatMin(1, n) = 1 BY DEF NatMin
    <2> QED BY ONLY <1>1, <2>1
<1>3. SubSeq(s, 2, Len(s)) = Tail(s) BY TailIsSubSeq
<1>4. NatMin(1, Len(s)) + 1 = 2 /\ p + 1 - NatMin(1, Len(s)) = p BY ONLY <1>2, p \in Nat
<1>5. r \o Tail(s) = r \o SubSeq(s, NatMin(1, Len(s)) + 1, Len(s)) BY ONLY <1>3, <1>4
<1> QED BY ONLY <1>4, <1>5, Zenon DEF Replaces

LEMMA OnePopped ==
    ASSUME NEW p \in Nat PROVE Replaces(<<>>, p, 1, <<>>, <<>>, p + 1)
<1>1. Len(<<>>) = 0 OBVIOUS
<1>2. NatMin(1, Len(<<>>)) = 0 BY <1>1 DEF NatMin
<1>3. SubSeq(<<>>, 0 + 1, 0) = <<>> BY SubSeqEmpty
<1>4. <<>> \o <<>> = <<>> OBVIOUS
<1> QED BY ONLY <1>1, <1>2, <1>3, <1>4, p \in Nat DEF Replaces

\* IsDefined, of the instructions is.
DefinedIn(o, before, is) ==
    o.kind = "InstructionRef" =>
        /\ o.n < before
        /\ ~is[o.n + 1].ignoreable
        /\ Ret(is[o.n + 1].opcode) = 1

\* What is defined stays defined.
LEMMA AppendKeeps ==
    ASSUME NEW is \in Seq(InstType), NEW inst \in InstType, NEW o \in Operand,
           NEW b \in Nat, b <= Len(is), NEW c \in Nat, b <= c, DefinedIn(o, b, is)
    PROVE  DefinedIn(o, c, Append(is, inst))
<1>1. CASE o.kind = "InstructionRef"
    <2>1. o.n \in Nat /\ o.n < b BY ONLY <1>1, o \in Operand, DefinedIn(o, b, is) DEF DefinedIn, Operand
    <2>2. Len(is) \in Nat BY ONLY is \in Seq(InstType), LenProperties
    <2>3. o.n + 1 \in 1..Len(is) /\ o.n < c
        BY ONLY <2>1, <2>2, b \in Nat, c \in Nat, b <= Len(is), b <= c
    <2>4. Append(is, inst)[o.n + 1] = is[o.n + 1]
        BY ONLY <2>3, is \in Seq(InstType), inst \in InstType, AppendProperties
    <2> QED BY ONLY <1>1, <2>3, <2>4, DefinedIn(o, b, is) DEF DefinedIn
<1>2. CASE o.kind # "InstructionRef" BY ONLY <1>2 DEF DefinedIn
<1> QED BY ONLY <1>1, <1>2

\* No fold makes up the result of an instruction.
LEMMA FoldIs ==
    ASSUME NEW op, NEW args, Fold(op, args).kind = "InstructionRef"
    PROVE  \E k \in 1..Len(args) : Fold(op, args) = args[k]
<1>1. CASE Len(args) = 1
    <2>1. Fold(op, args) = Fold1(op, args[1]) BY <1>1 DEF Fold
    <2> QED BY <2>1 DEF Fold1, Constant, NoFold
<1>2. CASE Len(args) = 2
    <2>1. Fold(op, args) = IF IsConstant(args[1]) /\ IsConstant(args[2])
                           THEN Fold2Constants(op, args[1].n, args[2].n)
                           ELSE FoldIdentity(op, args[1], args[2])
        BY <1>2 DEF Fold
    <2>2. Fold2Constants(op, args[1].n, args[2].n).kind # "InstructionRef"
        BY DEF Fold2Constants, Constant, NoFold
    <2>3. Fold(op, args) = FoldIdentity(op, args[1], args[2]) BY ONLY <2>1, <2>2, Fold(op, args).kind = "InstructionRef"
    <2>4. Fold(op, args) = args[1] \/ Fold(op, args) = args[2]
        BY ONLY <2>3, Fold(op, args).kind = "InstructionRef" DEF FoldIdentity, Constant, NoFold, Zero, One
    <2> QED BY ONLY <1>2, <2>4
<1>3. CASE Len(args) = 3
    <2>1. Fold(op, args) = Fold3(op, args[1], args[2], args[3]) BY <1>3 DEF Fold
    <2> QED BY <2>1 DEF Fold3, Constant, NoFold, Zero
<1>4. CASE Len(args) \notin {1, 2, 3} BY <1>4 DEF Fold, NoFold
<1> QED BY <1>1, <1>2, <1>3, <1>4

Untouched(s, p, n) ==
    /\ p = 0 \/ FrameLen + p <= n
    /\ \A pos \in Nat :
          pos >= DepthOf(s, p, n) => At(s, p, pos) = StackRef(pos - DepthOf(s, p, n) + n)

LEMMA UntouchedAfter ==
    ASSUME NEW s \in Seq(Operand), NEW p \in Nat, NEW r \in Seq(Operand), NEW a \in Nat,
           NEW s2, NEW p2, Replaces(s, p, a, r, s2, p2), NEW n \in Nat,
           Untouched(s, p, n), a <= DepthOf(s, p, n)
    PROVE  Untouched(s2, p2, n)
<1>1. /\ s2 \in Seq(Operand) /\ p2 \in Nat
      /\ Len(s2) - p2 = Len(s) - p + Len(r) - a
      /\ \A pos \in Nat :
            At(s2, p2, pos) = IF pos < Len(r) THEN r[pos + 1] ELSE At(s, p, pos - Len(r) + a)
    BY ReplaceTop
<1>2. p \in Nat /\ a \in Nat /\ n \in Nat /\ Len(s) \in Nat /\ Len(r) \in Nat /\ Len(s2) \in Nat
    BY <1>1, LenProperties
<1>3. p2 \in Nat /\ Len(s2) - p2 = Len(s) - p + Len(r) - a BY <1>1
<1>4. /\ a <= DepthOf(s, p, n) /\ DepthOf(s, p, n) \in Int /\ DepthOf(s2, p2, n) \in Int
      /\ DepthOf(s2, p2, n) = DepthOf(s, p, n) + Len(r) - a
    BY ONLY <1>2, <1>3, a <= DepthOf(s, p, n), FrameLenAssumption DEF DepthOf
<1>5. p2 = 0 \/ FrameLen + p2 <= n
    <2>1. p2 = p + a - NatMin(a, Len(s)) BY DEF Replaces
    <2>2. NatMin(a, Len(s)) = IF a < Len(s) THEN a ELSE Len(s) BY DEF NatMin
    <2>3. p = 0 \/ FrameLen + p <= n BY DEF Untouched
    <2>4. DepthOf(s, p, n) = Len(s) - p + n - FrameLen BY DEF DepthOf
    <2> QED BY ONLY <1>2, <1>4, <2>1, <2>2, <2>3, <2>4, FrameLenAssumption
<1>6. ASSUME NEW pos \in Nat, pos >= DepthOf(s2, p2, n)
      PROVE  At(s2, p2, pos) = StackRef(pos - DepthOf(s2, p2, n) + n)
    <2>1. ~(pos < Len(r))
        BY ONLY <1>2, <1>4, <1>6, pos \in Nat
    <2>2. PICK from \in Nat : from = pos - Len(r) + a
        <3>1. pos - Len(r) + a \in Nat BY ONLY <1>2, <2>1, pos \in Nat
        <3> QED BY ONLY <3>1
    <2>3. /\ from >= DepthOf(s, p, n)
          /\ from - DepthOf(s, p, n) + n = pos - DepthOf(s2, p2, n) + n
        BY ONLY <1>2, <1>4, <1>6, <2>1, <2>2, pos \in Nat, from \in Nat
    <2>4. At(s, p, from) = StackRef(from - DepthOf(s, p, n) + n)
        BY ONLY <2>3, Untouched(s, p, n), from \in Nat DEF Untouched
    <2> QED BY ONLY <1>1, <2>1, <2>2, <2>3, <2>4, pos \in Nat
<1> QED BY ONLY <1>5, <1>6 DEF Untouched

LEMMA UntouchedBySwap ==
    ASSUME NEW s \in Seq(Operand), NEW p \in Nat, NEW n, NEW s2, Swaps(s, n, s2),
           NEW len \in Nat, Untouched(s, p, len), n < DepthOf(s, p, len)
    PROVE  Untouched(s2, p, len)
<1>1. /\ s2 \in Seq(Operand) /\ Len(s2) = Len(s)
      /\ \A pos \in Nat :
            At(s2, p, pos) = IF pos = 0 THEN At(s, p, n)
                             ELSE IF pos = n THEN At(s, p, 0) ELSE At(s, p, pos)
    BY SwapDepths
<1>2. DepthOf(s2, p, len) = DepthOf(s, p, len) BY ONLY <1>1 DEF DepthOf
<1>3. n \in Nat BY LenProperties DEF Swaps
<1>4. DepthOf(s, p, len) \in Int
    <2>1. Len(s) \in Nat BY LenProperties
    <2> QED BY ONLY <2>1, p \in Nat, len \in Nat, FrameLenAssumption DEF DepthOf
<1>5. ASSUME NEW pos \in Nat, pos >= DepthOf(s2, p, len)
      PROVE  At(s2, p, pos) = StackRef(pos - DepthOf(s2, p, len) + len)
    <2>1. pos # 0 /\ pos # n
        BY ONLY <1>2, <1>3, <1>4, <1>5, n < DepthOf(s, p, len), pos \in Nat
    <2>2. At(s2, p, pos) = At(s, p, pos) BY ONLY <1>1, <2>1, pos \in Nat
    <2>3. At(s, p, pos) = StackRef(pos - DepthOf(s, p, len) + len)
        BY ONLY <1>2, <1>5, Untouched(s, p, len), pos \in Nat DEF Untouched
    <2> QED BY ONLY <1>2, <2>2, <2>3
<1> QED BY ONLY <1>2, <1>5, Untouched(s, p, len) DEF Untouched

-----------------------------------------------------------------------------
(* The emulation's names: every operand on the abstract stack or in the    *)
(* code is a word, a slot or the result of an earlier instruction that was *)
(* kept and has one.                                                       *)

\* The operand o can be named by the instruction number before, of is.
Named(o, before, is) ==
    /\ o \in Operand
    /\ IsConstant(o) => o.n \in Word
    /\ DefinedIn(o, before, is)

\* What emit_basic_block relies on of an instruction.
WellFormed(inst) ==
    /\ is_jump(inst.opcode) => ~inst.ignoreable /\ Len(inst.operands) = Args(inst.opcode)
    /\ is_swap(inst.opcode) /\ ~inst.ignoreable =>
          Len(inst.operands) = 2 /\ inst.operands[2].kind = "StackRef"
    /\ stops(inst.opcode) => ~inst.ignoreable
    /\ inst.opcode \notin Instruction => ~inst.ignoreable /\ Len(inst.operands) = 0

TypeBB ==
    /\ insts \in Seq(InstType)
    /\ evm_stack \in Seq(Operand)
    /\ pops_at_end \in Nat
    /\ DOMAIN stack_sets \subseteq Nat
    /\ \A s \in DOMAIN stack_sets : stack_sets[s] \in Operand
    /\ returns \in Seq(Operand)
    /\ phase \in {"emulate", "bailed", "done"}

CodeIsNamed ==
    \A k \in 1..Len(insts) :
        /\ WellFormed(insts[k])
        /\ \A j \in 1..Len(insts[k].operands) : Named(insts[k].operands[j], k - 1, insts)

StackIsNamed == \A k \in 1..Len(evm_stack) : Named(evm_stack[k], Len(insts), insts)

FinalizerIsNamed ==
    /\ \A s \in DOMAIN stack_sets : Named(stack_sets[s], Len(insts), insts)
    /\ \A k \in 1..Len(returns) : Named(returns[k], Len(insts), insts)
    /\ phase # "done" => DOMAIN stack_sets = {} /\ returns = <<>>

\* Only the last instruction ends the block, and it alone may be none.
OnlyLastEnds ==
    /\ insts = <<>> => phase = "emulate"
    /\ \A k \in 1..Len(insts) :
          LET op == insts[k].opcode IN
          /\ k < Len(insts) => op \in Instruction /\ ~stops(op) /\ ~is_jump(op)
          /\ k = Len(insts) => (op \in Instruction <=> phase # "bailed")

NamesInv == TypeBB /\ CodeIsNamed /\ StackIsNamed /\ FinalizerIsNamed /\ OnlyLastEnds

-----------------------------------------------------------------------------
(* The heights of the stack *)

\* h is the height of a stack of n words after each instruction of is.
AreHeights(h, is, n) ==
    /\ h[0] = n
    /\ \A k \in 1..Len(is) : h[k] = h[k - 1] + Ret(is[k].opcode) - Args(is[k].opcode)

\* The stack is never too short.
Deep(h, is) == \A k \in 1..Len(is) : Args(is[k].opcode) <= h[k - 1]

\* No instruction of is names a slot below the n words.
OnStack(is, n) ==
    \A k \in 1..Len(is) : \A j \in 1..Len(is[k].operands) :
        LET o == is[k].operands[j] IN o.kind = "StackRef" => o.n < n

\* A word that was not there was popped: the slot below the n words is beyond
\* what the block leaves, or its place is taken.
Lost(s, p, n) ==
    /\ n < FrameLen + p
    /\ p = 0 => DepthOf(s, p, n) < 0 \/ At(s, p, DepthOf(s, p, n)) # StackRef(n)

\* What emit_basic_block prints stays on the stack if the EVM does, and only
\* then: h[k] are the heights of the EVM's stack, of n words at first.
EmulatedHeights(h, n) ==
    /\ h[Len(insts)] = DepthOf(evm_stack, pops_at_end, n)
    /\ Deep(h, insts) =>
          Sound(evm_stack, pops_at_end, n, Len(insts)) /\ Untouched(evm_stack, pops_at_end, n)
    /\ ~Deep(h, insts) /\ OnStack(insts, n) => Lost(evm_stack, pops_at_end, n)

FinalHeights(h, n) ==
    /\ h[Len(insts)] = n + Len(returns) - pops_at_end
    /\ Deep(h, insts) =>
          /\ pops_at_end <= n
          /\ \A s \in DOMAIN stack_sets :
                s < n /\ (stack_sets[s].kind = "StackRef" => stack_sets[s].n < n)
          /\ \A k \in 1..Len(returns) : returns[k].kind = "StackRef" => returns[k].n < n
    /\ ~Deep(h, insts) /\ OnStack(insts, n) =>
          \/ n < pops_at_end
          \/ pops_at_end # Missing /\ evm_stack # <<>>
          \/ \E s \in DOMAIN stack_sets : ~(s < n)

HeightsAre(h, n) ==
    /\ Deep(h, insts) => OnStack(insts, n)
    /\ phase = "emulate" => EmulatedHeights(h, n)
    /\ phase = "done" => FinalHeights(h, n)

HeightsInv == \A n \in Nat : \A h : AreHeights(h, insts, n) => HeightsAre(h, n)

-----------------------------------------------------------------------------
(* Induction, and the heights defined by it *)

\* A set of numbers with 0 and with the successor of each of them has them
\* all.  Sets stand for predicates: S is { n \in Nat : P(n) }.
LEMMA Induction ==
    ASSUME NEW S, 0 \in S, \A n \in Nat : n \in S => n + 1 \in S
    PROVE  \A n \in Nat : n \in S
<1> DEFINE T == Nat \ S
<1>1. SUFFICES ASSUME T # {} PROVE FALSE OBVIOUS
<1>2. T \subseteq Nat OBVIOUS
<1>3. PICK m \in T : \A y \in T : ~(<<y, m>> \in OpToRel(<, Nat))
    <2> HIDE DEF T
    <2> QED BY ONLY <1>1, <1>2, NatLessThanWellFounded, WFMin
<1>4. OpToRel(<, Nat) = {ss \in Nat \X Nat : ss[1] < ss[2]} BY Zenon DEF OpToRel
<1>5. m \in Nat /\ m # 0 /\ m \notin S OBVIOUS
<1>6. m - 1 \in Nat /\ m - 1 < m /\ (m - 1) + 1 = m BY ONLY <1>5
<1>7. m - 1 \notin S BY ONLY <1>5, <1>6, \A n \in Nat : n \in S => n + 1 \in S
<1>8. m - 1 \in T BY <1>6, <1>7
<1>9. <<m - 1, m>> \in {ss \in Nat \X Nat : ss[1] < ss[2]} BY ONLY <1>5, <1>6
<1> QED BY ONLY <1>3, <1>4, <1>8, <1>9

\* h[k] is n and the first k of the d[i].
AreSums(h, d, n, len) ==
    /\ h = [k \in 0..len |-> IF k = 0 THEN n ELSE h[k - 1] + d[k]]
    /\ \A k \in 0..len : h[k] \in Int

\* A sum has its partial sums.
LEMMA SumsExist ==
    ASSUME NEW d, NEW n \in Int, NEW len \in Nat, \A k \in 1..len : d[k] \in Int
    PROVE  \E h : AreSums(h, d, n, len)
<1> DEFINE IsSum(h, m) == /\ h \in [0..m -> Int]
                          /\ \A k \in 0..m : h[k] = IF k = 0 THEN n ELSE h[k - 1] + d[k]
           S == {m \in Nat : m <= len => \E h : IsSum(h, m)}
<1>1. 0 \in S
    <2>1. IsSum([k \in 0..0 |-> n], 0) OBVIOUS
    <2> QED BY <2>1
<1>2. ASSUME NEW m \in Nat, m \in S PROVE m + 1 \in S
    <2>1. SUFFICES ASSUME m + 1 <= len PROVE \E h : IsSum(h, m + 1) OBVIOUS
    <2>2. PICK g : IsSum(g, m) BY <1>2, <2>1
    <2> DEFINE h == [k \in 0..(m + 1) |-> IF k <= m THEN g[k] ELSE g[m] + d[m + 1]]
    <2>3. d[m + 1] \in Int BY <2>1
    <2>4. /\ g \in [0..m -> Int] /\ m \in 0..m
          /\ \A k \in 0..m : g[k] = IF k = 0 THEN n ELSE g[k - 1] + d[k]
        BY <2>2
    <2>5. h \in [0..(m + 1) -> Int] BY ONLY <2>3, <2>4
    <2>6. ASSUME NEW k \in 0..(m + 1) PROVE h[k] = IF k = 0 THEN n ELSE h[k - 1] + d[k]
        <3>1. CASE k <= m
            <4>1. k = 0 \/ k - 1 \in 0..m BY ONLY <3>1, m \in Nat, k \in 0..(m + 1)
            <4>2. k \in 0..m /\ h[k] = g[k] BY ONLY <3>1, m \in Nat, k \in 0..(m + 1)
            <4>3. k # 0 => h[k - 1] = g[k - 1] BY ONLY <4>1, m \in Nat
            <4> HIDE DEF h
            <4> QED BY ONLY <2>4, <4>2, <4>3
        <3>2. CASE ~(k <= m)
            <4>1. k = m + 1 /\ k - 1 = m /\ k # 0 BY ONLY <3>2, m \in Nat, k \in 0..(m + 1)
            <4>2. h[m + 1] = g[m] + d[m + 1] /\ h[m] = g[m] BY ONLY m \in Nat
            <4> HIDE DEF h
            <4> QED BY ONLY <4>1, <4>2
        <3> QED BY ONLY <3>1, <3>2
    <2> HIDE DEF h
    <2> QED BY ONLY <2>5, <2>6
<1>3. len \in S
    <2> HIDE DEF S
    <2> QED BY ONLY <1>1, <1>2, len \in Nat, Induction
<1>4. PICK h : IsSum(h, len) BY ONLY <1>3, len \in Nat
<1>5. h = [k \in 0..len |-> h[k]] /\ \A k \in 0..len : h[k] = IF k = 0 THEN n ELSE h[k - 1] + d[k]
    BY ONLY <1>4
<1>6. h = [k \in 0..len |-> IF k = 0 THEN n ELSE h[k - 1] + d[k]] BY ONLY <1>5
<1>7. \A k \in 0..len : h[k] \in Int BY ONLY <1>4
<1> QED BY ONLY <1>6, <1>7 DEF AreSums

-----------------------------------------------------------------------------
(* What the emulation of an instruction is, whichever it is *)

LEMMA Classes ==
    ASSUME NEW op \in Byte
    PROVE  /\ Args(op) \in Nat /\ Ret(op) \in Nat
           /\ op \notin Instruction => Args(op) = 0 /\ ~is_jump(op) /\ ~is_swap(op) /\ ~stops(op)
           /\ pushes_constant(op) =>
                 /\ op \in Instruction /\ Args(op) = 0 /\ Ret(op) = 1
                 /\ ~is_jump(op) /\ ~is_swap(op) /\ ~stops(op)
           /\ is_dup(op) =>
                 /\ op \in Instruction /\ dup_position(op) \in Nat
                 /\ Args(op) = dup_position(op) + 1 /\ Ret(op) = dup_position(op) + 2
                 /\ ~is_jump(op) /\ ~is_swap(op) /\ ~stops(op)
           /\ is_swap(op) =>
                 /\ op \in Instruction /\ swap_position(op) \in Nat /\ swap_position(op) >= 1
                 /\ Args(op) = swap_position(op) + 1 /\ Ret(op) = swap_position(op) + 1
                 /\ ~is_jump(op) /\ ~stops(op)
           /\ op = POP =>
                 /\ op \in Instruction /\ Args(op) = 1 /\ Ret(op) = 0
                 /\ ~is_jump(op) /\ ~is_swap(op) /\ ~stops(op)
           /\ op = JUMPDEST =>
                 /\ op \in Instruction /\ Args(op) = 0 /\ Ret(op) = 0
                 /\ ~is_jump(op) /\ ~is_swap(op) /\ ~stops(op)
           /\ op \in Arithmetic => ~is_jump(op) /\ ~is_swap(op) /\ ~stops(op)
<1>1. Args(op) \in Nat BY ArgsInNat
<1>2. Ret(op) \in Nat
    BY DEF Byte, Ret, is_dup, is_swap, dup_position, swap_position, DUP1, DUP16, SWAP1, SWAP16
<1>3. ASSUME op \notin Instruction
      PROVE  Args(op) = 0 /\ ~is_jump(op) /\ ~is_swap(op) /\ ~stops(op)
    BY <1>3 DEF Byte, Instruction, Args, is_jump, is_dup, is_swap, stops, dup_position, swap_position,
                DUP1, DUP16, SWAP1, SWAP16, JUMP, JUMPI, SELFDESTRUCT, STOP, REVERT, RETURN, INVALID
<1>4. ASSUME pushes_constant(op)
      PROVE  /\ op \in Instruction /\ Args(op) = 0 /\ Ret(op) = 1
             /\ ~is_jump(op) /\ ~is_swap(op) /\ ~stops(op)
    <2>1. op \in (96..127) \cup {88}
        BY ONLY <1>4 DEF pushes_constant, is_push, PUSH1, PUSH32, PC
    <2> QED
        BY ONLY <2>1 DEF Instruction, Args, Ret, is_jump, is_dup, is_swap, stops, dup_position, swap_position,
                DUP1, DUP16, SWAP1, SWAP16, JUMP, JUMPI, SELFDESTRUCT, STOP, REVERT, RETURN, INVALID
<1>5. ASSUME is_dup(op)
      PROVE  /\ op \in Instruction /\ dup_position(op) \in Nat
             /\ Args(op) = dup_position(op) + 1 /\ Ret(op) = dup_position(op) + 2
             /\ ~is_jump(op) /\ ~is_swap(op) /\ ~stops(op)
    BY <1>5 DEF Instruction, Args, Ret, is_jump, is_dup, is_swap, stops, dup_position,
                DUP1, DUP16, SWAP1, SWAP16, JUMP, JUMPI, SELFDESTRUCT, STOP, REVERT, RETURN, INVALID
<1>6. ASSUME is_swap(op)
      PROVE  /\ op \in Instruction /\ swap_position(op) \in Nat /\ swap_position(op) >= 1
             /\ Args(op) = swap_position(op) + 1 /\ Ret(op) = swap_position(op) + 1
             /\ ~is_jump(op) /\ ~stops(op)
    BY <1>6 DEF Instruction, Args, Ret, is_jump, is_dup, is_swap, stops, swap_position,
                DUP1, DUP16, SWAP1, SWAP16, JUMP, JUMPI, SELFDESTRUCT, STOP, REVERT, RETURN, INVALID
<1>7. ASSUME op \in {POP, JUMPDEST}
      PROVE  /\ op \in Instruction /\ Args(op) = (IF op = POP THEN 1 ELSE 0) /\ Ret(op) = 0
             /\ ~is_jump(op) /\ ~is_swap(op) /\ ~stops(op)
    BY <1>7 DEF POP, JUMPDEST, Instruction, Args, Ret, is_jump, is_dup, is_swap, stops,
                DUP1, DUP16, SWAP1, SWAP16, JUMP, JUMPI, SELFDESTRUCT, STOP, REVERT, RETURN, INVALID
<1>8. ASSUME op \in Arithmetic PROVE ~is_jump(op) /\ ~is_swap(op) /\ ~stops(op)
    BY <1>8 DEF Arithmetic, Arithmetic1, Arithmetic2, Arithmetic3, ISZERO, NOT, ADD, MUL, SUB, DIV, MOD,
           EXP, LT, GT, EQ, AND, OR, XOR, BYTE, SHL, SHR, ADDMOD, MULMOD, is_jump, is_swap, stops,
           SWAP1, SWAP16, JUMP, JUMPI, SELFDESTRUCT, STOP, REVERT, RETURN, INVALID
<1>9. POP # JUMPDEST BY DEF POP, JUMPDEST
<1> QED BY ONLY <1>1, <1>2, <1>3, <1>4, <1>5, <1>6, <1>7, <1>8, <1>9

\* A fold leaves one of the arguments, or a word.
LEMMA FoldOf ==
    ASSUME NEW op, NEW args \in Seq(Operand), Len(args) = Args(op),
           \A k \in 1..Len(args) : IsConstant(args[k]) => args[k].n \in Word,
           Fold(op, args) # NoFold
    PROVE  /\ op \in Arithmetic
           /\ \/ \E k \in 1..Len(args) : Fold(op, args) = args[k]
              \/ \E w \in Word : Fold(op, args) = Constant(w)
<1> DEFINE w == [k \in 1..Len(args) |-> IF IsConstant(args[k]) THEN args[k].n ELSE 0]
<1>1. \A k \in 1..Len(args) : w[k] \in Word /\ Describes(args[k], w[k])
    <2>1. ASSUME NEW k \in 1..Len(args) PROVE w[k] \in Word /\ Describes(args[k], w[k])
        <3>1. args[k] \in Operand BY ONLY args \in Seq(Operand), k \in 1..Len(args), ElementOfSeq
        <3>2. w[k] = IF IsConstant(args[k]) THEN args[k].n ELSE 0 BY ONLY k \in 1..Len(args)
        <3> HIDE DEF w
        <3>3. w[k] \in Word BY ONLY <3>2, WordFacts, k \in 1..Len(args),
            \A j \in 1..Len(args) : IsConstant(args[j]) => args[j].n \in Word
        <3> QED BY ONLY <3>1, <3>2, <3>3 DEF Describes
    <2> QED BY ONLY <2>1
<1> HIDE DEF w
<1>2. CASE IsPowerOfZero(op, args)
    <2>1. op = EXP /\ Len(args) = 2 /\ ~IsConstant(args[2]) BY ONLY <1>2 DEF IsPowerOfZero
    <2>2. Fold(op, args) = FoldIdentity(op, args[1], args[2]) BY ONLY <2>1 DEF Fold
    <2>3. Fold(op, args) = Zero \/ Fold(op, args) = args[1] \/ Fold(op, args) = One
        BY ONLY <2>1, <2>2, Fold(op, args) # NoFold
        DEF FoldIdentity, EXP, ADD, SUB, MUL, DIV, SHL, SHR
    <2>4. 1 \in 1..Len(args) BY ONLY <2>1
    <2>5. EXP \in Arithmetic BY DEF Arithmetic, Arithmetic2
    <2> QED BY ONLY <2>1, <2>3, <2>4, <2>5, WordFacts DEF Zero, One
<1>3. CASE ~IsPowerOfZero(op, args)
    <2>1. /\ op \in Arithmetic
          /\ \/ Fold(op, args) = Constant(Alu(op, w))
             \/ \E k \in 1..Len(args) : Fold(op, args) = args[k] /\ Alu(op, w) = w[k]
        BY ONLY <1>1, <1>3, args \in Seq(Operand), Fold(op, args) # NoFold, FoldSound
    <2>2. Alu(op, w) \in Word BY ONLY <1>1, <2>1, AluType, Len(args) = Args(op)
    <2> QED BY ONLY <2>1, <2>2
<1> QED BY <1>2, <1>3

\* The step that emulates inst, as far as emit_basic_block sees it: it names
\* words that it takes from the stack, the deepest of them included.
Codes(inst) ==
    LET op == inst.opcode IN
    /\ Takes(op)
    /\ inst \in InstType /\ WellFormed(inst)
    /\ insts' = Append(insts, inst)
    /\ UNCHANGED <<stack_sets, returns>>
    /\ phase' = IF op \in Instruction THEN "emulate" ELSE "bailed"
    /\ \A j \in 1..Len(inst.operands) :
          \E pos \in Nat : pos < Args(op) /\ inst.operands[j] = OperandAt(pos)
    /\ \/ Args(op) = 0
       \/ op = POP
       \/ \E j \in 1..Len(inst.operands) : inst.operands[j] = OperandAt(Args(op) - 1)

\* What inst may put on the stack.
MayPut(inst, o) ==
    \/ \E j \in 1..Len(inst.operands) : o = inst.operands[j]
    \/ \E w \in Word : o = Constant(w)
    \/ o = InstructionRef(Len(insts)) /\ ~inst.ignoreable /\ Ret(inst.opcode) = 1

TakesAndPuts(inst, a, r) ==
    LET op == inst.opcode IN
    /\ op \in Instruction
    /\ a \in Nat /\ a <= Args(op) /\ (op = POP => a = 1)
    /\ r \in Seq(Operand) /\ Len(r) - a = Ret(op) - Args(op)
    /\ \A k \in 1..Len(r) : MayPut(inst, r[k])
    /\ Replaces(evm_stack, pops_at_end, a, r, evm_stack', pops_at_end')

Exchanges(inst) ==
    LET n == swap_position(inst.opcode) IN
    /\ is_swap(inst.opcode)
    /\ Swaps(evm_stack, n, evm_stack') /\ pops_at_end' = pops_at_end
    /\ Len(inst.operands) = 2
    /\ inst.operands[1] = OperandAt(0) /\ inst.operands[2] = OperandAt(n)

Stops(inst) == inst.opcode \notin Instruction /\ UNCHANGED <<evm_stack, pops_at_end>>

Effect(inst) == (\E a, r : TakesAndPuts(inst, a, r)) \/ Exchanges(inst) \/ Stops(inst)

LEMMA OperandNamed ==
    ASSUME TypeBB, StackIsNamed, NEW pos \in Nat
    PROVE  Named(OperandAt(pos), Len(insts), insts)
<1>1. evm_stack \in Seq(Operand) /\ pops_at_end \in Nat /\ Len(evm_stack) \in Nat
    BY LenProperties DEF TypeBB
<1>2. CASE pos < Len(evm_stack)
    <2>1. pos + 1 \in 1..Len(evm_stack) BY ONLY <1>1, <1>2, pos \in Nat
    <2>2. OperandAt(pos) = evm_stack[pos + 1] BY ONLY <1>2 DEF OperandAt
    <2> QED BY ONLY <2>1, <2>2, StackIsNamed DEF StackIsNamed
<1>3. CASE ~(pos < Len(evm_stack))
    <2>1. PICK s \in Nat : s = pos - Len(evm_stack) + FrameLen + pops_at_end
        <3>1. pos - Len(evm_stack) + FrameLen + pops_at_end \in Nat
            BY ONLY <1>1, <1>3, pos \in Nat, FrameLenAssumption
        <3> QED BY ONLY <3>1
    <2>2. OperandAt(pos) = StackRef(s) BY ONLY <1>3, <2>1 DEF OperandAt
    <2> QED BY ONLY <2>2, s \in Nat DEF Named, StackRef, Operand, IsConstant, DefinedIn
<1> QED BY <1>2, <1>3

\* Nothing, one and two operands.
LEMMA Tuples ==
    /\ <<>> \in Seq(Operand) /\ Len(<<>>) = 0 /\ \A k : k \notin 1..Len(<<>>)
    /\ \A o \in Operand : <<o>> \in Seq(Operand) /\ Len(<<o>>) = 1 /\ <<o>>[1] = o
    /\ \A o1, o2 \in Operand :
          /\ <<o1, o2>> \in Seq(Operand) /\ Len(<<o1, o2>>) = 2
          /\ <<o1, o2>>[1] = o1 /\ <<o1, o2>>[2] = o2
<1>1. <<>> \in Seq(Operand) /\ Len(<<>>) = 0 BY EmptySeq
<1>2. \A k : k \notin 1..0 OBVIOUS
<1>3. \A o \in Operand : <<o>> \in Seq(Operand) /\ Len(<<o>>) = 1 /\ <<o>>[1] = o OBVIOUS
<1>4. \A o1, o2 \in Operand :
          /\ <<o1, o2>> \in Seq(Operand) /\ Len(<<o1, o2>>) = 2
          /\ <<o1, o2>>[1] = o1 /\ <<o1, o2>>[2] = o2
    OBVIOUS
<1> QED BY ONLY <1>1, <1>2, <1>3, <1>4

\* The instruction that the step adds.
Adds(inst, op, os) ==
    inst \in InstType /\ inst.opcode = op /\ inst.operands = os /\ insts' = Append(insts, inst)

LEMMA Added ==
    ASSUME NEW op \in Byte, NEW imm \in Word, NEW os \in Seq(Operand)
    PROVE  /\ Emulated(op, imm, os, TRUE) => \E inst : Adds(inst, op, os) /\ inst.ignoreable
           /\ Emulated(op, imm, os, FALSE) => \E inst : Adds(inst, op, os) /\ ~inst.ignoreable
           /\ \A i \in BOOLEAN : Emulated(op, imm, os, i) =>
                 \E inst : Adds(inst, op, os) /\ (inst.ignoreable <=> i)
<1> DEFINE Inst1(i) == [opcode |-> op, imm |-> imm, operands |-> os, ignoreable |-> i]
<1>1. ASSUME Emulated(op, imm, os, TRUE) PROVE \E inst : Adds(inst, op, os) /\ inst.ignoreable
    <2>1. Adds(Inst1(TRUE), op, os) BY <1>1 DEF Adds, Emulated, InstType
    <2>2. Inst1(TRUE).ignoreable OBVIOUS
    <2> HIDE DEF Inst1
    <2> QED BY ONLY <2>1, <2>2
<1>2. ASSUME Emulated(op, imm, os, FALSE) PROVE \E inst : Adds(inst, op, os) /\ ~inst.ignoreable
    <2>1. Adds(Inst1(FALSE), op, os) BY <1>2 DEF Adds, Emulated, InstType
    <2>2. ~Inst1(FALSE).ignoreable OBVIOUS
    <2> HIDE DEF Inst1
    <2> QED BY ONLY <2>1, <2>2
<1>3. ASSUME NEW i \in BOOLEAN, Emulated(op, imm, os, i)
      PROVE  \E inst : Adds(inst, op, os) /\ (inst.ignoreable <=> i)
    <2>1. Adds(Inst1(i), op, os) BY <1>3 DEF Adds, Emulated, InstType
    <2>2. Inst1(i).ignoreable <=> i OBVIOUS
    <2> HIDE DEF Inst1
    <2> QED BY ONLY <2>1, <2>2
<1> QED BY ONLY <1>1, <1>2, <1>3

LEMMA PushIs ==
    ASSUME TypeBB, StackIsNamed, NEW op, NEW w \in Immediates, EmulatePush(op, w)
    PROVE  \E inst : Codes(inst) /\ Effect(inst)
<1>1. Takes(op) /\ pushes_constant(op) BY DEF EmulatePush
<1>2. op \in Byte /\ phase = "emulate" BY <1>1, TakesFacts
<1>3. w \in Word /\ w \in Nat BY OpcodesAssumption, WordFacts
<1>4. /\ op \in Instruction /\ Args(op) = 0 /\ Ret(op) = 1
      /\ ~is_jump(op) /\ ~is_swap(op) /\ ~stops(op) /\ op # POP
    BY <1>1, <1>2, Classes DEF POP
<1>0. PICK inst : Adds(inst, op, <<>>) /\ inst.ignoreable
    <2>1. Emulated(op, w, <<>>, TRUE) BY DEF EmulatePush
    <2>2. <<>> \in Seq(Operand) BY ONLY Tuples
    <2> QED BY ONLY <1>2, <1>3, <2>1, <2>2, Added
<1>5. /\ inst \in InstType /\ inst.opcode = op /\ inst.operands = <<>> /\ inst.ignoreable
      /\ insts' = Append(insts, inst)
    BY ONLY <1>0 DEF Adds
<1>6. UNCHANGED <<stack_sets, returns, phase, pops_at_end>> BY DEF EmulatePush, Running
<1>7. WellFormed(inst) BY ONLY <1>4, <1>5 DEF WellFormed
<1>8. Codes(inst) BY ONLY <1>1, <1>2, <1>4, <1>5, <1>6, <1>7, Tuples DEF Codes
<1>9. Constant(w) \in Operand BY ONLY <1>3 DEF Constant, Operand
<1>10. evm_stack' = <<Constant(w)>> \o evm_stack BY DEF EmulatePush
<1>11. Replaces(evm_stack, pops_at_end, 0, <<Constant(w)>>, evm_stack', pops_at_end')
    BY ONLY <1>6, <1>9, <1>10, TypeBB, OnePushed DEF TypeBB
<1>12. MayPut(inst, Constant(w)) BY ONLY <1>3 DEF MayPut
<1>13. TakesAndPuts(inst, 0, <<Constant(w)>>)
    <2>1. /\ <<Constant(w)>> \in Seq(Operand) /\ Len(<<Constant(w)>>) = 1
          /\ <<Constant(w)>>[1] = Constant(w)
        BY ONLY <1>9, Tuples
    <2>2. \A k \in 1..1 : k = 1 OBVIOUS
    <2>3. \A k \in 1..Len(<<Constant(w)>>) : MayPut(inst, <<Constant(w)>>[k])
        BY ONLY <1>12, <2>1, <2>2
    <2>4. Len(<<Constant(w)>>) - 0 = Ret(op) - Args(op) /\ 0 \in Nat /\ 0 <= Args(op) BY ONLY <1>4, <2>1
    <2> QED BY ONLY <1>4, <1>5, <1>11, <2>1, <2>3, <2>4 DEF TakesAndPuts
<1> QED BY ONLY <1>8, <1>13 DEF Effect

LEMMA DupIs ==
    ASSUME TypeBB, StackIsNamed, NEW op, EmulateDup(op)
    PROVE  \E inst : Codes(inst) /\ Effect(inst)
<1> DEFINE o == OperandAt(dup_position(op))
<1>1. Takes(op) /\ is_dup(op) BY DEF EmulateDup
<1>2. op \in Byte /\ phase = "emulate" BY <1>1, TakesFacts
<1>3. /\ op \in Instruction /\ dup_position(op) \in Nat
      /\ Args(op) = dup_position(op) + 1 /\ Ret(op) = dup_position(op) + 2
      /\ ~is_jump(op) /\ ~is_swap(op) /\ ~stops(op) /\ op # POP
    <2>1. op # POP BY <1>1 DEF POP, is_dup, DUP1, DUP16
    <2> QED BY ONLY <1>1, <1>2, <2>1, Classes
<1>4. 0 \in Word BY WordFacts
<1>5. o \in Operand BY ONLY <1>3, TypeBB, StackIsNamed, OperandNamed DEF Named
<1>6. evm_stack' = <<o>> \o evm_stack /\ Emulated(op, 0, <<o>>, TRUE)
    BY DEF EmulateDup
<1>7. o = OperandAt(dup_position(op)) OBVIOUS
<1> HIDE DEF o
<1>8. <<o>> \in Seq(Operand) /\ Len(<<o>>) = 1 /\ <<o>>[1] = o BY ONLY <1>5, Tuples
<1>0. PICK inst : Adds(inst, op, <<o>>) /\ inst.ignoreable
    BY ONLY <1>2, <1>4, <1>6, <1>8, Added
<1>9. /\ inst \in InstType /\ inst.opcode = op /\ inst.operands = <<o>> /\ inst.ignoreable
      /\ insts' = Append(insts, inst)
    BY ONLY <1>0 DEF Adds
<1>10. UNCHANGED <<stack_sets, returns, phase, pops_at_end>> BY DEF EmulateDup, Running
<1>11. WellFormed(inst) BY ONLY <1>3, <1>9 DEF WellFormed
<1>12. /\ \A j \in 1..Len(inst.operands) :
             \E pos \in Nat : pos < Args(op) /\ inst.operands[j] = OperandAt(pos)
       /\ \E j \in 1..Len(inst.operands) : inst.operands[j] = OperandAt(Args(op) - 1)
    <2>1. \A k \in 1..1 : k = 1 OBVIOUS
    <2>2. dup_position(op) < Args(op) /\ Args(op) - 1 = dup_position(op) /\ 1 \in 1..1 BY ONLY <1>3
    <2> QED BY ONLY <1>3, <1>7, <1>8, <1>9, <2>1, <2>2
<1>13. Codes(inst) BY ONLY <1>1, <1>2, <1>3, <1>9, <1>10, <1>11, <1>12 DEF Codes
<1>14. Replaces(evm_stack, pops_at_end, 0, <<o>>, evm_stack', pops_at_end')
    BY ONLY <1>5, <1>6, <1>10, TypeBB, OnePushed DEF TypeBB
<1>15. MayPut(inst, o)
    <2>1. 1 \in 1..1 OBVIOUS
    <2> QED BY ONLY <1>8, <1>9, <2>1 DEF MayPut
<1>16. TakesAndPuts(inst, 0, <<o>>)
    <2>2. \A k \in 1..1 : k = 1 OBVIOUS
    <2>3. \A k \in 1..Len(<<o>>) : MayPut(inst, <<o>>[k]) BY ONLY <1>8, <1>15, <2>2
    <2>4. Len(<<o>>) - 0 = Ret(op) - Args(op) /\ 0 \in Nat /\ 0 <= Args(op) BY ONLY <1>3, <1>8
    <2> QED BY ONLY <1>3, <1>8, <1>9, <1>14, <2>3, <2>4 DEF TakesAndPuts
<1> QED BY ONLY <1>13, <1>16 DEF Effect

\* What the three ways to emulate a swap have in common.
LEMMA SwapCodes ==
    ASSUME TypeBB, StackIsNamed, NEW op, Takes(op), is_swap(op),
           NEW x, x = OperandAt(0), NEW y, y = OperandAt(swap_position(op)),
           NEW inst, Adds(inst, op, <<x, y>>), inst.ignoreable \/ y.kind = "StackRef",
           UNCHANGED <<stack_sets, returns, phase>>
    PROVE  /\ Codes(inst) /\ inst.opcode = op
           /\ Len(inst.operands) = 2 /\ inst.operands[1] = x /\ inst.operands[2] = y
<1>1. op \in Byte /\ phase = "emulate" BY TakesFacts
<1>2. /\ op \in Instruction /\ swap_position(op) \in Nat /\ swap_position(op) >= 1
      /\ Args(op) = swap_position(op) + 1 /\ ~is_jump(op) /\ ~stops(op)
    BY ONLY <1>1, is_swap(op), Classes
<1>3. x \in Operand /\ y \in Operand
    <2>1. 0 \in Nat OBVIOUS
    <2> QED
        BY ONLY <1>2, <2>1, TypeBB, StackIsNamed, OperandNamed, x = OperandAt(0),
                y = OperandAt(swap_position(op))
        DEF Named
<1>4. /\ inst \in InstType /\ inst.opcode = op /\ inst.operands = <<x, y>>
      /\ insts' = Append(insts, inst)
    BY ONLY Adds(inst, op, <<x, y>>) DEF Adds
<1>5. Len(inst.operands) = 2 /\ inst.operands[1] = x /\ inst.operands[2] = y
    BY ONLY <1>3, <1>4, Tuples
<1>6. WellFormed(inst)
    BY ONLY <1>2, <1>4, <1>5, inst.ignoreable \/ y.kind = "StackRef" DEF WellFormed
<1>7. /\ \A j \in 1..Len(inst.operands) :
             \E pos \in Nat : pos < Args(op) /\ inst.operands[j] = OperandAt(pos)
      /\ \E j \in 1..Len(inst.operands) : inst.operands[j] = OperandAt(Args(op) - 1)
    <2>1. \A k \in 1..2 : k = 1 \/ k = 2 OBVIOUS
    <2>2. /\ 0 < Args(op) /\ swap_position(op) < Args(op) /\ Args(op) - 1 = swap_position(op)
          /\ 0 \in Nat /\ 2 \in 1..2
        BY ONLY <1>2
    <2> QED
        BY ONLY <1>2, <1>5, <2>1, <2>2, x = OperandAt(0), y = OperandAt(swap_position(op))
<1>8. Codes(inst)
    BY ONLY <1>1, <1>2, <1>4, <1>6, <1>7, Takes(op), UNCHANGED <<stack_sets, returns, phase>>
    DEF Codes
<1> QED BY <1>4, <1>5, <1>8

LEMMA SwapIs ==
    ASSUME TypeBB, StackIsNamed, NEW op, EmulateSwap(op)
    PROVE  \E inst : Codes(inst) /\ Effect(inst)
<1> DEFINE n == swap_position(op)
           x == evm_stack[1]
           y == evm_stack[n + 1]
<1>1. Takes(op) /\ is_swap(op) /\ n < Len(evm_stack) BY DEF EmulateSwap
<1>2. op \in Byte BY <1>1, TakesFacts
<1>3. n \in Nat /\ n >= 1 BY <1>1, SwapPosition
<1>4. evm_stack \in Seq(Operand) /\ Len(evm_stack) \in Nat BY LenProperties DEF TypeBB
<1>5. /\ evm_stack' = [evm_stack EXCEPT ![1] = y, ![n + 1] = x]
      /\ Emulated(op, 0, <<x, y>>, TRUE)
      /\ UNCHANGED <<stack_sets, returns, phase, pops_at_end>>
    BY DEF EmulateSwap, Running
<1>6. x = OperandAt(0) /\ y = OperandAt(n)
    <2>1. 0 < Len(evm_stack) /\ 0 + 1 = 1 BY <1>1, <1>3, <1>4
    <2> QED BY <1>1, <2>1 DEF OperandAt
<1>7. Swaps(evm_stack, n, evm_stack')
    <2>1. n \in 1..(Len(evm_stack) - 1) BY <1>1, <1>3, <1>4
    <2> QED BY <1>5, <2>1 DEF Swaps
<1> HIDE DEF x, y, n
<1>8. x \in Operand /\ y \in Operand
    <2>1. 0 \in Nat OBVIOUS
    <2> QED BY ONLY <1>3, <1>6, <2>1, TypeBB, StackIsNamed, OperandNamed DEF Named
<1>9. PICK inst : Adds(inst, op, <<x, y>>) /\ inst.ignoreable
    <2>1. <<x, y>> \in Seq(Operand) /\ 0 \in Word BY ONLY <1>8, Tuples, WordFacts
    <2> QED BY ONLY <1>2, <1>5, <2>1, Added
<1>10. /\ Codes(inst) /\ inst.opcode = op
       /\ Len(inst.operands) = 2 /\ inst.operands[1] = x /\ inst.operands[2] = y
    BY <1>1, <1>5, <1>6, <1>9, SwapCodes DEF n
<1>11. Exchanges(inst) BY <1>1, <1>5, <1>6, <1>7, <1>10 DEF Exchanges, n
<1> QED BY ONLY <1>10, <1>11 DEF Effect

LEMMA SwapOutIs ==
    ASSUME TypeBB, StackIsNamed, NEW op, EmulateSwapOut(op)
    PROVE  \E inst : Codes(inst) /\ Effect(inst)
<1> DEFINE n == swap_position(op)
           x == evm_stack[1]
           y == OperandAt(n)
<1>1. Takes(op) /\ is_swap(op) /\ evm_stack # <<>> /\ n >= Len(evm_stack) BY DEF EmulateSwapOut
<1>2. op \in Byte BY <1>1, TakesFacts
<1>3. n \in Nat /\ n >= 1 BY <1>1, SwapPosition
<1>4. evm_stack \in Seq(Operand) /\ pops_at_end \in Nat /\ Len(evm_stack) \in Nat \ {0}
    BY <1>1, EmptySeq, LenProperties DEF TypeBB
<1>5. /\ evm_stack' = <<y>> \o Tail(evm_stack)
      /\ Emulated(op, 0, <<x, y>>, FALSE)
      /\ UNCHANGED <<stack_sets, returns, phase, pops_at_end>>
    BY DEF EmulateSwapOut, Running
<1>6. x = OperandAt(0) /\ y = OperandAt(n)
    <2>1. 0 < Len(evm_stack) /\ 0 + 1 = 1 BY <1>4
    <2> QED BY <1>1, <2>1 DEF OperandAt
<1>7. y.kind = "StackRef"
    <2>1. ~(n < Len(evm_stack)) BY ONLY <1>1, <1>3, <1>4
    <2> QED BY <2>1 DEF OperandAt, StackRef
<1> HIDE DEF x, y, n
<1>8. x \in Operand /\ y \in Operand
    <2>1. 0 \in Nat OBVIOUS
    <2> QED BY ONLY <1>3, <1>6, <2>1, TypeBB, StackIsNamed, OperandNamed DEF Named
<1>9. PICK inst : Adds(inst, op, <<x, y>>) /\ ~inst.ignoreable
    <2>1. <<x, y>> \in Seq(Operand) /\ 0 \in Word BY ONLY <1>8, Tuples, WordFacts
    <2> QED BY ONLY <1>2, <1>5, <2>1, Added
<1>10. /\ Codes(inst) /\ inst.opcode = op
       /\ Len(inst.operands) = 2 /\ inst.operands[1] = x /\ inst.operands[2] = y
    BY <1>1, <1>5, <1>6, <1>7, <1>9, SwapCodes DEF n
<1>11. <<y>> \in Seq(Operand) /\ Len(<<y>>) = 1 /\ <<y>>[1] = y BY ONLY <1>8, Tuples
<1>12. Replaces(evm_stack, pops_at_end, 1, <<y>>, evm_stack', pops_at_end')
    BY ONLY <1>1, <1>4, <1>5, <1>11, OneReplaced
<1>13. TakesAndPuts(inst, 1, <<y>>)
    <2>1. /\ op \in Instruction /\ Args(op) = swap_position(op) + 1 /\ Ret(op) = swap_position(op) + 1
          /\ swap_position(op) \in Nat
        BY ONLY <1>1, <1>2, Classes
    <2>2. 1 \in Nat /\ 1 <= Args(op) /\ Len(<<y>>) - 1 = Ret(op) - Args(op) BY ONLY <1>11, <2>1
    <2>3. \A k \in 1..1 : k = 1 OBVIOUS
    <2>4. MayPut(inst, y)
        <3>1. 2 \in 1..2 OBVIOUS
        <3> QED BY ONLY <1>10, <3>1 DEF MayPut
    <2>5. \A k \in 1..Len(<<y>>) : MayPut(inst, <<y>>[k]) BY ONLY <1>11, <2>3, <2>4
    <2> QED BY ONLY <1>10, <1>11, <1>12, <2>1, <2>2, <2>5 DEF TakesAndPuts
<1> QED BY ONLY <1>10, <1>13 DEF Effect

LEMMA SwapBelowIs ==
    ASSUME TypeBB, StackIsNamed, NEW op, EmulateSwapBelow(op)
    PROVE  \E inst : Codes(inst) /\ Effect(inst)
<1> DEFINE n == swap_position(op)
           x == OperandAt(0)
           y == OperandAt(n)
<1>1. Takes(op) /\ is_swap(op) /\ evm_stack = <<>> BY DEF EmulateSwapBelow
<1>2. op \in Byte BY <1>1, TakesFacts
<1>3. n \in Nat /\ n >= 1 BY <1>1, SwapPosition
<1>4. evm_stack \in Seq(Operand) /\ pops_at_end \in Nat BY DEF TypeBB
<1>5. /\ Emulated(op, 0, <<x, y>>, FALSE)
      /\ UNCHANGED <<evm_stack, stack_sets, returns, phase, pops_at_end>>
    BY DEF EmulateSwapBelow, Running
<1>6. x = OperandAt(0) /\ y = OperandAt(n) OBVIOUS
<1>7. y.kind = "StackRef"
    <2>1. ~(n < Len(evm_stack)) BY <1>1, <1>3
    <2> QED BY <2>1 DEF OperandAt, StackRef
<1> HIDE DEF x, y, n
<1>8. x \in Operand /\ y \in Operand
    <2>1. 0 \in Nat OBVIOUS
    <2> QED BY ONLY <1>3, <1>6, <2>1, TypeBB, StackIsNamed, OperandNamed DEF Named
<1>9. PICK inst : Adds(inst, op, <<x, y>>) /\ ~inst.ignoreable
    <2>1. <<x, y>> \in Seq(Operand) /\ 0 \in Word BY ONLY <1>8, Tuples, WordFacts
    <2> QED BY ONLY <1>2, <1>5, <2>1, Added
<1>10. /\ Codes(inst) /\ inst.opcode = op
       /\ Len(inst.operands) = 2 /\ inst.operands[1] = x /\ inst.operands[2] = y
    BY <1>1, <1>5, <1>6, <1>7, <1>9, SwapCodes DEF n
<1>11. Replaces(evm_stack, pops_at_end, 0, <<>>, evm_stack', pops_at_end')
    BY ONLY <1>4, <1>5, NothingReplaced
<1>12. TakesAndPuts(inst, 0, <<>>)
    <2>1. /\ op \in Instruction /\ Args(op) = swap_position(op) + 1 /\ Ret(op) = swap_position(op) + 1
          /\ swap_position(op) \in Nat
        BY ONLY <1>1, <1>2, Classes
    <2>2. 0 \in Nat /\ 0 <= Args(op) /\ Len(<<>>) - 0 = Ret(op) - Args(op) BY ONLY Tuples, <2>1
    <2>3. op # POP BY ONLY <1>1 DEF is_swap, SWAP1, SWAP16, POP
    <2> QED BY ONLY <1>10, <1>11, <2>1, <2>2, <2>3, Tuples DEF TakesAndPuts
<1> QED BY ONLY <1>10, <1>12 DEF Effect

\* An instruction that names nothing.
LEMMA NamelessCodes ==
    ASSUME NEW op, Takes(op), NEW inst, Adds(inst, op, <<>>),
           ~is_jump(op), ~is_swap(op), ~stops(op),
           op \notin Instruction => ~inst.ignoreable,
           Args(op) = 0 \/ op = POP,
           UNCHANGED <<stack_sets, returns>>,
           phase' = IF op \in Instruction THEN "emulate" ELSE "bailed"
    PROVE  Codes(inst) /\ inst.opcode = op
<1>1. /\ inst \in InstType /\ inst.opcode = op /\ inst.operands = <<>>
      /\ insts' = Append(insts, inst)
    BY ONLY Adds(inst, op, <<>>) DEF Adds
<1>2. WellFormed(inst)
    BY ONLY <1>1, ~is_jump(op), ~is_swap(op), ~stops(op), op \notin Instruction => ~inst.ignoreable, Tuples
    DEF WellFormed
<1> QED
    BY ONLY <1>1, <1>2, Takes(op), Args(op) = 0 \/ op = POP, UNCHANGED <<stack_sets, returns>>,
            phase' = IF op \in Instruction THEN "emulate" ELSE "bailed", Tuples
    DEF Codes

LEMMA PopIs ==
    ASSUME TypeBB, NEW op, EmulatePop(op)
    PROVE  \E inst : Codes(inst) /\ Effect(inst)
<1>1. Takes(op) /\ op = POP BY DEF EmulatePop
<1>2. op \in Byte /\ phase = "emulate" BY <1>1, TakesFacts
<1>3. /\ op \in Instruction /\ Args(op) = 1 /\ Ret(op) = 0
      /\ ~is_jump(op) /\ ~is_swap(op) /\ ~stops(op)
    BY ONLY <1>1, <1>2, Classes
<1>4. PICK inst : Adds(inst, op, <<>>) /\ inst.ignoreable
    <2>1. Emulated(op, 0, <<>>, TRUE) BY DEF EmulatePop
    <2>2. <<>> \in Seq(Operand) /\ 0 \in Word BY ONLY Tuples, WordFacts
    <2> QED BY ONLY <1>2, <2>1, <2>2, Added
<1>5. Codes(inst) /\ inst.opcode = op
    <2>1. UNCHANGED <<stack_sets, returns>> /\ phase' = IF op \in Instruction THEN "emulate" ELSE "bailed"
        BY <1>2, <1>3 DEF EmulatePop, Running
    <2> QED BY ONLY <1>1, <1>3, <1>4, <2>1, NamelessCodes
<1>6. Replaces(evm_stack, pops_at_end, 1, <<>>, evm_stack', pops_at_end')
    <2>1. evm_stack \in Seq(Operand) /\ pops_at_end \in Nat BY DEF TypeBB
    <2>2. CASE evm_stack # <<>>
        <3>1. evm_stack' = Tail(evm_stack) /\ pops_at_end' = pops_at_end BY <2>2 DEF EmulatePop
        <3>2. Tail(evm_stack) \in Seq(Operand) BY ONLY <2>1, <2>2, HeadTailProperties
        <3>3. <<>> \o Tail(evm_stack) = Tail(evm_stack) BY ONLY <3>2, ConcatEmptySeq
        <3> QED BY ONLY <2>1, <2>2, <3>1, <3>3, OneReplaced, Tuples
    <2>3. CASE evm_stack = <<>>
        <3>1. evm_stack' = evm_stack /\ pops_at_end' = pops_at_end + 1
            BY <2>3 DEF EmulatePop
        <3> QED BY ONLY <2>1, <2>3, <3>1, OnePopped
    <2> QED BY <2>2, <2>3
<1>7. TakesAndPuts(inst, 1, <<>>)
    <2>1. 1 \in Nat /\ 1 <= Args(op) /\ Len(<<>>) - 1 = Ret(op) - Args(op) BY ONLY <1>3, Tuples
    <2> QED BY ONLY <1>3, <1>5, <1>6, <2>1, Tuples DEF TakesAndPuts
<1> QED BY ONLY <1>5, <1>7 DEF Effect

LEMMA JumpdestIs ==
    ASSUME TypeBB, NEW op, EmulateJumpdest(op)
    PROVE  \E inst : Codes(inst) /\ Effect(inst)
<1>1. Takes(op) /\ op = JUMPDEST BY DEF EmulateJumpdest
<1>2. op \in Byte /\ phase = "emulate" BY <1>1, TakesFacts
<1>3. /\ op \in Instruction /\ Args(op) = 0 /\ Ret(op) = 0
      /\ ~is_jump(op) /\ ~is_swap(op) /\ ~stops(op) /\ op # POP
    <2>1. JUMPDEST # POP BY DEF POP, JUMPDEST
    <2> QED BY ONLY <1>1, <1>2, <2>1, Classes
<1>4. PICK inst : Adds(inst, op, <<>>) /\ inst.ignoreable
    <2>1. Emulated(op, 0, <<>>, TRUE) BY DEF EmulateJumpdest
    <2>2. <<>> \in Seq(Operand) /\ 0 \in Word BY ONLY Tuples, WordFacts
    <2> QED BY ONLY <1>2, <2>1, <2>2, Added
<1>5. Codes(inst) /\ inst.opcode = op
    <2>1. UNCHANGED <<stack_sets, returns>> /\ phase' = IF op \in Instruction THEN "emulate" ELSE "bailed"
        BY <1>2, <1>3 DEF EmulateJumpdest, Running
    <2> QED BY ONLY <1>1, <1>3, <1>4, <2>1, NamelessCodes
<1>6. Replaces(evm_stack, pops_at_end, 0, <<>>, evm_stack', pops_at_end')
    <2>1. UNCHANGED <<evm_stack, pops_at_end>> BY DEF EmulateJumpdest
    <2> QED BY ONLY <2>1, TypeBB, NothingReplaced DEF TypeBB
<1>7. TakesAndPuts(inst, 0, <<>>)
    <2>1. 0 \in Nat /\ 0 <= Args(op) /\ Len(<<>>) - 0 = Ret(op) - Args(op) BY ONLY <1>3, Tuples
    <2> QED BY ONLY <1>3, <1>5, <1>6, <2>1, Tuples DEF TakesAndPuts
<1> QED BY ONLY <1>5, <1>7 DEF Effect

LEMMA InvalidIs ==
    ASSUME TypeBB, NEW op, EmulateInvalid(op)
    PROVE  \E inst : Codes(inst) /\ Effect(inst)
<1>1. Takes(op) /\ op \notin Instruction BY DEF EmulateInvalid
<1>2. op \in Byte BY <1>1, TakesFacts
<1>3. Args(op) = 0 /\ ~is_jump(op) /\ ~is_swap(op) /\ ~stops(op)
    BY ONLY <1>1, <1>2, Classes
<1>4. PICK inst : Adds(inst, op, <<>>) /\ ~inst.ignoreable
    <2>1. Emulated(op, 0, <<>>, FALSE) BY DEF EmulateInvalid
    <2>2. <<>> \in Seq(Operand) /\ 0 \in Word BY ONLY Tuples, WordFacts
    <2> QED BY ONLY <1>2, <2>1, <2>2, Added
<1>5. Codes(inst) /\ inst.opcode = op
    <2>1. UNCHANGED <<stack_sets, returns>> /\ phase' = IF op \in Instruction THEN "emulate" ELSE "bailed"
        BY <1>1 DEF EmulateInvalid
    <2> QED BY ONLY <1>1, <1>3, <1>4, <2>1, NamelessCodes
<1>6. Stops(inst) BY <1>1, <1>5 DEF Stops, EmulateInvalid
<1> QED BY ONLY <1>5, <1>6 DEF Effect

LEMMA OperationIs ==
    ASSUME TypeBB, StackIsNamed, NEW op, EmulateOperation(op)
    PROVE  \E inst : Codes(inst) /\ Effect(inst)
<1> DEFINE os == OperandsOf(op)
           folded == Evaluated(op).is_constant
           r == Evaluated(op).ret
<1>1. Takes(op) /\ IsOperation(op) BY DEF EmulateOperation
<1>2. op \in Byte /\ phase = "emulate" BY <1>1, TakesFacts
<1>3. /\ op \in Instruction /\ ~is_swap(op) /\ op # POP
    BY ONLY <1>1 DEF IsOperation
<1>4. Args(op) \in Nat BY <1>2, ArgsInNat
<1>5. /\ os \in Seq(Operand) /\ Len(os) = Args(op)
      /\ \A k \in 1..Args(op) : os[k] = OperandAt(k - 1)
    <2>1. os = [k \in 1..Args(op) |-> OperandAt(k - 1)] BY DEF OperandsOf
    <2>2. ASSUME NEW k \in 1..Args(op) PROVE OperandAt(k - 1) \in Operand
        <3>1. k - 1 \in Nat BY <1>4
        <3> QED BY ONLY <3>1, TypeBB, StackIsNamed, OperandNamed DEF Named
    <2> HIDE DEF os
    <2>3. os \in [1..Args(op) -> Operand] BY ONLY <2>1, <2>2
    <2>4. os \in Seq(Operand) BY ONLY <1>4, <2>3, SeqDef
    <2> QED BY ONLY <1>4, <2>1, <2>4
<1>6. /\ folded <=> Fold(op, os) # NoFold
      /\ folded \in BOOLEAN
      /\ r = IF folded THEN <<Fold(op, os)>>
             ELSE IF Ret(op) = 1 THEN <<InstructionRef(Len(insts))>> ELSE <<>>
    BY ONLY <1>1, EvaluatedIs DEF Evaluated
<1>7. /\ evm_stack' = r \o SubSeq(evm_stack, NatMin(Args(op), Len(evm_stack)) + 1, Len(evm_stack))
      /\ pops_at_end' = pops_at_end + Args(op) - NatMin(Args(op), Len(evm_stack))
      /\ Emulated(op, 0, os, folded)
      /\ UNCHANGED <<stack_sets, returns, phase>>
    BY DEF EmulateOperation, Running
<1> HIDE DEF os, folded, r
<1>8. ASSUME folded
      PROVE  /\ op \in Arithmetic
             /\ \/ \E k \in 1..Len(os) : Fold(op, os) = os[k]
                \/ \E w \in Word : Fold(op, os) = Constant(w)
    <2>1. ASSUME NEW k \in 1..Len(os) PROVE IsConstant(os[k]) => os[k].n \in Word
        <3>1. k - 1 \in Nat /\ os[k] = OperandAt(k - 1) BY ONLY <1>4, <1>5, k \in 1..Len(os)
        <3> QED BY ONLY <3>1, TypeBB, StackIsNamed, OperandNamed DEF Named
    <2>2. Fold(op, os) # NoFold BY ONLY <1>6, <1>8
    <2> QED BY ONLY <1>5, <2>1, <2>2, FoldOf
<1>9. PICK inst : Adds(inst, op, os) /\ (inst.ignoreable <=> folded)
    <2>1. 0 \in Word BY WordFacts
    <2>2. folded \in BOOLEAN BY ONLY <1>6
    <2> QED BY ONLY <1>2, <1>5, <1>7, <2>1, <2>2, Added, Zenon
<1>10. /\ inst \in InstType /\ inst.opcode = op /\ inst.operands = os
       /\ insts' = Append(insts, inst)
    BY ONLY <1>9 DEF Adds
<1>11. WellFormed(inst)
    <2>1. inst.ignoreable => ~is_jump(op) /\ ~stops(op) BY ONLY <1>2, <1>8, <1>9, Classes
    <2> QED BY ONLY <1>3, <1>5, <1>10, <2>1 DEF WellFormed
<1>12. Codes(inst)
    <2>1. ASSUME NEW j \in 1..Len(os) PROVE \E pos \in Nat : pos < Args(op) /\ os[j] = OperandAt(pos)
        <3>1. j - 1 \in Nat /\ j - 1 < Args(op) BY ONLY <1>4, <1>5, j \in 1..Len(os)
        <3> QED BY ONLY <1>5, <3>1, j \in 1..Len(os)
    <2>2. Args(op) = 0 \/ \E j \in 1..Len(os) : os[j] = OperandAt(Args(op) - 1)
        <3>1. CASE Args(op) # 0
            <4>1. Args(op) \in 1..Args(op) BY ONLY <1>4, <3>1
            <4> QED BY ONLY <1>5, <4>1
        <3> QED BY <3>1
    <2> QED BY ONLY <1>1, <1>2, <1>3, <1>7, <1>10, <1>11, <2>1, <2>2 DEF Codes
<1>13. /\ r \in Seq(Operand) /\ Len(r) = Ret(op)
       /\ \A k \in 1..Len(r) : MayPut(inst, r[k])
    <2>1. \A k \in 1..1 : k = 1 OBVIOUS
    <2>2. ASSUME NEW o \in Operand, r = <<o>>, MayPut(inst, o), Ret(op) = 1
          PROVE  r \in Seq(Operand) /\ Len(r) = Ret(op) /\ \A k \in 1..Len(r) : MayPut(inst, r[k])
        <3>1. <<o>> \in Seq(Operand) /\ Len(<<o>>) = 1 /\ <<o>>[1] = o BY ONLY o \in Operand, Tuples
        <3>2. Len(r) = 1 /\ r[1] = o BY ONLY <2>2, <3>1
        <3>3. \A k \in 1..Len(r) : MayPut(inst, r[k]) BY ONLY <2>1, <2>2, <3>2
        <3> QED BY ONLY <2>2, <3>1, <3>2, <3>3
    <2>3. CASE folded
        <3>1. Ret(op) = 1 BY ONLY <1>8, <2>3, ArithmeticIsOperation
        <3>2. Fold(op, os) \in Operand /\ MayPut(inst, Fold(op, os))
            <4>1. CASE \E k \in 1..Len(os) : Fold(op, os) = os[k]
                <5>1. PICK k \in 1..Len(os) : Fold(op, os) = os[k] BY <4>1
                <5>2. os[k] \in Operand BY ONLY <1>5, k \in 1..Len(os), ElementOfSeq
                <5> QED BY ONLY <1>10, <5>1, <5>2 DEF MayPut
            <4>2. CASE \E w \in Word : Fold(op, os) = Constant(w)
                <5>1. PICK w \in Word : Fold(op, os) = Constant(w) BY <4>2
                <5>2. w \in Nat BY WordFacts
                <5>3. Constant(w) \in Operand BY ONLY <5>2 DEF Constant, Operand
                <5> QED BY ONLY <5>1, <5>3 DEF MayPut
            <4> QED BY ONLY <1>8, <2>3, <4>1, <4>2
        <3> QED BY ONLY <1>6, <2>2, <2>3, <3>1, <3>2
    <2>4. CASE ~folded /\ Ret(op) = 1
        <3>1. Len(insts) \in Nat BY LenProperties DEF TypeBB
        <3>2. InstructionRef(Len(insts)) \in Operand BY ONLY <3>1 DEF InstructionRef, Operand
        <3>3. MayPut(inst, InstructionRef(Len(insts))) BY ONLY <1>9, <1>10, <2>4 DEF MayPut
        <3> QED BY ONLY <1>6, <2>2, <2>4, <3>2, <3>3
    <2>5. CASE ~folded /\ Ret(op) # 1
        <3>1. r = <<>> BY ONLY <1>6, <2>5
        <3>2. Ret(op) = 0 BY ONLY <1>1, <2>5, RetOfOperation
        <3> QED BY ONLY <3>1, <3>2, Tuples
    <2> QED BY ONLY <2>3, <2>4, <2>5
<1>14. Replaces(evm_stack, pops_at_end, Args(op), r, evm_stack', pops_at_end')
    BY ONLY <1>7 DEF Replaces
<1>15. TakesAndPuts(inst, Args(op), r)
    <2>1. Len(r) - Args(op) = Ret(op) - Args(op) /\ Args(op) <= Args(op) BY ONLY <1>4, <1>13
    <2> QED BY ONLY <1>3, <1>4, <1>10, <1>13, <1>14, <2>1 DEF TakesAndPuts
<1> QED BY ONLY <1>12, <1>15 DEF Effect

LEMMA EmulateIs ==
    ASSUME TypeBB, StackIsNamed, NEW op, Emulate(op)
    PROVE  \E inst : Codes(inst) /\ Effect(inst)
BY PushIs, DupIs, SwapIs, SwapOutIs, SwapBelowIs, PopIs, JumpdestIs, OperationIs, InvalidIs
DEF Emulate

\* The finalizer's operands are what the emulation left.
LEMMA FinishIs ==
    ASSUME TypeBB, FinishBB
    PROVE  /\ phase = "emulate" /\ phase' = "done" /\ insts # <<>>
           /\ UNCHANGED <<insts, evm_stack>>
           /\ FrameLen \in Nat /\ Excess \in Nat /\ Missing \in Nat /\ pops_at_end \in Nat
           /\ Len(evm_stack) = FrameLen + Excess - Missing
           /\ Excess <= Len(evm_stack) /\ Missing <= FrameLen
           /\ Excess = 0 \/ Missing = 0
           /\ pops_at_end' = pops_at_end + Missing
           /\ returns' \in Seq(Operand) /\ Len(returns') = Excess
           /\ \A k \in 1..Excess : returns'[k] = evm_stack[k] /\ returns'[k] = OperandAt(k - 1)
           /\ \A s \in DOMAIN stack_sets' :
                 /\ s \in Nat /\ Missing <= s /\ s < FrameLen
                 /\ s - Missing + Excess \in Nat /\ s - Missing + Excess < Len(evm_stack)
                 /\ stack_sets'[s] = OperandAt(s - Missing + Excess)
                 /\ stack_sets'[s] # StackRef(s)
           /\ \A s \in Missing..(FrameLen - 1) :
                 s \in DOMAIN stack_sets' <=> OperandAt(s - Missing + Excess) # StackRef(s)
<1>1. /\ phase = "emulate" /\ phase' = "done" /\ insts # <<>>
      /\ UNCHANGED <<insts, evm_stack>> /\ pops_at_end' = pops_at_end + Missing
      /\ returns' = SubSeq(evm_stack, 1, Excess)
      /\ stack_sets' = [slot \in {s \in Missing..(FrameLen - 1) : LeftInSlot(s) # StackRef(s)}
                            |-> LeftInSlot(slot)]
    BY DEF FinishBB
<1>2. evm_stack \in Seq(Operand) /\ Len(evm_stack) \in Nat /\ pops_at_end \in Nat
    BY LenProperties DEF TypeBB
<1>3. FrameLen \in Nat BY FrameLenAssumption
<1>4. /\ Excess \in Nat /\ Missing \in Nat
      /\ Len(evm_stack) = FrameLen + Excess - Missing
      /\ Excess <= Len(evm_stack) /\ Missing <= FrameLen
      /\ Excess = 0 \/ Missing = 0
    BY ONLY <1>2, <1>3 DEF Excess, Missing
<1>5. /\ returns' \in Seq(Operand) /\ Len(returns') = Excess
      /\ \A k \in 1..Excess : returns'[k] = evm_stack[k] /\ returns'[k] = OperandAt(k - 1)
    <2>1. \A k \in 1..Excess : k \in 1..Len(evm_stack) BY ONLY <1>2, <1>4
    <2>2. \A k \in 1..Excess : evm_stack[k] \in Operand BY ONLY <1>2, <2>1, ElementOfSeq
    <2>3. 1 \in Int /\ Excess \in Int BY ONLY <1>4
    <2>4. /\ returns' \in Seq(Operand)
          /\ Len(returns') = IF 1 <= Excess THEN Excess - 1 + 1 ELSE 0
          /\ \A k \in 1..(Excess - 1 + 1) : returns'[k] = evm_stack[1 + k - 1]
        BY ONLY <1>1, <2>2, <2>3, SubSeqProperties
    <2>5. \A k \in 1..Excess : returns'[k] = evm_stack[k] BY ONLY <1>4, <2>4
    <2>6. ASSUME NEW k \in 1..Excess PROVE OperandAt(k - 1) = evm_stack[k]
        <3>1. k - 1 < Len(evm_stack) /\ k - 1 + 1 = k BY ONLY <1>2, <1>4, k \in 1..Excess
        <3> QED BY ONLY <3>1 DEF OperandAt
    <2> QED BY ONLY <1>4, <2>4, <2>5, <2>6
<1>6. ASSUME NEW s \in Missing..(FrameLen - 1)
      PROVE  /\ LeftInSlot(s) = OperandAt(s - Missing + Excess)
             /\ s \in Nat /\ Missing <= s /\ s < FrameLen
             /\ s - Missing + Excess \in Nat /\ s - Missing + Excess < Len(evm_stack)
    <2>1. /\ s \in Nat /\ Missing <= s /\ s < FrameLen
          /\ s - Missing + Excess \in Nat /\ s - Missing + Excess < Len(evm_stack)
        BY ONLY <1>2, <1>3, <1>4, s \in Missing..(FrameLen - 1)
    <2> QED BY <2>1 DEF LeftInSlot, OperandAt
<1>7. ASSUME NEW s \in DOMAIN stack_sets'
      PROVE  s \in Missing..(FrameLen - 1) /\ stack_sets'[s] = LeftInSlot(s) /\ LeftInSlot(s) # StackRef(s)
    BY ONLY <1>1, s \in DOMAIN stack_sets'
<1>8. ASSUME NEW s \in Missing..(FrameLen - 1)
      PROVE  s \in DOMAIN stack_sets' <=> LeftInSlot(s) # StackRef(s)
    BY ONLY <1>1, s \in Missing..(FrameLen - 1)
<1> QED BY ONLY <1>1, <1>2, <1>3, <1>4, <1>5, <1>6, <1>7, <1>8

-----------------------------------------------------------------------------
(* The names are inductive *)

LEMMA NamedLater ==
    ASSUME NEW is \in Seq(InstType), NEW inst \in InstType, NEW o,
           NEW b \in Nat, b <= Len(is), NEW c \in Nat, b <= c, Named(o, b, is)
    PROVE  Named(o, c, Append(is, inst))
<1>1. o \in Operand /\ DefinedIn(o, b, is) BY DEF Named
<1>2. DefinedIn(o, c, Append(is, inst))
    BY ONLY <1>1, is \in Seq(InstType), inst \in InstType, b \in Nat, b <= Len(is), c \in Nat,
            b <= c, AppendKeeps
<1> QED BY ONLY <1>2, Named(o, b, is) DEF Named

LEMMA Appended ==
    ASSUME TypeBB, NEW inst, Codes(inst)
    PROVE  /\ Len(insts) \in Nat /\ Len(insts') = Len(insts) + 1
           /\ insts' \in Seq(InstType) /\ insts'[Len(insts) + 1] = inst
           /\ \A k \in 1..Len(insts) : insts'[k] = insts[k]
           /\ inst \in InstType /\ insts' = Append(insts, inst)
<1>1. insts \in Seq(InstType) /\ inst \in InstType /\ insts' = Append(insts, inst)
    BY DEF TypeBB, Codes
<1> QED BY ONLY <1>1, AppendProperties, LenProperties

LEMMA CodeStaysNamed ==
    ASSUME TypeBB, StackIsNamed, CodeIsNamed, NEW inst, Codes(inst)
    PROVE  CodeIsNamed'
<1>1. /\ Len(insts) \in Nat /\ Len(insts') = Len(insts) + 1
      /\ insts \in Seq(InstType) /\ insts'[Len(insts) + 1] = inst
      /\ \A k \in 1..Len(insts) : insts'[k] = insts[k]
      /\ inst \in InstType /\ insts' = Append(insts, inst)
    BY Appended DEF TypeBB
<1>2. ASSUME NEW k \in 1..Len(insts')
      PROVE  /\ WellFormed(insts'[k])
             /\ \A j \in 1..Len(insts'[k].operands) : Named(insts'[k].operands[j], k - 1, insts')
    <2>1. CASE k \in 1..Len(insts)
        <3>1. insts'[k] = insts[k] BY ONLY <1>1, <2>1
        <3>2. k - 1 \in Nat /\ k - 1 <= Len(insts) /\ k - 1 <= k - 1 BY ONLY <1>1, <2>1
        <3>3. ASSUME NEW j \in 1..Len(insts[k].operands)
              PROVE  Named(insts[k].operands[j], k - 1, insts')
            <4>1. Named(insts[k].operands[j], k - 1, insts) BY ONLY <2>1, CodeIsNamed DEF CodeIsNamed
            <4> QED BY ONLY <1>1, <3>2, <4>1, NamedLater
        <3>4. WellFormed(insts[k]) BY ONLY <2>1, CodeIsNamed DEF CodeIsNamed
        <3> QED BY ONLY <3>1, <3>3, <3>4
    <2>2. CASE k = Len(insts) + 1
        <3>1. insts'[k] = inst /\ k - 1 = Len(insts) BY ONLY <1>1, <2>2
        <3>2. WellFormed(inst) BY DEF Codes
        <3>3. ASSUME NEW j \in 1..Len(inst.operands)
              PROVE  Named(inst.operands[j], Len(insts), insts')
            <4>1. PICK pos \in Nat : inst.operands[j] = OperandAt(pos) BY DEF Codes
            <4>2. Named(inst.operands[j], Len(insts), insts)
                BY ONLY <4>1, TypeBB, StackIsNamed, OperandNamed
            <4>3. Len(insts) <= Len(insts) BY ONLY <1>1
            <4> QED BY ONLY <1>1, <4>2, <4>3, NamedLater
        <3> QED BY ONLY <3>1, <3>2, <3>3
    <2> QED BY ONLY <1>1, <2>1, <2>2, k \in 1..Len(insts')
<1> QED BY ONLY <1>2 DEF CodeIsNamed

\* What an instruction puts on the stack has a name from then on.
LEMMA PutNamed ==
    ASSUME TypeBB, StackIsNamed, NEW inst, Codes(inst), NEW o, MayPut(inst, o)
    PROVE  Named(o, Len(insts) + 1, insts')
<1>1. /\ Len(insts) \in Nat /\ insts \in Seq(InstType) /\ insts'[Len(insts) + 1] = inst
      /\ inst \in InstType /\ insts' = Append(insts, inst)
    BY Appended DEF TypeBB
<1>2. Len(insts) <= Len(insts) /\ Len(insts) + 1 \in Nat /\ Len(insts) <= Len(insts) + 1
    BY ONLY <1>1
<1>3. CASE \E j \in 1..Len(inst.operands) : o = inst.operands[j]
    <2>1. PICK pos \in Nat : o = OperandAt(pos) BY <1>3 DEF Codes
    <2>2. Named(o, Len(insts), insts) BY ONLY <2>1, TypeBB, StackIsNamed, OperandNamed
    <2> QED BY ONLY <1>1, <1>2, <2>2, NamedLater
<1>4. CASE \E w \in Word : o = Constant(w)
    <2>1. PICK w \in Word : o = Constant(w) BY <1>4
    <2>2. w \in Nat BY WordFacts
    <2> QED BY ONLY <2>1, <2>2, w \in Word DEF Named, Constant, Operand, IsConstant, DefinedIn
<1>5. CASE o = InstructionRef(Len(insts)) /\ ~inst.ignoreable /\ Ret(inst.opcode) = 1
    <2>1. Len(insts) < Len(insts) + 1 BY ONLY <1>1
    <2> QED
        BY ONLY <1>1, <1>5, <2>1 DEF Named, InstructionRef, Operand, IsConstant, DefinedIn
<1> QED BY <1>3, <1>4, <1>5 DEF MayPut

\* What was on the stack keeps its name.
LEMMA OperandStaysNamed ==
    ASSUME TypeBB, StackIsNamed, NEW inst, Codes(inst), NEW pos \in Nat
    PROVE  Named(At(evm_stack, pops_at_end, pos), Len(insts) + 1, insts')
<1>1. /\ Len(insts) \in Nat /\ insts \in Seq(InstType)
      /\ inst \in InstType /\ insts' = Append(insts, inst)
    BY Appended DEF TypeBB
<1>2. Len(insts) <= Len(insts) /\ Len(insts) + 1 \in Nat /\ Len(insts) <= Len(insts) + 1
    BY ONLY <1>1
<1>3. Named(At(evm_stack, pops_at_end, pos), Len(insts), insts)
    BY OperandNamed, OperandAtIsAt
<1> QED BY ONLY <1>1, <1>2, <1>3, NamedLater

LEMMA StackStaysNamed ==
    ASSUME TypeBB, StackIsNamed, NEW inst, Codes(inst), Effect(inst)
    PROVE  StackIsNamed' /\ evm_stack' \in Seq(Operand) /\ pops_at_end' \in Nat
<1>1. evm_stack \in Seq(Operand) /\ pops_at_end \in Nat /\ Len(evm_stack) \in Nat
    BY LenProperties DEF TypeBB
<1>2. Len(insts') = Len(insts) + 1 BY Appended
<1>3. /\ evm_stack' \in Seq(Operand) /\ pops_at_end' \in Nat
      /\ \A pos \in Nat : pos < Len(evm_stack') =>
            Named(At(evm_stack', pops_at_end', pos), Len(insts) + 1, insts')
    <2>1. ASSUME NEW a, NEW r, TakesAndPuts(inst, a, r) PROVE <1>3
        <3>1. /\ a \in Nat /\ r \in Seq(Operand) /\ \A k \in 1..Len(r) : MayPut(inst, r[k])
              /\ Replaces(evm_stack, pops_at_end, a, r, evm_stack', pops_at_end')
            BY ONLY <2>1 DEF TakesAndPuts
        <3>2. /\ evm_stack' \in Seq(Operand) /\ pops_at_end' \in Nat
              /\ \A pos \in Nat :
                    At(evm_stack', pops_at_end', pos) =
                        IF pos < Len(r) THEN r[pos + 1] ELSE At(evm_stack, pops_at_end, pos - Len(r) + a)
            BY ONLY <1>1, <3>1, ReplaceTop
        <3>3. Len(r) \in Nat BY ONLY <3>1, LenProperties
        <3>4. ASSUME NEW pos \in Nat
              PROVE  Named(At(evm_stack', pops_at_end', pos), Len(insts) + 1, insts')
            <4>1. CASE pos < Len(r)
                <5>1. pos + 1 \in 1..Len(r) BY ONLY <3>3, <4>1, pos \in Nat
                <5>2. Named(r[pos + 1], Len(insts) + 1, insts') BY <3>1, <5>1, PutNamed
                <5> QED BY ONLY <3>2, <4>1, <5>2, pos \in Nat
            <4>2. CASE ~(pos < Len(r))
                <5>1. pos - Len(r) + a \in Nat BY ONLY <3>1, <3>3, <4>2, pos \in Nat
                <5>2. Named(At(evm_stack, pops_at_end, pos - Len(r) + a), Len(insts) + 1, insts')
                    BY <5>1, OperandStaysNamed
                <5> QED BY ONLY <3>2, <4>2, <5>2, pos \in Nat
            <4> QED BY ONLY <4>1, <4>2
        <3> QED BY ONLY <3>2, <3>4
    <2>2. CASE Exchanges(inst)
        <3>1. Swaps(evm_stack, swap_position(inst.opcode), evm_stack') /\ pops_at_end' = pops_at_end
            BY ONLY <2>2 DEF Exchanges
        <3>2. swap_position(inst.opcode) \in Nat BY <1>1, <3>1 DEF Swaps
        <3> DEFINE n == swap_position(inst.opcode)
        <3>3. n \in Nat /\ Swaps(evm_stack, n, evm_stack') BY <3>1, <3>2
        <3> HIDE DEF n
        <3>4. /\ evm_stack' \in Seq(Operand)
              /\ \A pos \in Nat :
                    At(evm_stack', pops_at_end, pos) =
                        IF pos = 0 THEN At(evm_stack, pops_at_end, n)
                        ELSE IF pos = n THEN At(evm_stack, pops_at_end, 0)
                        ELSE At(evm_stack, pops_at_end, pos)
            BY ONLY <1>1, <3>3, SwapDepths
        <3>5. \A pos \in Nat : Named(At(evm_stack, pops_at_end, pos), Len(insts) + 1, insts')
            BY OperandStaysNamed
        <3>6. \A pos \in Nat : Named(At(evm_stack', pops_at_end, pos), Len(insts) + 1, insts')
            BY ONLY <3>3, <3>4, <3>5
        <3> QED BY ONLY <1>1, <3>1, <3>4, <3>6
    <2>3. CASE Stops(inst)
        <3>1. evm_stack' = evm_stack /\ pops_at_end' = pops_at_end BY ONLY <2>3 DEF Stops
        <3>2. \A pos \in Nat : Named(At(evm_stack, pops_at_end, pos), Len(insts) + 1, insts')
            BY OperandStaysNamed
        <3> QED BY ONLY <1>1, <3>1, <3>2
    <2> QED BY <2>1, <2>2, <2>3 DEF Effect
<1>4. ASSUME NEW k \in 1..Len(evm_stack') PROVE Named(evm_stack'[k], Len(insts'), insts')
    <2>1. Len(evm_stack') \in Nat BY ONLY <1>3, LenProperties
    <2>2. k - 1 \in Nat /\ k - 1 < Len(evm_stack') /\ k - 1 + 1 = k
        BY ONLY <2>1, k \in 1..Len(evm_stack')
    <2>3. At(evm_stack', pops_at_end', k - 1) = evm_stack'[k] BY ONLY <2>2 DEF At
    <2> QED BY ONLY <1>2, <1>3, <2>2, <2>3
<1> QED BY ONLY <1>3, <1>4 DEF StackIsNamed

LEMMA LastEnds ==
    ASSUME TypeBB, OnlyLastEnds, NEW inst, Codes(inst)
    PROVE  OnlyLastEnds'
<1>1. /\ Len(insts) \in Nat /\ Len(insts') = Len(insts) + 1
      /\ insts \in Seq(InstType) /\ insts'[Len(insts) + 1] = inst
      /\ \A k \in 1..Len(insts) : insts'[k] = insts[k]
    BY Appended DEF TypeBB
<1>2. /\ Takes(inst.opcode) /\ phase = "emulate"
      /\ phase' = IF inst.opcode \in Instruction THEN "emulate" ELSE "bailed"
    BY DEF Codes, Takes
<1>3. insts # <<>> =>
          ~stops(insts[Len(insts)].opcode) /\ ~is_jump(insts[Len(insts)].opcode)
    BY ONLY <1>2 DEF Takes
<1>4. insts' # <<>> BY ONLY <1>1
<1>5. ASSUME NEW k \in 1..Len(insts')
      PROVE  /\ k < Len(insts') => /\ insts'[k].opcode \in Instruction
                                   /\ ~stops(insts'[k].opcode) /\ ~is_jump(insts'[k].opcode)
             /\ k = Len(insts') => (insts'[k].opcode \in Instruction <=> phase' # "bailed")
    <2>1. CASE k < Len(insts')
        <3>1. k \in 1..Len(insts) /\ k # Len(insts') BY ONLY <1>1, <2>1, k \in 1..Len(insts')
        <3>2. insts'[k] = insts[k] BY ONLY <1>1, <3>1
        <3>3. /\ k < Len(insts) => insts[k].opcode \in Instruction /\ ~stops(insts[k].opcode)
                                       /\ ~is_jump(insts[k].opcode)
              /\ k = Len(insts) => insts[k].opcode \in Instruction
            BY ONLY <1>2, <3>1, OnlyLastEnds DEF OnlyLastEnds
        <3>4. k < Len(insts) \/ (k = Len(insts) /\ insts # <<>>)
            BY ONLY <1>1, <3>1
        <3> QED BY ONLY <1>3, <3>1, <3>2, <3>3, <3>4
    <2>2. CASE ~(k < Len(insts'))
        <3>1. k = Len(insts) + 1 BY ONLY <1>1, <2>2, k \in 1..Len(insts')
        <3> QED BY ONLY <1>1, <1>2, <2>2, <3>1
    <2> QED BY ONLY <2>1, <2>2
<1> QED BY ONLY <1>4, <1>5 DEF OnlyLastEnds

LEMMA NamesEmulate ==
    ASSUME NamesInv, NEW op, Emulate(op)
    PROVE  NamesInv'
<1>1. TypeBB /\ CodeIsNamed /\ StackIsNamed /\ FinalizerIsNamed /\ OnlyLastEnds BY DEF NamesInv
<1>2. PICK inst : Codes(inst) /\ Effect(inst) BY ONLY <1>1, Emulate(op), EmulateIs
<1>3. StackIsNamed' /\ evm_stack' \in Seq(Operand) /\ pops_at_end' \in Nat
    BY ONLY <1>1, <1>2, StackStaysNamed
<1>4. CodeIsNamed' /\ OnlyLastEnds' BY ONLY <1>1, <1>2, CodeStaysNamed, LastEnds
<1>5. insts' \in Seq(InstType) BY ONLY <1>1, <1>2, Appended
<1>6. /\ UNCHANGED <<stack_sets, returns>> /\ phase = "emulate"
      /\ phase' \in {"emulate", "bailed"}
    BY ONLY <1>2 DEF Codes, Takes
<1>7. TypeBB' BY ONLY <1>1, <1>3, <1>5, <1>6 DEF TypeBB
<1>8. FinalizerIsNamed'
    <2>1. DOMAIN stack_sets = {} /\ returns = <<>> BY ONLY <1>1, <1>6 DEF FinalizerIsNamed
    <2> QED BY ONLY <1>6, <2>1, Tuples DEF FinalizerIsNamed
<1> QED BY ONLY <1>3, <1>4, <1>7, <1>8 DEF NamesInv

LEMMA NamesFinish ==
    ASSUME NamesInv, FinishBB
    PROVE  NamesInv'
<1>1. TypeBB /\ CodeIsNamed /\ StackIsNamed /\ FinalizerIsNamed /\ OnlyLastEnds BY DEF NamesInv
<1>2. /\ phase = "emulate" /\ phase' = "done" /\ insts # <<>>
      /\ UNCHANGED <<insts, evm_stack>>
      /\ Missing \in Nat /\ pops_at_end \in Nat /\ pops_at_end' = pops_at_end + Missing
      /\ returns' \in Seq(Operand) /\ Len(returns') = Excess /\ Excess \in Nat
      /\ \A k \in 1..Excess : returns'[k] = OperandAt(k - 1)
      /\ \A s \in DOMAIN stack_sets' :
            /\ s \in Nat /\ s - Missing + Excess \in Nat
            /\ stack_sets'[s] = OperandAt(s - Missing + Excess)
    BY ONLY <1>1, FinishBB, FinishIs
<1>3. \A pos \in Nat : Named(OperandAt(pos), Len(insts), insts) BY ONLY <1>1, OperandNamed
<1>4. /\ \A s \in DOMAIN stack_sets' : Named(stack_sets'[s], Len(insts), insts)
      /\ \A k \in 1..Len(returns') : Named(returns'[k], Len(insts), insts)
    <2>1. \A k \in 1..Excess : k - 1 \in Nat BY ONLY <1>2
    <2> QED BY ONLY <1>2, <1>3, <2>1
<1>5. FinalizerIsNamed' BY ONLY <1>2, <1>4 DEF FinalizerIsNamed
<1>6. \A s \in DOMAIN stack_sets' : s \in Nat /\ stack_sets'[s] \in Operand
    BY ONLY <1>2, <1>4 DEF Named
<1>7. pops_at_end' \in Nat BY ONLY <1>2
<1>8. DOMAIN stack_sets' \subseteq Nat BY ONLY <1>6
<1>9. TypeBB' BY ONLY <1>1, <1>2, <1>6, <1>7, <1>8 DEF TypeBB
<1>10. CodeIsNamed' BY ONLY <1>1, <1>2 DEF CodeIsNamed
<1>11. StackIsNamed' BY ONLY <1>1, <1>2 DEF StackIsNamed
<1>12. OnlyLastEnds' BY ONLY <1>1, <1>2 DEF OnlyLastEnds
<1> QED BY ONLY <1>5, <1>9, <1>10, <1>11, <1>12 DEF NamesInv

LEMMA FrameSlots ==
    ASSUME InitBB
    PROVE  /\ evm_stack \in Seq(Operand) /\ Len(evm_stack) = FrameLen /\ pops_at_end = 0
           /\ \A pos \in Nat : At(evm_stack, pops_at_end, pos) = StackRef(pos)
<1>1. evm_stack = [k \in 1..FrameLen |-> StackRef(k - 1)] /\ pops_at_end = 0 BY DEF InitBB
<1>2. FrameLen \in Nat BY FrameLenAssumption
<1>3. evm_stack \in Seq(Operand) /\ Len(evm_stack) = FrameLen
    <2>1. \A k \in 1..FrameLen : StackRef(k - 1) \in Operand BY ONLY <1>2 DEF StackRef, Operand
    <2>2. evm_stack \in [1..FrameLen -> Operand] BY ONLY <1>1, <2>1
    <2>3. evm_stack \in Seq(Operand) BY ONLY <1>2, <2>2, SeqDef
    <2> QED BY ONLY <1>1, <1>2, <2>3
<1>4. ASSUME NEW pos \in Nat PROVE At(evm_stack, pops_at_end, pos) = StackRef(pos)
    <2>1. CASE pos < FrameLen
        <3>1. pos + 1 \in 1..FrameLen /\ pos + 1 - 1 = pos BY ONLY <1>2, <2>1, pos \in Nat
        <3>2. evm_stack[pos + 1] = StackRef(pos) BY ONLY <1>1, <3>1
        <3> QED BY ONLY <1>3, <2>1, <3>2 DEF At
    <2>2. CASE ~(pos < FrameLen)
        <3>1. pos - FrameLen + FrameLen + 0 = pos BY ONLY <1>2, pos \in Nat
        <3> QED BY ONLY <1>1, <1>3, <2>2, <3>1 DEF At
    <2> QED BY ONLY <2>1, <2>2
<1> QED BY <1>1, <1>3, <1>4

LEMMA NamesInit == InitBB => NamesInv
<1> SUFFICES ASSUME InitBB PROVE NamesInv OBVIOUS
<1>1. /\ insts = <<>> /\ stack_sets = <<>> /\ returns = <<>> /\ phase = "emulate"
    BY DEF InitBB
<1>2. /\ evm_stack \in Seq(Operand) /\ Len(evm_stack) = FrameLen /\ pops_at_end = 0
      /\ \A pos \in Nat : At(evm_stack, pops_at_end, pos) = StackRef(pos)
    BY FrameSlots
<1>3. DOMAIN stack_sets = {} BY ONLY <1>1
<1>4. insts \in Seq(InstType) /\ Len(insts) = 0 BY ONLY <1>1, EmptySeq
<1>5. \A k : k \notin 1..0 OBVIOUS
<1>6. TypeBB BY ONLY <1>1, <1>2, <1>3, <1>4, Tuples DEF TypeBB
<1>7. CodeIsNamed /\ OnlyLastEnds BY ONLY <1>1, <1>4, <1>5 DEF CodeIsNamed, OnlyLastEnds
<1>8. FinalizerIsNamed BY ONLY <1>1, <1>3, Tuples DEF FinalizerIsNamed
<1>9. StackIsNamed
    <2>1. ASSUME NEW k \in 1..Len(evm_stack) PROVE Named(evm_stack[k], Len(insts), insts)
        <3>1. k - 1 \in Nat /\ k - 1 < Len(evm_stack) /\ k - 1 + 1 = k
            BY ONLY <1>2, FrameLenAssumption, k \in 1..Len(evm_stack)
        <3>2. At(evm_stack, pops_at_end, k - 1) = evm_stack[k] BY ONLY <3>1 DEF At
        <3>3. evm_stack[k] = StackRef(k - 1) BY ONLY <1>2, <3>1, <3>2
        <3> QED BY ONLY <3>1, <3>3 DEF Named, StackRef, Operand, IsConstant, DefinedIn
    <2> QED BY ONLY <2>1 DEF StackIsNamed
<1> QED BY ONLY <1>6, <1>7, <1>8, <1>9 DEF NamesInv

LEMMA NamesNext == NamesInv /\ [NextBB]_bbVars => NamesInv'
<1> SUFFICES ASSUME NamesInv, [NextBB]_bbVars PROVE NamesInv' OBVIOUS
<1>1. CASE UNCHANGED bbVars
    BY <1>1 DEF bbVars, NamesInv, TypeBB, CodeIsNamed, StackIsNamed, FinalizerIsNamed, OnlyLastEnds
<1> QED BY <1>1, NamesEmulate, NamesFinish DEF NextBB

\* Whatever block is emulated, every operand that is printed is a word, a slot
\* or the result of an instruction that is printed before and has one.
THEOREM EverythingIsNamed == SpecBB => []NamesInv
<1> QED BY NamesInit, NamesNext, PTL DEF SpecBB

-----------------------------------------------------------------------------
(* The heights are inductive *)

LEMMA ArgsOfInst ==
    ASSUME NEW inst \in InstType
    PROVE  inst.opcode \in Byte /\ Args(inst.opcode) \in Nat /\ Ret(inst.opcode) \in Nat
<1>1. inst.opcode \in Byte BY DEF InstType
<1> QED BY <1>1, Classes

\* The heights after one more instruction.
LEMMA HeightsAppended ==
    ASSUME TypeBB, NEW inst, Codes(inst), NEW n \in Nat, NEW h, AreHeights(h, insts', n)
    PROVE  /\ AreHeights(h, insts, n)
           /\ h[Len(insts')] = h[Len(insts)] + Ret(inst.opcode) - Args(inst.opcode)
           /\ Deep(h, insts') <=> Deep(h, insts) /\ Args(inst.opcode) <= h[Len(insts)]
           /\ OnStack(insts', n) <=> /\ OnStack(insts, n)
                                     /\ \A j \in 1..Len(inst.operands) :
                                           inst.operands[j].kind = "StackRef" => inst.operands[j].n < n
<1>1. /\ Len(insts) \in Nat /\ Len(insts') = Len(insts) + 1
      /\ insts'[Len(insts) + 1] = inst
      /\ \A k \in 1..Len(insts) : insts'[k] = insts[k]
    BY Appended
<1>2. /\ h[0] = n
      /\ \A k \in 1..Len(insts') : h[k] = h[k - 1] + Ret(insts'[k].opcode) - Args(insts'[k].opcode)
    BY DEF AreHeights
<1>3. /\ \A k \in 1..Len(insts) : k \in 1..Len(insts')
      /\ Len(insts) + 1 \in 1..Len(insts') /\ Len(insts) + 1 - 1 = Len(insts)
      /\ \A k \in 1..Len(insts') : k \in 1..Len(insts) \/ k = Len(insts) + 1
    BY ONLY <1>1
<1>4. AreHeights(h, insts, n) BY ONLY <1>1, <1>2, <1>3 DEF AreHeights
<1>5. h[Len(insts')] = h[Len(insts)] + Ret(inst.opcode) - Args(inst.opcode)
    BY ONLY <1>1, <1>2, <1>3
<1>6. Deep(h, insts') <=> Deep(h, insts) /\ Args(inst.opcode) <= h[Len(insts)]
    <2>1. ASSUME Deep(h, insts')
          PROVE  Deep(h, insts) /\ Args(inst.opcode) <= h[Len(insts)]
        <3>1. \A k \in 1..Len(insts') : Args(insts'[k].opcode) <= h[k - 1] BY <2>1 DEF Deep
        <3>2. Args(inst.opcode) <= h[Len(insts)] BY ONLY <1>1, <1>3, <3>1
        <3>3. \A k \in 1..Len(insts) : Args(insts[k].opcode) <= h[k - 1]
            BY ONLY <1>1, <1>3, <3>1
        <3> QED BY ONLY <3>2, <3>3 DEF Deep
    <2>2. ASSUME Deep(h, insts), Args(inst.opcode) <= h[Len(insts)]
          PROVE  Deep(h, insts')
        <3>1. \A k \in 1..Len(insts) : Args(insts[k].opcode) <= h[k - 1] BY <2>2 DEF Deep
        <3>2. ASSUME NEW k \in 1..Len(insts') PROVE Args(insts'[k].opcode) <= h[k - 1]
            <4>1. CASE k \in 1..Len(insts) BY ONLY <1>1, <3>1, <4>1
            <4>2. CASE k = Len(insts) + 1
                <5>1. insts'[k] = inst /\ k - 1 = Len(insts) BY ONLY <1>1, <4>2
                <5> QED BY ONLY <2>2, <5>1
            <4> QED BY ONLY <1>3, <4>1, <4>2, k \in 1..Len(insts')
        <3> QED BY ONLY <3>2 DEF Deep
    <2> QED BY <2>1, <2>2
<1>7. OnStack(insts', n) <=> /\ OnStack(insts, n)
                             /\ \A j \in 1..Len(inst.operands) :
                                   inst.operands[j].kind = "StackRef" => inst.operands[j].n < n
    BY ONLY <1>1, <1>3 DEF OnStack
<1> QED BY ONLY <1>4, <1>5, <1>6, <1>7

\* The height the emulation stands for, moved by what an instruction takes
\* and puts.
LEMMA DepthMoves ==
    ASSUME TypeBB, NEW inst, Codes(inst), Effect(inst), inst.opcode \in Instruction, NEW n \in Nat
    PROVE  /\ DepthOf(evm_stack, pops_at_end, n) \in Int
           /\ DepthOf(evm_stack', pops_at_end', n) =
                  DepthOf(evm_stack, pops_at_end, n) + Ret(inst.opcode) - Args(inst.opcode)
<1>1. evm_stack \in Seq(Operand) /\ pops_at_end \in Nat /\ Len(evm_stack) \in Nat
    BY LenProperties DEF TypeBB
<1>2. inst \in InstType BY DEF Codes
<1>3. Args(inst.opcode) \in Nat /\ Ret(inst.opcode) \in Nat BY ONLY <1>2, ArgsOfInst
<1>4. DepthOf(evm_stack, pops_at_end, n) \in Int
    BY ONLY <1>1, n \in Nat, FrameLenAssumption DEF DepthOf
<1>5. ASSUME NEW a, NEW r, TakesAndPuts(inst, a, r)
      PROVE  DepthOf(evm_stack', pops_at_end', n) =
                 DepthOf(evm_stack, pops_at_end, n) + Ret(inst.opcode) - Args(inst.opcode)
    <2>1. /\ a \in Nat /\ r \in Seq(Operand)
          /\ Len(r) - a = Ret(inst.opcode) - Args(inst.opcode)
          /\ Replaces(evm_stack, pops_at_end, a, r, evm_stack', pops_at_end')
        BY ONLY <1>5 DEF TakesAndPuts
    <2>2. /\ evm_stack' \in Seq(Operand) /\ pops_at_end' \in Nat
          /\ Len(evm_stack') - pops_at_end' = Len(evm_stack) - pops_at_end + Len(r) - a
        BY ONLY <1>1, <2>1, ReplaceTop
    <2>3. Len(r) \in Nat /\ Len(evm_stack') \in Nat BY ONLY <2>1, <2>2, LenProperties
    <2>4. /\ Len(evm_stack') - pops_at_end' = Len(evm_stack) - pops_at_end + Len(r) - a
          /\ pops_at_end' \in Nat
        BY ONLY <2>2
    <2>5. Len(r) - a = Ret(inst.opcode) - Args(inst.opcode) /\ a \in Nat BY ONLY <2>1
    <2> QED BY ONLY <1>1, <1>3, <2>3, <2>4, <2>5, n \in Nat, FrameLenAssumption DEF DepthOf
<1>6. ASSUME Exchanges(inst)
      PROVE  DepthOf(evm_stack', pops_at_end', n) =
                 DepthOf(evm_stack, pops_at_end, n) + Ret(inst.opcode) - Args(inst.opcode)
    <2>1. /\ is_swap(inst.opcode) /\ pops_at_end' = pops_at_end
          /\ Swaps(evm_stack, swap_position(inst.opcode), evm_stack')
        BY ONLY <1>6 DEF Exchanges
    <2>2. Len(evm_stack') = Len(evm_stack) BY ONLY <1>1, <2>1, SwapDepths
    <2>3. inst.opcode \in Byte BY ONLY <1>2, ArgsOfInst
    <2>4. Ret(inst.opcode) = Args(inst.opcode) BY ONLY <2>1, <2>3, Classes
    <2>5. DepthOf(evm_stack', pops_at_end', n) = DepthOf(evm_stack, pops_at_end, n)
        BY ONLY <2>1, <2>2 DEF DepthOf
    <2> QED BY ONLY <1>3, <1>4, <2>4, <2>5
<1> QED BY ONLY <1>4, <1>5, <1>6, Effect(inst), inst.opcode \in Instruction DEF Effect, Stops

\* A block that is deep enough names no word below its stack.
LEMMA NamesStack ==
    ASSUME TypeBB, NEW inst, Codes(inst), NEW n \in Nat,
           Sound(evm_stack, pops_at_end, n, Len(insts)),
           Args(inst.opcode) <= DepthOf(evm_stack, pops_at_end, n)
    PROVE  \A j \in 1..Len(inst.operands) : Refers(inst.operands[j], n, Len(insts))
<1>1. evm_stack \in Seq(Operand) /\ pops_at_end \in Nat /\ Len(evm_stack) \in Nat
    BY LenProperties DEF TypeBB
<1>2. inst \in InstType BY DEF Codes
<1>3. Args(inst.opcode) \in Nat BY ONLY <1>2, ArgsOfInst
<1>4. DepthOf(evm_stack, pops_at_end, n) \in Int
    BY ONLY <1>1, n \in Nat, FrameLenAssumption DEF DepthOf
<1>5. ASSUME NEW j \in 1..Len(inst.operands)
      PROVE  Refers(inst.operands[j], n, Len(insts))
    <2>1. PICK pos \in Nat : pos < Args(inst.opcode) /\ inst.operands[j] = OperandAt(pos)
        BY DEF Codes
    <2>2. pos < DepthOf(evm_stack, pops_at_end, n)
        BY ONLY <1>3, <1>4, <2>1, pos \in Nat,
                Args(inst.opcode) <= DepthOf(evm_stack, pops_at_end, n)
    <2>3. Refers(At(evm_stack, pops_at_end, pos), n, Len(insts))
        BY ONLY <2>2, pos \in Nat, Sound(evm_stack, pops_at_end, n, Len(insts)) DEF Sound
    <2> QED BY ONLY <2>1, <2>3, OperandAtIsAt
<1> QED BY <1>5

\* What it puts makes sense after it.
LEMMA PutRefers ==
    ASSUME TypeBB, NEW inst, Codes(inst), NEW n \in Nat,
           Sound(evm_stack, pops_at_end, n, Len(insts)),
           Args(inst.opcode) <= DepthOf(evm_stack, pops_at_end, n),
           NEW o, MayPut(inst, o)
    PROVE  Refers(o, n, Len(insts) + 1)
<1>1. Len(insts) \in Nat BY LenProperties DEF TypeBB
<1>2. CASE \E j \in 1..Len(inst.operands) : o = inst.operands[j]
    <2>1. Refers(o, n, Len(insts)) BY <1>2, NamesStack
    <2> QED BY ONLY <1>1, <2>1 DEF Refers, Operand
<1>3. CASE \E w \in Word : o = Constant(w)
    <2>1. PICK w \in Word : o = Constant(w) BY <1>3
    <2>2. w \in Nat BY WordFacts
    <2> QED BY ONLY <2>1, <2>2, w \in Word DEF Refers, Constant, Operand, IsConstant
<1>4. CASE o = InstructionRef(Len(insts))
    <2>1. Len(insts) < Len(insts) + 1 BY ONLY <1>1
    <2> QED BY ONLY <1>1, <1>4, <2>1 DEF Refers, InstructionRef, Operand, IsConstant
<1> QED BY <1>2, <1>3, <1>4 DEF MayPut

LEMMA DeepStays ==
    ASSUME TypeBB, NEW inst, Codes(inst), Effect(inst), inst.opcode \in Instruction, NEW n \in Nat,
           Sound(evm_stack, pops_at_end, n, Len(insts)), Untouched(evm_stack, pops_at_end, n),
           Args(inst.opcode) <= DepthOf(evm_stack, pops_at_end, n)
    PROVE  /\ Sound(evm_stack', pops_at_end', n, Len(insts) + 1)
           /\ Untouched(evm_stack', pops_at_end', n)
<1>1. evm_stack \in Seq(Operand) /\ pops_at_end \in Nat /\ Len(insts) \in Nat
    BY LenProperties DEF TypeBB
<1>2. inst \in InstType BY DEF Codes
<1>3. Args(inst.opcode) \in Nat BY ONLY <1>2, ArgsOfInst
<1>4. DepthOf(evm_stack, pops_at_end, n) \in Int
    <2>1. Len(evm_stack) \in Nat BY <1>1, LenProperties
    <2> QED BY ONLY <1>1, <2>1, n \in Nat, FrameLenAssumption DEF DepthOf
<1>5. Len(insts) + 1 \in Nat /\ Len(insts) <= Len(insts) + 1 BY ONLY <1>1
<1>6. ASSUME NEW a, NEW r, TakesAndPuts(inst, a, r)
      PROVE  /\ Sound(evm_stack', pops_at_end', n, Len(insts) + 1)
             /\ Untouched(evm_stack', pops_at_end', n)
    <2>1. /\ a \in Nat /\ r \in Seq(Operand) /\ a <= Args(inst.opcode)
          /\ \A k \in 1..Len(r) : MayPut(inst, r[k])
          /\ Replaces(evm_stack, pops_at_end, a, r, evm_stack', pops_at_end')
        BY ONLY <1>6 DEF TakesAndPuts
    <2>2. a <= DepthOf(evm_stack, pops_at_end, n)
        BY ONLY <1>3, <1>4, <2>1, Args(inst.opcode) <= DepthOf(evm_stack, pops_at_end, n)
    <2>3. \A k \in 1..Len(r) : Refers(r[k], n, Len(insts) + 1) BY <2>1, PutRefers
    <2>4. Sound(evm_stack', pops_at_end', n, Len(insts) + 1)
        BY ONLY <1>1, <1>5, <2>1, <2>2, <2>3, n \in Nat, SoundAfter,
                Sound(evm_stack, pops_at_end, n, Len(insts))
    <2>5. Untouched(evm_stack', pops_at_end', n)
        BY ONLY <1>1, <2>1, <2>2, n \in Nat, UntouchedAfter, Untouched(evm_stack, pops_at_end, n)
    <2> QED BY ONLY <2>4, <2>5
<1>7. ASSUME Exchanges(inst)
      PROVE  /\ Sound(evm_stack', pops_at_end', n, Len(insts) + 1)
             /\ Untouched(evm_stack', pops_at_end', n)
    <2>1. /\ is_swap(inst.opcode) /\ pops_at_end' = pops_at_end
          /\ Swaps(evm_stack, swap_position(inst.opcode), evm_stack')
        BY ONLY <1>7 DEF Exchanges
    <2>2. inst.opcode \in Byte BY ONLY <1>2, ArgsOfInst
    <2>3. swap_position(inst.opcode) \in Nat /\ Args(inst.opcode) = swap_position(inst.opcode) + 1
        BY ONLY <2>1, <2>2, Classes
    <2>4. swap_position(inst.opcode) < DepthOf(evm_stack, pops_at_end, n)
        BY ONLY <1>4, <2>3, Args(inst.opcode) <= DepthOf(evm_stack, pops_at_end, n)
    <2>5. Sound(evm_stack', pops_at_end, n, Len(insts) + 1)
        BY ONLY <1>1, <1>5, <2>1, <2>4, n \in Nat, SwapSound,
                Sound(evm_stack, pops_at_end, n, Len(insts))
    <2>6. Untouched(evm_stack', pops_at_end, n)
        BY ONLY <1>1, <2>1, <2>4, n \in Nat, UntouchedBySwap, Untouched(evm_stack, pops_at_end, n)
    <2> QED BY ONLY <2>1, <2>5, <2>6
<1> QED BY ONLY <1>6, <1>7, Effect(inst), inst.opcode \in Instruction DEF Effect, Stops

\* The first instruction that the stack is too short for names a word that is
\* not there, or pops it.
LEMMA GetsLost ==
    ASSUME TypeBB, NEW inst, Codes(inst), Effect(inst), inst.opcode \in Instruction, NEW n \in Nat,
           Sound(evm_stack, pops_at_end, n, Len(insts)), Untouched(evm_stack, pops_at_end, n),
           ~(Args(inst.opcode) <= DepthOf(evm_stack, pops_at_end, n)),
           \A j \in 1..Len(inst.operands) :
               inst.operands[j].kind = "StackRef" => inst.operands[j].n < n
    PROVE  Lost(evm_stack', pops_at_end', n)
<1> DEFINE d == DepthOf(evm_stack, pops_at_end, n)
           d2 == DepthOf(evm_stack', pops_at_end', n)
<1>1. evm_stack \in Seq(Operand) /\ pops_at_end \in Nat /\ Len(evm_stack) \in Nat
    BY LenProperties DEF TypeBB
<1>2. inst \in InstType BY DEF Codes
<1>3. Args(inst.opcode) \in Nat /\ Ret(inst.opcode) \in Nat /\ inst.opcode \in Byte
    BY ONLY <1>2, ArgsOfInst
<1>4. d \in Int /\ d >= 0
    <2>1. d \in Int BY ONLY <1>1, n \in Nat, FrameLenAssumption DEF DepthOf
    <2> QED BY ONLY <2>1, Sound(evm_stack, pops_at_end, n, Len(insts)) DEF Sound
<1>5. d2 = d + Ret(inst.opcode) - Args(inst.opcode) BY DepthMoves
<1>6. ~(Args(inst.opcode) <= d) OBVIOUS
<1>7. CASE inst.opcode = POP
    <2>1. Args(inst.opcode) = 1 /\ Ret(inst.opcode) = 0 BY ONLY <1>3, <1>7, Classes
    <2>2. d2 = -1 BY ONLY <1>4, <1>5, <1>6, <2>1
    <2>3. ~Exchanges(inst) BY ONLY <1>7 DEF Exchanges, is_swap, SWAP1, SWAP16, POP
    <2>4. PICK a, r : TakesAndPuts(inst, a, r)
        BY ONLY <2>3, Effect(inst), inst.opcode \in Instruction DEF Effect, Stops
    <2>5. evm_stack' \in Seq(Operand) /\ pops_at_end' \in Nat
        BY ONLY <1>1, <2>4, ReplaceTop DEF TakesAndPuts
    <2>6. Len(evm_stack') \in Nat BY ONLY <2>5, LenProperties
    <2>7. Len(evm_stack') - pops_at_end' + n - FrameLen = -1 BY ONLY <2>2 DEF DepthOf
    <2>8. n < FrameLen + pops_at_end' /\ d2 < 0
        <3>1. d2 < 0 BY ONLY <2>2
        <3>2. pops_at_end' \in Nat BY ONLY <2>5
        <3>3. \A l \in Nat, q \in Nat, f \in Nat : l - q + n - f = -1 => n < f + q
            BY ONLY n \in Nat
        <3>4. FrameLen \in Nat BY FrameLenAssumption
        <3>5. n < FrameLen + pops_at_end' BY ONLY <2>6, <2>7, <3>2, <3>3, <3>4
        <3> QED BY ONLY <3>1, <3>5
    <2> QED BY ONLY <2>8 DEF Lost
<1>8. CASE inst.opcode # POP
    <2>1. Args(inst.opcode) # 0
        <3> HIDE DEF d
        <3> QED BY ONLY <1>4, <1>6
    <2>2. PICK j \in 1..Len(inst.operands) : inst.operands[j] = OperandAt(Args(inst.opcode) - 1)
        BY ONLY <1>8, <2>1, Codes(inst) DEF Codes
    <2>3. PICK pos \in Nat : pos = Args(inst.opcode) - 1
        <3>1. Args(inst.opcode) - 1 \in Nat BY ONLY <1>3, <2>1
        <3> QED BY ONLY <3>1
    <2>4. pos >= d
        <3> HIDE DEF d
        <3> QED BY ONLY <1>3, <1>4, <1>6, <2>3
    <2>5. inst.operands[j] = StackRef(pos - d + n)
        BY ONLY <2>2, <2>3, <2>4, pos \in Nat, OperandAtIsAt, Untouched(evm_stack, pops_at_end, n)
        DEF Untouched
    <2>6. ~(pos - d + n < n)
        <3> HIDE DEF d
        <3> QED BY ONLY <1>4, <2>4, pos \in Nat, n \in Nat
    <2>7. FALSE
        <3> HIDE DEF d
        <3> QED
            BY ONLY <2>5, <2>6, j \in 1..Len(inst.operands),
                    \A i \in 1..Len(inst.operands) :
                        inst.operands[i].kind = "StackRef" => inst.operands[i].n < n
            DEF StackRef
    <2> QED BY <2>7
<1> QED BY <1>7, <1>8

\* A word that was lost is never found again.
LEMMA StaysLost ==
    ASSUME TypeBB, NEW inst, Codes(inst), Effect(inst), inst.opcode \in Instruction, NEW n \in Nat,
           Lost(evm_stack, pops_at_end, n),
           \A j \in 1..Len(inst.operands) :
               inst.operands[j].kind = "StackRef" => inst.operands[j].n < n
    PROVE  Lost(evm_stack', pops_at_end', n)
<1> DEFINE s == evm_stack
           p == pops_at_end
           d == DepthOf(s, p, n)
           s2 == evm_stack'
           p2 == pops_at_end'
           d2 == DepthOf(s2, p2, n)
<1>1. s \in Seq(Operand) /\ p \in Nat /\ Len(s) \in Nat BY LenProperties DEF TypeBB
<1>2. d \in Int BY ONLY <1>1, n \in Nat, FrameLenAssumption DEF DepthOf
<1>3. n < FrameLen + p /\ (p = 0 => d < 0 \/ At(s, p, d) # StackRef(n)) BY DEF Lost
<1>4. ASSUME NEW o, MayPut(inst, o) PROVE o # StackRef(n)
    <2>1. CASE \E j \in 1..Len(inst.operands) : o = inst.operands[j]
        <3>1. o.kind = "StackRef" => o.n < n BY <2>1
        <3> QED BY ONLY <3>1, n \in Nat DEF StackRef
    <2>2. CASE \E w \in Word : o = Constant(w) BY ONLY <2>2 DEF Constant, StackRef
    <2>3. CASE o = InstructionRef(Len(insts)) BY ONLY <2>3 DEF InstructionRef, StackRef
    <2> QED BY <1>4, <2>1, <2>2, <2>3 DEF MayPut
<1>5. ASSUME NEW a, NEW r, TakesAndPuts(inst, a, r)
      PROVE  Lost(s2, p2, n)
    <2>1. /\ a \in Nat /\ r \in Seq(Operand) /\ \A k \in 1..Len(r) : MayPut(inst, r[k])
          /\ Replaces(s, p, a, r, s2, p2)
        BY ONLY <1>5 DEF TakesAndPuts
    <2>2. /\ s2 \in Seq(Operand) /\ p2 \in Nat
          /\ Len(s2) - p2 = Len(s) - p + Len(r) - a
          /\ \A pos \in Nat :
                At(s2, p2, pos) = IF pos < Len(r) THEN r[pos + 1] ELSE At(s, p, pos - Len(r) + a)
        BY ONLY <1>1, <2>1, ReplaceTop
    <2>3. Len(r) \in Nat /\ Len(s2) \in Nat BY ONLY <2>1, <2>2, LenProperties
    <2>4. p2 = p + a - NatMin(a, Len(s)) /\ a \in Nat BY ONLY <2>1 DEF Replaces
    <2>5. NatMin(a, Len(s)) \in Nat /\ NatMin(a, Len(s)) <= a BY ONLY <1>1, <2>4 DEF NatMin
    <2>6. p2 \in Nat /\ p2 >= p /\ n < FrameLen + p2
        <3>1. p \in Nat /\ p2 \in Nat /\ n < FrameLen + p BY ONLY <1>1, <1>3, <2>2
        <3> HIDE DEF p, p2, s, s2
        <3> QED BY ONLY <2>4, <2>5, <3>1, n \in Nat, FrameLenAssumption
    <2>7. d2 = d + Len(r) - a /\ d2 \in Int
        <3>1. Len(s2) - p2 = Len(s) - p + Len(r) - a /\ p \in Nat /\ p2 \in Nat /\ Len(s) \in Nat
            BY ONLY <1>1, <2>2
        <3> HIDE DEF p, p2, s, s2
        <3> QED BY ONLY <2>3, <2>4, <3>1, n \in Nat, FrameLenAssumption DEF DepthOf
    <2>8. ASSUME p2 = 0, ~(d2 < 0) PROVE At(s2, p2, d2) # StackRef(n)
        <3>1. p = 0
            <4>1. p \in Nat BY ONLY <1>1
            <4> HIDE DEF p, p2
            <4> QED BY ONLY <2>6, <2>8, <4>1
        <3>2. d2 \in Nat /\ (d < 0 \/ At(s, p, d) # StackRef(n))
            <4> HIDE DEF d2, d, p, s
            <4> QED BY ONLY <1>3, <2>7, <2>8, <3>1
        <3>3. CASE d2 < Len(r)
            <4>1. d2 + 1 \in 1..Len(r)
                <5> HIDE DEF d2
                <5> QED BY ONLY <2>3, <3>2, <3>3
            <4>2. At(s2, p2, d2) = r[d2 + 1]
                <5> HIDE DEF d2, s2, p2, s, p
                <5> QED BY ONLY <2>2, <3>2, <3>3
            <4>3. MayPut(inst, r[d2 + 1]) BY ONLY <2>1, <4>1
            <4> HIDE DEF d2, s2, p2
            <4> QED BY ONLY <1>4, <4>2, <4>3
        <3>4. CASE ~(d2 < Len(r))
            <4>1. d2 - Len(r) + a = d /\ ~(d < 0)
                <5> HIDE DEF d2, d
                <5> QED BY ONLY <1>2, <2>3, <2>4, <2>7, <3>2, <3>4
            <4>2. At(s2, p2, d2) = At(s, p, d)
                <5> HIDE DEF d2, d, s2, p2, s, p
                <5> QED BY ONLY <2>2, <3>2, <3>4, <4>1
            <4> HIDE DEF d2, d, s2, p2, s, p
            <4> QED BY ONLY <3>2, <4>1, <4>2
        <3> QED BY <3>3, <3>4
    <2> QED BY <2>6, <2>8 DEF Lost
<1>6. ASSUME Exchanges(inst) PROVE Lost(s2, p2, n)
    <2> DEFINE m == swap_position(inst.opcode)
    <2>1. /\ p2 = p /\ Swaps(s, m, s2)
          /\ Len(inst.operands) = 2
          /\ inst.operands[1] = OperandAt(0) /\ inst.operands[2] = OperandAt(m)
        BY ONLY <1>6 DEF Exchanges
    <2>2. 1 \in 1..2 /\ 2 \in 1..2 OBVIOUS
    <2>3. MayPut(inst, At(s, p, 0)) /\ MayPut(inst, At(s, p, m))
        BY ONLY <2>1, <2>2, OperandAtIsAt DEF MayPut
    <2> HIDE DEF m
    <2>4. /\ Len(s2) = Len(s)
          /\ \A pos \in Nat :
                At(s2, p, pos) = IF pos = 0 THEN At(s, p, m)
                                 ELSE IF pos = m THEN At(s, p, 0) ELSE At(s, p, pos)
        BY ONLY <1>1, <2>1, SwapDepths
    <2>5. d2 = d BY ONLY <2>1, <2>4 DEF DepthOf
    <2>6. At(s, p, 0) # StackRef(n) /\ At(s, p, m) # StackRef(n) BY ONLY <1>4, <2>3
    <2>7. ASSUME p2 = 0, ~(d2 < 0) PROVE At(s2, p2, d2) # StackRef(n)
        <3>1. d \in Nat /\ At(s, p, d) # StackRef(n)
            <4> HIDE DEF d2, d, p, s, p2, s2
            <4> QED BY ONLY <1>2, <1>3, <2>1, <2>5, <2>7
        <3> HIDE DEF d2, d, s2, p2, s, p
        <3> QED BY ONLY <2>1, <2>4, <2>5, <2>6, <3>1
    <2> QED BY ONLY <1>3, <2>1, <2>7 DEF Lost
<1> QED BY ONLY <1>5, <1>6, Effect(inst), inst.opcode \in Instruction DEF Effect, Stops

LEMMA HeightsInit == InitBB => HeightsInv
<1> SUFFICES ASSUME InitBB PROVE HeightsInv OBVIOUS
<1>1. /\ evm_stack \in Seq(Operand) /\ Len(evm_stack) = FrameLen /\ pops_at_end = 0
      /\ \A pos \in Nat : At(evm_stack, pops_at_end, pos) = StackRef(pos)
    BY FrameSlots
<1>2. insts = <<>> /\ Len(insts) = 0 /\ phase = "emulate" BY EmptySeq DEF InitBB
<1>3. \A k : k \notin 1..0 OBVIOUS
<1>4. ASSUME NEW n \in Nat, NEW h, AreHeights(h, insts, n) PROVE HeightsAre(h, n)
    <2>1. DepthOf(evm_stack, pops_at_end, n) = n
        BY ONLY <1>1, n \in Nat, FrameLenAssumption DEF DepthOf
    <2>2. h[Len(insts)] = n BY ONLY <1>2, <1>4 DEF AreHeights
    <2>3. Deep(h, insts) /\ OnStack(insts, n) BY ONLY <1>2, <1>3 DEF Deep, OnStack
    <2>4. ASSUME NEW pos \in Nat, pos < n PROVE Refers(StackRef(pos), n, Len(insts))
        BY <2>4 DEF Refers, StackRef, Operand, IsConstant
    <2>5. Sound(evm_stack, pops_at_end, n, Len(insts)) BY ONLY <1>1, <2>1, <2>4, n \in Nat DEF Sound
    <2>6. \A pos \in Nat : pos - n + n = pos BY ONLY n \in Nat
    <2>7. Untouched(evm_stack, pops_at_end, n) BY ONLY <1>1, <2>1, <2>6 DEF Untouched
    <2> QED BY ONLY <1>2, <2>1, <2>2, <2>3, <2>5, <2>7 DEF HeightsAre, EmulatedHeights
<1> QED BY ONLY <1>4 DEF HeightsInv

LEMMA HeightsEmulate ==
    ASSUME NamesInv, HeightsInv, NEW op, Emulate(op)
    PROVE  HeightsInv'
<1>1. TypeBB /\ StackIsNamed BY DEF NamesInv
<1>2. PICK inst : Codes(inst) /\ Effect(inst) BY ONLY <1>1, Emulate(op), EmulateIs
<1>3. /\ phase = "emulate"
      /\ phase' = IF inst.opcode \in Instruction THEN "emulate" ELSE "bailed"
    BY ONLY <1>2 DEF Codes, Takes
<1>4. Len(insts') = Len(insts) + 1 BY ONLY <1>1, <1>2, Appended
<1>5. ASSUME NEW n \in Nat, NEW h, AreHeights(h, insts', n)
      PROVE  /\ Deep(h, insts') => OnStack(insts', n)
             /\ phase' = "emulate" => EmulatedHeights(h, n)'
    <2> DEFINE d == DepthOf(evm_stack, pops_at_end, n)
               On == \A j \in 1..Len(inst.operands) :
                        inst.operands[j].kind = "StackRef" => inst.operands[j].n < n
               Enough == Args(inst.opcode) <= d
    <2>1. /\ AreHeights(h, insts, n)
          /\ h[Len(insts')] = h[Len(insts)] + Ret(inst.opcode) - Args(inst.opcode)
          /\ Deep(h, insts') <=> Deep(h, insts) /\ Args(inst.opcode) <= h[Len(insts)]
          /\ OnStack(insts', n) <=> OnStack(insts, n) /\ On
        BY ONLY <1>1, <1>2, <1>5, n \in Nat, HeightsAppended
    <2>2. EmulatedHeights(h, n) /\ (Deep(h, insts) => OnStack(insts, n))
        BY ONLY <1>3, <2>1, n \in Nat, HeightsInv DEF HeightsInv, HeightsAre
    <2>3. /\ h[Len(insts)] = d
          /\ Deep(h, insts) =>
                Sound(evm_stack, pops_at_end, n, Len(insts)) /\ Untouched(evm_stack, pops_at_end, n)
          /\ ~Deep(h, insts) /\ OnStack(insts, n) => Lost(evm_stack, pops_at_end, n)
        BY ONLY <2>2 DEF EmulatedHeights
    <2>4. Deep(h, insts') <=> Deep(h, insts) /\ Enough BY ONLY <2>1, <2>3
    <2>5. ASSUME Deep(h, insts'), NEW j \in 1..Len(inst.operands)
          PROVE  inst.operands[j].kind = "StackRef" => inst.operands[j].n < n
        <3>1. Refers(inst.operands[j], n, Len(insts))
            BY ONLY <1>1, <1>2, <2>3, <2>4, <2>5, n \in Nat, NamesStack
        <3> QED BY ONLY <3>1 DEF Refers
    <2>6. Deep(h, insts') => OnStack(insts', n) BY ONLY <2>1, <2>2, <2>5
    <2>7. ASSUME phase' = "emulate" PROVE EmulatedHeights(h, n)'
        <3>1. inst.opcode \in Instruction BY ONLY <1>3, <2>7
        <3>2. h[Len(insts')] = DepthOf(evm_stack', pops_at_end', n)
            BY ONLY <1>1, <1>2, <2>1, <2>3, <3>1, n \in Nat, DepthMoves
        <3>3. ASSUME Deep(h, insts')
              PROVE  /\ Sound(evm_stack', pops_at_end', n, Len(insts'))
                     /\ Untouched(evm_stack', pops_at_end', n)
            BY ONLY <1>1, <1>2, <1>4, <2>3, <2>4, <3>1, <3>3, n \in Nat, DeepStays
        <3>4. ASSUME ~Deep(h, insts'), OnStack(insts', n)
              PROVE  Lost(evm_stack', pops_at_end', n)
            <4>1. OnStack(insts, n) /\ On BY ONLY <2>1, <3>4
            <4>2. CASE Deep(h, insts)
                <5>1. ~Enough BY ONLY <2>4, <3>4, <4>2
                <5> QED BY ONLY <1>1, <1>2, <2>3, <3>1, <4>1, <4>2, <5>1, n \in Nat, GetsLost
            <4>3. CASE ~Deep(h, insts)
                BY ONLY <1>1, <1>2, <2>3, <3>1, <4>1, <4>3, n \in Nat, StaysLost
            <4> QED BY <4>2, <4>3
        <3> QED BY ONLY <3>2, <3>3, <3>4 DEF EmulatedHeights
    <2> QED BY ONLY <2>6, <2>7
<1> QED BY ONLY <1>3, <1>5 DEF HeightsInv, HeightsAre

LEMMA FinishDeep ==
    ASSUME TypeBB, FinishBB, NEW n \in Nat,
           Sound(evm_stack, pops_at_end, n, Len(insts)), Untouched(evm_stack, pops_at_end, n)
    PROVE  /\ pops_at_end' <= n
           /\ \A s \in DOMAIN stack_sets' :
                 s < n /\ (stack_sets'[s].kind = "StackRef" => stack_sets'[s].n < n)
           /\ \A k \in 1..Len(returns') : returns'[k].kind = "StackRef" => returns'[k].n < n
<1> DEFINE d == DepthOf(evm_stack, pops_at_end, n)
           p == pops_at_end
<1>1. /\ FrameLen \in Nat /\ Excess \in Nat /\ Missing \in Nat /\ p \in Nat
      /\ Missing <= FrameLen /\ (Excess = 0 \/ Missing = 0)
      /\ Len(evm_stack) = FrameLen + Excess - Missing
      /\ pops_at_end' = p + Missing
    BY FinishIs
<1>2. d = n + Excess - Missing - p BY ONLY <1>1, n \in Nat DEF DepthOf
<1>3. /\ d >= 0 /\ (p = 0 \/ FrameLen + p <= n)
      /\ \A pos \in Nat : pos < d => Refers(OperandAt(pos), n, Len(insts))
      /\ \A pos \in Nat : pos >= d => OperandAt(pos) = StackRef(pos - d + n)
    BY ONLY OperandAtIsAt, Sound(evm_stack, pops_at_end, n, Len(insts)),
            Untouched(evm_stack, pops_at_end, n) DEF Sound, Untouched
<1> HIDE DEF d, p
<1>4. p + Missing <= n BY ONLY <1>1, <1>2, <1>3, n \in Nat
<1>5. ASSUME NEW s \in DOMAIN stack_sets'
      PROVE  s < n /\ (stack_sets'[s].kind = "StackRef" => stack_sets'[s].n < n)
    <2>1. PICK pos \in Nat : /\ pos = s - Missing + Excess
                             /\ s \in Nat /\ s < FrameLen
                             /\ stack_sets'[s] = OperandAt(pos) /\ stack_sets'[s] # StackRef(s)
        <3>1. /\ s - Missing + Excess \in Nat /\ s \in Nat /\ s < FrameLen
              /\ stack_sets'[s] = OperandAt(s - Missing + Excess) /\ stack_sets'[s] # StackRef(s)
            BY FinishIs
        <3> QED BY ONLY <3>1
    <2>2. CASE pos < d
        <3>1. s < n BY ONLY <1>1, <1>2, <2>1, <2>2, n \in Nat
        <3>2. Refers(OperandAt(pos), n, Len(insts)) BY ONLY <1>3, <2>2, pos \in Nat
        <3> QED BY ONLY <2>1, <3>1, <3>2 DEF Refers
    <2>3. CASE ~(pos < d)
        <3>1. pos >= d /\ pos - d + n = s + p
            BY ONLY <1>1, <1>2, <2>1, <2>3, n \in Nat, pos \in Nat
        <3>2. stack_sets'[s] = StackRef(s + p) BY ONLY <1>3, <2>1, <3>1, pos \in Nat
        <3>3. p # 0
            <4>1. SUFFICES ASSUME p = 0 PROVE FALSE OBVIOUS
            <4>2. s + p = s BY ONLY <2>1, <4>1
            <4> QED BY ONLY <2>1, <3>2, <4>2
        <3>4. s < n /\ s + p < n BY ONLY <1>1, <1>3, <2>1, <3>3, n \in Nat
        <3> QED BY ONLY <3>2, <3>4 DEF StackRef
    <2> QED BY <2>2, <2>3
<1>6. ASSUME NEW k \in 1..Len(returns')
      PROVE  returns'[k].kind = "StackRef" => returns'[k].n < n
    <2>1. Len(returns') = Excess /\ \A i \in 1..Excess : returns'[i] = OperandAt(i - 1)
        BY FinishIs
    <2>2. k \in 1..Excess /\ returns'[k] = OperandAt(k - 1) BY ONLY <2>1, k \in 1..Len(returns')
    <2>3. k - 1 \in Nat /\ k - 1 < d BY ONLY <1>1, <1>2, <1>3, <2>2, n \in Nat
    <2>4. Refers(OperandAt(k - 1), n, Len(insts)) BY ONLY <1>3, <2>3
    <2> QED BY ONLY <2>2, <2>4 DEF Refers
<1> QED BY ONLY <1>1, <1>4, <1>5, <1>6

LEMMA FinishLost ==
    ASSUME TypeBB, FinishBB, NEW n \in Nat, Lost(evm_stack, pops_at_end, n)
    PROVE  \/ n < pops_at_end'
           \/ pops_at_end' # Missing /\ evm_stack # <<>>
           \/ \E s \in DOMAIN stack_sets' : ~(s < n)
<1> DEFINE d == DepthOf(evm_stack, pops_at_end, n)
           p == pops_at_end
<1>1. /\ FrameLen \in Nat /\ Excess \in Nat /\ Missing \in Nat /\ p \in Nat
      /\ Missing <= FrameLen /\ (Excess = 0 \/ Missing = 0)
      /\ Len(evm_stack) = FrameLen + Excess - Missing
      /\ pops_at_end' = p + Missing
    BY FinishIs
<1>2. d = n + Excess - Missing - p BY ONLY <1>1, n \in Nat DEF DepthOf
<1>3. /\ n < FrameLen + p
      /\ p = 0 => d < 0 \/ OperandAt(d) # StackRef(n)
    BY ONLY OperandAtIsAt, Lost(evm_stack, pops_at_end, n) DEF Lost
<1>4. \A s \in Missing..(FrameLen - 1) :
          s \in DOMAIN stack_sets' <=> OperandAt(s - Missing + Excess) # StackRef(s)
    BY FinishIs
<1>5. Len(<<>>) = 0 BY EmptySeq
<1> HIDE DEF d, p
<1>6. CASE p # 0
    <2>1. pops_at_end' # Missing BY ONLY <1>1, <1>6
    <2>2. CASE evm_stack = <<>>
        <3>1. Missing = FrameLen BY ONLY <1>1, <1>5, <2>2
        <3>2. n < pops_at_end' BY ONLY <1>1, <1>3, <3>1, n \in Nat
        <3> QED BY <3>2
    <2> QED BY <2>1, <2>2
<1>7. CASE p = 0 /\ d < 0
    <2>1. n < pops_at_end' BY ONLY <1>1, <1>2, <1>7, n \in Nat
    <2> QED BY <2>1
<1>8. CASE p = 0 /\ ~(d < 0)
    <2>1. n \in Missing..(FrameLen - 1) /\ d = n - Missing + Excess
        BY ONLY <1>1, <1>2, <1>3, <1>8, n \in Nat
    <2>2. n \in DOMAIN stack_sets' BY ONLY <1>3, <1>4, <1>8, <2>1
    <2>3. ~(n < n) OBVIOUS
    <2> QED BY <2>2, <2>3
<1> QED BY <1>6, <1>7, <1>8

LEMMA HeightsFinish ==
    ASSUME NamesInv, HeightsInv, FinishBB
    PROVE  HeightsInv'
<1>1. TypeBB BY DEF NamesInv
<1>2. /\ phase = "emulate" /\ phase' = "done" /\ UNCHANGED <<insts, evm_stack>>
      /\ FrameLen \in Nat /\ Excess \in Nat /\ Missing \in Nat /\ pops_at_end \in Nat
      /\ Len(evm_stack) = FrameLen + Excess - Missing
      /\ pops_at_end' = pops_at_end + Missing /\ Len(returns') = Excess
    BY ONLY <1>1, FinishBB, FinishIs
<1>3. ASSUME NEW n \in Nat, NEW h, AreHeights(h, insts, n)
      PROVE  /\ Deep(h, insts) => OnStack(insts, n)
             /\ FinalHeights(h, n)'
    <2>1. EmulatedHeights(h, n) /\ (Deep(h, insts) => OnStack(insts, n))
        BY ONLY <1>2, <1>3, n \in Nat, HeightsInv DEF HeightsInv, HeightsAre
    <2>2. h[Len(insts)] = DepthOf(evm_stack, pops_at_end, n) BY ONLY <2>1 DEF EmulatedHeights
    <2>3. h[Len(insts)] = n + Len(returns') - pops_at_end'
        <3>1. DepthOf(evm_stack, pops_at_end, n) = n + Len(returns') - pops_at_end'
            BY ONLY <1>2, n \in Nat DEF DepthOf
        <3> QED BY ONLY <2>2, <3>1
    <2>4. ASSUME Deep(h, insts)
          PROVE  /\ pops_at_end' <= n
                 /\ \A s \in DOMAIN stack_sets' :
                       s < n /\ (stack_sets'[s].kind = "StackRef" => stack_sets'[s].n < n)
                 /\ \A k \in 1..Len(returns') : returns'[k].kind = "StackRef" => returns'[k].n < n
        <3>1. Sound(evm_stack, pops_at_end, n, Len(insts)) /\ Untouched(evm_stack, pops_at_end, n)
            BY ONLY <2>1, <2>4 DEF EmulatedHeights
        <3> QED BY ONLY <1>1, <3>1, n \in Nat, FinishBB, FinishDeep
    <2>5. ASSUME ~Deep(h, insts), OnStack(insts, n)
          PROVE  \/ n < pops_at_end'
                 \/ pops_at_end' # Missing /\ evm_stack # <<>>
                 \/ \E s \in DOMAIN stack_sets' : ~(s < n)
        <3>1. Lost(evm_stack, pops_at_end, n) BY ONLY <2>1, <2>5 DEF EmulatedHeights
        <3> QED BY ONLY <1>1, <3>1, n \in Nat, FinishBB, FinishLost
    <2>6. Missing' = Missing BY ONLY <1>2 DEF Missing
    <2>7. FinalHeights(h, n)' BY ONLY <1>2, <2>3, <2>4, <2>5, <2>6 DEF FinalHeights
    <2> QED BY ONLY <2>1, <2>7
<1> QED BY ONLY <1>2, <1>3 DEF HeightsInv, HeightsAre

LEMMA HeightsNext == NamesInv /\ HeightsInv /\ [NextBB]_bbVars => HeightsInv'
<1> SUFFICES ASSUME NamesInv, HeightsInv, [NextBB]_bbVars PROVE HeightsInv' OBVIOUS
<1>1. CASE UNCHANGED bbVars
    BY <1>1 DEF bbVars, HeightsInv, HeightsAre, EmulatedHeights, FinalHeights, Missing
<1> QED BY <1>1, HeightsEmulate, HeightsFinish DEF NextBB

\* Whatever the height of the EVM's stack when it enters the block, while it is
\* never too short the emulation names no slot below it and pops no word of it
\* that is not there; and if it is too short the emulation does so, unless it
\* popped beyond the frame and put words there again.
THEOREM HeightsAreRight == SpecBB => [](NamesInv /\ HeightsInv)
<1> QED BY NamesInit, NamesNext, HeightsInit, HeightsNext, PTL DEF SpecBB

\* The heights are well defined.
LEMMA HeightsExist ==
    ASSUME insts \in Seq(InstType), NEW n \in Int
    PROVE  /\ AreHeights(EvmHeights(n), insts, n)
           /\ DOMAIN EvmHeights(n) = 0..Len(insts)
           /\ \A k \in 0..Len(insts) : EvmHeights(n)[k] \in Int
<1> DEFINE d == [k \in 1..Len(insts) |-> Ret(insts[k].opcode) - Args(insts[k].opcode)]
           E(h) == h = [k \in 0..Len(insts) |->
                            IF k = 0 THEN n
                            ELSE h[k - 1] + Ret(insts[k].opcode) - Args(insts[k].opcode)]
<1>1. Len(insts) \in Nat BY LenProperties
<1>2. \A k \in 1..Len(insts) :
          /\ Args(insts[k].opcode) \in Nat /\ Ret(insts[k].opcode) \in Nat
          /\ d[k] = Ret(insts[k].opcode) - Args(insts[k].opcode)
    <2>1. ASSUME NEW k \in 1..Len(insts)
          PROVE  Args(insts[k].opcode) \in Nat /\ Ret(insts[k].opcode) \in Nat
        <3>1. insts[k] \in InstType BY ElementOfSeq
        <3> QED BY ONLY <3>1, ArgsOfInst
    <2> QED BY ONLY <2>1
<1> HIDE DEF d
<1>3. \A k \in 1..Len(insts) : d[k] \in Int BY ONLY <1>2
<1>0. PICK h : AreSums(h, d, n, Len(insts)) BY ONLY <1>1, <1>3, n \in Int, SumsExist
<1>4. /\ h = [k \in 0..Len(insts) |-> IF k = 0 THEN n ELSE h[k - 1] + d[k]]
      /\ \A k \in 0..Len(insts) : h[k] \in Int
    BY ONLY <1>0 DEF AreSums
<1>5. ASSUME NEW g,
             g = [k \in 0..Len(insts) |->
                     IF k = 0 THEN n
                     ELSE g[k - 1] + Ret(insts[k].opcode) - Args(insts[k].opcode)]
      PROVE  AreHeights(g, insts, n) /\ DOMAIN g = 0..Len(insts)
    <2>1. DOMAIN g = 0..Len(insts) BY ONLY <1>5
    <2>2. 0 \in 0..Len(insts) /\ \A k \in 1..Len(insts) : k \in 0..Len(insts) /\ k # 0
        BY ONLY <1>1
    <2>3. \A k \in 0..Len(insts) :
              g[k] = IF k = 0 THEN n
                     ELSE g[k - 1] + Ret(insts[k].opcode) - Args(insts[k].opcode)
        BY ONLY <1>5
    <2> QED BY ONLY <2>1, <2>2, <2>3 DEF AreHeights
<1>6. \E g : E(g)
    <2>1. ASSUME NEW k \in 0..Len(insts), k # 0
          PROVE  h[k - 1] + d[k] = h[k - 1] + Ret(insts[k].opcode) - Args(insts[k].opcode)
        <3>1. k \in 1..Len(insts) /\ k - 1 \in 0..Len(insts) BY ONLY <1>1, <2>1
        <3>2. h[k - 1] \in Int BY ONLY <1>4, <3>1
        <3> QED BY ONLY <1>2, <3>1, <3>2
    <2>2. [k \in 0..Len(insts) |-> IF k = 0 THEN n ELSE h[k - 1] + d[k]] =
          [k \in 0..Len(insts) |->
              IF k = 0 THEN n
              ELSE h[k - 1] + Ret(insts[k].opcode) - Args(insts[k].opcode)]
        BY ONLY <2>1
    <2>3. E(h) BY ONLY <1>4, <2>2
    <2> QED BY <2>3
<1>7. EvmHeights(n) = CHOOSE g : E(g) BY Zenon DEF EvmHeights
<1>8. E(EvmHeights(n))
    <2> HIDE DEF E
    <2> QED BY ONLY <1>6, <1>7
<1>9. AreHeights(EvmHeights(n), insts, n) /\ DOMAIN EvmHeights(n) = 0..Len(insts)
    BY ONLY <1>5, <1>8
<1>10. ASSUME NEW g, AreHeights(g, insts, n) PROVE \A k \in 0..Len(insts) : g[k] \in Int
    <2> DEFINE S == {k \in Nat : k <= Len(insts) => g[k] \in Int}
    <2>1. 0 \in S BY ONLY <1>10, n \in Int DEF AreHeights
    <2>2. ASSUME NEW k \in Nat, k \in S PROVE k + 1 \in S
        <3>1. ASSUME k + 1 <= Len(insts) PROVE g[k + 1] \in Int
            <4>1. k + 1 \in 1..Len(insts) /\ k + 1 - 1 = k /\ g[k] \in Int
                BY ONLY <1>1, <2>2, <3>1
            <4>2. g[k + 1] = g[k] + Ret(insts[k + 1].opcode) - Args(insts[k + 1].opcode)
                BY ONLY <1>10, <4>1 DEF AreHeights
            <4> QED BY ONLY <1>2, <4>1, <4>2
        <3> QED BY ONLY <3>1, k \in Nat
    <2>3. \A k \in Nat : k \in S
        <3> HIDE DEF S
        <3> QED BY ONLY <2>1, <2>2, Induction
    <2> QED BY ONLY <1>1, <2>3
<1> QED BY ONLY <1>9, <1>10

-----------------------------------------------------------------------------
(* A call of evaluate_opcode *)

EvalInv ==
    /\ eval_op \in EvalOpcodes
    /\ eval_words \in [1..Args(eval_op) -> Word]
    /\ eval_known \subseteq 1..Args(eval_op)
    /\ eval_out = <<>> \/ eval_out = <<evaluate_opcode(eval_op, EvalIndex, EvalArgs)>>

LEMMA EvalInvariant == EvalSpec => []EvalInv
<1>1. EvalInit => EvalInv BY DEF EvalInit, EvalInv
<1>2. EvalInv /\ [Evaluate]_evalVars => EvalInv'
    <2> SUFFICES ASSUME EvalInv, [Evaluate]_evalVars PROVE EvalInv' OBVIOUS
    <2>1. eval_op' = eval_op /\ eval_words' = eval_words /\ eval_known' = eval_known
        BY DEF Evaluate, evalVars
    <2>2. EvalArgs' = EvalArgs BY ONLY <2>1 DEF EvalArgs
    <2>3. \/ eval_out' = eval_out
          \/ eval_out' = <<evaluate_opcode(eval_op, EvalIndex, EvalArgs)>>
        BY DEF Evaluate, evalVars
    <2>4. evaluate_opcode(eval_op, EvalIndex, EvalArgs)' = evaluate_opcode(eval_op, EvalIndex, EvalArgs)
        BY ONLY <2>1, <2>2 DEF evaluate_opcode, Fold, Fold1, Fold2Constants, FoldIdentity, Fold3
    <2> QED BY ONLY EvalInv, <2>1, <2>3, <2>4 DEF EvalInv
<1> QED BY <1>1, <1>2, PTL DEF EvalSpec

\* The arguments of the call, and what they are worth.
LEMMA EvalArgsAre ==
    ASSUME EvalInv
    PROVE  /\ IsOperation(eval_op) /\ Args(eval_op) \in Nat
           /\ EvalArgs \in Seq(Operand) /\ Len(EvalArgs) = Args(eval_op)
           /\ \A k \in 1..Args(eval_op) :
                 /\ eval_words[k] \in Word
                 /\ k \in eval_known => EvalArgs[k] = Constant(eval_words[k])
                 /\ k \notin eval_known => EvalArgs[k] = StackRef(k - 1)
                 /\ Describes(EvalArgs[k], eval_words[k]) /\ EvalWorth(EvalArgs[k]) = eval_words[k]
                 /\ EvalArgs[k].kind # "InstructionRef"
<1>1. eval_op \in EvalOpcodes /\ eval_words \in [1..Args(eval_op) -> Word] BY DEF EvalInv
<1>2. IsOperation(eval_op) BY ONLY <1>1, EvalAssumption DEF IsOperation
<1>3. Args(eval_op) \in Nat
    <2>1. eval_op \in Byte BY ONLY <1>2 DEF IsOperation, Instruction, Byte
    <2> QED BY <2>1, ArgsInNat
<1>4. EvalArgs = [k \in 1..Args(eval_op) |->
          IF k \in eval_known THEN Constant(eval_words[k]) ELSE StackRef(k - 1)]
    BY DEF EvalArgs
<1>5. ASSUME NEW k \in 1..Args(eval_op)
      PROVE  /\ eval_words[k] \in Word /\ EvalArgs[k] \in Operand
             /\ k \in eval_known => EvalArgs[k] = Constant(eval_words[k])
             /\ k \notin eval_known => EvalArgs[k] = StackRef(k - 1)
             /\ Describes(EvalArgs[k], eval_words[k]) /\ EvalWorth(EvalArgs[k]) = eval_words[k]
             /\ EvalArgs[k].kind # "InstructionRef"
    <2>1. eval_words[k] \in Word BY ONLY <1>1, k \in 1..Args(eval_op)
    <2>2. eval_words[k] \in Nat BY ONLY <2>1, WordFacts
    <2>3. k - 1 \in Nat /\ k - 1 + 1 = k BY ONLY <1>3, k \in 1..Args(eval_op)
    <2>4. CASE k \in eval_known
        <3>1. EvalArgs[k] = Constant(eval_words[k]) BY ONLY <1>4, <2>4, k \in 1..Args(eval_op)
        <3> QED BY ONLY <2>1, <2>2, <2>4, <3>1
                DEF Constant, IsConstant, Describes, EvalWorth, Operand
    <2>5. CASE k \notin eval_known
        <3>1. EvalArgs[k] = StackRef(k - 1) BY ONLY <1>4, <2>5, k \in 1..Args(eval_op)
        <3> QED BY ONLY <2>1, <2>3, <2>5, <3>1
                DEF StackRef, IsConstant, Describes, EvalWorth, Operand
    <2> QED BY ONLY <2>1, <2>4, <2>5
<1>6. EvalArgs \in Seq(Operand) /\ Len(EvalArgs) = Args(eval_op)
    <2>1. EvalArgs \in [1..Args(eval_op) -> Operand] BY ONLY <1>4, <1>5
    <2>2. EvalArgs \in Seq(Operand) BY ONLY <1>3, <2>1, SeqDef
    <2> QED BY ONLY <1>3, <1>4, <2>2
<1> QED BY ONLY <1>2, <1>3, <1>5, <1>6

\* What comes out of the call.
LEMMA EvalOutIs ==
    ASSUME EvalInv, eval_out # <<>>
    PROVE  /\ eval_out[1].is_constant <=> Fold(eval_op, EvalArgs) # NoFold
           /\ eval_out[1].ret = IF eval_out[1].is_constant THEN <<Fold(eval_op, EvalArgs)>>
                                ELSE IF Ret(eval_op) = 1 THEN <<InstructionRef(EvalIndex)>>
                                ELSE <<>>
<1>1. eval_out[1] = evaluate_opcode(eval_op, EvalIndex, EvalArgs) BY DEF EvalInv
<1>2. IsOperation(eval_op) BY EvalArgsAre
<1> QED BY ONLY <1>1, <1>2, EvaluatedIs

\* Whatever evaluate_opcode folds away, 0 ** x apart, is arithmetic, and what it
\* pushes instead is worth what the EVM computes.
THEOREM FoldsAreEvms == EvalSpec => []FoldMatchesEvmBut0Exp
<1>1. EvalInv => FoldMatchesEvmBut0Exp
    <2> SUFFICES ASSUME EvalInv, eval_out # <<>>, eval_out[1].is_constant, ~ZeroBase
                 PROVE  /\ eval_op \in Arithmetic
                        /\ EvalWorth(eval_out[1].ret[1]) = Alu(eval_op, eval_words)
        BY DEF FoldMatchesEvmBut0Exp
    <2> DEFINE res == Fold(eval_op, EvalArgs)
    <2>1. /\ EvalArgs \in Seq(Operand) /\ Len(EvalArgs) = Args(eval_op) /\ Args(eval_op) \in Nat
          /\ \A k \in 1..Args(eval_op) :
                /\ k \in eval_known => EvalArgs[k] = Constant(eval_words[k])
                /\ k \notin eval_known => EvalArgs[k] = StackRef(k - 1)
                /\ Describes(EvalArgs[k], eval_words[k]) /\ EvalWorth(EvalArgs[k]) = eval_words[k]
        BY EvalArgsAre
    <2>2. eval_out[1].ret = <<res>> /\ res # NoFold BY EvalOutIs
    <2>3. ~IsPowerOfZero(eval_op, EvalArgs)
        <3>1. SUFFICES ASSUME IsPowerOfZero(eval_op, EvalArgs) PROVE FALSE OBVIOUS
        <3>2. /\ eval_op = EXP /\ Len(EvalArgs) = 2
              /\ EvalArgs[1] = Zero /\ ~IsConstant(EvalArgs[2])
            BY ONLY <3>1, Zenon DEF IsPowerOfZero
        <3>3. /\ eval_op = EXP /\ 1 \in 1..Args(eval_op) /\ 2 \in 1..Args(eval_op)
              /\ EvalArgs[1] = Zero /\ ~IsConstant(EvalArgs[2])
            <4>1. Args(eval_op) = 2 BY ONLY <2>1, <3>2
            <4> QED BY ONLY <3>2, <4>1
        <3>4. 1 \in eval_known /\ eval_words[1] = 0
            BY ONLY <2>1, <3>3 DEF Zero, Constant, StackRef
        <3>5. 2 \notin eval_known BY ONLY <2>1, <3>3 DEF Constant, IsConstant
        <3> QED BY ONLY <3>3, <3>4, <3>5, ~ZeroBase DEF ZeroBase
    <2>4. \A k \in 1..Len(EvalArgs) : Describes(EvalArgs[k], eval_words[k]) BY ONLY <2>1
    <2>5. /\ eval_op \in Arithmetic
          /\ \/ res = Constant(Alu(eval_op, eval_words))
             \/ \E k \in 1..Len(EvalArgs) :
                   res = EvalArgs[k] /\ Alu(eval_op, eval_words) = eval_words[k]
        BY ONLY <2>1, <2>2, <2>3, <2>4, FoldSound
    <2> HIDE DEF res
    <2>6. EvalWorth(res) = Alu(eval_op, eval_words)
        <3>1. CASE res = Constant(Alu(eval_op, eval_words))
            BY ONLY <3>1 DEF Constant, IsConstant, EvalWorth
        <3> QED BY ONLY <2>1, <2>5, <3>1
    <2> QED BY ONLY <2>2, <2>5, <2>6
<1> QED BY <1>1, EvalInvariant, PTL

\* evaluate_opcode returns as many operands as the instruction has results,
\* which refer to the instruction unless it is folded: the debug_asserts of
\* evaluate_opcode cannot fail.
THEOREM ArityStaysKept == EvalSpec => []ArityIsKept
<1>1. EvalInv => ArityIsKept
    <2> SUFFICES ASSUME EvalInv, eval_out # <<>>
                 PROVE  /\ Len(eval_out[1].ret) = Ret(eval_op)
                        /\ \A k \in 1..Len(eval_out[1].ret) :
                              eval_out[1].ret[k] = InstructionRef(EvalIndex)
                                <=> ~eval_out[1].is_constant
        BY DEF ArityIsKept
    <2> DEFINE res == Fold(eval_op, EvalArgs)
    <2>1. /\ IsOperation(eval_op)
          /\ EvalArgs \in Seq(Operand) /\ Len(EvalArgs) = Args(eval_op)
          /\ \A k \in 1..Args(eval_op) :
                /\ eval_words[k] \in Word
                /\ k \in eval_known => EvalArgs[k] = Constant(eval_words[k])
                /\ k \notin eval_known => EvalArgs[k] = StackRef(k - 1)
                /\ EvalArgs[k].kind # "InstructionRef"
        BY EvalArgsAre
    <2>2. Ret(eval_op) \in {0, 1} BY ONLY <2>1, RetOfOperation
    <2>3. /\ eval_out[1].is_constant <=> res # NoFold
          /\ eval_out[1].ret = IF eval_out[1].is_constant THEN <<res>>
                               ELSE IF Ret(eval_op) = 1 THEN <<InstructionRef(EvalIndex)>>
                               ELSE <<>>
        BY EvalOutIs
    <2>4. CASE eval_out[1].is_constant
        <3>1. \A k \in 1..Len(EvalArgs) : IsConstant(EvalArgs[k]) => EvalArgs[k].n \in Word
            BY ONLY <2>1 DEF Constant, StackRef, IsConstant
        <3>2. eval_op \in Arithmetic BY ONLY <2>1, <2>3, <2>4, <3>1, FoldOf
        <3>3. Ret(eval_op) = 1 BY ONLY <3>2, ArithmeticIsOperation
        <3>4. res.kind # "InstructionRef"
            <4>1. SUFFICES ASSUME res.kind = "InstructionRef" PROVE FALSE OBVIOUS
            <4>2. \E k \in 1..Len(EvalArgs) : res = EvalArgs[k] BY ONLY <4>1, FoldIs
            <4> QED BY ONLY <2>1, <4>1, <4>2
        <3>5. eval_out[1].ret = <<res>> BY ONLY <2>3, <2>4
        <3> HIDE DEF res
        <3>6. res # InstructionRef(EvalIndex) BY ONLY <3>4 DEF InstructionRef
        <3> QED BY ONLY <2>4, <3>3, <3>5, <3>6
    <2>5. CASE ~eval_out[1].is_constant /\ Ret(eval_op) = 1 BY ONLY <2>3, <2>5
    <2>6. CASE ~eval_out[1].is_constant /\ Ret(eval_op) = 0 BY ONLY <2>3, <2>6
    <2> QED BY ONLY <2>2, <2>4, <2>5, <2>6
<1> QED BY <1>1, EvalInvariant, PTL
===============================================================================
