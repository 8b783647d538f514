------------------------------- MODULE Words -------------------------------
(***************************************************************************)
(* The machine words of the EVM (U256 in the translator, uint256_t in the  *)
(* generated code) and what the arithmetic instructions compute on them,   *)
(* written from the EVM's definition and not from the translator: the      *)
(* reference that constant folding is held against.                        *)
(***************************************************************************)
EXTENDS Instructions

CONSTANTS
    WordSize,       \* how many words there are (2^256)
    WordBytes,      \* the bytes of a word (32)
    ByteBits,       \* the bits of a byte (8)
    UsizeMax,       \* the largest usize of the translator's host (2^64 - 1)
    Pow2(_),        \* the powers of two
    Exp(_, _),      \* exponentiation modulo WordSize
    BitAnd(_, _),   \* the bitwise operations
    BitOr(_, _),
    BitXor(_, _)

Word == 0..(WordSize - 1)

ASSUME WordSizeAssumption == WordSize \in Nat /\ WordSize >= 2

ASSUME BytesAssumption ==
    WordBytes \in Nat \ {0} /\ ByteBits \in Nat \ {0} /\ UsizeMax \in Nat

\* Every shift distance the translator or the EVM computes.
Distances == Word \cup 0..(WordBytes * ByteBits)

ASSUME Pow2Assumption ==
    /\ Pow2(0) = 1
    /\ \A n \in Distances : Pow2(n) \in Nat \ {0} /\ Pow2(n + 1) = 2 * Pow2(n)

\* A distance that is no usize shifts every bit out of a word.
ASSUME UsizeAssumption ==
    \A n \in Word : n > UsizeMax =>
        \A w \in Word : w \div Pow2(n) = 0 /\ (w * Pow2(n)) % WordSize = 0

ASSUME ExpAssumption ==
    \A a \in Word :
        /\ Exp(a, 0) = 1
        /\ \A e \in Word :
              /\ Exp(a, e) \in Word
              /\ e + 1 \in Word => Exp(a, e + 1) = (a * Exp(a, e)) % WordSize

ASSUME BitAssumption ==
    \A a, b \in Word : BitAnd(a, b) \in Word /\ BitOr(a, b) \in Word /\ BitXor(a, b) \in Word

Bit(p) == IF p THEN 1 ELSE 0

\* The byte of w that is a bytes away from its big end.
ByteOf(w, a) == (w \div Pow2(ByteBits * (WordBytes - 1 - a))) % Pow2(ByteBits)

\* The instructions whose result is a function of their arguments and which
\* the translator may fold.
Arithmetic1 == {ISZERO, NOT}
Arithmetic2 == {ADD, MUL, SUB, DIV, MOD, EXP, LT, GT, EQ, AND, OR, XOR, BYTE, SHL, SHR}
Arithmetic3 == {ADDMOD, MULMOD}
Arithmetic  == Arithmetic1 \cup Arithmetic2 \cup Arithmetic3

\* What they return; the first argument is the top of the stack.
Alu1(op, a) == IF op = ISZERO THEN Bit(a = 0) ELSE WordSize - 1 - a

Alu2(op, a, b) ==
    IF op = ADD THEN (a + b) % WordSize
    ELSE IF op = MUL THEN (a * b) % WordSize
    ELSE IF op = SUB THEN (a - b) % WordSize
    ELSE IF op = DIV THEN IF b = 0 THEN 0 ELSE a \div b
    ELSE IF op = MOD THEN IF b = 0 THEN 0 ELSE a % b
    ELSE IF op = EXP THEN Exp(a, b)
    ELSE IF op = LT THEN Bit(a < b)
    ELSE IF op = GT THEN Bit(a > b)
    ELSE IF op = EQ THEN Bit(a = b)
    ELSE IF op = AND THEN BitAnd(a, b)
    ELSE IF op = OR THEN BitOr(a, b)
    ELSE IF op = XOR THEN BitXor(a, b)
    ELSE IF op = BYTE THEN IF a < WordBytes THEN ByteOf(b, a) ELSE 0
    ELSE IF op = SHL THEN (b * Pow2(a)) % WordSize
    ELSE b \div Pow2(a)

Alu3(op, a, b, c) ==
    IF c = 0 THEN 0
    ELSE IF op = ADDMOD THEN (a + b) % c ELSE (a * b) % c

Alu(op, args) ==
    IF op \in Arithmetic1 THEN Alu1(op, args[1])
    ELSE IF op \in Arithmetic2 THEN Alu2(op, args[1], args[2])
    ELSE Alu3(op, args[1], args[2], args[3])
=============================================================================
