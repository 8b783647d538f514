------------------------------ MODULE EvalRun ------------------------------
(***************************************************************************)
(* A call of evaluate_opcode: any instruction that emulate_bb may pass it, *)
(* any words its arguments have when the program runs, and any of the      *)
(* arguments known to be constants.                                        *)
(***************************************************************************)
EXTENDS EvalOpcode

CONSTANTS
    EvalOpcodes,   \* the instructions that are evaluated
    EvalIndex      \* the instruction's index in its block

\* emulate_bb evaluates what it does not handle itself.
ASSUME EvalAssumption ==
    /\ EvalIndex \in Nat
    /\ EvalOpcodes \subseteq Instruction \ {POP, JUMPDEST}
    /\ \A op \in EvalOpcodes : ~pushes_constant(op) /\ ~is_dup(op) /\ ~is_swap(op)

VARIABLES
    eval_op,       \* the instruction
    eval_words,    \* the words its arguments have at run time
    eval_known,    \* which of them the translator knows
    eval_out       \* what evaluate_opcode returned, or <<>> before it ran

evalVars == <<eval_op, eval_words, eval_known, eval_out>>

EvalArgs ==
    [k \in 1..Args(eval_op) |->
        IF k \in eval_known THEN Constant(eval_words[k]) ELSE StackRef(k - 1)]

\* What an operand is worth once the program runs.
EvalWorth(o) == IF IsConstant(o) THEN o.n ELSE eval_words[o.n + 1]

EvalInit ==
    /\ eval_op \in EvalOpcodes
    /\ eval_words \in [1..Args(eval_op) -> Word]
    /\ eval_known \in SUBSET (1..Args(eval_op))
    /\ eval_out = <<>>

Evaluate ==
    /\ eval_out = <<>>
    /\ eval_out' = <<evaluate_opcode(eval_op, EvalIndex, EvalArgs)>>
    /\ UNCHANGED <<eval_op, eval_words, eval_known>>

EvalSpec == EvalInit /\ [][Evaluate]_evalVars

-----------------------------------------------------------------------------
(* Properties *)

\* A base known to be 0 with an exponent that is not known.
ZeroBase ==
    eval_op = EXP /\ 1 \in eval_known /\ eval_words[1] = 0 /\ 2 \notin eval_known

\* An instruction that is folded away leaves an operand that is worth what the
\* EVM computes, whatever words the unknown arguments have; only arithmetic
\* is ever folded away.  (0 ** x is the exception: see FoldMatchesEvm.)
FoldMatchesEvmBut0Exp ==
    eval_out # <<>> /\ eval_out[1].is_constant /\ ~ZeroBase =>
        /\ eval_op \in Arithmetic
        /\ EvalWorth(eval_out[1].ret[1]) = Alu(eval_op, eval_words)

\* analysis.rs calls the fold of 0 ** x sound: "for all i: 0 ** i == 0".
FoldMatchesEvm ==
    eval_out # <<>> /\ eval_out[1].is_constant =>
        /\ eval_op \in Arithmetic
        /\ EvalWorth(eval_out[1].ret[1]) = Alu(eval_op, eval_words)

\* evaluate_opcode always pushes as many operands as the instruction table
\* says the instruction returns, and only what it did not fold refers to the
\* instruction itself: the debug_asserts of the function hold.
ArityIsKept ==
    eval_out # <<>> =>
        /\ Len(eval_out[1].ret) = Ret(eval_op)
        /\ \A k \in 1..Len(eval_out[1].ret) :
              eval_out[1].ret[k] = InstructionRef(EvalIndex) <=> ~eval_out[1].is_constant
=============================================================================
