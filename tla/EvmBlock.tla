------------------------------ MODULE EvmBlock ------------------------------
(***************************************************************************)
(* What a basic block means to the EVM: straight-line instructions on the  *)
(* stack, an interpreter step at a time.  This is the promise the          *)
(* translated block has to keep ("semantically equivalent C++ code", says  *)
(* README.md), so it knows nothing of operands, frames or finalizers.      *)
(*                                                                         *)
(* prog is the executed instructions and trace is what the rest of the     *)
(* world sees of them: each instruction that does more than compute on the *)
(* stack, with its arguments.  Its result, if it has one, is whatever the  *)
(* world answers.  An instruction that the stack is too short for does not *)
(* happen here: blocks are compared on stacks that are deep enough.        *)
(***************************************************************************)
EXTENDS Words, Sequences

CONSTANT Opcodes   \* the bytes a block is made of

VARIABLES
    prog,    \* the instructions executed so far
    stack,   \* the EVM stack, its top first
    trace,   \* the interactions so far
    ended    \* whether a terminating instruction was executed

vars == <<prog, stack, trace, ended>>

\* An executed instruction; imm is what a PUSH or PC pushes, 0 otherwise.
Executed(op, imm) == [opcode |-> op, imm |-> imm]

Execute(op, imm) ==
    /\ ~ended
    /\ prog' = Append(prog, Executed(op, imm))
    /\ ended' = (op \notin Instruction \/ stops(op) \/ is_jump(op))

\* The stack without its n topmost words, and with w put on top.
Drop(s, n) == SubSeq(s, n + 1, Len(s))
Put(w, s)  == <<w>> \o s

Push(op, w) ==
    /\ pushes_constant(op)
    /\ Execute(op, w)
    /\ stack' = Put(w, stack)
    /\ UNCHANGED trace

Dup(op) ==
    /\ is_dup(op) /\ Len(stack) > dup_position(op)
    /\ Execute(op, 0)
    /\ stack' = Put(stack[dup_position(op) + 1], stack)
    /\ UNCHANGED trace

Swap(op) ==
    /\ is_swap(op) /\ Len(stack) > swap_position(op)
    /\ Execute(op, 0)
    /\ stack' = [stack EXCEPT ![1] = stack[swap_position(op) + 1],
                              ![swap_position(op) + 1] = stack[1]]
    /\ UNCHANGED trace

Pop(op) ==
    /\ op = POP /\ Len(stack) > 0
    /\ Execute(op, 0)
    /\ stack' = Drop(stack, 1)
    /\ UNCHANGED trace

Jumpdest(op) ==
    /\ op = JUMPDEST
    /\ Execute(op, 0)
    /\ UNCHANGED <<stack, trace>>

Arguments(op) == [k \in 1..Args(op) |-> stack[k]]

Compute(op) ==
    /\ op \in Arithmetic /\ Len(stack) >= Args(op)
    /\ Execute(op, 0)
    /\ stack' = Put(Alu(op, Arguments(op)), Drop(stack, Args(op)))
    /\ UNCHANGED trace

\* Everything else: memory, storage, calls, jumps, ...
IsInteraction(op) ==
    /\ op \in Instruction \ Arithmetic
    /\ ~pushes_constant(op) /\ ~is_dup(op) /\ ~is_swap(op)
    /\ op \notin {POP, JUMPDEST}

Interact(op, answer) ==
    /\ IsInteraction(op) /\ Len(stack) >= Args(op)
    /\ Execute(op, 0)
    /\ trace' = Append(trace, [opcode |-> op, args |-> Arguments(op)])
    /\ stack' = IF Ret(op) = 0 THEN Drop(stack, Args(op))
                               ELSE Put(answer, Drop(stack, Args(op)))

\* A byte that is no instruction throws: the frame is gone.
Throw(op) ==
    /\ op \notin Instruction
    /\ Execute(op, 0)
    /\ UNCHANGED <<stack, trace>>

Init ==
    /\ prog = <<>>
    /\ stack \in Seq(Word)
    /\ trace = <<>>
    /\ ended = FALSE

Next ==
    \E op \in Opcodes :
        \/ \E w \in Word : Push(op, w)
        \/ Dup(op)
        \/ Swap(op)
        \/ Pop(op)
        \/ Jumpdest(op)
        \/ Compute(op)
        \/ \E answer \in Word : Interact(op, answer)
        \/ Throw(op)

Spec == Init /\ [][Next]_vars
=============================================================================
