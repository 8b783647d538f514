----------------------------- MODULE EvmControl -----------------------------
(***************************************************************************)
(* Which instruction of a bytecode the EVM executes next.  Data is left    *)
(* out: a jump goes wherever the stack says, a conditional one or not.     *)
(* It is what the labels, the jump table and the gotos of the translation  *)
(* have to bring about.                                                    *)
(***************************************************************************)
EXTENDS EvmCode

CONSTANT Targets   \* the words a jump finds on the stack

VARIABLES
    code,
    pc,       \* the address of the next instruction
    status,   \* "running", "exited", or "threw" on an exception
    target    \* the word last jumped to

vars == <<code, pc, status, target>>

Op == code[pc + 1]
InCode == pc \in EvmPositions(code)

Running == status = "running" /\ UNCHANGED code

\* On to the next instruction; behind the last one the EVM stops.
Advance ==
    IF EvmNext(code, pc) \in EvmPositions(code)
    THEN pc' = EvmNext(code, pc) /\ UNCHANGED status
    ELSE status' = "exited" /\ UNCHANGED pc

JumpTo(w) ==
    /\ target' = w
    /\ IF w \in EvmJumpdests(code)
       THEN pc' = w /\ UNCHANGED status
       ELSE status' = "threw" /\ UNCHANGED pc

RunsOff == Running /\ ~InCode /\ status' = "exited" /\ UNCHANGED <<pc, target>>

Throw == Running /\ InCode /\ Op \notin Instruction /\ status' = "threw" /\ UNCHANGED <<pc, target>>

Stop == Running /\ InCode /\ stops(Op) /\ status' = "exited" /\ UNCHANGED <<pc, target>>

Jump == Running /\ InCode /\ is_jump(Op) /\ \E w \in Targets : JumpTo(w)

\* Any instruction that control passes, a JUMPI whose condition is 0 included.
Pass ==
    /\ Running /\ InCode
    /\ Op \in Instruction /\ ~stops(Op) /\ Op # JUMP
    /\ Advance
    /\ UNCHANGED target

Init ==
    /\ code \in Seq(Byte)
    /\ pc = 0
    /\ status = "running"
    /\ target = 0

Next == RunsOff \/ Throw \/ Stop \/ Jump \/ Pass

Spec == Init /\ [][Next]_vars
=============================================================================
