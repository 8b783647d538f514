--------------------------- MODULE MCJumpDispatch ---------------------------
(* Programs over the bytes that end or begin a block, with small 2^32 and 2^64. *)
EXTENDS JumpDispatch

\* STOP, ADD, a byte that is no instruction, JUMP, JUMPI, PC, JUMPDEST, PUSH1, PUSH2.
MCAlphabet == {0, 1, 12, 86, 87, 88, 91, 96, 97}

MCPlace(k) == 256^(WordBytes - k)

\* Words below the length, beyond it, beyond 2^32 and beyond 2^64.
MCTargets == 0..11
=============================================================================
