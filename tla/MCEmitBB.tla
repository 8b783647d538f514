------------------------------ MODULE MCEmitBB ------------------------------
(* Blocks of a few instructions on stacks around the frame and the limit. *)
EXTENDS EmitBB, MCWords

\* STOP, ADD, POP, MSTORE, JUMP, JUMPI, no instruction, PUSH1, DUP2, SWAP1,
\* SWAP2, CREATE.
MCOpcodes == {0, 1, 80, 82, 86, 87, 12, 96, 129, 144, 145, 240}

\* POP, PUSH1, SWAP1, ADDRESS, STOP.
MCSwapOpcodes == {80, 96, 144, 48, 0}

MCImmediates == {1}

MCEntryHeights == {0, 1, 2, 3, 5}
=============================================================================
