----------------------------- MODULE MCBlockRun -----------------------------
(* Blocks of a few instructions over a frame of a few slots. *)
EXTENDS BlockRun, MCWords

\* ADD, EXP, a byte that is no instruction, POP, MLOAD, MSTORE, JUMPI, JUMPDEST,
\* PUSH1, DUP2, DUP3, SWAP1, SWAP2.
MCInFrameOpcodes == {1, 10, 12, 80, 81, 82, 87, 91, 96, 129, 130, 144, 145}

\* POP, PUSH1.
MCPopOpcodes == {80, 96}

\* POP, PUSH1, DUP1..DUP4, SWAP1..SWAP3.
MCSwapOpcodes == {80, 96, 128, 129, 130, 131, 144, 145, 146}

MCImmediates == {0, 1}

\* Stacks that end inside, at and beyond the frame; no two neighbours agree.
MCEntryStacks == {<<2>>, <<0, 3>>, <<1, 2, 0>>, <<3, 0, 1, 2>>, <<0, 1, 2, 3, 0>>}
=============================================================================
