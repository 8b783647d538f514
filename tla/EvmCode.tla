------------------------------- MODULE EvmCode -------------------------------
(***************************************************************************)
(* How the EVM reads a bytecode: its instructions are the bytes at 0 and   *)
(* behind each other, a PUSH takes its immediate bytes with it, and only a *)
(* JUMPDEST among the instructions can be jumped to.  It is what the scans *)
(* of the translator have to agree with, and is written without them.      *)
(* Addresses are 0-based.                                                  *)
(***************************************************************************)
EXTENDS Instructions, Sequences

EvmPositions(code) == 0..(Len(code) - 1)

\* The address behind the instruction at p.
EvmNext(code, p) == p + 1 + push_bytes(code[p + 1])

\* S has the first instruction and, with each one, the next.
ClosedUnderNext(code, S) ==
    /\ 0 \in S
    /\ \A p \in S : EvmNext(code, p) \in EvmPositions(code) => EvmNext(code, p) \in S

\* The addresses of the instructions: the least such set.
EvmBoundaries(code) ==
    {p \in EvmPositions(code) :
        \A S \in SUBSET EvmPositions(code) : ClosedUnderNext(code, S) => p \in S}

\* Where the EVM may jump to.
EvmJumpdests(code) == {p \in EvmBoundaries(code) : code[p + 1] = JUMPDEST}
=============================================================================
