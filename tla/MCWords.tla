------------------------------ MODULE MCWords ------------------------------
(***************************************************************************)
(* Small machine words for TLC: the operator constants of Words by their   *)
(* usual definitions.                                                      *)
(***************************************************************************)
EXTENDS Naturals, Bitwise

CONSTANT MCWordSize

MCPow2(n) == 2^n

MCExp(a, e) ==
    LET power[n \in 0..e] == IF n = 0 THEN 1 ELSE (a * power[n - 1]) % MCWordSize
    IN  power[e]

MCBitAnd(a, b) == a & b
MCBitOr(a, b)  == a | b
MCBitXor(a, b) == a ^^ b
=============================================================================
