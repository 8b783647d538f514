---------------------------- MODULE MCEvalOpcode ----------------------------
(***************************************************************************)
(* EvalRun on every instruction that is folded and some that are not, for  *)
(* all words and every subset of the arguments known.                      *)
(***************************************************************************)
EXTENDS EvalRun, MCWords

\* Every foldable instruction and one of each arity that is not:
\* STOP, SDIV, SHA3, CALLDATALOAD, CODECOPY, MLOAD, MSTORE, SLOAD, GAS, CREATE.
MCEvalOpcodes == Arithmetic \cup {0, 5, 32, 53, 57, 81, 82, 84, 90, 240}
=============================================================================
