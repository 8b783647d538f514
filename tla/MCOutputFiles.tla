--------------------------- MODULE MCOutputFiles ---------------------------
(* Two contracts, a few translations. *)
EXTENDS OutputFiles

\* With -F every contract is translated once; without it any of them again.
\* With both, a clang-format may write over the next translation's files.
MCModes == {[clang_format |-> TRUE, repeats |-> FALSE, raw |-> FALSE],
            [clang_format |-> FALSE, repeats |-> TRUE, raw |-> TRUE]}
=============================================================================
