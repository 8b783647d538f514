------------------------ MODULE MCContractSelection ------------------------
(* Keys over the characters A, B, a, b, '_', ':' and a file named 1 or 2. *)
EXTENDS ContractSelection

A == 65
B == 66
a == 97
b == 98
MCColon == 58
MCUnderscore == 95

MCLowerCase ==
    [c \in {49, 50, A, B, a, b, MCColon, MCUnderscore} |->
        IF c \in {A, B} THEN c + 32 ELSE c]

File(f, name) == <<f, MCColon>> \o name

\* 1:A, 1:_a, 1:AB, 1:Bb, 2:A, 2:aB, 2:bA, 2:BAB and B without a file.
MCKeys ==
    {File(49, n) : n \in {<<A>>, <<MCUnderscore, a>>, <<A, B>>, <<B, b>>}}
    \cup {File(50, n) : n \in {<<A>>, <<a, B>>, <<b, A>>, <<B, A, B>>}}
    \cup {<<B>>}

MCLookups == {<<A>>, <<a, b>>, <<B>>}

\* Searches, by <name> or by --contract-name.
Search(name, contract_name) ==
    [name |-> name, second |-> TRUE, input |-> "combined.json",
     translate_all |-> FALSE, combined |-> FALSE, single |-> FALSE,
     contract_name |-> contract_name, emit_sourcemap |-> FALSE]

Searches == {Search(n, <<>>) : n \in MCLookups} \cup {Search(<<B>>, <<<<a, b>>>>)}

All == [Search(<<A>>, <<>>) EXCEPT !.translate_all = TRUE, !.second = FALSE]

\* Also with a source map, with -c, a single contract, raw bytecode, and too
\* many and too few arguments.
MCCommandLines ==
    Searches
    \cup {[s EXCEPT !.emit_sourcemap = TRUE] : s \in {Search(<<A>>, <<>>), All}}
    \cup {All, [All EXCEPT !.input = "other", !.combined = TRUE]}
    \cup {[Search(<<A>>, <<>>) EXCEPT !.single = TRUE],
          [Search(<<A>>, <<>>) EXCEPT !.input = "other"],
          [Search(<<A>>, <<>>) EXCEPT !.second = FALSE],
          [All EXCEPT !.second = TRUE]}
=============================================================================
