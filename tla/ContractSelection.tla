------------------------- MODULE ContractSelection -------------------------
(***************************************************************************)
(* main of main.rs: from the command line to the contracts that are        *)
(* translated.  The input is one contract (raw bytecode, or a combined     *)
(* json of a single contract) or a combined json of many, of which one is  *)
(* searched for by name, or all are taken.                                 *)
(*                                                                         *)
(* A key of the combined json is "file:name", or a name without a colon,   *)
(* as a sequence of characters: the search compares prefixes and suffixes  *)
(* without case and underscores.  What a conversion would find wrong with  *)
(* a contract is given beforehand; reading and writing may fail.           *)
(***************************************************************************)
EXTENDS Naturals, SequencesExt

CONSTANTS
    Keys,           \* the keys contracts have, sequences of characters
    Lookups,        \* the names that are given on the command line
    CommandLines,   \* the command lines, of Options
    MaxContracts,   \* the contracts of a combined json, at most
    Colon, Underscore,
    LowerCase       \* a function from characters to characters

ASSUME NamesAssumption ==
    /\ Keys \cup Lookups \subseteq Seq(DOMAIN LowerCase) /\ Lookups # {}
    /\ MaxContracts \in Nat /\ Colon # Underscore

VARIABLES
    opts,               \* the command line
    contracts,          \* combined.contracts, in the order of its keys
    stage,              \* "start", "search", "translate", "done", "error"
    turn,               \* the contracts the current loop is through with
    best_match,         \* the name to translate, a key at first
    best_match_score,
    abis,               \* the ABIs written: the identifier and the contract
    translated          \* the calls of translate_to_c that succeeded

optsVars == <<opts, contracts>>
outVars  == <<abis, translated>>
vars     == <<optsVars, stage, turn, best_match, best_match_score, outVars>>

\* The field of a contract that cannot be converted, if any.
Contract == [key : Keys, flaw : {"none", "srcmap-runtime", "bin-runtime", "bin"}]

Options ==
    [name : Lookups,                    \* the first positional argument
     second : BOOLEAN,                  \* whether there is another one
     input : {"combined.json", "other"},\* how the input's path ends
     translate_all : BOOLEAN, combined : BOOLEAN, single : BOOLEAN,
     contract_name : {<<>>} \cup {<<n>> : n \in Lookups},
     emit_sourcemap : BOOLEAN]

ASSUME CommandLinesAssumption == CommandLines \subseteq Options

\* The order of a BTreeMap of strings.
Before(s, t) ==
    \E k \in 1..Len(t) :
        /\ k <= Len(s) + 1
        /\ \A j \in 1..(k - 1) : s[j] = t[j]
        /\ k <= Len(s) => s[k] < t[k]

\* What follows the first colon, up to the next one, or the key without any.
Cname(key) ==
    LET colon == SelectInSeq(key, LAMBDA c : c = Colon)
        rest  == SubSeq(key, colon + 1, Len(key))
        end   == SelectInSeq(rest, LAMBDA c : c = Colon)
    IN  IF colon # 0 /\ end # 0 THEN SubSeq(rest, 1, end - 1) ELSE rest

IsMany == ~opts.single /\ (opts.input = "combined.json" \/ opts.combined)

\* --contract-name, else <name>.
LookFor == IF opts.contract_name = <<>> THEN opts.name ELSE Head(opts.contract_name)

-----------------------------------------------------------------------------
(* The command line *)

\* With --translate-all the input is the only positional argument.
ArgumentsValid == opts.translate_all = ~opts.second

\* Also: no eEVM project, an input that cannot be read or deserialized.
Fail(at) == stage = at /\ stage' = "error" /\ UNCHANGED optsVars

Refuse ==
    /\ Fail("start")
    /\ UNCHANGED <<turn, best_match, best_match_score, outVars>>

\* The score before any name matches.
WorstScore == 10000

\* The last key is the best match until one is found.
StartSearch ==
    /\ stage = "start" /\ ArgumentsValid /\ IsMany
    /\ ~opts.translate_all /\ contracts # <<>>
    /\ stage' = "search"
    /\ best_match' = Last(contracts).key
    /\ best_match_score' = WorstScore
    /\ UNCHANGED <<optsVars, turn, outVars>>

StartAll ==
    /\ stage = "start" /\ ArgumentsValid /\ IsMany
    /\ opts.translate_all
    /\ stage' = "translate"
    /\ UNCHANGED <<optsVars, turn, best_match, best_match_score, outVars>>

-----------------------------------------------------------------------------
(* The search for the best match *)

Normalized(s) ==
    LET t == SelectSeq(s, LAMBDA c : c # Underscore)
    IN  [k \in DOMAIN t |-> LowerCase[t[k]]]

Distance(s, t) == IF Len(s) > Len(t) THEN Len(s) - Len(t) ELSE Len(t) - Len(s)

\* The scores of a name for which the looked-for one is a prefix or a suffix,
\* or which is one of it.
Scores(c, l) ==
    {w * Distance(c, l) : w \in {v \in 1..4 :
        \/ v = 1 /\ IsPrefix(l, c)
        \/ v = 2 /\ IsPrefix(c, l)
        \/ v = 3 /\ IsSuffix(l, c)
        \/ v = 4 /\ IsSuffix(c, l)}}

\* No name is so long that a match of it scores like none.
ASSUME ScoresAssumption ==
    \A key \in Keys, l \in Lookups :
        Scores(Normalized(Cname(key)), Normalized(l)) \subseteq 0..(WorstScore - 3)

Candidate == Cname(contracts[turn + 1].key)
ScoresOf(name) == Scores(Normalized(name), Normalized(LookFor))

Better == {w \in ScoresOf(Candidate) : w < best_match_score}

Consider ==
    /\ stage = "search" /\ turn < Len(contracts)
    /\ UNCHANGED <<optsVars, outVars>>

\* Equal but for case and underscores: taken, unless the very name follows.
MatchNormalized ==
    /\ Consider
    /\ Candidate # LookFor /\ Normalized(Candidate) = Normalized(LookFor)
    /\ best_match' = Candidate /\ best_match_score' = 0
    /\ turn' = turn + 1 /\ UNCHANGED stage

\* Mutant of MatchPartly: the latest match is taken, not the best.
MatchPartly_Latest ==
    /\ Consider
    /\ Normalized(Candidate) # Normalized(LookFor)
    /\ LET matches == ScoresOf(Candidate)
       IN  IF matches = {} THEN UNCHANGED <<best_match, best_match_score>>
           ELSE /\ best_match' = Candidate
                /\ best_match_score' = CHOOSE w \in matches : \A v \in matches : w <= v
    /\ turn' = turn + 1 /\ UNCHANGED stage

MatchPartly ==
    /\ Consider
    /\ Normalized(Candidate) # Normalized(LookFor)
    /\ IF Better = {} THEN UNCHANGED <<best_match, best_match_score>>
       ELSE /\ best_match' = Candidate
            /\ best_match_score' = CHOOSE w \in Better : \A v \in Better : w <= v
    /\ turn' = turn + 1 /\ UNCHANGED stage

\* The very name ends the search.
MatchExactly ==
    /\ Consider
    /\ Candidate = LookFor
    /\ best_match' = Candidate
    /\ turn' = 0 /\ stage' = "translate"
    /\ UNCHANGED best_match_score

\* Mutant of EndSearch: the loop that translates goes on where the search ended.
EndSearch_KeepsTurn ==
    /\ stage = "search" /\ turn = Len(contracts)
    /\ stage' = "translate"
    /\ UNCHANGED <<optsVars, turn, best_match, best_match_score, outVars>>

EndSearch ==
    /\ stage = "search" /\ turn = Len(contracts)
    /\ turn' = 0 /\ stage' = "translate"
    /\ UNCHANGED <<optsVars, best_match, best_match_score, outVars>>

-----------------------------------------------------------------------------
(* The contracts of a combined json *)

Here == contracts[turn + 1]

InLoop ==
    /\ stage = "translate" /\ turn < Len(contracts)
    /\ UNCHANGED <<optsVars, best_match, best_match_score>>

IsSelected == opts.translate_all \/ best_match = Cname(Here.key)

Identifier == IF opts.translate_all THEN Cname(Here.key) ELSE LookFor

NextContract ==
    /\ InLoop /\ ~IsSelected
    /\ turn' = turn + 1
    /\ UNCHANGED <<stage, outVars>>

\* Nothing of the contract is written unless all of it can be converted.
Convertible(c) ==
    /\ c.flaw \notin {"bin-runtime", "bin"}
    /\ c.flaw = "srcmap-runtime" => ~opts.emit_sourcemap

Abort == stage' = "error" /\ UNCHANGED turn

Output(identifier) == [identifier |-> identifier, contract |-> turn + 1]

\* Mutant of RejectContract: the ABI is written before the code is converted.
RejectContract_AbiFirst ==
    /\ InLoop /\ IsSelected /\ ~Convertible(Here)
    /\ abis' = Append(abis, Output(Identifier))
    /\ Abort /\ UNCHANGED translated

RejectContract ==
    /\ InLoop /\ IsSelected /\ ~Convertible(Here)
    /\ Abort /\ UNCHANGED outVars

WriteAbiFails ==
    /\ InLoop /\ IsSelected /\ Convertible(Here)
    /\ Abort /\ UNCHANGED outVars

TranslateFails ==
    /\ InLoop /\ IsSelected /\ Convertible(Here)
    /\ abis' = Append(abis, Output(Identifier))
    /\ Abort /\ UNCHANGED translated

\* Mutant of TranslateContract: the loop always ends after a contract.
TranslateContract_Breaks ==
    /\ InLoop /\ IsSelected /\ Convertible(Here)
    /\ abis' = Append(abis, Output(Identifier))
    /\ translated' = Append(translated, Output(Identifier))
    /\ stage' = "done" /\ UNCHANGED turn

\* The contract searched for is the last one that is translated.
TranslateContract ==
    /\ InLoop /\ IsSelected /\ Convertible(Here)
    /\ abis' = Append(abis, Output(Identifier))
    /\ translated' = Append(translated, Output(Identifier))
    /\ IF opts.translate_all THEN turn' = turn + 1 /\ UNCHANGED stage
                             ELSE stage' = "done" /\ UNCHANGED turn

EndLoop ==
    /\ stage = "translate" /\ turn = Len(contracts)
    /\ stage' = "done"
    /\ UNCHANGED <<optsVars, turn, best_match, best_match_score, outVars>>

-----------------------------------------------------------------------------
(* A single contract, from a combined json of its own or raw bytecode *)

\* Raw bytecode has no ABI unless a file for it is given or found.
TranslateOnly(withAbi) ==
    /\ stage = "start" /\ ArgumentsValid /\ ~IsMany
    /\ opts.single => withAbi
    /\ contracts[1].flaw \notin {"bin-runtime", "bin"}
    /\ abis' = IF withAbi THEN <<Output(opts.name)>> ELSE <<>>
    /\ \/ translated' = <<Output(opts.name)>> /\ stage' = "done"
       \/ translated' = <<>> /\ stage' = "error"
    /\ UNCHANGED <<optsVars, turn, best_match, best_match_score>>

Init ==
    /\ opts \in CommandLines
    /\ contracts \in UNION {[1..n -> Contract] : n \in 0..MaxContracts}
    /\ \A k \in 2..Len(contracts) : Before(contracts[k - 1].key, contracts[k].key)
    /\ ~IsMany => Len(contracts) = 1
    /\ stage = "start" /\ turn = 0
    /\ best_match = <<>> /\ best_match_score = 0
    /\ abis = <<>> /\ translated = <<>>

Next ==
    \/ Refuse \/ StartSearch \/ StartAll
    \/ MatchExactly \/ MatchNormalized \/ MatchPartly \/ EndSearch
    \/ NextContract \/ RejectContract \/ WriteAbiFails \/ TranslateFails
    \/ TranslateContract \/ EndLoop
    \/ \E withAbi \in BOOLEAN : TranslateOnly(withAbi)

Spec == Init /\ [][Next]_vars
-----------------------------------------------------------------------------
(* Properties *)

\* How well a name matches what is searched for: the very name, a name that is
\* equal but for case and underscores, the best partial match, none.
Rank(c) ==
    IF c = LookFor THEN 0
    ELSE IF Normalized(c) = Normalized(LookFor) THEN 1
    ELSE IF ScoresOf(c) # {} THEN 2 + Min(ScoresOf(c))
    ELSE WorstScore

Searched == IsMany /\ ~opts.translate_all

\* The contract that is translated is one that matches best, wherever it is
\* in the file, and the only one ("we take this one unless we find
\* non-normalized equality").
BestMatchWins ==
    Searched =>
        /\ Len(translated) <= 1
        /\ \A k \in DOMAIN translated :
              LET rank(j) == Rank(Cname(contracts[j].key))
              IN  \A j \in DOMAIN contracts : rank(translated[k].contract) <= rank(j)

\* A contract that matches is found: a search ends without a translation only
\* if no name matches at all.
MatchesAreFound ==
    stage = "done" /\ Searched /\ translated = <<>> =>
        \A j \in DOMAIN contracts : Rank(Cname(contracts[j].key)) = WorstScore

\* Success is the success of all: every contract of the file was translated,
\* and none that cannot be converted.  A failure leaves those before it.
AllOrError ==
    IsMany /\ opts.translate_all =>
        /\ \A k \in DOMAIN translated :
              translated[k].contract = k /\ Convertible(contracts[k])
        /\ stage = "done" => Len(translated) = Len(contracts)

\* Every ABI in eEVM/fuzz/abi is that of a contract that is translated next,
\* under the same identifier.  Only a translation that fails leaves one alone;
\* a contract that cannot be converted leaves none.
AbisAreTranslateds ==
    LET pending == SubSeq(abis, Len(translated) + 1, Len(abis)) IN
    IsMany => /\ IsPrefix(translated, abis)
              /\ \A k \in DOMAIN pending :
                    k = 1 /\ stage = "error" /\ Convertible(contracts[pending[k].contract])

-----------------------------------------------------------------------------
(* What does not hold *)

\* When main prints "Done!" (main.rs:409) something was translated.
DoneMeansTranslated == stage = "done" /\ contracts # <<>> => translated # <<>>

\* The help of -A says "Translate all contracts found in combined.json"
\* (main.rs:62): the output of none replaces another's.
OutputsAreKept ==
    \A j, k \in DOMAIN translated :
        translated[j].identifier = translated[k].identifier => j = k
=============================================================================
