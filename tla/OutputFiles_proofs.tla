-------------------------- MODULE OutputFiles_proofs --------------------------
(***************************************************************************)
(* Theorems about OutputFiles, for any contracts, any number of            *)
(* translations and operations that fail or are the last at any point:     *)
(* what contracts.h includes, with a clang-format beside every             *)
(* translation; and that the files of a success are whole, if contracts    *)
(* that are formatted are not translated again.                            *)
(***************************************************************************)
EXTENDS OutputFiles, SequenceTheorems, TLAPS

-----------------------------------------------------------------------------
(* The operations in their order *)

\* The operation after which a kind of file is whole.
WrittenAt(kind) ==
    IF kind = "abi" THEN 2 ELSE IF kind = "bb_list" THEN 4 ELSE IF kind = "h" THEN 7
    ELSE IF kind = "cpp" THEN 8 ELSE 11

\* The operation after which the contract is included.
IncludedAt == 9

LEMMA ScriptIs ==
    /\ Len(Script) = 11
    /\ Script[1] = Op("create", "abi")     /\ Script[2] = Op("write", "abi")
    /\ Script[3] = Op("create", "bb_list") /\ Script[4] = Op("write", "bb_list")
    /\ Script[5] = Op("create", "cpp")     /\ Script[6] = Op("create", "h")
    /\ Script[7] = Op("write", "h")        /\ Script[8] = Op("write", "cpp")
    /\ Script[9] = Op("include", "h")
    /\ Script[10] = Op("create", "dict")   /\ Script[11] = Op("write", "dict")
BY DEF Script

LEMMA ScriptOrder ==
    /\ \A kind \in Kinds : WrittenAt(kind) \in 1..11 /\ Script[WrittenAt(kind)] = Op("write", kind)
    /\ \A kind \in Kinds : \A i \in 1..11 : Script[i] = Op("create", kind) => i < WrittenAt(kind)
    /\ \A kind \in Kinds : \A i \in 1..11 : Script[i] = Op("write", kind) => i = WrittenAt(kind)
    /\ \A i \in 1..11 : Script[i] = Op("include", "h") <=> i = IncludedAt
<1>1. \A i \in 1..11 : i \in {1, 2, 3, 4, 5, 6, 7, 8, 9, 10, 11} OBVIOUS
<1>2. ASSUME NEW kind \in Kinds
      PROVE  WrittenAt(kind) \in 1..11 /\ Script[WrittenAt(kind)] = Op("write", kind)
    BY ScriptIs DEF Kinds, WrittenAt
<1>3. ASSUME NEW kind \in Kinds, NEW i \in 1..11, Script[i] = Op("create", kind)
      PROVE  i < WrittenAt(kind)
    BY <1>1, <1>3, ScriptIs DEF Kinds, WrittenAt, Op
<1>4. ASSUME NEW kind \in Kinds, NEW i \in 1..11, Script[i] = Op("write", kind)
      PROVE  i = WrittenAt(kind)
    BY <1>1, <1>4, ScriptIs DEF Kinds, WrittenAt, Op
<1>5. ASSUME NEW i \in 1..11
      PROVE  Script[i] = Op("include", "h") <=> i = IncludedAt
    BY <1>1, ScriptIs DEF IncludedAt, Op
<1> QED BY <1>2, <1>3, <1>4, <1>5

-----------------------------------------------------------------------------
(* The invariant that holds however the program is used *)

Contents == [by : Nat, whole : BOOLEAN, formatted : BOOLEAN]

FilesType ==
    /\ file \in [Contracts -> [Kinds -> Contents]]
    /\ includes \in [Contracts -> Nat] /\ lost \subseteq Contracts

TranslationsType ==
    /\ mode \in Modes
    /\ count \in Nat /\ count <= MaxTranslations
    /\ of \in Seq(Contracts) /\ Len(of) = count
    /\ with_abi \in Seq(BOOLEAN) /\ Len(with_abi) = count
    /\ outcome \in Seq({"running", "failed", "done"}) /\ Len(outcome) = count
    /\ step \in Nat

FormattersType ==
    /\ formatter \in [1..MaxTranslations -> [Targets -> {"none", "started", "read", "ended"}]]
    /\ held \in [1..MaxTranslations -> [Targets -> Contents \cup [Contracts -> Nat] \cup {<<>>}]]

\* One translation runs at a time.
LastRuns == \A t \in 1..count : outcome[t] = "running" => t = count

\* clang-format is started by translations that succeeded.
FormattersFollow ==
    \A t \in 1..MaxTranslations : \A target \in Targets :
        formatter[t][target] # "none" => t <= count /\ outcome[t] = "done" /\ mode.clang_format

\* What it read of contracts.h are includes, and a file's content otherwise.
HeldIncludes ==
    \A t \in 1..MaxTranslations :
        formatter[t]["contracts.h"] \in {"read", "ended"} =>
            held[t]["contracts.h"] \in [Contracts -> Nat]

HeldFiles ==
    \A t \in 1..MaxTranslations : \A target \in {"cpp", "h"} :
        formatter[t][target] \in {"read", "ended"} => held[t][target] \in Contents

\* Latest is well-defined.
HasLatest ==
    \A c \in Contracts : \E t \in Translates(c) \cup {0} : \A u \in Translates(c) : u <= t

Listed(c) == includes[c] > 0 \/ c \in lost

\* A translation that is past its include is listed.
PastIsListed ==
    \A t \in 1..count : \A c \in Contracts :
        /\ of[t] = c
        /\ outcome[t] = "done" \/ (outcome[t] = "running" /\ step >= IncludedAt)
        => Listed(c)

FilesInv ==
    /\ FilesType /\ TranslationsType /\ FormattersType
    /\ LastRuns /\ FormattersFollow /\ HeldIncludes /\ HeldFiles /\ HasLatest /\ PastIsListed

LEMMA FilesInit == Init => FilesInv
<1> SUFFICES ASSUME Init PROVE FilesInv OBVIOUS
<1>1. /\ count = 0 /\ of = <<>> /\ outcome = <<>> /\ step = 0 /\ mode \in Modes
      /\ with_abi = <<>> /\ lost = {}
      /\ file = [c \in Contracts |-> [kind \in Kinds |-> Absent]]
      /\ includes = [c \in Contracts |-> 0]
      /\ formatter = [t \in 1..MaxTranslations |-> [target \in Targets |-> "none"]]
      /\ held = [t \in 1..MaxTranslations |-> [target \in Targets |-> <<>>]]
    BY DEF Init
<1>2. Absent \in Contents BY DEF Absent, Content, Contents
<1>3. FilesType BY <1>1, <1>2 DEF FilesType
<1>4. TranslationsType BY <1>1, EmptySeq, OutputAssumption DEF TranslationsType
<1>5. FormattersType BY <1>1 DEF FormattersType
<1>6. FormattersFollow BY <1>1 DEF FormattersFollow
<1>7. HeldIncludes /\ HeldFiles BY <1>1 DEF HeldIncludes, HeldFiles, Targets
<1>8. \A t : t \notin 1..count BY <1>1
<1>9. LastRuns /\ PastIsListed BY <1>8 DEF LastRuns, PastIsListed
<1>10. HasLatest
    <2>1. \A c : Translates(c) = {} BY <1>8 DEF Translates
    <2> QED BY <2>1 DEF HasLatest
<1> QED BY <1>3, <1>4, <1>5, <1>6, <1>7, <1>9, <1>10 DEF FilesInv

\* While a translation runs it is the last one, and it is of a contract.
LEMMA TheRunning ==
    ASSUME FilesInv, ~Idle
    PROVE  /\ count \in 1..count /\ count \in 1..MaxTranslations
           /\ outcome[count] = "running" /\ of[count] \in Contracts
           /\ \A target \in Targets : formatter[count][target] = "none"
<1>1. count \in Nat /\ count <= MaxTranslations /\ Len(of) = count /\ of \in Seq(Contracts)
    BY DEF FilesInv, TranslationsType
<1>2. PICK t \in 1..count : outcome[t] = "running" BY DEF Idle
<1>3. t = count BY <1>2 DEF FilesInv, LastRuns
<1>4. count \in 1..count /\ count \in 1..MaxTranslations
    BY ONLY <1>1, <1>2, <1>3, OutputAssumption
<1>5. of[count] \in Contracts BY ONLY <1>1, <1>4, ElementOfSeq
<1>6. \A target \in Targets : formatter[count][target] = "none"
    BY <1>2, <1>3, <1>4 DEF FilesInv, FormattersFollow
<1> QED BY <1>2, <1>3, <1>4, <1>5, <1>6

\* What a step between two operations leaves of the translations.
LEMMA AdvanceKeeps ==
    ASSUME FilesInv, Advance PROVE TranslationsType' /\ FormattersType' /\ LastRuns'
                                   /\ FormattersFollow' /\ HeldIncludes' /\ HeldFiles' /\ HasLatest'
<1>1. /\ step' = step + 1 /\ mode' = mode /\ count' = count /\ of' = of /\ outcome' = outcome
      /\ with_abi' = with_abi /\ formatter' = formatter /\ held' = held
    BY DEF Advance, formatVars
<1>2. TranslationsType' BY <1>1 DEF FilesInv, TranslationsType
<1>3. FormattersType' BY <1>1 DEF FilesInv, FormattersType
<1>4. LastRuns' /\ FormattersFollow' /\ HeldIncludes' /\ HeldFiles'
    BY <1>1 DEF FilesInv, LastRuns, FormattersFollow, HeldIncludes, HeldFiles
<1>5. HasLatest' BY <1>1 DEF FilesInv, HasLatest, Translates
<1> QED BY <1>2, <1>3, <1>4, <1>5

\* Listed contracts stay listed where nothing is taken away.
LEMMA ListedKept ==
    ASSUME FilesInv, NEW c \in Contracts, Listed(c),
           includes'[c] \in Nat, includes'[c] >= includes[c],
           c \in lost => c \in lost' \/ includes'[c] > 0
    PROVE  Listed(c)'
<1>1. includes[c] \in Nat BY DEF FilesInv, FilesType
<1>2. includes[c] > 0 => includes'[c] > 0
    BY ONLY <1>1, includes'[c] \in Nat, includes'[c] >= includes[c]
<1> QED BY <1>2 DEF Listed

LEMMA StartInv ==
    ASSUME FilesInv, NEW c \in Contracts, NEW abi \in BOOLEAN, Start(c, abi) PROVE FilesInv'
<1>1. /\ Idle /\ count < MaxTranslations /\ count' = count + 1
      /\ of' = Append(of, c) /\ outcome' = Append(outcome, "running")
      /\ with_abi' = Append(with_abi, abi) /\ step' = IF abi THEN 0 ELSE 2
      /\ mode' = mode /\ file' = file /\ includes' = includes /\ lost' = lost
      /\ formatter' = formatter /\ held' = held
    BY DEF Start, AbiOps, headerVars, formatVars
<1>2. /\ count \in Nat /\ count <= MaxTranslations /\ mode \in Modes
      /\ of \in Seq(Contracts) /\ Len(of) = count
      /\ with_abi \in Seq(BOOLEAN) /\ Len(with_abi) = count
      /\ outcome \in Seq({"running", "failed", "done"}) /\ Len(outcome) = count
    BY DEF FilesInv, TranslationsType
<1>3. /\ of' \in Seq(Contracts) /\ Len(of') = count + 1 /\ of'[count + 1] = c
      /\ \A t \in 1..count : of'[t] = of[t]
    BY ONLY <1>1, <1>2, AppendProperties, c \in Contracts
<1>4. /\ outcome' \in Seq({"running", "failed", "done"}) /\ Len(outcome') = count + 1
      /\ outcome'[count + 1] = "running" /\ \A t \in 1..count : outcome'[t] = outcome[t]
    <2>1. "running" \in {"running", "failed", "done"} OBVIOUS
    <2> QED BY ONLY <1>1, <1>2, <2>1, AppendProperties
<1>5. /\ count + 1 \in Nat /\ count + 1 <= MaxTranslations /\ step' \in Nat /\ ~(step' >= 9)
    BY ONLY <1>1, <1>2, OutputAssumption
<1>14. with_abi' \in Seq(BOOLEAN) /\ Len(with_abi') = count + 1
    BY ONLY <1>1, <1>2, AppendProperties, abi \in BOOLEAN
<1>6. TranslationsType' BY ONLY <1>1, <1>2, <1>3, <1>4, <1>5, <1>14 DEF TranslationsType
<1>7. FilesType' /\ FormattersType' /\ HeldIncludes' /\ HeldFiles'
    BY <1>1 DEF FilesInv, FilesType, FormattersType, HeldIncludes, HeldFiles
<1>8. \A t \in 1..count' : t \in 1..count \/ t = count + 1 BY ONLY <1>1, <1>2
<1>9. \A t \in 1..count : outcome[t] # "running" BY <1>1 DEF Idle
<1>10. LastRuns' BY ONLY <1>1, <1>4, <1>8, <1>9 DEF LastRuns
<1>11. FormattersFollow'
    <2>1. ASSUME NEW t \in 1..MaxTranslations, NEW target \in Targets, formatter[t][target] # "none"
          PROVE  t <= count + 1 /\ outcome'[t] = "done" /\ mode.clang_format
        <3>1. t <= count /\ outcome[t] = "done" /\ mode.clang_format
            BY <2>1 DEF FilesInv, FormattersFollow
        <3>2. t \in 1..count /\ t <= count + 1 BY ONLY <1>2, <3>1, OutputAssumption, t \in 1..MaxTranslations
        <3> QED BY ONLY <1>4, <3>1, <3>2
    <2> QED BY ONLY <1>1, <2>1 DEF FormattersFollow
<1>12. HasLatest'
    <2>1. ASSUME NEW d \in Contracts
          PROVE  \E t \in Translates(d)' \cup {0} : \A u \in Translates(d)' : u <= t
        <3>1. CASE d = c
            <4>1. count + 1 \in Translates(d)'
                <5>1. count + 1 \in 1..count' BY ONLY <1>1, <1>2
                <5> QED BY ONLY <1>3, <3>1, <5>1 DEF Translates
            <4>2. \A u \in Translates(d)' : u <= count + 1 BY ONLY <1>1, <1>2 DEF Translates
            <4> QED BY ONLY <4>1, <4>2
        <3>2. CASE d # c
            <4>1. ASSUME NEW t PROVE t \in Translates(d)' <=> t \in Translates(d)
                <5>1. t \in 1..count => t \in 1..count' BY ONLY <1>1, <1>2
                <5> QED BY ONLY <1>3, <1>8, <3>2, <5>1 DEF Translates
            <4>2. \E t \in Translates(d) \cup {0} : \A u \in Translates(d) : u <= t
                BY DEF FilesInv, HasLatest
            <4> QED BY ONLY <4>1, <4>2
        <3> QED BY ONLY <3>1, <3>2
    <2> QED BY ONLY <2>1 DEF HasLatest
<1>13. PastIsListed'
    <2>1. ASSUME NEW t \in 1..count', NEW d \in Contracts, of'[t] = d,
                 outcome'[t] = "done" \/ (outcome'[t] = "running" /\ step' >= IncludedAt)
          PROVE  Listed(d)'
        <3>1. t \in 1..count /\ outcome[t] = "done"
            <4>1. ~(step' >= IncludedAt) BY ONLY <1>5 DEF IncludedAt
            <4> QED BY ONLY <1>4, <1>8, <2>1, <4>1
        <3>2. of[t] = d BY ONLY <1>3, <2>1, <3>1
        <3>3. Listed(d) BY <3>1, <3>2 DEF FilesInv, PastIsListed
        <3> QED BY ONLY <1>1, <3>3 DEF Listed
    <2> QED BY ONLY <2>1 DEF PastIsListed
<1> QED BY <1>6, <1>7, <1>10, <1>11, <1>12, <1>13 DEF FilesInv

\* The operations on the contract's own files.
LEMMA FileStepInv ==
    ASSUME FilesInv, ~Idle, Advance, includes' = includes, lost' = lost, FilesType',
           step + 1 # IncludedAt
    PROVE  FilesInv'
<1>1. /\ step' = step + 1 /\ count' = count /\ of' = of /\ outcome' = outcome
      /\ formatter' = formatter /\ held' = held
    BY DEF Advance, formatVars
<1>2. step \in Nat /\ count \in Nat BY DEF FilesInv, TranslationsType
<1>3. PastIsListed'
    <2>1. ASSUME NEW t \in 1..count', NEW d \in Contracts, of'[t] = d,
                 outcome'[t] = "done" \/ (outcome'[t] = "running" /\ step' >= IncludedAt)
          PROVE  Listed(d)'
        <3>1. step' >= IncludedAt => step >= IncludedAt
            BY ONLY <1>1, <1>2, step + 1 # IncludedAt DEF IncludedAt
        <3>2. Listed(d) BY <1>1, <2>1, <3>1 DEF FilesInv, PastIsListed
        <3> QED BY ONLY <3>2, includes' = includes, lost' = lost DEF Listed
    <2> QED BY ONLY <2>1 DEF PastIsListed
<1> QED BY <1>3, AdvanceKeeps DEF FilesInv

\* What an operation does was the script's.
LEMMA DoingIs ==
    ASSUME FilesInv, NEW op, Doing(op)
    PROVE  step + 1 \in 1..11 /\ Script[step + 1] = op /\ ~Idle
BY ScriptIs DEF Doing, FilesInv, TranslationsType

LEMMA CreateInv == ASSUME FilesInv, NEW kind \in Kinds, CreateFile(kind) PROVE FilesInv'
<1>1. /\ step + 1 \in 1..11 /\ Script[step + 1] = Op("create", kind) /\ ~Idle
    BY DoingIs DEF CreateFile
<1>2. step + 1 # IncludedAt
    <2>1. Op("create", kind) # Op("include", "h") BY DEF Op
    <2> QED BY <1>1, <2>1, ScriptOrder
<1>3. FilesType'
    <2>1. Content(count, FALSE, FALSE) \in Contents
        BY DEF Content, Contents, FilesInv, TranslationsType
    <2>2. file' \in [Contracts -> [Kinds -> Contents]]
        BY <1>1, <2>1, TheRunning DEF CreateFile, FilesInv, FilesType
    <2> QED BY <2>2 DEF CreateFile, headerVars, FilesInv, FilesType
<1> QED BY <1>1, <1>2, <1>3, FileStepInv DEF CreateFile, headerVars

LEMMA WriteInv == ASSUME FilesInv, NEW kind \in Kinds, WriteFile(kind) PROVE FilesInv'
<1>1. /\ step + 1 \in 1..11 /\ Script[step + 1] = Op("write", kind) /\ ~Idle
    BY DoingIs DEF WriteFile
<1>2. step + 1 # IncludedAt
    <2>1. Op("write", kind) # Op("include", "h") BY DEF Op
    <2> QED BY <1>1, <2>1, ScriptOrder
<1>3. FilesType'
    <2>1. Content(count, TRUE, FALSE) \in Contents
        BY DEF Content, Contents, FilesInv, TranslationsType
    <2>2. file' \in [Contracts -> [Kinds -> Contents]]
        BY <1>1, <2>1, TheRunning DEF WriteFile, FilesInv, FilesType
    <2> QED BY <2>2 DEF WriteFile, headerVars, FilesInv, FilesType
<1> QED BY <1>1, <1>2, <1>3, FileStepInv DEF WriteFile, headerVars

LEMMA IncludeInv == ASSUME FilesInv, AppendInclude PROVE FilesInv'
<1>1. /\ step + 1 \in 1..11 /\ Script[step + 1] = Op("include", "h") /\ ~Idle
    BY DoingIs DEF AppendInclude
<1>2. step + 1 = IncludedAt BY <1>1, ScriptOrder
<1>3. /\ Advance /\ file' = file
      /\ includes' = [includes EXCEPT ![of[count]] = includes[of[count]] + 1]
      /\ lost' = lost \ {of[count]}
    BY DEF AppendInclude
<1>4. /\ count' = count /\ of' = of /\ outcome' = outcome /\ step' = step + 1
      /\ formatter' = formatter /\ held' = held
    BY <1>3 DEF Advance, formatVars
<1>5. /\ count \in 1..count /\ outcome[count] = "running" /\ of[count] \in Contracts /\ count \in Nat
    BY <1>1, TheRunning
<1>6. /\ includes \in [Contracts -> Nat] /\ file \in [Contracts -> [Kinds -> Contents]]
      /\ lost \subseteq Contracts
    BY DEF FilesInv, FilesType
<1>7. /\ includes' \in [Contracts -> Nat]
      /\ \A d \in Contracts : includes'[d] >= includes[d]
      /\ includes'[of[count]] > 0
    BY ONLY <1>3, <1>5, <1>6
<1>8. FilesType' BY ONLY <1>3, <1>6, <1>7 DEF FilesType
<1>9. PastIsListed'
    <2>1. ASSUME NEW t \in 1..count', NEW d \in Contracts, of'[t] = d,
                 outcome'[t] = "done" \/ (outcome'[t] = "running" /\ step' >= IncludedAt)
          PROVE  Listed(d)'
        <3>1. CASE outcome[t] = "running"
            <4>1. t = count BY ONLY <1>4, <2>1, <3>1, FilesInv DEF FilesInv, LastRuns
            <4>2. includes'[d] > 0 BY ONLY <1>4, <1>7, <2>1, <4>1
            <4> QED BY <4>2 DEF Listed
        <3>2. CASE outcome[t] # "running"
            <4>1. Listed(d) BY ONLY <1>4, <2>1, <3>2, FilesInv DEF FilesInv, PastIsListed
            <4>2. includes'[d] >= includes[d] /\ includes'[d] \in Nat BY ONLY <1>7, d \in Contracts
            <4>3. d \in lost => d \in lost' \/ includes'[d] > 0 BY ONLY <1>3, <1>7
            <4> QED BY ONLY FilesInv, <4>1, <4>2, <4>3, d \in Contracts, ListedKept
        <3> QED BY ONLY <3>1, <3>2
    <2> QED BY ONLY <2>1 DEF PastIsListed
<1> QED BY <1>3, <1>8, <1>9, AdvanceKeeps DEF FilesInv

\* The end of a translation, whether clang-format was started or not.
LEMMA EndInv ==
    ASSUME FilesInv, ~Idle, NEW how \in {"failed", "done"}, Ends(how),
           how = "done" => step >= IncludedAt,
           held' = held, FormattersType',
           \A t \in 1..MaxTranslations : \A target \in Targets :
               \/ formatter'[t][target] = formatter[t][target]
               \/ t = count /\ formatter'[t][target] = "started" /\ how = "done" /\ mode.clang_format
    PROVE  FilesInv'
<1>1. /\ outcome' = [outcome EXCEPT ![count] = how]
      /\ mode' = mode /\ file' = file /\ includes' = includes /\ lost' = lost /\ count' = count
      /\ of' = of /\ with_abi' = with_abi /\ step' = step
    BY DEF Ends, headerVars
<1>2. /\ count \in 1..count /\ count \in 1..MaxTranslations /\ outcome[count] = "running"
      /\ of[count] \in Contracts
      /\ \A target \in Targets : formatter[count][target] = "none"
    BY TheRunning
<1>3. /\ count \in Nat /\ outcome \in Seq({"running", "failed", "done"}) /\ Len(outcome) = count
    BY DEF FilesInv, TranslationsType
<1>4. /\ outcome' \in Seq({"running", "failed", "done"}) /\ Len(outcome') = count
      /\ \A t \in 1..count : outcome'[t] = IF t = count THEN how ELSE outcome[t]
    <2>1. how \in {"running", "failed", "done"} OBVIOUS
    <2> QED BY ONLY <1>1, <1>2, <1>3, <2>1, ExceptSeq
<1>5. TranslationsType' BY <1>1, <1>4 DEF FilesInv, TranslationsType
<1>6. FilesType' BY <1>1 DEF FilesInv, FilesType
<1>7. LastRuns'
    <2>1. how # "running" OBVIOUS
    <2> QED BY ONLY <1>1, <1>4, <2>1, FilesInv DEF FilesInv, LastRuns
<1>8. FormattersFollow'
    <2>1. ASSUME NEW t \in 1..MaxTranslations, NEW target \in Targets, formatter'[t][target] # "none"
          PROVE  t <= count /\ outcome'[t] = "done" /\ mode.clang_format
        <3>1. CASE formatter'[t][target] = formatter[t][target]
            <4>1. t <= count /\ outcome[t] = "done" /\ mode.clang_format /\ t # count
                BY <1>2, <2>1, <3>1 DEF FilesInv, FormattersFollow
            <4>2. t \in 1..count BY ONLY <1>3, <4>1, OutputAssumption, t \in 1..MaxTranslations
            <4> QED BY ONLY <1>4, <4>1, <4>2
        <3>2. CASE formatter'[t][target] # formatter[t][target]
            <4>1. t = count /\ how = "done" /\ mode.clang_format BY <3>2
            <4> QED BY ONLY <1>2, <1>3, <1>4, <4>1
        <3> QED BY ONLY <3>1, <3>2
    <2> QED BY ONLY <1>1, <2>1 DEF FormattersFollow
<1>9. \A t \in 1..MaxTranslations : \A target \in Targets :
          formatter'[t][target] \in {"read", "ended"} =>
              formatter[t][target] = formatter'[t][target]
    OBVIOUS
<1>10. HeldIncludes' /\ HeldFiles'
    BY <1>9 DEF FilesInv, HeldIncludes, HeldFiles, Targets
<1>11. HasLatest' BY <1>1 DEF FilesInv, HasLatest, Translates
<1>12. PastIsListed'
    <2>1. ASSUME NEW t \in 1..count', NEW d \in Contracts, of'[t] = d,
                 outcome'[t] = "done" \/ (outcome'[t] = "running" /\ step' >= IncludedAt)
          PROVE  Listed(d)'
        <3>1. outcome[t] = "done" \/ (outcome[t] = "running" /\ step >= IncludedAt)
            BY <1>1, <1>2, <1>4, <2>1
        <3>2. Listed(d) BY ONLY <1>1, <2>1, <3>1, FilesInv DEF FilesInv, PastIsListed
        <3> QED BY ONLY <1>1, <3>2 DEF Listed
    <2> QED BY ONLY <2>1 DEF PastIsListed
<1> QED BY <1>5, <1>6, <1>7, <1>8, <1>10, <1>11, <1>12 DEF FilesInv

LEMMA FailInv == ASSUME FilesInv, Fail PROVE FilesInv'
<1>1. ~Idle /\ Ends("failed") /\ formatter' = formatter /\ held' = held BY DEF Fail, formatVars
<1>2. FormattersType' BY <1>1 DEF FilesInv, FormattersType
<1> QED BY <1>1, <1>2, EndInv

LEMMA FinishAtEnd == ASSUME FilesInv, Finish PROVE ~Idle /\ step = 11 /\ step >= IncludedAt /\ Ends("done")
BY ScriptIs DEF Finish, IncludedAt

LEMMA FinishPlainInv == ASSUME FilesInv, FinishPlain PROVE FilesInv'
<1>1. ~Idle /\ Ends("done") /\ step >= IncludedAt /\ formatter' = formatter /\ held' = held
    BY FinishAtEnd DEF FinishPlain, formatVars
<1>2. FormattersType' BY <1>1 DEF FilesInv, FormattersType
<1> QED BY <1>1, <1>2, EndInv

LEMMA FinishFormattingInv ==
    ASSUME FilesInv, NEW started \in SUBSET Targets, FinishFormatting(started)
    PROVE  FilesInv'
<1>1. ~Idle /\ Ends("done") /\ step >= IncludedAt /\ held' = held /\ mode.clang_format
    BY FinishAtEnd DEF FinishFormatting
<1>2. /\ count \in 1..MaxTranslations
      /\ \A target \in Targets : formatter[count][target] = "none"
    BY <1>1, TheRunning
<1>3. formatter' = [formatter EXCEPT ![count] =
                       [target \in Targets |-> IF target \in started THEN "started" ELSE "none"]]
    BY DEF FinishFormatting, FormatterStarts
<1>4. /\ formatter \in [1..MaxTranslations -> [Targets -> {"none", "started", "read", "ended"}]]
      /\ FormattersType
    BY DEF FilesInv, FormattersType
<1>5. formatter' \in [1..MaxTranslations -> [Targets -> {"none", "started", "read", "ended"}]]
    BY ONLY <1>2, <1>3, <1>4
<1>6. FormattersType' BY ONLY <1>1, <1>4, <1>5 DEF FormattersType
<1>7. \A t \in 1..MaxTranslations : \A target \in Targets :
          \/ formatter'[t][target] = formatter[t][target]
          \/ t = count /\ formatter'[t][target] = "started"
    BY ONLY <1>2, <1>3, <1>4
<1> QED BY <1>1, <1>6, <1>7, EndInv

-----------------------------------------------------------------------------
(* clang-format's steps *)

LEMMA MovesIs ==
    ASSUME FilesInv, NEW t \in 1..count, NEW target \in Targets,
           NEW from \in {"started", "read"}, NEW to \in {"read", "ended"}, Moves(t, target, from, to)
    PROVE  /\ t \in 1..MaxTranslations /\ formatter[t][target] = from
           /\ formatter' \in [1..MaxTranslations -> [Targets -> {"none", "started", "read", "ended"}]]
           /\ \A u \in 1..MaxTranslations : \A g \in Targets :
                 formatter'[u][g] = IF u = t /\ g = target THEN to ELSE formatter[u][g]
           /\ mode' = mode /\ count' = count /\ of' = of /\ step' = step /\ outcome' = outcome
           /\ with_abi' = with_abi
           /\ TranslationsType' /\ LastRuns' /\ HasLatest' /\ FormattersFollow'
           /\ outcome[t] = "done" /\ mode.clang_format
<1>1. count \in Nat /\ count <= MaxTranslations BY DEF FilesInv, TranslationsType
<1>2. t \in 1..MaxTranslations BY ONLY <1>1, OutputAssumption, t \in 1..count
<1>3. /\ formatter[t][target] = from
      /\ formatter' = [formatter EXCEPT ![t][target] = to]
      /\ mode' = mode /\ count' = count /\ of' = of /\ step' = step /\ outcome' = outcome
      /\ with_abi' = with_abi
    BY DEF Moves, transVars
<1>4. formatter \in [1..MaxTranslations -> [Targets -> {"none", "started", "read", "ended"}]]
    BY DEF FilesInv, FormattersType
<1>5. /\ formatter' \in [1..MaxTranslations -> [Targets -> {"none", "started", "read", "ended"}]]
      /\ \A u \in 1..MaxTranslations : \A g \in Targets :
            formatter'[u][g] = IF u = t /\ g = target THEN to ELSE formatter[u][g]
    BY ONLY <1>2, <1>3, <1>4, target \in Targets, to \in {"read", "ended"}
<1>6. outcome[t] = "done" /\ mode.clang_format /\ t <= count
    BY <1>2, <1>3 DEF FilesInv, FormattersFollow
<1>7. FormattersFollow'
    BY ONLY <1>3, <1>5, <1>6, FilesInv DEF FilesInv, FormattersFollow
<1>8. TranslationsType' /\ LastRuns' BY <1>3 DEF FilesInv, TranslationsType, LastRuns
<1>9. HasLatest' BY <1>3 DEF FilesInv, HasLatest, Translates
<1> QED BY <1>2, <1>3, <1>5, <1>6, <1>7, <1>8, <1>9

\* A step of clang-format leaves listed what was listed, if includes that
\* are taken away are lost to it.
LEMMA FormatListed ==
    ASSUME FilesInv, count' = count, of' = of, step' = step, outcome' = outcome,
           \A d \in Contracts : Listed(d) => Listed(d)'
    PROVE  PastIsListed'
BY DEF FilesInv, PastIsListed

LEMMA ReadsInv ==
    ASSUME FilesInv, NEW t \in 1..count, NEW target \in Targets, FormatReads(t, target)
    PROVE  FilesInv'
<1>1. Moves(t, target, "started", "read") BY DEF FormatReads
<1>2. /\ t \in 1..MaxTranslations /\ formatter[t][target] = "started"
      /\ formatter' \in [1..MaxTranslations -> [Targets -> {"none", "started", "read", "ended"}]]
      /\ \A u \in 1..MaxTranslations : \A g \in Targets :
            formatter'[u][g] = IF u = t /\ g = target THEN "read" ELSE formatter[u][g]
      /\ mode' = mode /\ count' = count /\ of' = of /\ step' = step /\ outcome' = outcome
      /\ TranslationsType' /\ LastRuns' /\ HasLatest' /\ FormattersFollow'
    BY <1>1, MovesIs
<1>3. /\ held' = [held EXCEPT ![t][target] =
                     IF target = "contracts.h" THEN includes ELSE file[of[t]][target]]
      /\ file' = file /\ includes' = includes /\ lost' = lost
    BY DEF FormatReads, headerVars
<1>4. /\ lost \subseteq Contracts
      /\ file \in [Contracts -> [Kinds -> Contents]] /\ includes \in [Contracts -> Nat]
      /\ held \in [1..MaxTranslations -> [Targets -> Contents \cup [Contracts -> Nat] \cup {<<>>}]]
      /\ count \in Nat /\ count <= MaxTranslations
      /\ of \in Seq(Contracts) /\ Len(of) = count
    BY DEF FilesInv, FilesType, FormattersType, TranslationsType
<1> DEFINE x == IF target = "contracts.h" THEN includes ELSE file[of[t]][target]
<1>5. /\ x \in Contents \cup [Contracts -> Nat]
      /\ IF target = "contracts.h" THEN x = includes ELSE x \in Contents
    <2>1. of[t] \in Contracts BY ONLY <1>4, t \in 1..count, ElementOfSeq
    <2>2. target # "contracts.h" => target \in Kinds BY DEF Targets, Kinds
    <2> QED BY ONLY <1>4, <2>1, <2>2
<1> HIDE DEF x
<1>6. /\ held' \in [1..MaxTranslations -> [Targets -> Contents \cup [Contracts -> Nat] \cup {<<>>}]]
      /\ \A u \in 1..MaxTranslations : \A g \in Targets :
            held'[u][g] = IF u = t /\ g = target THEN x ELSE held[u][g]
    <2>1. held' = [held EXCEPT ![t][target] = x] BY ONLY <1>3 DEF x
    <2> QED BY ONLY <1>2, <1>4, <1>5, <2>1, target \in Targets
<1>7. FormattersType' BY ONLY <1>2, <1>6 DEF FormattersType
<1>8. FilesType' BY ONLY <1>3, <1>4 DEF FilesType
<1>9. "contracts.h" \in Targets BY DEF Targets
<1>10. HeldIncludes'
    <2>1. ASSUME NEW u \in 1..MaxTranslations, formatter'[u]["contracts.h"] \in {"read", "ended"}
          PROVE  held'[u]["contracts.h"] \in [Contracts -> Nat]
        <3>1. CASE u = t /\ target = "contracts.h"
            BY ONLY <1>4, <1>5, <1>6, <1>9, <3>1
        <3>2. CASE ~(u = t /\ target = "contracts.h")
            <4>1. /\ formatter[u]["contracts.h"] \in {"read", "ended"}
                  /\ held'[u]["contracts.h"] = held[u]["contracts.h"]
                BY ONLY <1>2, <1>6, <1>9, <2>1, <3>2
            <4> QED BY <4>1 DEF FilesInv, HeldIncludes
        <3> QED BY ONLY <3>1, <3>2
    <2> QED BY ONLY <2>1 DEF HeldIncludes
<1>12. HeldFiles'
    <2>1. ASSUME NEW u \in 1..MaxTranslations, NEW g \in {"cpp", "h"},
                 formatter'[u][g] \in {"read", "ended"}
          PROVE  held'[u][g] \in Contents
        <3>1. g \in Targets /\ g # "contracts.h" BY DEF Targets
        <3>2. CASE u = t /\ g = target
            BY ONLY <1>5, <1>6, <3>1, <3>2
        <3>3. CASE ~(u = t /\ g = target)
            <4>1. formatter[u][g] \in {"read", "ended"} /\ held'[u][g] = held[u][g]
                BY ONLY <1>2, <1>6, <2>1, <3>1, <3>3
            <4> QED BY <4>1 DEF FilesInv, HeldFiles
        <3> QED BY ONLY <3>2, <3>3
    <2> QED BY ONLY <2>1 DEF HeldFiles
<1>11. PastIsListed'
    <2>2. \A d \in Contracts : Listed(d) => Listed(d)' BY ONLY <1>3 DEF Listed
    <2> QED BY ONLY FilesInv, <1>2, <2>2, FormatListed
<1> QED BY <1>2, <1>7, <1>8, <1>10, <1>11, <1>12 DEF FilesInv

LEMMA WritesInv ==
    ASSUME FilesInv, NEW t \in 1..count, NEW target \in Targets, FormatWrites(t, target)
    PROVE  FilesInv'
<1>1. Moves(t, target, "read", "ended") /\ target # "contracts.h" BY DEF FormatWrites
<1>2. /\ t \in 1..MaxTranslations
      /\ formatter' \in [1..MaxTranslations -> [Targets -> {"none", "started", "read", "ended"}]]
      /\ \A u \in 1..MaxTranslations : \A g \in Targets :
            formatter'[u][g] = IF u = t /\ g = target THEN "ended" ELSE formatter[u][g]
      /\ mode' = mode /\ count' = count /\ of' = of /\ step' = step /\ outcome' = outcome
      /\ TranslationsType' /\ LastRuns' /\ HasLatest' /\ FormattersFollow'
    BY <1>1, MovesIs
<1>3. includes' = includes /\ lost' = lost /\ held' = held BY DEF FormatWrites, headerVars
<1>4. FormattersType' BY <1>2, <1>3 DEF FilesInv, FormattersType
<1>5. \A u \in 1..MaxTranslations : formatter'[u]["contracts.h"] = formatter[u]["contracts.h"]
    BY <1>1, <1>2 DEF Targets
<1>6. HeldIncludes' BY <1>3, <1>5 DEF FilesInv, HeldIncludes
<1>7. count \in Nat /\ count <= MaxTranslations BY DEF FilesInv, TranslationsType
<1>9. target \in {"cpp", "h"} /\ target \in Kinds BY <1>1 DEF Targets, Kinds
<1>10. held[t][target] \in Contents
    BY <1>1, <1>2, <1>9 DEF Moves, FilesInv, HeldFiles
<1>11. FilesType'
    <2>1. of[t] \in Contracts BY <1>7, ElementOfSeq DEF FilesInv, TranslationsType
    <2>2. [held[t][target] EXCEPT !.formatted = TRUE] \in Contents BY ONLY <1>10 DEF Contents
    <2>3. file' = [file EXCEPT ![of[t]][target] = [held[t][target] EXCEPT !.formatted = TRUE]]
        BY DEF FormatWrites
    <2>4. /\ file \in [Contracts -> [Kinds -> Contents]] /\ includes \in [Contracts -> Nat]
          /\ lost \subseteq Contracts
        BY DEF FilesInv, FilesType
    <2>5. file' \in [Contracts -> [Kinds -> Contents]] BY ONLY <1>9, <2>1, <2>2, <2>3, <2>4
    <2> QED BY ONLY <1>3, <2>4, <2>5 DEF FilesType
<1>12. HeldFiles'
    <2>1. \A g \in {"cpp", "h"} : g \in Targets BY DEF Targets
    <2>2. ASSUME NEW u \in 1..MaxTranslations, NEW g \in {"cpp", "h"},
                 formatter'[u][g] \in {"read", "ended"}
          PROVE  held'[u][g] \in Contents
        <3>1. CASE u = t /\ g = target BY ONLY <1>3, <1>10, <3>1
        <3>2. CASE ~(u = t /\ g = target)
            <4>1. formatter[u][g] \in {"read", "ended"} BY ONLY <1>2, <2>1, <2>2, <3>2
            <4> QED BY <1>3, <4>1 DEF FilesInv, HeldFiles
        <3> QED BY ONLY <3>1, <3>2
    <2> QED BY ONLY <2>2 DEF HeldFiles
<1>8. PastIsListed'
    <2>2. \A d \in Contracts : Listed(d) => Listed(d)' BY ONLY <1>3 DEF Listed
    <2> QED BY ONLY FilesInv, <1>2, <2>2, FormatListed
<1> QED BY <1>2, <1>4, <1>6, <1>8, <1>11, <1>12 DEF FilesInv

LEMMA WritesAllInv ==
    ASSUME FilesInv, NEW t \in 1..count, FormatWritesAll(t)
    PROVE  /\ FilesInv'
           /\ \A d \in Contracts : includes'[d] = 0 => Drops(t, d)
<1> DEFINE target == "contracts.h"
<1>1. Moves(t, target, "read", "ended") /\ target \in Targets BY DEF FormatWritesAll, Targets
<1>2. /\ t \in 1..MaxTranslations /\ formatter[t][target] = "read"
      /\ formatter' \in [1..MaxTranslations -> [Targets -> {"none", "started", "read", "ended"}]]
      /\ \A u \in 1..MaxTranslations : \A g \in Targets :
            formatter'[u][g] = IF u = t /\ g = target THEN "ended" ELSE formatter[u][g]
      /\ mode' = mode /\ count' = count /\ of' = of /\ step' = step /\ outcome' = outcome
      /\ TranslationsType' /\ LastRuns' /\ HasLatest' /\ FormattersFollow'
    BY <1>1, MovesIs
<1>3. /\ includes' = [c \in Contracts |-> IF held[t]["contracts.h"][c] > 0 THEN 1 ELSE 0]
      /\ lost' = {c \in Contracts : (includes[c] > 0 \/ c \in lost) /\ held[t]["contracts.h"][c] = 0}
      /\ file' = file /\ held' = held
    BY DEF FormatWritesAll
<1>4. FormattersType' BY <1>2, <1>3 DEF FilesInv, FormattersType
<1>5. FilesType' BY <1>3 DEF FilesInv, FilesType
<1>6. held[t]["contracts.h"] \in [Contracts -> Nat] BY <1>2 DEF FilesInv, HeldIncludes
<1>7. HeldIncludes' /\ HeldFiles' BY <1>1, <1>2, <1>3 DEF FilesInv, HeldIncludes, HeldFiles, Targets
<1>8. formatter'[t]["contracts.h"] = "ended" BY <1>1, <1>2
<1>9. ASSUME NEW d \in Contracts, includes'[d] = 0 PROVE Drops(t, d)
    <2>1. held[t]["contracts.h"][d] = 0 BY ONLY <1>3, <1>6, <1>9
    <2> QED BY ONLY <1>2, <1>8, <2>1 DEF Drops
<1>10. ASSUME NEW d \in Contracts, Listed(d) PROVE Listed(d)'
    <2>1. includes'[d] > 0 \/ held[t]["contracts.h"][d] = 0 BY ONLY <1>3, <1>6, d \in Contracts
    <2>2. held[t]["contracts.h"][d] = 0 => d \in lost' BY ONLY <1>3, <1>10 DEF Listed
    <2> QED BY ONLY <2>1, <2>2 DEF Listed
<1>11. PastIsListed' BY ONLY FilesInv, <1>2, <1>10, FormatListed
<1>12. FilesInv' BY <1>2, <1>4, <1>5, <1>7, <1>11 DEF FilesInv
<1> QED BY <1>9, <1>12

-----------------------------------------------------------------------------
(* The steps of Next *)

LEMMA FilesNext == FilesInv /\ [Next]_vars => FilesInv'
<1> SUFFICES ASSUME FilesInv, [Next]_vars PROVE FilesInv' OBVIOUS
<1>1. ASSUME NEW c \in Contracts, NEW abi \in BOOLEAN, Start(c, abi) PROVE FilesInv'
    BY ONLY FilesInv, <1>1, StartInv
<1>2. ASSUME NEW kind \in Kinds, CreateFile(kind) PROVE FilesInv' BY ONLY FilesInv, <1>2, CreateInv
<1>3. ASSUME NEW kind \in Kinds, WriteFile(kind) PROVE FilesInv' BY ONLY FilesInv, <1>3, WriteInv
<1>4. CASE AppendInclude BY ONLY FilesInv, <1>4, IncludeInv
<1>5. CASE FinishPlain BY ONLY FilesInv, <1>5, FinishPlainInv
<1>6. ASSUME NEW started \in SUBSET Targets, FinishFormatting(started) PROVE FilesInv'
    BY ONLY FilesInv, <1>6, FinishFormattingInv
<1>7. CASE Fail BY ONLY FilesInv, <1>7, FailInv
<1>8. ASSUME NEW t \in 1..count, Formats(t) PROVE FilesInv'
    <2>1. ASSUME NEW target \in Targets, FormatReads(t, target) PROVE FilesInv'
        BY ONLY FilesInv, <2>1, t \in 1..count, ReadsInv
    <2>2. ASSUME NEW target \in Targets, FormatWrites(t, target) PROVE FilesInv'
        BY ONLY FilesInv, <2>2, t \in 1..count, WritesInv
    <2>3. CASE FormatWritesAll(t) BY ONLY FilesInv, <2>3, t \in 1..count, WritesAllInv
    <2> QED BY ONLY <1>8, <2>1, <2>2, <2>3 DEF Formats
<1>9. CASE UNCHANGED vars
    BY <1>9 DEF vars, headerVars, transVars, formatVars, FilesInv, FilesType, TranslationsType, FormattersType,
                LastRuns, FormattersFollow, HeldIncludes, HeldFiles, HasLatest, Translates,
                PastIsListed, Listed
<1> QED BY ONLY [Next]_vars, <1>1, <1>2, <1>3, <1>4, <1>5, <1>6, <1>7, <1>8, <1>9
        DEF Next, Translation

LEMMA SpecFiles == Spec => []FilesInv
<1> QED BY FilesInit, FilesNext, PTL DEF Spec

LEMMA LatestIs ==
    ASSUME FilesInv, NEW c \in Contracts
    PROVE  /\ Latest(c) \in Translates(c) \cup {0}
           /\ \A u \in Translates(c) : u <= Latest(c)
BY DEF FilesInv, HasLatest, Latest

\* A contract whose last translation succeeded is included, unless it was and a
\* clang-format has since written contracts.h back without it: however the
\* program is used, and whatever failed before.
THEOREM SuccessStaysIncluded == Spec => []SuccessIsIncluded
<1>1. FilesInv => SuccessIsIncluded
    <2> SUFFICES ASSUME FilesInv, NEW c \in Contracts, Succeeded(c)
                 PROVE  includes[c] > 0 \/ c \in lost
        BY DEF SuccessIsIncluded
    <2>1. Latest(c) \in 1..count /\ of[Latest(c)] = c /\ outcome[Latest(c)] = "done"
        BY LatestIs DEF Succeeded, Translates
    <2> QED BY <2>1 DEF FilesInv, PastIsListed, Listed
<1> QED BY SpecFiles, <1>1, PTL

\* No step takes a contract out of contracts.h but the one in which a
\* clang-format writes back what it read when the contract was not in it.
THEOREM IncludesStayKept == Spec => IncludesAreKept
<1> DEFINE Kept ==
        \A c \in Contracts : includes[c] > 0 => includes'[c] > 0 \/ \E t \in 1..count : Drops(t, c)
<1>1. FilesInv /\ [Next]_vars => Kept
    <2> SUFFICES ASSUME FilesInv, [Next]_vars, NEW c \in Contracts, includes[c] > 0
                 PROVE  includes'[c] > 0 \/ \E t \in 1..count : Drops(t, c)
        OBVIOUS
    <2>1. CASE includes' = includes BY <2>1
    <2>2. CASE AppendInclude
        <3>1. /\ includes' = [includes EXCEPT ![of[count]] = includes[of[count]] + 1] /\ ~Idle
            BY <2>2, DoingIs DEF AppendInclude
        <3>2. of[count] \in Contracts BY <3>1, TheRunning
        <3>3. includes \in [Contracts -> Nat] BY DEF FilesInv, FilesType
        <3> QED BY ONLY <3>1, <3>2, <3>3, includes[c] > 0, c \in Contracts
    <2>3. ASSUME NEW t \in 1..count, FormatWritesAll(t)
          PROVE  includes'[c] > 0 \/ Drops(t, c)
        <3>1. FilesInv' /\ (includes'[c] = 0 => Drops(t, c))
            BY ONLY FilesInv, <2>3, WritesAllInv, c \in Contracts
        <3>2. includes'[c] \in Nat BY <3>1 DEF FilesInv, FilesType
        <3> QED BY ONLY <3>1, <3>2
    <2>4. includes' = includes \/ AppendInclude \/ \E t \in 1..count : FormatWritesAll(t)
        BY DEF Next, Translation, Start, CreateFile, WriteFile, Fail, FinishPlain, FinishFormatting,
               Ends, Finish, Formats, FormatReads, FormatWrites, vars, headerVars
    <2> QED BY <2>1, <2>2, <2>3, <2>4
<1>2. Kept => [Kept]_vars OBVIOUS
<1>3. Spec => [][Kept]_vars
    <2>1. FilesInv /\ [Next]_vars => [Kept]_vars BY <1>1
    <2> HIDE DEF Kept
    <2> QED BY SpecFiles, <2>1, PTL DEF Spec
<1> QED BY <1>3 DEF IncludesAreKept

-----------------------------------------------------------------------------
(* Whole files, if contracts that are formatted are not translated again *)

\* A clang-format of an earlier translation would write its file back over
\* that of a later one.
OneWay == \A m \in Modes : ~(m.clang_format /\ m.repeats)

IsWhole(content, t) == content.by = t /\ content.whole

\* What the running translation is through with writing is its and whole.
WrittenIsWhole ==
    \A kind \in Kinds :
        ~Idle /\ kind \in Written(count) /\ step >= WrittenAt(kind) =>
            IsWhole(file[of[count]][kind], count)

IsLatest(t) == \A u \in 1..count : of[u] = of[t] => u <= t

DoneIsWhole ==
    \A t \in 1..count : outcome[t] = "done" /\ IsLatest(t) =>
        \A kind \in Written(t) : IsWhole(file[of[t]][kind], t)

ReadIsWhole ==
    \A t \in 1..MaxTranslations : \A target \in {"cpp", "h"} :
        formatter[t][target] = "read" => IsWhole(held[t][target], t)

FormattedOnce ==
    mode.clang_format => \A t \in 1..count : \A u \in 1..count : of[t] = of[u] => t = u

\* What contracts.h includes, or did when clang-format read it, exists.
IncludedIsThere ==
    \A c \in Contracts :
        includes[c] > 0 \/ (\E t \in 1..MaxTranslations : formatter[t]["contracts.h"] = "read"
                                                       /\ held[t]["contracts.h"][c] > 0)
            => file[c]["h"].by > 0

WholeInv ==
    FilesInv /\ WrittenIsWhole /\ DoneIsWhole /\ ReadIsWhole /\ FormattedOnce /\ IncludedIsThere

\* All but the ABI are always written.
LEMMA WrittenAre ==
    ASSUME NEW t
    PROVE  /\ Written(t) \subseteq Kinds
           /\ \A kind \in Kinds : kind # "abi" \/ with_abi[t] => kind \in Written(t)
           /\ "abi" \in Written(t) => with_abi[t]
BY DEF Written

LEMMA WholeInit == Init => WholeInv
<1> SUFFICES ASSUME Init PROVE WholeInv OBVIOUS
<1>1. /\ count = 0 /\ includes = [c \in Contracts |-> 0]
      /\ formatter = [t \in 1..MaxTranslations |-> [target \in Targets |-> "none"]]
    BY DEF Init
<1>2. \A t : t \notin 1..count BY <1>1
<1>3. WrittenIsWhole /\ DoneIsWhole /\ FormattedOnce
    BY <1>2 DEF WrittenIsWhole, Idle, DoneIsWhole, FormattedOnce
<1>4. ReadIsWhole /\ IncludedIsThere BY <1>1 DEF ReadIsWhole, IncludedIsThere, Targets
<1> QED BY <1>3, <1>4, FilesInit DEF WholeInv

\* A done translation of the contract that is being translated is no longer
\* the latest.
LEMMA RunningIsLater ==
    ASSUME FilesInv, ~Idle, NEW t \in 1..count, outcome[t] = "done", IsLatest(t)
    PROVE  of[t] # of[count]
<1>1. count \in 1..count /\ outcome[count] = "running" BY TheRunning
<1>2. of[t] = of[count] => t = count
    <2>1. of[t] = of[count] => count <= t BY <1>1 DEF IsLatest
    <2> QED BY ONLY <1>1, <2>1, t \in 1..count
<1>3. t # count BY <1>1
<1> QED BY ONLY <1>2, <1>3

LEMMA WholeStart ==
    ASSUME OneWay, WholeInv, NEW c \in Contracts, NEW abi \in BOOLEAN, Start(c, abi)
    PROVE  WholeInv'
<1>1. /\ Idle /\ count' = count + 1 /\ of' = Append(of, c) /\ outcome' = Append(outcome, "running")
      /\ with_abi' = Append(with_abi, abi) /\ step' = IF abi THEN 0 ELSE 2
      /\ mode' = mode /\ file' = file /\ includes' = includes
      /\ formatter' = formatter /\ held' = held /\ (mode.repeats \/ Translates(c) = {})
    BY DEF Start, AbiOps, headerVars, formatVars
<1>2. FilesInv /\ FilesInv' BY StartInv DEF WholeInv
<1>3. /\ count \in Nat /\ mode \in Modes
      /\ of \in Seq(Contracts) /\ Len(of) = count
      /\ with_abi \in Seq(BOOLEAN) /\ Len(with_abi) = count
      /\ outcome \in Seq({"running", "failed", "done"}) /\ Len(outcome) = count
    BY <1>2 DEF FilesInv, TranslationsType
<1>4. of'[count + 1] = c /\ \A t \in 1..count : of'[t] = of[t]
    BY ONLY <1>1, <1>3, AppendProperties, c \in Contracts
<1>5. outcome'[count + 1] = "running" /\ \A t \in 1..count : outcome'[t] = outcome[t]
    <2>1. "running" \in {"running", "failed", "done"} OBVIOUS
    <2> QED BY ONLY <1>1, <1>3, <2>1, AppendProperties
<1>6. \A t \in 1..count' : t \in 1..count \/ t = count + 1 BY ONLY <1>1, <1>3
<1>7. \A t \in 1..count : t \in 1..count' BY ONLY <1>1, <1>3
<1>12. with_abi'[count + 1] = abi /\ \A t \in 1..count : with_abi'[t] = with_abi[t]
    BY ONLY <1>1, <1>3, AppendProperties, abi \in BOOLEAN
<1>8. WrittenIsWhole'
    <2>1. ASSUME NEW kind \in Kinds, kind = "abi" => with_abi'[count + 1], step' >= WrittenAt(kind)
          PROVE  FALSE
        <3>1. kind = "abi" => abi BY ONLY <1>12, <2>1
        <3>2. kind # "abi" => WrittenAt(kind) >= 4 BY DEF Kinds, WrittenAt
        <3>3. WrittenAt("abi") = 2 BY DEF WrittenAt
        <3>4. WrittenAt(kind) \in Nat BY ScriptOrder
        <3> QED BY ONLY <1>1, <2>1, <3>1, <3>2, <3>3, <3>4, abi \in BOOLEAN
    <2> QED BY ONLY <1>1, <2>1 DEF WrittenIsWhole, Written, WrittenAt
<1>9. DoneIsWhole'
    <2>1. ASSUME NEW t \in 1..count', outcome'[t] = "done", IsLatest(t)', NEW kind \in Written(t)'
          PROVE  IsWhole(file[of'[t]][kind], t)
        <3>1. t \in 1..count /\ outcome[t] = "done" /\ of'[t] = of[t]
            BY ONLY <1>4, <1>5, <1>6, <2>1
        <3>2. IsLatest(t) BY ONLY <1>4, <1>7, <2>1, <3>1 DEF IsLatest
        <3>3. kind \in Written(t) BY ONLY <1>12, <2>1, <3>1 DEF Written
        <3> QED BY <3>1, <3>2, <3>3 DEF WholeInv, DoneIsWhole
    <2> QED BY ONLY <1>1, <2>1 DEF DoneIsWhole, IsWhole, Written
<1>10. ReadIsWhole' /\ IncludedIsThere'
    <2>1. ReadIsWhole /\ IncludedIsThere BY DEF WholeInv
    <2>2. file' = file /\ includes' = includes /\ formatter' = formatter /\ held' = held BY ONLY <1>1
    <2>3. ReadIsWhole' BY ONLY <2>1, <2>2 DEF ReadIsWhole, IsWhole
    <2>4. IncludedIsThere' BY ONLY <2>1, <2>2 DEF IncludedIsThere
    <2> QED BY <2>3, <2>4
<1>11. FormattedOnce'
    <2>1. ASSUME mode.clang_format, NEW t \in 1..count', NEW u \in 1..count', of'[t] = of'[u]
          PROVE  t = u
        <3>1. \A s \in 1..count : of[s] # c
            <4>1. Translates(c) = {} BY <1>1, <1>3, <2>1 DEF OneWay
            <4> QED BY <4>1 DEF Translates
        <3>2. \A s \in 1..count : \A r \in 1..count : of[s] = of[r] => s = r
            BY <2>1 DEF WholeInv, FormattedOnce
        <3> QED BY ONLY <1>4, <1>6, <2>1, <3>1, <3>2
    <2> QED BY ONLY <1>1, <2>1 DEF FormattedOnce
<1> QED BY <1>2, <1>8, <1>9, <1>10, <1>11 DEF WholeInv

\* A file is created or written.
LEMMA WholeFileStep ==
    ASSUME WholeInv, FilesInv', NEW kind \in Kinds, NEW whole \in BOOLEAN,
           Doing(Op(IF whole THEN "write" ELSE "create", kind)), Advance, headerVars' = headerVars,
           file' = [file EXCEPT ![of[count]][kind] = Content(count, whole, FALSE)]
    PROVE  WholeInv'
<1> DEFINE op == Op(IF whole THEN "write" ELSE "create", kind)
<1>1. /\ FilesInv /\ ~Idle /\ step + 1 \in 1..11 /\ Script[step + 1] = op
    BY DoingIs DEF WholeInv
<1>2. /\ step' = step + 1 /\ mode' = mode /\ count' = count /\ of' = of /\ outcome' = outcome
      /\ with_abi' = with_abi /\ formatter' = formatter /\ held' = held /\ includes' = includes
    BY DEF Advance, formatVars, headerVars
<1>3. /\ count \in 1..count /\ of[count] \in Contracts /\ outcome[count] = "running"
    BY <1>1, TheRunning
<1>4. file \in [Contracts -> [Kinds -> Contents]] /\ step \in Nat /\ count \in Nat
    BY <1>1 DEF FilesInv, FilesType, TranslationsType
<1>5. \A c \in Contracts : \A k \in Kinds :
          file'[c][k] = IF c = of[count] /\ k = kind THEN Content(count, whole, FALSE) ELSE file[c][k]
    BY ONLY <1>3, <1>4, kind \in Kinds, file' = [file EXCEPT ![of[count]][kind] = Content(count, whole, FALSE)]
<1>6. WrittenIsWhole'
    <2>1. ASSUME NEW k \in Kinds, k \in Written(count), step + 1 >= WrittenAt(k)
          PROVE  IsWhole(file'[of[count]][k], count)
        <3>1. CASE k = kind
            <4>1. whole
                <5>1. ~whole => step + 1 < WrittenAt(kind) BY <1>1, ScriptOrder
                <5>2. WrittenAt(kind) \in Nat BY ScriptOrder
                <5> QED BY ONLY <1>4, <2>1, <3>1, <5>1, <5>2, whole \in BOOLEAN
            <4>2. file'[of[count]][k] = Content(count, TRUE, FALSE) BY ONLY <1>3, <1>5, <3>1, <4>1, k \in Kinds
            <4> QED BY ONLY <4>2 DEF IsWhole, Content
        <3>2. CASE k # kind
            <4>1. step + 1 # WrittenAt(k)
                <5>1. Op("write", k) # op BY <3>2 DEF Op
                <5> QED BY <1>1, <5>1, ScriptOrder
            <4>2. WrittenAt(k) \in Nat BY ScriptOrder
            <4>3. step >= WrittenAt(k) BY ONLY <1>4, <2>1, <4>1, <4>2
            <4>4. IsWhole(file[of[count]][k], count) BY <1>1, <2>1, <4>3 DEF WholeInv, WrittenIsWhole
            <4> QED BY ONLY <1>3, <1>5, <3>2, <4>4, k \in Kinds DEF IsWhole
        <3> QED BY ONLY <3>1, <3>2
    <2> QED BY ONLY <1>2, <2>1 DEF WrittenIsWhole, IsWhole, WrittenAt, Written
<1>7. DoneIsWhole'
    <2>1. ASSUME NEW t \in 1..count, outcome[t] = "done", IsLatest(t), NEW k \in Written(t)
          PROVE  IsWhole(file'[of[t]][k], t)
        <3>1. of[t] # of[count] BY <1>1, <2>1, RunningIsLater
        <3>2. of[t] \in Contracts
            BY <1>1, ElementOfSeq DEF FilesInv, TranslationsType
        <3>3. IsWhole(file[of[t]][k], t) BY <2>1 DEF WholeInv, DoneIsWhole
        <3>4. k \in Kinds BY <2>1, WrittenAre
        <3> QED BY ONLY <1>5, <3>1, <3>2, <3>3, <3>4 DEF IsWhole
    <2> QED BY ONLY <1>2, <2>1 DEF DoneIsWhole, IsLatest, IsWhole, Written
<1>8. ReadIsWhole' /\ FormattedOnce'
    BY <1>2 DEF WholeInv, ReadIsWhole, FormattedOnce, IsWhole
<1>9. IncludedIsThere'
    <2>1. \A c \in Contracts : file[c]["h"].by > 0 => file'[c]["h"].by > 0
        <3>1. "h" \in Kinds BY DEF Kinds
        <3>2. Content(count, whole, FALSE).by > 0 BY ONLY <1>3, <1>4 DEF Content
        <3> QED BY ONLY <1>5, <3>1, <3>2
    <2> QED BY <1>2, <2>1 DEF WholeInv, IncludedIsThere
<1> QED BY <1>6, <1>7, <1>8, <1>9 DEF WholeInv

LEMMA WholeCreate == ASSUME WholeInv, NEW kind \in Kinds, CreateFile(kind) PROVE WholeInv'
<1>1. FilesInv' BY CreateInv DEF WholeInv
<1>2. Op(IF FALSE THEN "write" ELSE "create", kind) = Op("create", kind) OBVIOUS
<1> QED BY <1>1, <1>2, WholeFileStep, FALSE \in BOOLEAN DEF CreateFile

LEMMA WholeWrite == ASSUME WholeInv, NEW kind \in Kinds, WriteFile(kind) PROVE WholeInv'
<1>1. FilesInv' BY WriteInv DEF WholeInv
<1>2. Op(IF TRUE THEN "write" ELSE "create", kind) = Op("write", kind) OBVIOUS
<1> QED BY <1>1, <1>2, WholeFileStep, TRUE \in BOOLEAN DEF WriteFile

LEMMA WholeInclude == ASSUME WholeInv, AppendInclude PROVE WholeInv'
<1>1. /\ FilesInv /\ FilesInv' /\ ~Idle /\ step + 1 \in 1..11 /\ Script[step + 1] = Op("include", "h")
    BY DoingIs, IncludeInv DEF WholeInv, AppendInclude
<1>2. /\ file' = file /\ includes' = [includes EXCEPT ![of[count]] = includes[of[count]] + 1]
      /\ step' = step + 1 /\ mode' = mode /\ count' = count /\ of' = of /\ outcome' = outcome
      /\ with_abi' = with_abi /\ formatter' = formatter /\ held' = held
    BY DEF AppendInclude, Advance, formatVars
<1>3. count \in 1..count /\ of[count] \in Contracts BY <1>1, TheRunning
<1>4. includes \in [Contracts -> Nat] /\ step \in Nat /\ count \in Nat
    BY <1>1 DEF FilesInv, FilesType, TranslationsType
<1>5. step + 1 = IncludedAt BY <1>1, ScriptOrder
<1>6. WrittenIsWhole'
    <2>1. ASSUME NEW k \in Kinds, k \in Written(count), step + 1 >= WrittenAt(k)
          PROVE  IsWhole(file[of[count]][k], count)
        <3>1. step >= WrittenAt(k) BY <1>4, <1>5, <2>1 DEF WrittenAt, IncludedAt
        <3> QED BY <1>1, <2>1, <3>1 DEF WholeInv, WrittenIsWhole
    <2> QED BY ONLY <1>2, <2>1 DEF WrittenIsWhole, IsWhole, WrittenAt, Written
<1>7. DoneIsWhole' /\ ReadIsWhole' /\ FormattedOnce'
    BY <1>2 DEF WholeInv, DoneIsWhole, IsLatest, ReadIsWhole, FormattedOnce, IsWhole, Written
<1>8. IncludedIsThere'
    <2>1. file[of[count]]["h"].by > 0
        <3>1. "h" \in Kinds /\ step >= WrittenAt("h")
            BY <1>4, <1>5 DEF Kinds, WrittenAt, IncludedAt
        <3>3. "h" \in Written(count) BY <3>1, WrittenAre
        <3>2. IsWhole(file[of[count]]["h"], count) BY <1>1, <3>1, <3>3 DEF WholeInv, WrittenIsWhole
        <3> QED BY ONLY <1>3, <1>4, <3>2 DEF IsWhole
    <2>2. \A c \in Contracts : includes'[c] > 0 => includes[c] > 0 \/ c = of[count]
        BY ONLY <1>2, <1>3, <1>4
    <2> QED BY <1>2, <2>1, <2>2 DEF WholeInv, IncludedIsThere
<1> QED BY <1>1, <1>6, <1>7, <1>8 DEF WholeInv

\* A translation ends.
LEMMA WholeEnd ==
    ASSUME WholeInv, FilesInv', ~Idle, NEW how \in {"failed", "done"}, Ends(how),
           how = "done" => step >= 11, held' = held,
           \A t \in 1..MaxTranslations : \A target \in Targets :
               formatter'[t][target] = "read" => formatter[t][target] = "read"
    PROVE  WholeInv'
<1>1. /\ outcome' = [outcome EXCEPT ![count] = how]
      /\ mode' = mode /\ file' = file /\ includes' = includes /\ count' = count
      /\ of' = of /\ with_abi' = with_abi /\ step' = step
    BY DEF Ends, headerVars
<1>2. FilesInv /\ count \in 1..count /\ outcome[count] = "running"
    BY TheRunning DEF WholeInv
<1>3. /\ count \in Nat /\ outcome \in Seq({"running", "failed", "done"}) /\ Len(outcome) = count
    BY <1>2 DEF FilesInv, TranslationsType
<1>4. \A t \in 1..count : outcome'[t] = IF t = count THEN how ELSE outcome[t]
    <2>1. how \in {"running", "failed", "done"} OBVIOUS
    <2> QED BY ONLY <1>1, <1>2, <1>3, <2>1, ExceptSeq
<1>5. Idle'
    <2>1. \A t \in 1..count : outcome[t] = "running" => t = count BY <1>2 DEF FilesInv, LastRuns
    <2> QED BY ONLY <1>1, <1>4, <2>1, how \in {"failed", "done"} DEF Idle
<1>6. WrittenIsWhole' BY ONLY <1>5 DEF WrittenIsWhole
<1>7. DoneIsWhole'
    <2>1. ASSUME NEW t \in 1..count, outcome'[t] = "done", IsLatest(t), NEW k \in Written(t)
          PROVE  IsWhole(file[of[t]][k], t)
        <3>1. CASE t = count
            <4>1. step >= 11 BY ONLY <1>4, <2>1, <3>1, how = "done" => step >= 11
            <4>2. step \in Nat BY <1>2 DEF FilesInv, TranslationsType
            <4>5. k \in Kinds BY <2>1, WrittenAre
            <4>3. WrittenAt(k) \in 1..11 BY <4>5, ScriptOrder
            <4>4. step >= WrittenAt(k) BY ONLY <4>1, <4>2, <4>3
            <4> QED BY <2>1, <3>1, <4>4, <4>5 DEF WholeInv, WrittenIsWhole
        <3>2. CASE t # count
            <4>1. outcome[t] = "done" BY ONLY <1>4, <2>1, <3>2
            <4> QED BY <2>1, <4>1 DEF WholeInv, DoneIsWhole
        <3> QED BY ONLY <3>1, <3>2
    <2> QED BY ONLY <1>1, <2>1 DEF DoneIsWhole, IsLatest, IsWhole, Written
<1>8. ReadIsWhole' /\ FormattedOnce'
    <2>1. \A target \in {"cpp", "h"} : target \in Targets BY DEF Targets
    <2>2. ReadIsWhole' BY <2>1 DEF WholeInv, ReadIsWhole, IsWhole
    <2> QED BY <1>1, <2>2 DEF WholeInv, FormattedOnce
<1>9. IncludedIsThere'
    <2>1. "contracts.h" \in Targets BY DEF Targets
    <2>2. IncludedIsThere BY DEF WholeInv
    <2>3. \A t \in 1..MaxTranslations :
              formatter'[t]["contracts.h"] = "read" => formatter[t]["contracts.h"] = "read"
        BY <2>1
    <2> QED BY ONLY <1>1, <2>2, <2>3, held' = held DEF IncludedIsThere
<1> QED BY <1>6, <1>7, <1>8, <1>9 DEF WholeInv

LEMMA WholeFail == ASSUME WholeInv, Fail PROVE WholeInv'
<1>1. ~Idle /\ Ends("failed") /\ formatter' = formatter /\ held' = held BY DEF Fail, formatVars
<1>2. FilesInv' BY FailInv DEF WholeInv
<1> QED BY <1>1, <1>2, WholeEnd

LEMMA WholeFinishPlain == ASSUME WholeInv, FinishPlain PROVE WholeInv'
<1>1. FilesInv /\ FilesInv' BY FinishPlainInv DEF WholeInv
<1>2. ~Idle /\ Ends("done") /\ step = 11 /\ formatter' = formatter /\ held' = held
    BY <1>1, FinishAtEnd DEF FinishPlain, formatVars
<1> QED BY <1>1, <1>2, WholeEnd

LEMMA WholeFinishFormatting ==
    ASSUME WholeInv, NEW started \in SUBSET Targets, FinishFormatting(started) PROVE WholeInv'
<1>1. FilesInv /\ FilesInv' BY FinishFormattingInv DEF WholeInv
<1>2. ~Idle /\ Ends("done") /\ step = 11 /\ held' = held
    BY <1>1, FinishAtEnd DEF FinishFormatting
<1>3. formatter \in [1..MaxTranslations -> [Targets -> {"none", "started", "read", "ended"}]]
    BY <1>1 DEF FilesInv, FormattersType
<1>4. \A t \in 1..MaxTranslations : \A target \in Targets :
          formatter'[t][target] = "read" => formatter[t][target] = "read"
    BY <1>3 DEF FinishFormatting, FormatterStarts
<1> QED BY <1>1, <1>2, <1>4, WholeEnd

LEMMA WholeReads ==
    ASSUME WholeInv, NEW t \in 1..count, NEW target \in Targets, FormatReads(t, target)
    PROVE  WholeInv'
<1>1. FilesInv /\ FilesInv' BY ReadsInv DEF WholeInv
<1>2. /\ t \in 1..MaxTranslations
      /\ \A u \in 1..MaxTranslations : \A g \in Targets :
            formatter'[u][g] = IF u = t /\ g = target THEN "read" ELSE formatter[u][g]
      /\ mode' = mode /\ count' = count /\ of' = of /\ step' = step /\ outcome' = outcome
      /\ outcome[t] = "done" /\ mode.clang_format /\ with_abi' = with_abi
    BY <1>1, MovesIs DEF FormatReads
<1>3. /\ held' = [held EXCEPT ![t][target] =
                     IF target = "contracts.h" THEN includes ELSE file[of[t]][target]]
      /\ file' = file /\ includes' = includes
    BY DEF FormatReads, headerVars
<1>4. held \in [1..MaxTranslations -> [Targets -> Contents \cup [Contracts -> Nat] \cup {<<>>}]]
    BY <1>1 DEF FilesInv, FormattersType
<1>5. \A u \in 1..MaxTranslations : \A g \in Targets :
          held'[u][g] = IF u = t /\ g = target
                        THEN IF target = "contracts.h" THEN includes ELSE file[of[t]][target]
                        ELSE held[u][g]
    BY ONLY <1>2, <1>3, <1>4, target \in Targets
<1>6. WrittenIsWhole' /\ DoneIsWhole' /\ FormattedOnce'
    BY <1>2, <1>3 DEF WholeInv, WrittenIsWhole, Idle, DoneIsWhole, IsLatest, FormattedOnce, IsWhole,
                             Written
<1>7. \A u \in 1..count : of[u] = of[t] => u <= t
    <2>1. \A u \in 1..count : of[u] = of[t] => u = t BY <1>2 DEF WholeInv, FormattedOnce
    <2> QED BY ONLY <2>1, t \in 1..count
<1>8. \A k \in {"cpp", "h"} : IsWhole(file[of[t]][k], t)
    <2>1. \A k \in {"cpp", "h"} : k \in Written(t) BY WrittenAre DEF Kinds
    <2> QED BY <1>2, <1>7, <2>1 DEF WholeInv, DoneIsWhole, IsLatest
<1>9. ReadIsWhole'
    <2>1. ASSUME NEW u \in 1..MaxTranslations, NEW g \in {"cpp", "h"}, formatter'[u][g] = "read"
          PROVE  IsWhole(held'[u][g], u)
        <3>1. g \in Targets /\ g \in Kinds /\ g # "contracts.h" BY DEF Targets, Kinds
        <3>2. CASE u = t /\ g = target
            <4>1. held'[u][g] = file[of[t]][g] BY ONLY <1>5, <3>1, <3>2
            <4> QED BY ONLY <1>8, <3>2, <4>1, g \in {"cpp", "h"} DEF IsWhole
        <3>3. CASE ~(u = t /\ g = target)
            <4>1. formatter[u][g] = "read" /\ held'[u][g] = held[u][g]
                BY ONLY <1>2, <1>5, <2>1, <3>1, <3>3
            <4> QED BY <4>1 DEF WholeInv, ReadIsWhole, IsWhole
        <3> QED BY ONLY <3>2, <3>3
    <2> QED BY ONLY <2>1 DEF ReadIsWhole, IsWhole
<1>10. IncludedIsThere'
    <2>1. ASSUME NEW c \in Contracts, NEW u \in 1..MaxTranslations,
                 formatter'[u]["contracts.h"] = "read", held'[u]["contracts.h"][c] > 0
          PROVE  file[c]["h"].by > 0
        <3>1. "contracts.h" \in Targets BY DEF Targets
        <3>2. CASE u = t /\ target = "contracts.h"
            <4>1. includes[c] > 0 BY ONLY <1>5, <2>1, <3>1, <3>2
            <4> QED BY <4>1 DEF WholeInv, IncludedIsThere
        <3>3. CASE ~(u = t /\ target = "contracts.h")
            <4>1. /\ formatter[u]["contracts.h"] = "read"
                  /\ held'[u]["contracts.h"] = held[u]["contracts.h"]
                BY ONLY <1>2, <1>5, <2>1, <3>1, <3>3
            <4> QED BY <2>1, <4>1 DEF WholeInv, IncludedIsThere
        <3> QED BY ONLY <3>2, <3>3
    <2>2. IncludedIsThere BY DEF WholeInv
    <2> QED BY ONLY <1>3, <2>1, <2>2 DEF IncludedIsThere
<1> QED BY <1>1, <1>6, <1>9, <1>10 DEF WholeInv

LEMMA WholeWrites ==
    ASSUME WholeInv, NEW t \in 1..count, NEW target \in Targets, FormatWrites(t, target)
    PROVE  WholeInv'
<1>1. FilesInv /\ FilesInv' BY WritesInv DEF WholeInv
<1>2. Moves(t, target, "read", "ended") /\ target \in {"cpp", "h"} /\ target \in Kinds
    BY DEF FormatWrites, Targets, Kinds
<1>3. /\ t \in 1..MaxTranslations /\ formatter[t][target] = "read"
      /\ \A u \in 1..MaxTranslations : \A g \in Targets :
            formatter'[u][g] = IF u = t /\ g = target THEN "ended" ELSE formatter[u][g]
      /\ mode' = mode /\ count' = count /\ of' = of /\ step' = step /\ outcome' = outcome
      /\ outcome[t] = "done" /\ mode.clang_format /\ with_abi' = with_abi
    BY <1>1, <1>2, MovesIs
<1> DEFINE new == [held[t][target] EXCEPT !.formatted = TRUE]
<1>4. includes' = includes /\ held' = held /\ file' = [file EXCEPT ![of[t]][target] = new]
    BY DEF FormatWrites, headerVars
<1>5. IsWhole(new, t)
    <2>1. IsWhole(held[t][target], t) BY <1>2, <1>3 DEF WholeInv, ReadIsWhole
    <2>2. held[t][target] \in Contents BY <1>1, <1>2, <1>3 DEF FilesInv, HeldFiles
    <2> QED BY ONLY <2>1, <2>2 DEF IsWhole, Contents
<1> HIDE DEF new
<1>6. /\ file \in [Contracts -> [Kinds -> Contents]] /\ count \in Nat
      /\ \A u \in 1..count : of[u] \in Contracts
    BY <1>1, ElementOfSeq DEF FilesInv, FilesType, TranslationsType
<1>7. \A c \in Contracts : \A k \in Kinds :
          file'[c][k] = IF c = of[t] /\ k = target THEN new ELSE file[c][k]
    BY ONLY <1>2, <1>4, <1>6, t \in 1..count
<1>8. \A u \in 1..count : of[u] = of[t] => u = t BY <1>3 DEF WholeInv, FormattedOnce
<1>9. WrittenIsWhole'
    <2>1. ASSUME ~Idle, NEW k \in Kinds, k \in Written(count), step >= WrittenAt(k)
          PROVE  IsWhole(file'[of[count]][k], count)
        <3>1. count \in 1..count /\ outcome[count] = "running" BY <1>1, <2>1, TheRunning
        <3>2. of[count] # of[t] BY ONLY <1>3, <1>8, <3>1
        <3>3. IsWhole(file[of[count]][k], count) BY <2>1 DEF WholeInv, WrittenIsWhole
        <3> QED BY ONLY <1>6, <1>7, <3>1, <3>2, <3>3, k \in Kinds DEF IsWhole
    <2> QED BY ONLY <1>3, <2>1 DEF WrittenIsWhole, Idle, IsWhole, WrittenAt, Written
<1>10. DoneIsWhole'
    <2>1. ASSUME NEW u \in 1..count, outcome[u] = "done", IsLatest(u), NEW k \in Written(u)
          PROVE  IsWhole(file'[of[u]][k], u)
        <3>1. IsWhole(file[of[u]][k], u) BY <2>1 DEF WholeInv, DoneIsWhole
        <3>4. k \in Kinds BY <2>1, WrittenAre
        <3>2. CASE of[u] = of[t] /\ k = target
            <4>1. u = t /\ file'[of[u]][k] = new BY ONLY <1>6, <1>7, <1>8, <3>2, <3>4, u \in 1..count
            <4> QED BY ONLY <1>5, <4>1 DEF IsWhole
        <3>3. CASE ~(of[u] = of[t] /\ k = target)
            BY ONLY <1>6, <1>7, <3>1, <3>3, <3>4, u \in 1..count DEF IsWhole
        <3> QED BY ONLY <3>2, <3>3
    <2> QED BY ONLY <1>3, <2>1 DEF DoneIsWhole, IsLatest, IsWhole, Written
<1>11. ReadIsWhole'
    <2>1. \A u \in 1..MaxTranslations : \A g \in {"cpp", "h"} :
              formatter'[u][g] = "read" => formatter[u][g] = "read"
        <3>1. \A g \in {"cpp", "h"} : g \in Targets BY DEF Targets
        <3> QED BY ONLY <1>3, <3>1
    <2>2. ReadIsWhole BY DEF WholeInv
    <2> QED BY ONLY <1>4, <2>1, <2>2 DEF ReadIsWhole, IsWhole
<1>12. FormattedOnce' BY <1>3 DEF WholeInv, FormattedOnce
<1>13. IncludedIsThere'
    <2>1. \A c \in Contracts : file[c]["h"].by > 0 => file'[c]["h"].by > 0
        <3>1. "h" \in Kinds BY DEF Kinds
        <3>2. new.by > 0 BY ONLY <1>5, <1>6, t \in 1..count DEF IsWhole
        <3> QED BY ONLY <1>7, <3>1, <3>2
    <2>2. \A u \in 1..MaxTranslations : formatter'[u]["contracts.h"] = formatter[u]["contracts.h"]
        BY <1>2, <1>3 DEF Targets
    <2>3. IncludedIsThere BY DEF WholeInv
    <2> QED BY ONLY <1>4, <2>1, <2>2, <2>3 DEF IncludedIsThere
<1> QED BY <1>1, <1>9, <1>10, <1>11, <1>12, <1>13 DEF WholeInv

LEMMA WholeWritesAll == ASSUME WholeInv, NEW t \in 1..count, FormatWritesAll(t) PROVE WholeInv'
<1>1. FilesInv /\ FilesInv' BY WritesAllInv DEF WholeInv
<1>2. Moves(t, "contracts.h", "read", "ended") /\ "contracts.h" \in Targets
    BY DEF FormatWritesAll, Targets
<1>3. /\ t \in 1..MaxTranslations /\ formatter[t]["contracts.h"] = "read"
      /\ \A u \in 1..MaxTranslations : \A g \in Targets :
            formatter'[u][g] = IF u = t /\ g = "contracts.h" THEN "ended" ELSE formatter[u][g]
      /\ mode' = mode /\ count' = count /\ of' = of /\ step' = step /\ outcome' = outcome
      /\ with_abi' = with_abi
    BY <1>1, <1>2, MovesIs
<1>4. /\ includes' = [c \in Contracts |-> IF held[t]["contracts.h"][c] > 0 THEN 1 ELSE 0]
      /\ file' = file /\ held' = held
    BY DEF FormatWritesAll
<1>5. WrittenIsWhole' /\ DoneIsWhole' /\ FormattedOnce'
    BY <1>3, <1>4 DEF WholeInv, WrittenIsWhole, Idle, DoneIsWhole, IsLatest, FormattedOnce, IsWhole,
                             Written
<1>6. ReadIsWhole'
    <2>1. \A g \in {"cpp", "h"} : g \in Targets /\ g # "contracts.h" BY DEF Targets
    <2>2. ReadIsWhole BY DEF WholeInv
    <2> QED BY ONLY <1>3, <1>4, <2>1, <2>2 DEF ReadIsWhole, IsWhole
<1>7. IncludedIsThere'
    <2>1. IncludedIsThere BY DEF WholeInv
    <2>2. \A c \in Contracts : includes'[c] > 0 => held[t]["contracts.h"][c] > 0 BY ONLY <1>4
    <2>3. \A u \in 1..MaxTranslations :
              formatter'[u]["contracts.h"] = "read" => formatter[u]["contracts.h"] = "read"
        BY ONLY <1>2, <1>3
    <2> QED BY ONLY <1>3, <1>4, <2>1, <2>2, <2>3 DEF IncludedIsThere
<1> QED BY <1>1, <1>5, <1>6, <1>7 DEF WholeInv

LEMMA WholeNext == OneWay /\ WholeInv /\ [Next]_vars => WholeInv'
<1> SUFFICES ASSUME OneWay, WholeInv, [Next]_vars PROVE WholeInv' OBVIOUS
<1>1. ASSUME NEW c \in Contracts, NEW abi \in BOOLEAN, Start(c, abi) PROVE WholeInv'
    BY ONLY OneWay, WholeInv, <1>1, WholeStart
<1>2. ASSUME NEW kind \in Kinds, CreateFile(kind) PROVE WholeInv'
    BY ONLY WholeInv, <1>2, WholeCreate
<1>3. ASSUME NEW kind \in Kinds, WriteFile(kind) PROVE WholeInv' BY ONLY WholeInv, <1>3, WholeWrite
<1>4. CASE AppendInclude BY ONLY WholeInv, <1>4, WholeInclude
<1>5. CASE FinishPlain BY ONLY WholeInv, <1>5, WholeFinishPlain
<1>6. ASSUME NEW started \in SUBSET Targets, FinishFormatting(started) PROVE WholeInv'
    BY ONLY WholeInv, <1>6, WholeFinishFormatting
<1>7. CASE Fail BY ONLY WholeInv, <1>7, WholeFail
<1>8. ASSUME NEW t \in 1..count, Formats(t) PROVE WholeInv'
    <2>1. ASSUME NEW target \in Targets, FormatReads(t, target) PROVE WholeInv'
        BY ONLY WholeInv, <2>1, t \in 1..count, WholeReads
    <2>2. ASSUME NEW target \in Targets, FormatWrites(t, target) PROVE WholeInv'
        BY ONLY WholeInv, <2>2, t \in 1..count, WholeWrites
    <2>3. CASE FormatWritesAll(t) BY ONLY WholeInv, <2>3, t \in 1..count, WholeWritesAll
    <2> QED BY ONLY <1>8, <2>1, <2>2, <2>3 DEF Formats
<1>9. CASE UNCHANGED vars
    <2>1. FilesInv' BY <1>9, FilesNext DEF WholeInv
    <2>2. /\ mode' = mode /\ file' = file /\ includes' = includes /\ count' = count /\ of' = of
          /\ step' = step /\ outcome' = outcome /\ formatter' = formatter /\ held' = held
          /\ with_abi' = with_abi
        BY <1>9 DEF vars, headerVars, transVars, formatVars
    <2>3. WrittenIsWhole' /\ DoneIsWhole' /\ FormattedOnce'
        BY <2>2 DEF WholeInv, WrittenIsWhole, Idle, DoneIsWhole, IsLatest, FormattedOnce, IsWhole,
                             Written
    <2>4. ReadIsWhole' BY <2>2 DEF WholeInv, ReadIsWhole, IsWhole
    <2>5. IncludedIsThere' BY <2>2 DEF WholeInv, IncludedIsThere
    <2> QED BY <2>1, <2>3, <2>4, <2>5 DEF WholeInv
<1> QED BY ONLY [Next]_vars, <1>1, <1>2, <1>3, <1>4, <1>5, <1>6, <1>7, <1>8, <1>9
        DEF Next, Translation

LEMMA SpecWhole == ASSUME OneWay PROVE Spec => []WholeInv
<1>1. WholeInv /\ [Next]_vars => WholeInv' BY WholeNext
<1> QED BY WholeInit, <1>1, PTL DEF Spec

LEMMA TheLatest ==
    ASSUME WholeInv, NEW c \in Contracts, Succeeded(c)
    PROVE  \A kind \in Written(Latest(c)) : IsWhole(file[c][kind], Latest(c))
<1>1. /\ Latest(c) \in 1..count /\ of[Latest(c)] = c /\ outcome[Latest(c)] = "done"
      /\ \A u \in Translates(c) : u <= Latest(c)
    BY LatestIs DEF WholeInv, Succeeded, Translates
<1>2. IsLatest(Latest(c)) BY <1>1 DEF IsLatest, Translates
<1> QED BY <1>1, <1>2 DEF WholeInv, DoneIsWhole

\* The files of a contract whose last translation succeeded are of that
\* translation and whole, whatever failed before, and while clang-format works
\* on them: all of them, but for the ABI if there was none.
THEOREM SuccessStaysWhole == ASSUME OneWay PROVE Spec => []SuccessIsWhole
<1>1. WholeInv => SuccessIsWhole BY TheLatest DEF SuccessIsWhole, IsWhole
<1> QED BY SpecWhole, <1>1, PTL

\* An included header exists, and it is whole once its translation succeeded.
THEOREM IncludedStaysWhole == ASSUME OneWay PROVE Spec => []IncludedIsWhole
<1>1. WholeInv => IncludedIsWhole
    <2> SUFFICES ASSUME WholeInv, NEW c \in Contracts, includes[c] > 0
                 PROVE  file[c]["h"] # Absent /\ (Succeeded(c) => file[c]["h"].whole)
        BY DEF IncludedIsWhole
    <2>1. file[c]["h"].by > 0 BY DEF WholeInv, IncludedIsThere
    <2>2. file[c]["h"] # Absent BY <2>1 DEF Absent, Content
    <2>3. "h" \in Written(Latest(c)) BY WrittenAre DEF Kinds
    <2> QED BY <2>2, <2>3, TheLatest DEF IsWhole
<1> QED BY SpecWhole, <1>1, PTL
=============================================================================
