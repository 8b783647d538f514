---------------------------- MODULE OutputFiles ----------------------------
(***************************************************************************)
(* The files a translation leaves in the eEVM project: write_abi of        *)
(* main.rs and the file operations of translate_to_c of codegen.rs, one    *)
(* after the other, any of which may fail or be the last one before the    *)
(* program is killed; translations follow each other, of other contracts   *)
(* or of the same one again, from a combined json or from raw bytecode,    *)
(* which may have no ABI.  With -F a translation ends by starting          *)
(* clang-format on the contract's source and header and on contracts.h,    *)
(* the header that all contracts share, and does not wait for it.          *)
(*                                                                         *)
(* A file's content is the translation it is of, and whether all of it is  *)
(* there.  clang-format is external: it reads its file and replaces it by  *)
(* what it read, formatted, some time later.                               *)
(***************************************************************************)
EXTENDS Naturals, Sequences, FiniteSets

CONSTANTS
    Contracts,
    MaxTranslations,   \* bound: the translations of a behaviour
    Modes              \* how the program is used

\* Whether -F is given, whether a contract is translated more than once, and
\* whether contracts are raw bytecode.
Mode == [clang_format : BOOLEAN, repeats : BOOLEAN, raw : BOOLEAN]

ASSUME OutputAssumption == MaxTranslations \in Nat /\ Modes \subseteq Mode

VARIABLES
    mode,
    file,        \* the content of each contract's files
    includes,    \* how often contracts.h includes each contract's header
    lost,        \* history: the contracts clang-format has dropped from it
    count,       \* the translations started
    of,          \* the contract each of them is of
    with_abi,    \* whether each of them has an ABI
    step,        \* the operations the last one is through with
    outcome,     \* what became of each of them: "running", "failed", "done"
    formatter,   \* per translation and target: "none", "started", "read", "ended"
    held         \* what each clang-format has read

headerVars == <<includes, lost>>
transVars  == <<count, of, with_abi, step, outcome>>
formatVars == <<formatter, held>>
vars       == <<mode, file, headerVars, transVars, formatVars>>

Kinds   == {"abi", "bb_list", "cpp", "h", "dict"}
Targets == {"cpp", "h", "contracts.h"}

Content(t, whole, formatted) == [by |-> t, whole |-> whole, formatted |-> formatted]
Absent == Content(0, FALSE, FALSE)

\* The operations of a translation, in their order; files are created empty.
Op(do, kind) == [do |-> do, kind |-> kind]

\* Mutant of Script: contracts.h is written before the contract's files.
Script_IncludeFirst ==
    << Op("create", "abi"), Op("write", "abi"),
       Op("create", "bb_list"), Op("write", "bb_list"), Op("include", "h"),
       Op("create", "cpp"), Op("create", "h"), Op("write", "h"), Op("write", "cpp"),
       Op("create", "dict"), Op("write", "dict") >>

Script ==
    << Op("create", "abi"), Op("write", "abi"),
       Op("create", "bb_list"), Op("write", "bb_list"),
       Op("create", "cpp"), Op("create", "h"), Op("write", "h"), Op("write", "cpp"),
       Op("include", "h"),
       Op("create", "dict"), Op("write", "dict") >>

Idle == \A t \in 1..count : outcome[t] # "running"
Doing(op) == ~Idle /\ step < Len(Script) /\ Script[step + 1] = op

Translates(c) == {t \in 1..count : of[t] = c}

\* The operations of write_abi.
AbiOps == 2

\* Raw bytecode skips write_abi if no ABI is given with -a and none is found
\* beside it.
Start(c, abi) ==
    /\ Idle /\ count < MaxTranslations
    /\ mode.repeats \/ Translates(c) = {}
    /\ abi \/ mode.raw
    /\ count' = count + 1
    /\ of' = Append(of, c) /\ outcome' = Append(outcome, "running")
    /\ with_abi' = Append(with_abi, abi)
    /\ step' = IF abi THEN 0 ELSE AbiOps
    /\ UNCHANGED <<mode, file, headerVars, formatVars>>

Advance == step' = step + 1 /\ UNCHANGED <<mode, count, of, with_abi, outcome, formatVars>>

\* File::create truncates what there is.
CreateFile(kind) ==
    /\ Doing(Op("create", kind))
    /\ file' = [file EXCEPT ![of[count]][kind] = Content(count, FALSE, FALSE)]
    /\ Advance /\ UNCHANGED headerVars

WriteFile(kind) ==
    /\ Doing(Op("write", kind))
    /\ file' = [file EXCEPT ![of[count]][kind] = Content(count, TRUE, FALSE)]
    /\ Advance /\ UNCHANGED headerVars

\* Mutant of AppendInclude: contracts.h is opened for writing, not appending.
AppendInclude_Truncates ==
    /\ Doing(Op("include", "h"))
    /\ includes' = [c \in Contracts |-> IF c = of[count] THEN 1 ELSE 0]
    /\ Advance /\ UNCHANGED <<file, lost>>

\* Mutant of AppendInclude: a contracts.h that cannot be opened is no error.
AppendInclude_Optional ==
    /\ Doing(Op("include", "h"))
    /\ includes' \in {includes, [includes EXCEPT ![of[count]] = @ + 1]}
    /\ Advance /\ UNCHANGED <<file, lost>>

AppendInclude ==
    /\ Doing(Op("include", "h"))
    /\ includes' = [includes EXCEPT ![of[count]] = @ + 1]
    /\ lost' = lost \ {of[count]}
    /\ Advance /\ UNCHANGED file

Ends(how) ==
    /\ outcome' = [outcome EXCEPT ![count] = how]
    /\ UNCHANGED <<mode, file, headerVars, count, of, with_abi, step>>

\* Mutant of Fail: the failure of an operation is no error.
Fail_Ignored == ~Idle /\ Ends("done") /\ UNCHANGED formatVars

\* The next operation fails, or the program is killed before it.
Fail == ~Idle /\ Ends("failed") /\ UNCHANGED formatVars

Finish == ~Idle /\ step = Len(Script) /\ Ends("done")

FinishPlain == ~mode.clang_format /\ Finish /\ UNCHANGED formatVars

FormatterStarts(started) ==
    formatter' = [formatter EXCEPT ![count] =
        [target \in Targets |-> IF target \in started THEN "started" ELSE "none"]]

\* Mutant of FinishFormatting: clang-format is started while the files are open.
FinishFormatting_Early(started) ==
    /\ mode.clang_format /\ Doing(Op("write", "h"))
    /\ FormatterStarts(started)
    /\ UNCHANGED <<mode, file, headerVars, transVars, held>>

\* No clang-format is found under any of its names, or some cannot be started:
\* both are warnings.
FinishFormatting(started) ==
    /\ mode.clang_format /\ Finish
    /\ FormatterStarts(started)
    /\ UNCHANGED held

-----------------------------------------------------------------------------
(* clang-format *)

Moves(t, target, from, to) ==
    /\ formatter[t][target] = from
    /\ formatter' = [formatter EXCEPT ![t][target] = to]
    /\ UNCHANGED <<mode, transVars>>

FormatReads(t, target) ==
    /\ Moves(t, target, "started", "read")
    /\ held' = [held EXCEPT ![t][target] =
                    IF target = "contracts.h" THEN includes ELSE file[of[t]][target]]
    /\ UNCHANGED <<file, headerVars>>

FormatWrites(t, target) ==
    /\ target # "contracts.h"
    /\ Moves(t, target, "read", "ended")
    /\ file' = [file EXCEPT ![of[t]][target] = [held[t][target] EXCEPT !.formatted = TRUE]]
    /\ UNCHANGED <<headerVars, held>>

\* Sorting the includes drops the repeated ones.  What was appended since the
\* file was read is lost, and what was lost since then is back.
FormatWritesAll(t) ==
    /\ Moves(t, "contracts.h", "read", "ended")
    /\ lost' = {c \in Contracts : (includes[c] > 0 \/ c \in lost) /\ held[t]["contracts.h"][c] = 0}
    /\ includes' = [c \in Contracts |-> IF held[t]["contracts.h"][c] > 0 THEN 1 ELSE 0]
    /\ UNCHANGED <<file, held>>

Formats(t) ==
    \/ \E target \in Targets : FormatReads(t, target) \/ FormatWrites(t, target)
    \/ FormatWritesAll(t)

Init ==
    /\ mode \in Modes
    /\ file = [c \in Contracts |-> [kind \in Kinds |-> Absent]]
    /\ includes = [c \in Contracts |-> 0] /\ lost = {}
    /\ count = 0 /\ of = <<>> /\ with_abi = <<>> /\ step = 0 /\ outcome = <<>>
    /\ formatter = [t \in 1..MaxTranslations |-> [target \in Targets |-> "none"]]
    /\ held = [t \in 1..MaxTranslations |-> [target \in Targets |-> <<>>]]

Translation ==
    \/ \E kind \in Kinds : CreateFile(kind) \/ WriteFile(kind)
    \/ AppendInclude
    \/ FinishPlain \/ \E started \in SUBSET Targets : FinishFormatting(started)

Next ==
    \/ \E c \in Contracts : \E abi \in BOOLEAN : Start(c, abi)
    \/ Translation
    \/ Fail
    \/ \E t \in 1..count : Formats(t)

Spec == Init /\ [][Next]_vars

\* A translation that is not killed goes on, and so does a clang-format.
FairSpec ==
    /\ Spec
    /\ WF_vars(Translation)
    /\ \A t \in 1..MaxTranslations : WF_vars(t <= count /\ Formats(t))

-----------------------------------------------------------------------------
(* Properties *)

\* The last translation of a contract, 0 if there is none.
Latest(c) == CHOOSE t \in Translates(c) \cup {0} : \A u \in Translates(c) : u <= t

Succeeded(c) == Latest(c) # 0 /\ outcome[Latest(c)] = "done"

\* The files a translation writes.
Written(t) == IF with_abi[t] THEN Kinds ELSE Kinds \ {"abi"}

\* When a translation succeeds, all files that it writes are its and whole:
\* source and header never are of different translations, and none is left cut
\* off by an earlier failure.  The ABI is not among them for raw bytecode that
\* has none (AbiIsWritten below).
SuccessIsWhole ==
    \A c \in Contracts : Succeeded(c) =>
        \A kind \in Written(Latest(c)) : file[c][kind].by = Latest(c) /\ file[c][kind].whole

\* ... and contracts.h includes the contract's header, unless it did and a
\* clang-format has since dropped it.
SuccessIsIncluded == \A c \in Contracts : Succeeded(c) => includes[c] > 0 \/ c \in lost

\* An included header exists, whichever operations failed, and it is whole
\* unless the contract is being translated again or the last time failed.
IncludedIsWhole ==
    \A c \in Contracts : includes[c] > 0 =>
        /\ file[c]["h"] # Absent
        /\ Succeeded(c) => file[c]["h"].whole

\* This step is that of a clang-format that writes back a contracts.h it read
\* when c was not included.
Drops(t, c) ==
    /\ formatter[t]["contracts.h"] = "read" /\ formatter'[t]["contracts.h"] = "ended"
    /\ held[t]["contracts.h"][c] = 0

\* contracts.h never loses a contract, whatever fails and is translated again,
\* but in the step in which a clang-format writes back what it read without it.
IncludesAreKept ==
    [][\A c \in Contracts :
          includes[c] > 0 => includes'[c] > 0 \/ \E t \in 1..count : Drops(t, c)]_vars

\* A started clang-format leaves the contract's file formatted and whole, for
\* good, although nothing waits for it.
FormattedForGood ==
    \A t \in 1..MaxTranslations : \A target \in {"cpp", "h"} : \A c \in Contracts :
        (formatter[t][target] = "started" /\ of[t] = c)
            ~> [](file[c][target].formatted /\ file[c][target].whole)
-----------------------------------------------------------------------------
(* What does not hold *)

\* contracts.h never loses a contract: the comment where clang-format is started says
\* "files are closed, we run clang-format if possible" (codegen.rs:759).
FormattingKeepsIncludes == \A c \in Contracts : Succeeded(c) => includes[c] > 0

\* The ABI is the contract's (write_abi is not called at main.rs:381-394 for raw
\* bytecode without one): it may be missing, that of an earlier translation, or
\* cut off by an earlier failure.
AbiIsWritten ==
    \A c \in Contracts : Succeeded(c) => file[c]["abi"].by = Latest(c) /\ file[c]["abi"].whole

\* Nor do SuccessIsWhole, IncludedIsWhole and FormattedForGood when a contract is
\* translated again with -F: the clang-format of the first translation may write
\* its file over that of the second.
=============================================================================
