# evm2cpp in TLA+

evm2cpp translates EVM bytecode to C++: every basic block becomes a C++ lexical
block in which the stack has been compiled away into variables and constants,
and blocks jump to one another with `goto` and a jump table.  This directory
models the translator and checks that what it prints does what the EVM does.

    tlc -config Bytecode.cfg MCJumpDispatch.tla
    tlapm JumpDispatch_proofs.tla

## The system

| component | state | operations | interacts with |
|---|---|---|---|
| instruction set (`instructions.rs`) | none (a table) | `from_u8`, `is_push`, `stops`, `info`, ... | read by all below |
| block parsing (`analysis.rs`, `BasicBlock::parse`, `Program::new`) | position, block being built, blocks, instruction counter | one turn of the loop; a block is finished | its blocks feed emulation; their addresses become C++ labels |
| code metadata (`CodeMeta::new`) | position, `jumpdests`, `iscode` | one turn of the loop | `jumpdests` becomes the jump table and decides `emit_jump` |
| constant folding (`evaluate_opcode`) | none | one call | called by block emulation |
| block emulation (`emulate_bb`) | abstract stack, `pops_at_end`, `stack_sets`, `returns`, per-instruction operands | one instruction; the end of the block | everything codegen prints comes from it |
| block code generation (`emit_basic_block`) | peeks, finalizer text, interned constants | one instruction; peeks; finalizer | prints what emulation left |
| jump table and jumps (`emit_jumptable`, `emit_jump`, macro `JUMP`) | the table | a jump at run time | labels of blocks |
| interned constants, dictionary (`format_constant`, `translate_to_c`) | map from words to names | intern; write the dictionary | used by block code generation |
| output files (`translate_to_c`, `write_abi`) | files of a contract, the shared `contracts.h`, clang-format processes | write, append, spawn | once per contract |
| source maps (`sourcemap.rs`) | entries so far | one entry | keyed by `global_idx` of parsing |
| contract selection (`main.rs`) | best match so far | one contract compared; one contract translated | drives all of the above |
| combined JSON (`combinedjson.rs`) | none | deserialization | input of contract selection |

The translator is sequential; what is hard in it is not scheduling (except for
the clang-format processes, which nobody waits for) but *agreement*: two scans
of the same bytes that must cut them alike, an emulation whose operands are used
long after they were computed and in another order, a finalizer that has to
reproduce the stack that dozens of instructions would have left, and folds that
must hold for words that are not known.  The hazards in `PROJECT.json` list
these places by line.  What makes each component correct:

- parsing and metadata: both scans have the same idea of what an instruction is,
  and it is the EVM's; every marked jump destination is a label; control enters
  and leaves blocks only at their ends; a block begins where the one before ends;
- folding: what an instruction is replaced by is worth what the EVM computes;
- emulation and block code: same interactions with the same arguments, same
  stack at the end; no undeclared variable; no access below the stack;
- jumps: a jump goes to the block of its target or throws, as the EVM does;
- interning: different constants have different names, and what is not traced is
  in the dictionary;
- output: after a success a contract's files are whole, of one translation, and
  included; what fails leaves nothing included that does not exist;
- source maps: entry *n* is what the format says it is, and a block shows the
  entry of its instruction;
- selection: the contract asked for, or each of them, is translated, or there is
  an error.

## Modules

| module | models |
|---|---|
| `Instructions` | the instruction set: which bytes are instructions, their classification, arguments and results |
| `Bytecode` | `Program::new`: `ParseInstruction` is one turn of the loop of `parse`, `PushBlock` the return of `parse` into the loop of `Program::new`, `MarkJumpdest`/`MarkPush`/`MarkOther` the arms of the loop of `CodeMeta::new` |
| `EvmCode` | reference: how the EVM cuts a bytecode into instructions, as the least set closed under "next instruction", and which of them can be jumped to |
| `EvmControl` | abstract specification: which instruction the EVM executes next; jumps go to any word |
| `JumpDispatch` | `Bytecode` composed with the running program: `JumpTable` (`emit_jumptable`), `JumpConstant` (`emit_jump`), `JumpComputed` (macro `JUMP`), labels and falling through.  `Evm` is the refinement mapping to `EvmControl` |
| `Words` | reference: 256-bit words modulo `WordSize`, and the EVM's arithmetic on them, written from the EVM and not from the translator |
| `EvalOpcode` | `evaluate_opcode`: `Fold1`, `Fold2Constants`, `FoldIdentity`, `Fold3` are its matches by number of arguments, in the order of their arms |
| `EvalRun` | one call of `evaluate_opcode`, for any instruction `emulate_bb` passes it, any words its arguments have at run time and any of them known |
| `EmulateBB` | `emulate_bb`: one action per branch of its loop, `FinishBB` for what follows the loop.  The block is chosen as it is emulated, so all blocks are covered |
| `EvmBlock` | abstract specification: the EVM executing a block on its stack, with a trace of what the world sees |
| `BlockRun` | `EmulateBB` together with the code `emit_basic_block` prints, running, for the *words* it computes: variables `v_k_0` (`results`), peeks `s_0_k` (`entry`), the real stack (`real`) and the finalizer (`FinalStack`).  `ImplementsEvm` is the refinement mapping to `EvmBlock`: the EVM's stack is what operands denote (`Denoted`) until the finalizer has run |
| `EmitBB` | `EmulateBB` together with the code `emit_basic_block` prints, for its *names and control*: the finalizer is printed first, `PrintJump`, `PrintSwap`, `PrintHandler`, ... are the branches of its loop, `Assemble` hoists the peeks; then the text runs statement by statement on a stack of some height |
| `Interning` | `format_constant`, the comparisons that are not traced, the declarations and the dictionary loop of `translate_to_c` |
| `OutputFiles` | `write_abi`, which raw bytecode without an ABI skips (`Start`), and the file operations of `translate_to_c` (`Script`), each of which may fail or be the last; translations that follow each other; a clang-format process per file, which reads and later writes.  `lost` is a history variable for the properties |
| `SourceMap` | `parse_source_map`, an entry at a time with its errors and panics, and the line a block shows.  `Meaning` is the reference reading of the format |
| `ContractSelection` | `main`: arguments, the search for the best match, the loop over the contracts and where it fails |
| `*_proofs` | theorems about the module of that name; `JumpDispatch_proofs` has those about `Bytecode` too, and `EmulateBB_proofs` those about `EvalOpcode` and `EvalRun` |
| `MC...` | instances for TLC |

The modules fit together as the program does: `JumpDispatch` runs the blocks and
metadata of `Bytecode`, from block to block and treating what a block computes as
any word; `BlockRun` and `EmitBB` run one block that `EmulateBB` emulated with
`EvalOpcode`, from any stack.  `GoesWhereEvmGoes` and `ImplementsEvm` together say
that a translated program is the EVM's, as far as the exceptions below.
`Interning`, `SourceMap`, `OutputFiles` and `ContractSelection` stand around that
and share no state with it.

Abstractions.  A word is an integer modulo `WordSize` (in `Bytecode` the sequence
of its bytes, in `EmitBB` the name it is printed as); memory, storage, calls and
gas are one kind of step, an interaction with any answer.  The instruction number
that every `StackRef` carries is always 0 in optimized blocks, and no handler that
is kept as an operand has more than one result, so operands carry one number.
A file's content is the translation it is of and whether all of it is there.  A
check that cannot matter (a byte that is no instruction is one byte long in both
scans) is kept where the code has it.  After `goto exit_label` (RETURN, STOP, ...)
the finalizer does not run; `BlockRun` runs it nevertheless, as for any block,
which only demands more; `EmitBB` does not run it.

`Words`, `EvmCode`, `EvmControl`, `EvmBlock`, and the clang-format steps of
`OutputFiles`, stand for what is outside the repository (the EVM, the handlers and
the stack of eEVM that the generated code calls, clang-format); they are written
from how the translator uses them.  In particular the stack of eEVM is taken to
check its bounds, and clang-format to replace its file by what it read, sorting the
includes and dropping repeated ones.

## What TLC checks

| run | bounds | shows |
|---|---|---|
| `Bytecode` (`MCJumpDispatch`) | all codes of up to 4 bytes over STOP, ADD, an invalid byte, JUMP, JUMPI, PC, JUMPDEST, PUSH1, PUSH2; 3-byte words; jumps to 0..11 where "2^32" is 6 and "2^64" is 8 | the scans agree with each other and with the EVM, blocks are straight-line, contiguous and numbered, immediates are right, both scans end; the translation goes where the EVM goes and every label it goes to is printed |
| `EvalOpcode` | all 4-bit words, all foldable instructions and one of each other arity, every subset of the arguments known; 2-byte words of 2-bit bytes, `usize` up to 7 | folds are what the EVM computes (0 ** x apart), arities are kept |
| `EvalOpcodeZeroExp` | the same | **violated**: `0 ** x` is folded to 0 |
| `BlockRun` | blocks of up to 4 of ADD, EXP, an invalid byte, POP, MLOAD, MSTORE, JUMPI, JUMPDEST, PUSH1, DUP2-3, SWAP1-2; a frame of 2 slots; stacks of 1 to 5 words of 2 bits | translated blocks implement the EVM's as long as swaps and pops stay in the frame; uses are defined, nothing reaches below the stack, the stack pointer is right |
| `BlockDeepPop` | PUSH and POP | **violated**: a set after pops through the frame lands in a slot that is popped |
| `BlockDeepSwap` | PUSH, POP, DUP1-4, SWAP1-3 | **violated**: a swap beyond the frame is forgotten by later DUPs |
| `EmitBB` | blocks of up to 4 of STOP, ADD, POP, MSTORE, JUMP, JUMPI, an invalid byte, PUSH1, DUP2, SWAP1-2, CREATE; a frame of 2; stacks of 0, 1, 2, 3 and 5 words, 5 being the limit | names are declared before use but for disagreement 5, a block throws only when the EVM does, is left as its instructions leave it at the EVM's height whichever copy of the finalizer ran, and notices underflow when it goes on |
| `Interning` | 9 words of 3 base-4 digits on both sides of both limits ("2^32" is 4, "2^64" is 16), up to 4 printed | names are distinct and declared as printed; what is not traced is in the dictionary, 0, a jump destination or a mask |
| `OutputFiles` | 2 contracts, 3 translations, any operation failing; either -F, or repeated translations with and without an ABI | after a success all files that it writes are whole and of that translation, and the contract is included; only a clang-format that writes back what it read before drops it; what it formats stays formatted |
| `SourceMap` | maps of up to 4 entries of 13 forms (empty, blank fields, no depth, wrong values, -1, a cut character), 2 files, lines shown up to 2 bytes | entries are what the format means wherever the two elements before agree, what is shown is that source, old maps have depth 0, full maps parse |
| `MapCopies` | the same | **violated**: an empty field is copied from the entry before the previous one |
| `ContractSelection` | up to 3 of 9 keys whose names are equal, equal but for case and underscores, or parts of each other; every kind of command line; any of 4 flaws per contract | the best match is taken wherever it is, a match is found, all are translated or there is an error, no ABI without its contract |

Why the bounds are enough.  A 4-byte code holds a PUSH2 with its immediate and
one neighbour, a JUMPDEST in every position of an immediate, and every cut-off
PUSH; blocks of one, two and more instructions follow one another in it, with a
jump back, forward, into an immediate, behind the end, and to words beyond each
limit of the table.  The frame has 32 slots in the code and 2 here, so that blocks
of 3 and 4 instructions get beyond it, to its edge and back; entry stacks end
inside, at and beyond the frame.  `usize` ends below the largest word so that shift
distances on both sides of it exist.  With -F two contracts
give a translation beside the three clang-formats of an earlier one; without it
three translations give a contract that is translated again, twice or around the
other one, with or without an ABI each time (clang-format touches no ABI, so raw
bytecode is in this mode only).  In four entries each empty field has two before it that
differ.  The search of `main` keeps one contract at a time, so three suffice for
one that is replaced and one that must not be.

`CHECK_DEADLOCK FALSE` is set in all runs: the translation of a bytecode, of a
block or of all contracts ends.

Fairness.  `FairInTableSpec` assumes that the scans go on (`Terminates`): their
loops are sequential code without blocking calls, so the thread that runs them
keeps taking steps.  The program that is printed need not go on, since a contract
may loop.  `FairSpec` of `OutputFiles` assumes that a translation goes on until it
fails, is killed or succeeds, and that each started clang-format does
(`FormattedForGood`); nothing makes a translation start, or wait for clang-format.

### Disagreements found

Each of these is a run that TLC finds violated, listed in `PROJECT.json`:

1. `analysis.rs:765`: "for all i: 0 ** i == 0" is wrong for i = 0
   (`EvalOpcodeZeroExp`).
2. `analysis.rs:551-553, 579`: the finalizer forgets the pops beyond the emulated
   frame when it computes the slots to set (`BlockDeepPop`).  It takes a block
   that pops more than 32 words and then pushes.
3. `codegen.rs:367-400` against `README.md:3`: a swap with a slot beyond the frame
   is written to the stack while operands keep the word peeked at the head of
   the block (`BlockDeepSwap`).  It takes a block whose emulated stack has shrunk
   below the slot that is swapped.  The code's own TODO suspects it.
4. `sourcemap.rs:96`: an empty field copies from `entries[idx - 2]`, where `idx` is
   0-based, so not from the element before; the description the code refers to
   copies the preceding element (`MapCopies`).

The following have no run of their own.  The formulas stand in the modules under
"What does not hold"; added as an INVARIANT to the module's configuration, each
gives a counterexample of a few steps.

5. `EmitBB.NamesAreDeclared`: a swap of a constant with a slot below the frame takes
   back the peek of that slot (`codegen.rs:387`) although an earlier or later
   operand may need it: C++ that does not compile.  (With `Opcodes <- MCSwapOpcodes`.)
6. `EmitBB.StopNoticesUnderflow`: a block that stops jumps to `exit_label` before its
   finalizer (`codegen.rs:432`), so that its POPs of words that are not there go
   unnoticed.
7. `EmitBB.OverflowIsNoticed`: the height is compared with the limit when the
   finalizer pushes; an overflow within a block goes unnoticed.
8. `Interning.ComparesAreCovered`: a comparison with a constant that is also the
   number of a jump destination is not traced (`codegen.rs:329`) and the constant is
   filtered from the dictionary (`codegen.rs:721`).
9. `OutputFiles.FormattingKeepsIncludes`: the clang-format on `contracts.h` of one
   translation writes back what it read before the next one appended its include
   (`codegen.rs:759-764`).  Likewise a contract that is translated again with -F may
   find its files overwritten by the clang-format of the first translation, which
   is why the run and two of the theorems leave that combination out.
10. `ContractSelection.DoneMeansTranslated`: without a match `main` compares full keys
    with names (`main.rs:179`), translates nothing and prints "Done!" (`main.rs:409`).
11. `ContractSelection.OutputsAreKept`: with `--translate-all` contracts of the same
    name in different files overwrite one another (`main.rs:258`).
12. `OutputFiles.AbiIsWritten`: raw bytecode is translated without calling `write_abi` if
    there is no `-a` and no file where `main.rs:385-388` looks for one (the input's name
    up to and with its dot).  The program prints "Done!" beside an ABI that is missing,
    that of an earlier translation, or cut off by an earlier failure.
13. `JumpSpec` does not imply `GoesWhereEvmGoes`: a computed jump is truncated to 64 bits
    (`codegen.rs:91`), and one to 0 goes to the start whether or not a JUMPDEST is
    there (`codegen.rs:71`).  `JumpInTable` is the condition under which it does.

Met on the way and not stated: a PUSH that the end of the code cuts off has its bytes
as the low ones of its constant (`analysis.rs:297-300`) where the EVM has zeros behind
them, which nothing that runs can see (`PushesEvmImmediate`); with `--contract-name`
the output is named by the name searched for and not by the one found
(`main.rs:263`); `README.md:62-64` speaks of source maps that are used automatically,
which `main.rs:280` makes an option; an empty first entry (`sourcemap.rs:82`) and a
second entry without a modifier depth (`sourcemap.rs:140`) panic; both panics are
steps of `SourceMap`.

## What is proved

All of the following hold for every value of the constants.

**`JumpDispatch_proofs`**, of `Bytecode`, for every alphabet, word width and code length: `TypeCorrect`,
`JumpdestsAreLabelsAlways`, `ScansAgreeAlways`, `JumpdestsAreEvmsAlways`,
`BlocksStayStraightLine`, `BlocksFallThrough`, `PushesStayEvms` and
`GlobalIndexStaysOrdinal`: each is `Spec => []` of the invariant of the run.

None of them is inductive: what the second scan marks depends on what the first
one left.  `ScanInv` adds to `TypeOK` where `pc` is (`PcInside`); that the addresses
decoded so far are closed under "next instruction" and no decoded address lies
inside another instruction (`Frontier`); that every decoded JUMPDEST is the head of
a block or of the block being built (`JumpdestsAreHeads`, which is where the
look-ahead of `parse` is needed); and that, while the second scan runs, its
position is a decoded address and `iscode` agrees with the decoded addresses below
it (`MetaFollowsParse`).  Three invariants add to it: `DestInv`, that what is decoded
lies in every set the EVM's boundaries could be (so, being closed, is the least
one); `ShapeInv`, that every block is a gapless run of instructions, open only at
its end, and that blocks follow each other; `NumberInv`, that each instruction's
index is the number of those before it.

And of `JumpDispatch`, from `DestInv` and `ShapeInv`, for any words jumps may find and any
"2^32" and "2^64":

- `StaysLinked`: `JumpSpec => []AlwaysLinked`;
- `GoesAsEvm`: `InTableSpec => GoesWhereEvmGoes`, the refinement.  A step of the scans is
  a stutter, `Start` too, and every other step is the EVM's: that the next
  instruction of a block is the EVM's next one is `WellBuilt`, that falling through is
  `BlocksFollow`, and that a label exists exactly at the EVM's destinations is
  `DestinationsLinked`.

**`EmulateBB_proofs`**, for every word size, frame length, set of instructions and length
of block, swaps and pops beyond the frame included:

- `FoldSound`: whenever operands describe words, a fold that `evaluate_opcode` makes,
  except `0 ** x` for an unknown x, is of an arithmetic instruction and is either the
  constant the EVM computes or an argument that is worth it; so, of every call,
  `FoldsAreEvms` and `ArityStaysKept`.
- `EverythingIsNamed`: `SpecBB => []NamesInv`.  Every operand of an instruction, of the
  abstract stack and of the finalizer is a word, a slot, or the result of an
  instruction *before* it that is emitted and has one (`Named`); instructions that
  `emit_basic_block` treats specially have the operands it expects (`WellFormed`);
  only the last instruction ends the block (`OnlyLastEnds`).
- `HeightsAreRight`: `SpecBB => [](NamesInv /\ HeightsInv)`.  `HeightsInv` relates the
  abstract stack to the heights the EVM's stack has, of *any* height n at first.
  While that is never too short (`Deep`), no slot at n or below is named and no word
  that is not there is popped, and below the depth the block has touched every
  position is still its own slot (`Untouched`).  Once it was too short, either some
  operand names a slot that is not there, or the slot just below the n words is
  popped, set or beyond what is left (`Lost`), which the generated code notices, unless
  words were popped beyond the frame.

The heights are a sum over the block, so these are facts about data of any size.
Where they need induction (that the sums exist, that a list of slots in ascending
order has each once, that code flattened with one piece more is that code and the
piece) it is done from `WFMin` of the library for a *set* of numbers (lemma `Induction`): no operator
is passed.

**`BlockRun_proofs`**, for every frame length, set of instructions and immediates,
length of block and set of entry stacks, and every word size:

- `TypeCorrect`: `Spec => []TypeOK`;
- `BlockImplementsEvm`: `InFrameSpec => ImplementsEvm`, the refinement.  Its two
  hypotheses beyond the frame (`PowerOfZero`, the condition on `Finish`) are the
  disagreements 1 and 2 above, and leaving out `SwapOut` and `SwapBelow` is
  disagreement 3: in what a block does with its stack and its operands there is
  no fourth.

The types are not inductive: that a result is a word needs its arguments to be
words, and those are slots and results that operands refer to.  The invariant
`IInv` adds that every operand down to the depth of the stack, the slots below
the emulated part included, is a word, a slot of the entry stack or the result of
an instruction that was already emulated (`Sound`), and that the last instruction
of a block that goes on is an instruction (`OnlyInstructions`, which is why the
EVM has not ended).  For the refinement `FrameInv` adds that the real stack is
still the entry stack.  The argument goes through two functions of the abstract
stack, `At` (the operand at a depth) and `View` (the words it stands for): every
instruction but SWAP takes `a` operands and puts `r` (`Replaces`), whether or not
they are emulated, so that one lemma (`ViewAfter`) carries each of them over to
the EVM's stack; SWAP has its own (`SwapView`).  `FoldSound` is what the step of a
folded instruction rests on.  That the finalizer is a stutter (`FinishDenoted`)
is shown slot by slot, for stacks that grew beyond the frame, shrank below it or
were popped through it.

Also in `BlockRun_proofs`, of the whole `Spec`, swaps and pops beyond the frame included:
`UsesAreDefinedAlways`, `StaysOnStackAlways` and `StackPointerIsRightAlways`.  A run of a
translated block is an emulation (`IsEmulation`), so `NamesInv` and `HeightsInv` hold in
it; `RunInv` adds that the entry stack is deep enough for the block so far (`DeepInv`).
The first is then `NamesInv`, the second `HeightsInv` at the height of the entry stack,
and the third `HeightsInv` at height 0, where the depth reached is the sum of what the
instructions take and put.

**`EmitBB_proofs`**, for every frame length, set of instructions, length of block, stack
limit and entry height: `NamesComeFirst`, `ThrowsRightly`, `LeavesLikeEvm`,
`UnderflowStops`: `EmitSpec => []` of each property of the run `EmitBB`.  The inductive
invariant is `EmitInv`, which follows the stages of the code:

- while the block is emulated, `NamesInv` and `HeightsInv`;
- while it is printed, `PrintInv`: the code so far is, jumps left out, that of the first
  m instructions (`IsCode`), each statement of which uses only what these instructions
  name or an earlier handler computed (`Available`), and the peeks are the slots that
  they or the finalizer name, but for those a constant was swapped with
  (`PeeksAreWanted`).  One lemma per branch of the loop (`PrintsJumpI`, `PrintsHandler`,
  ...) shows what its code adds (`PrintStep`).
- when it is assembled (`AssembledRuns`), the text is peeks and instructions, then
  finalizers and jumps as `Layout` has it: one copy of the finalizer, or two around
  the branch of a JUMPI;
- while it runs, `RunsInv`: the statements behind the control had the slots they name
  (`Passed`), and after j statements of a copy of the finalizer the height is that of
  `HeightIn(j)`.  Hence a block that throws did so at a slot the EVM's stack has not
  got, and one that reaches the end of either copy has the EVM's height and passed all
  the statements in which an underflow shows (`EndFacts`, from `HeightsInv`).

**`Interning_proofs`**, for every set of words and every width: `TypeCorrect`,
`NamesStayDistinct`, `UsesStayDeclared`, `UntracedGetIntoDict`.  That names are distinct
is inductive only with the fact that a number given as a name is smaller than the
map, which never shrinks (`NumbersAreOld`).

**`OutputFiles_proofs`**, for any contracts and number of translations:

- `SuccessStaysIncluded`, `IncludesStayKept` however the program is used (`FilesInv`: a
  translation past its include is listed: included, or `lost`, which it is from the
  step in which a clang-format writes contracts.h back without it until it is
  included again; clang-format was started only by translations that succeeded);
- `SuccessStaysWhole`, `IncludedStaysWhole` under `OneWay`, the condition of the run:
  contracts that are formatted are not translated again.  The files of a success are
  those it writes (`Written`): not the ABI, if there is none.  `WholeInv` says what the
  running translation has written is whole; that the latest successful one's files
  are; that what a clang-format holds is the whole file of its own translation,
  the only one of its contract; and that a contract whose include clang-format
  holds has a header.

**`SourceMap_proofs`**, for any map, sources and length that is shown: `TypeCorrect`,
`CopiesStayRight`, `ShowsSourceAlways`, `OldDepthStaysZero`, `FullMapsAreParsed`.  The
invariant `MapInv` is their conjunction with `FullIsShown`, that what has been parsed
of a full map can be shown.  A new entry is right (`NewEntry`) because a given field
means itself (`MeaningGiven`), a blank one what the element before means
(`MeaningBlank`), and the element before that means the same where they agree.

**`ContractSelection_proofs`**, for any contracts, names and command lines:
`SearchTakesBest`, `SearchFindsMatches`, `AllAreTranslated`, `AbisStayTranslateds`.
`SearchInv` says that the score kept is that of a contract already considered, the
best of those (`IsFound`), and that a contract of the very name has not been passed;
with `WorstScore` none of them matches.  So the search ends with `FoundBest`, and any
contract that has the name found is best (`SelectedIsBest`), even if it is not the
one the search came from.

The assumptions are those of the constants: `FrameLen` is positive, the bytes are
bytes and the immediates words; no code is as long as "2^32"; no name is
so long that a match of it scores more than 9997, where 10000 is the score of none
(`ScoresAssumption`; names of thousands of characters); a stack is not entered above its
limit; the limits, digits and words of `Interning` are numbers; what is evaluated in
`EvalRun` is what `emulate_bb` does not handle itself; and those of `Words`: powers of
two double, a distance that is no `usize` shifts every bit out, `Exp` satisfies its recurrence, the bit
operations stay within the words.  TLC evaluates all of them in the runs.

Only model-checked: liveness (`Terminates`, `FormattedForGood`; the prover does not do
fairness).  Every invariant and every safety property of the runs that hold is a
theorem.

## Not modelled

- Deserialization of the combined JSON (serde, generated from types; no state): its
  result, in the order of the `BTreeMap`, is the input of `ContractSelection`.
- The text itself: comments, mnemonics, layout, the wording of errors, the gas
  tiers of the instruction table, which nothing in the generated code reads.
- Which constructor and ABI file is found beside raw bytecode (`main.rs:385`): a
  lookup of file names.  `ContractSelection` leaves it to chance whether there is one.
- `parse_source_map_file`, `line_number`, `is_call`, which nothing uses.
- Makefiles, scripts and sample contracts.

## Plan

Done, in this order: the scans and their agreement; constant folding; emulation and
the refinement of blocks; the disagreements; `EmitBB`; `JumpDispatch` and its
refinement; `Interning`; `OutputFiles`; `SourceMap`; `ContractSelection`; the theorems
above.

Left, by value:

1. `GoesWhereEvmGoes` and `ImplementsEvm` as one refinement: blocks that run one after the
   other on one stack, with the words of jumps taken from it.
