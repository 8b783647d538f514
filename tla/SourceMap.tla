----------------------------- MODULE SourceMap -----------------------------
(***************************************************************************)
(* parse_source_map of sourcemap.rs, an entry at a time, and the use that  *)
(* emit_basic_block of codegen.rs makes of the entries.                    *)
(*                                                                         *)
(* An entry of the map is the sequence of its fields, <<>> for the empty   *)
(* entry.  A field is <<value>>, or <<>> if nothing is between the colons; *)
(* an only field is not empty, or the entry were.                          *)
(* A source file is the sequence of its bytes, of which only matters which *)
(* of them begin a character.  line_number, which nothing reads, is left   *)
(* out; a parse that panics ends the program.                              *)
(***************************************************************************)
EXTENDS Integers, Sequences

CONSTANTS
    Entries,      \* the entries a map is made of
    MaxEntries,   \* bound: the longest map
    Sources,      \* the source files, each a sequence of BOOLEAN
    ShownBytes    \* the bytes of a line that are shown at most (200)

\* The fields: byte_offset, length, file_index, jump_type, modifier_depth.
Fields == 1..5
FileIndex == 3
JumpType  == 4
Depth     == 5

ASSUME EntriesAssumption ==
    /\ Entries \subseteq Seq(Seq(Int))
    /\ \A e \in Entries : Len(e) <= 5 /\ \A f \in DOMAIN e : Len(e[f]) <= 1
    /\ \A e \in Entries : Len(e) = 1 => e[1] # <<>>
    /\ Sources \in Seq(Seq(BOOLEAN)) /\ MaxEntries \in Nat /\ ShownBytes \in Nat

VARIABLES
    source_map,   \* the map that is parsed
    entries,      \* the entries parsed so far, tuples of Fields
    status,       \* "parse", "done", "error", "panic"
    shown         \* what is shown last: of an instruction, a part of a file

vars == <<source_map, entries, status, shown>>

NatMin(a, b) == IF a < b THEN a ELSE b

\* The values the fields can be parsed to; a jump_type is i, o or -.
Parsable(f) ==
    IF f = FileIndex THEN Int ELSE IF f = JumpType THEN 0..2 ELSE Nat

idx   == Len(entries)
Entry == source_map[idx + 1]

IsGiven(f) == f <= Len(Entry) /\ Entry[f] # <<>>

\* The element that empty fields are copied from, entries[idx - 2].
HasCopy == idx >= 2

CopiedEntry == entries[idx - 1]

\* Mutant of Value: the depth of a first entry without one is its last field.
Value_LastField(f) ==
    IF IsGiven(f) THEN Entry[f][1]
    ELSE IF f = Depth /\ idx = 0 THEN Entry[Len(Entry)][1]
    ELSE CopiedEntry[f]

\* Without any entry before, only the depth may be missing.
Value(f) ==
    IF IsGiven(f) THEN Entry[f][1]
    ELSE IF f = Depth /\ idx = 0 THEN 0
    ELSE CopiedEntry[f]

\* Mutant of Fails: any jump_type is taken.
Fails_AnyJumpType(f) == f # JumpType /\ IsGiven(f) /\ Entry[f][1] \notin Parsable(f)

Fails(f)  == IsGiven(f) /\ Entry[f][1] \notin Parsable(f)
Panics(f) == ~IsGiven(f) /\ ~HasCopy /\ ~(f = Depth /\ idx = 0)

\* The fields are parsed in order: the first that cannot be decides.
Stops(f) == (Fails(f) \/ Panics(f)) /\ \A g \in 1..(f - 1) : ~Fails(g) /\ ~Panics(g)

ParsedEntry == [f \in Fields |-> Value(f)]

\* file_index counts from the end if it is negative.
FileOf(e) == IF e[FileIndex] < 0 THEN Len(Sources) + e[FileIndex] ELSE e[FileIndex]
HasFile(e) == FileOf(e) \in 0..(Len(Sources) - 1)

\* The line of an entry: its bytes, as far as the file has them.
LineOf(e) ==
    LET size == Len(Sources[FileOf(e) + 1])
    IN  [file |-> FileOf(e), from |-> NatMin(e[1], size), to |-> NatMin(e[1] + e[2], size)]

IsBoundary(file, at) ==
    at < Len(Sources[file + 1]) => Sources[file + 1][at + 1]

IsText(line) ==
    line.from < line.to => IsBoundary(line.file, line.from) /\ IsBoundary(line.file, line.to)

-----------------------------------------------------------------------------

Parses == status = "parse" /\ idx < Len(source_map) /\ UNCHANGED <<source_map, shown>>

Ends(how) == status' = how /\ UNCHANGED entries

\* Mutant of ParseEmpty: an empty entry is treated like one of empty fields.
ParseEmpty_LikeFields ==
    /\ Parses /\ Entry = <<>> /\ HasCopy
    /\ entries' = Append(entries, CopiedEntry)
    /\ UNCHANGED status

\* An empty entry repeats the one before.
ParseEmpty ==
    /\ Parses /\ Entry = <<>> /\ entries # <<>>
    /\ entries' = Append(entries, entries[Len(entries)])
    /\ UNCHANGED status

\* Mutant of PanicEmpty: an empty entry is copied from entries[idx - 2] as well.
PanicEmpty_LikeFields == Parses /\ Entry = <<>> /\ ~HasCopy /\ Ends("panic")

PanicEmpty == Parses /\ Entry = <<>> /\ entries = <<>> /\ Ends("panic")

IsShort == entries = <<>> /\ Len(Entry) < 4

RejectFirst == Parses /\ Entry # <<>> /\ IsShort /\ Ends("error")

ParseFields ==
    /\ Parses /\ Entry # <<>> /\ ~IsShort
    /\ \A f \in Fields : ~Fails(f) /\ ~Panics(f)
    /\ HasFile(ParsedEntry) /\ IsText(LineOf(ParsedEntry))
    /\ entries' = Append(entries, ParsedEntry)
    /\ UNCHANGED status

StopAtField ==
    /\ Parses /\ Entry # <<>> /\ ~IsShort
    /\ \E f \in Fields : Stops(f) /\ Ends(IF Fails(f) THEN "error" ELSE "panic")

\* No such file, or a line that cuts a character.
StopAtLine ==
    /\ Parses /\ Entry # <<>> /\ ~IsShort
    /\ \A f \in Fields : ~Fails(f) /\ ~Panics(f)
    /\ IF ~HasFile(ParsedEntry) THEN Ends("panic")
       ELSE ~IsText(LineOf(ParsedEntry)) /\ Ends("error")

Finish ==
    /\ status = "parse" /\ idx = Len(source_map)
    /\ status' = "done" /\ UNCHANGED <<source_map, entries, shown>>

\* The entry of instruction global_idx; instructions past the map have the last.
EntryFor(global_idx) == entries[NatMin(global_idx, Len(entries) - 1) + 1]

\* What is shown of a line; it cannot be cut within a character.
Cut(line) == [line EXCEPT !.to = NatMin(@, line.from + ShownBytes)]

Shows(global_idx, line) ==
    /\ status = "done"
    /\ IF IsText(Cut(line))
       THEN shown' = [inst |-> global_idx, line |-> Cut(line)] /\ UNCHANGED status
       ELSE status' = "panic" /\ UNCHANGED shown
    /\ UNCHANGED <<source_map, entries>>

\* Mutant of Show: the entries are counted from 1.
Show_OffByOne(global_idx) == Shows(global_idx, LineOf(EntryFor(global_idx + 1)))

\* The first or last instruction of a block shows its source.
Show(global_idx) == Shows(global_idx, LineOf(EntryFor(global_idx)))

Init ==
    /\ source_map \in UNION {[1..n -> Entries] : n \in 1..MaxEntries}
    /\ entries = <<>> /\ status = "parse"
    /\ shown = [inst |-> 0, line |-> [file |-> 0, from |-> 0, to |-> 0]]

Next ==
    \/ ParseEmpty \/ PanicEmpty \/ RejectFirst \/ ParseFields \/ StopAtField \/ StopAtLine
    \/ Finish
    \/ \E global_idx \in 0..MaxEntries : Show(global_idx)

Spec == Init /\ [][Next]_vars
-----------------------------------------------------------------------------
(* What the map means, by the description of the format that sourcemap.rs  *)
(* links: an empty field has the value of the element before, and so that  *)
(* of the last one that gives the field.                                   *)

Given(i, f) == f <= Len(source_map[i]) /\ source_map[i][f] # <<>>
GivenUpTo(i, f) == {j \in 1..i : Given(j, f)}

LastOf(S) == CHOOSE j \in S : \A k \in S : k <= j

Meaning ==
    [i \in 1..Len(source_map) |-> [f \in Fields |->
        IF GivenUpTo(i, f) = {} THEN 0 ELSE source_map[LastOf(GivenUpTo(i, f))][f][1]]]

-----------------------------------------------------------------------------
(* Properties *)

\* Every instruction of the map has its entry, of parsable values and with a
\* file; at the end there is an entry for each.
SourceMapTypeOK ==
    /\ status \in {"parse", "done", "error", "panic"}
    /\ Len(entries) <= Len(source_map)
    /\ \A i \in DOMAIN entries : HasFile(entries[i]) /\ \A f \in Fields :
          entries[i][f] \in Parsable(f)
    /\ status = "done" => Len(entries) = Len(source_map)

\* A field left empty in an entry that is not.
IsBlank(i, f) == source_map[i] # <<>> /\ ~Given(i, f)

\* Where an empty field is copied from matters only when the two elements
\* before differ: up to the first such entry the map is parsed to its meaning.
AgreesUpTo(i) ==
    \A j \in 3..i : \A f \in Fields :
        IsBlank(j, f) => Meaning[j - 1][f] = Meaning[j - 2][f]

CopiesAgree == \A i \in DOMAIN entries : AgreesUpTo(i) => entries[i] = Meaning[i]

\* What a block shows is the source the map means for its instruction, the last
\* one for instructions past the end, whatever entries were empty.
ShowsSource ==
    LET i == NatMin(shown.inst, Len(source_map) - 1) + 1
    IN  shown.line.to # 0 /\ AgreesUpTo(i) => shown.line = Cut(LineOf(Meaning[i]))

\* A map without modifier depths has depth 0 throughout, as the comment at
\* sourcemap.rs:136 says, whichever entries are empty or copied.
OldDepthIsZero ==
    (\A i \in DOMAIN source_map : Len(source_map[i]) < Depth) =>
        \A i \in DOMAIN entries : entries[i][Depth] = 0

\* Every field of the entry is given and right.
IsFull(e) ==
    /\ Len(e) = 5
    /\ \A f \in Fields : e[f] # <<>> /\ e[f][1] \in Parsable(f)
    /\ LET values == [f \in Fields |-> e[f][1]]
       IN  HasFile(values) /\ IsText(LineOf(values)) /\ IsText(Cut(LineOf(values)))

\* A map of full and empty entries that begins with a full one is parsed and
\* can be shown.
FullMapsParse ==
    source_map[1] # <<>> /\ (\A i \in DOMAIN source_map : source_map[i] # <<>> => IsFull(source_map[i]))
        => status \notin {"error", "panic"}

-----------------------------------------------------------------------------
(* What does not hold *)

\* A map that begins with a full entry and whose every element means a line of
\* a file is parsed to its meaning: sourcemap.rs:75 says "the sourcemap format is
\* described here" of a description by which an empty field has the value of
\* the preceding element.
ParsedAsDescribed ==
    LET isLegal(i) ==
            /\ \A f \in DOMAIN source_map[i] :
                  source_map[i][f] # <<>> => source_map[i][f][1] \in Parsable(f)
            /\ HasFile(Meaning[i]) /\ IsText(LineOf(Meaning[i])) /\ IsText(Cut(LineOf(Meaning[i])))
    IN  IsFull(source_map[1]) /\ (\A i \in DOMAIN source_map : isLegal(i)) =>
            /\ status \notin {"error", "panic"}
            /\ \A i \in DOMAIN entries : entries[i] = Meaning[i]
=============================================================================
