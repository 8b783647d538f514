--------------------------- MODULE SourceMap_proofs ---------------------------
(***************************************************************************)
(* Theorems about SourceMap, for any map, any source files and any length  *)
(* that is shown: what is parsed is what the map means as long as the two  *)
(* elements before an empty field agree, blocks show that source, and full *)
(* maps are parsed.                                                        *)
(***************************************************************************)
EXTENDS SourceMap, SequenceTheorems, TLAPS

MapType ==
    /\ source_map \in Seq(Entries) /\ Len(source_map) >= 1
    /\ entries \in Seq([Fields -> Int])

IsFullMap ==
    /\ source_map[1] # <<>>
    /\ \A i \in DOMAIN source_map : source_map[i] # <<>> => IsFull(source_map[i])

IsOldMap == \A i \in DOMAIN source_map : Len(source_map[i]) < Depth

\* The lines of a full map can be shown.
FullIsShown ==
    IsFullMap => /\ status \notin {"error", "panic"}
                 /\ \A i \in DOMAIN entries : IsText(Cut(LineOf(entries[i])))

MapInv ==
    /\ MapType /\ SourceMapTypeOK /\ CopiesAgree /\ OldDepthIsZero /\ FullIsShown /\ ShowsSource

-----------------------------------------------------------------------------
(* The meaning of the map, an element at a time *)

LEMMA MeaningIs ==
    ASSUME NEW i \in 1..Len(source_map), NEW f \in Fields
    PROVE  Meaning[i][f] = IF GivenUpTo(i, f) = {} THEN 0
                           ELSE source_map[LastOf(GivenUpTo(i, f))][f][1]
BY DEF Meaning

LEMMA MeaningGiven ==
    ASSUME Len(source_map) \in Nat, NEW i \in 1..Len(source_map), NEW f \in Fields, Given(i, f)
    PROVE  Meaning[i][f] = source_map[i][f][1]
<1>1. i \in GivenUpTo(i, f) BY DEF GivenUpTo
<1>2. \A k \in GivenUpTo(i, f) : k \in Int /\ k <= i BY DEF GivenUpTo
<1>3. /\ LastOf(GivenUpTo(i, f)) \in GivenUpTo(i, f)
      /\ i <= LastOf(GivenUpTo(i, f))
    BY ONLY <1>1, <1>2 DEF LastOf
<1>4. LastOf(GivenUpTo(i, f)) = i BY ONLY <1>2, <1>3, i \in 1..Len(source_map)
<1> QED BY ONLY <1>1, <1>4, MeaningIs, i \in 1..Len(source_map), f \in Fields

LEMMA MeaningBlank ==
    ASSUME Len(source_map) \in Nat, NEW i \in 2..Len(source_map), NEW f \in Fields, ~Given(i, f)
    PROVE  Meaning[i][f] = Meaning[i - 1][f]
<1>1. i \in 1..Len(source_map) /\ i - 1 \in 1..Len(source_map) OBVIOUS
<1>2. \A j : j \in 1..i <=> j \in 1..(i - 1) \/ j = i OBVIOUS
<1>3. GivenUpTo(i, f) = GivenUpTo(i - 1, f) BY ONLY <1>2, ~Given(i, f) DEF GivenUpTo
<1> QED BY ONLY <1>1, <1>3, MeaningIs, f \in Fields

LEMMA MeaningNone ==
    ASSUME Len(source_map) \in Nat, 1 \in 1..Len(source_map), NEW f \in Fields, ~Given(1, f)
    PROVE  Meaning[1][f] = 0
<1>1. \A j : j \in 1..1 => j = 1 OBVIOUS
<1>2. GivenUpTo(1, f) = {} BY ONLY <1>1, ~Given(1, f) DEF GivenUpTo
<1> QED BY ONLY <1>2, MeaningIs, 1 \in 1..Len(source_map), f \in Fields

\* An element without fields means what the one before means.
LEMMA MeaningEmpty ==
    ASSUME Len(source_map) \in Nat, NEW i \in 2..Len(source_map), source_map[i] = <<>>
    PROVE  Meaning[i] = Meaning[i - 1]
<1>1. \A f \in Fields : ~Given(i, f) BY DEF Given, Fields
<1>2. \A f \in Fields : Meaning[i][f] = Meaning[i - 1][f] BY <1>1, MeaningBlank
<1>3. /\ Meaning[i] = [f \in Fields |-> Meaning[i][f]]
      /\ Meaning[i - 1] = [f \in Fields |-> Meaning[i - 1][f]]
    <2>1. i \in 1..Len(source_map) /\ i - 1 \in 1..Len(source_map) OBVIOUS
    <2> QED BY <2>1 DEF Meaning
<1> QED BY ONLY <1>2, <1>3

LEMMA SameMap ==
    ASSUME source_map' = source_map
    PROVE  /\ Meaning' = Meaning
           /\ \A i : AgreesUpTo(i)' <=> AgreesUpTo(i)
           /\ IsFullMap' <=> IsFullMap
           /\ IsOldMap' <=> IsOldMap
<1>1. Meaning' = Meaning
    BY source_map' = source_map DEF Meaning, GivenUpTo, Given, LastOf
<1>2. \A i : AgreesUpTo(i)' <=> AgreesUpTo(i)
    BY ONLY <1>1, source_map' = source_map DEF AgreesUpTo, IsBlank, Given
<1>3. (IsFullMap' <=> IsFullMap) /\ (IsOldMap' <=> IsOldMap)
    BY ONLY source_map' = source_map DEF IsFullMap, IsOldMap
<1> QED BY <1>1, <1>2, <1>3

-----------------------------------------------------------------------------
(* An entry more *)

NewEntry(e) ==
    /\ e \in [Fields -> Int] /\ HasFile(e) /\ \A f \in Fields : e[f] \in Parsable(f)
    /\ AgreesUpTo(idx + 1) => e = Meaning[idx + 1]
    /\ IsOldMap => e[Depth] = 0
    /\ IsFullMap => IsText(Cut(LineOf(e)))

\* What agrees for an element agrees for those before.
LEMMA AgreesBefore ==
    ASSUME NEW i \in Nat, NEW j \in Nat, j <= i, AgreesUpTo(i) PROVE AgreesUpTo(j)
BY DEF AgreesUpTo

LEMMA MapTypes ==
    ASSUME MapInv
    PROVE  /\ Len(source_map) \in Nat /\ idx \in Nat /\ idx <= Len(source_map)
           /\ DOMAIN source_map = 1..Len(source_map) /\ DOMAIN entries = 1..idx
           /\ \A i \in 1..idx : entries[i] \in [Fields -> Int]
BY DEF MapInv, MapType, SourceMapTypeOK, idx

LEMMA EmptyIsNew ==
    ASSUME MapInv, ParseEmpty PROVE NewEntry(entries[idx])
<1>1. /\ Entry = <<>> /\ entries # <<>> /\ idx < Len(source_map) BY DEF ParseEmpty, Parses
<1>2. /\ Len(source_map) \in Nat /\ idx \in Nat /\ DOMAIN source_map = 1..Len(source_map)
      /\ DOMAIN entries = 1..idx /\ \A i \in 1..idx : entries[i] \in [Fields -> Int]
    BY MapTypes
<1>3. idx \in 1..idx
    <2>1. idx # 0 BY <1>1 DEF idx, MapInv, MapType
    <2> QED BY ONLY <1>2, <2>1
<1>4. /\ entries[idx] \in [Fields -> Int] /\ HasFile(entries[idx])
      /\ \A f \in Fields : entries[idx][f] \in Parsable(f)
    BY ONLY MapInv, <1>2, <1>3 DEF MapInv, SourceMapTypeOK
<1>5. AgreesUpTo(idx + 1) => entries[idx] = Meaning[idx + 1]
    <2>1. SUFFICES ASSUME AgreesUpTo(idx + 1) PROVE entries[idx] = Meaning[idx + 1] OBVIOUS
    <2>2. idx + 1 \in Nat /\ idx <= idx + 1 BY ONLY <1>2
    <2>3. AgreesUpTo(idx) BY ONLY <1>2, <2>1, <2>2, AgreesBefore
    <2>4. entries[idx] = Meaning[idx] BY ONLY MapInv, <1>2, <1>3, <2>3 DEF MapInv, CopiesAgree
    <2>5. idx + 1 \in 2..Len(source_map) /\ (idx + 1) - 1 = idx BY ONLY <1>1, <1>2, <1>3
    <2>6. source_map[idx + 1] = <<>> BY ONLY <1>1 DEF Entry
    <2>7. Meaning[idx + 1] = Meaning[idx] BY ONLY <1>2, <2>5, <2>6, MeaningEmpty
    <2> QED BY ONLY <2>4, <2>7
<1>6. IsOldMap => entries[idx][Depth] = 0
    BY ONLY MapInv, <1>2, <1>3 DEF MapInv, OldDepthIsZero, IsOldMap
<1>7. IsFullMap => IsText(Cut(LineOf(entries[idx])))
    BY ONLY MapInv, <1>2, <1>3 DEF MapInv, FullIsShown
<1> QED BY ONLY <1>4, <1>5, <1>6, <1>7 DEF NewEntry

\* A field of the entry that is parsed: it is given, or it is copied from the
\* element before the last.
LEMMA FieldIs ==
    ASSUME MapInv, ParseFields, NEW f \in Fields
    PROVE  \/ Given(idx + 1, f) /\ Value(f) = source_map[idx + 1][f][1]
           \/ ~Given(idx + 1, f) /\ idx >= 2 /\ Value(f) = entries[idx - 1][f]
           \/ ~Given(idx + 1, f) /\ idx = 0 /\ f = Depth /\ Value(f) = 0
<1>1. ~Fails(f) /\ ~Panics(f) BY DEF ParseFields
<1>2. Given(idx + 1, f) <=> IsGiven(f) BY DEF Given, IsGiven, Entry
<1> QED BY <1>1, <1>2 DEF Panics, Value, HasCopy, CopiedEntry, Entry

LEMMA ParsedIsNew ==
    ASSUME MapInv, ParseFields PROVE NewEntry(ParsedEntry)
<1>1. /\ Entry # <<>> /\ idx < Len(source_map) /\ HasFile(ParsedEntry)
      /\ \A f \in Fields : ~Fails(f)
    BY DEF ParseFields, Parses
<1>2. /\ Len(source_map) \in Nat /\ idx \in Nat /\ DOMAIN source_map = 1..Len(source_map)
      /\ DOMAIN entries = 1..idx /\ \A i \in 1..idx : entries[i] \in [Fields -> Int]
    BY MapTypes
<1>3. idx + 1 \in 1..Len(source_map) /\ (idx >= 2 => idx - 1 \in 1..idx) BY ONLY <1>1, <1>2
<1>4. \A f \in Fields : ParsedEntry[f] = Value(f) BY DEF ParsedEntry
<1>5. \A f \in Fields : Value(f) \in Parsable(f)
    <2>1. ASSUME NEW f \in Fields PROVE Value(f) \in Parsable(f)
        <3>1. CASE Given(idx + 1, f) /\ Value(f) = source_map[idx + 1][f][1]
            BY <1>1, <3>1 DEF Fails, IsGiven, Given, Entry
        <3>2. CASE idx >= 2 /\ Value(f) = entries[idx - 1][f]
            <4>1. \A i \in 1..idx : \A g \in Fields : entries[i][g] \in Parsable(g)
                BY ONLY MapInv, <1>2 DEF MapInv, SourceMapTypeOK
            <4>2. idx - 1 \in 1..idx BY ONLY <1>3, <3>2
            <4> QED BY ONLY <3>2, <4>1, <4>2, f \in Fields
        <3>3. CASE f = Depth /\ Value(f) = 0
            BY ONLY <3>3 DEF Parsable, Depth, FileIndex, JumpType
        <3> QED BY <3>1, <3>2, <3>3, FieldIs
    <2> QED BY <2>1
<1>6. \A f \in Fields : Parsable(f) \subseteq Int BY DEF Parsable
<1>7. ParsedEntry \in [Fields -> Int] BY ONLY <1>5, <1>6 DEF ParsedEntry
<1>8. AgreesUpTo(idx + 1) => ParsedEntry = Meaning[idx + 1]
    <2>1. SUFFICES ASSUME AgreesUpTo(idx + 1), NEW f \in Fields PROVE Value(f) = Meaning[idx + 1][f]
        BY <1>3 DEF ParsedEntry, Meaning
    <2>2. CASE Given(idx + 1, f) /\ Value(f) = source_map[idx + 1][f][1]
        BY ONLY <1>2, <1>3, <2>2, MeaningGiven, f \in Fields
    <2>3. CASE ~Given(idx + 1, f) /\ idx >= 2 /\ Value(f) = entries[idx - 1][f]
        <3>1. /\ idx + 1 \in Nat /\ idx - 1 \in Nat /\ idx - 1 <= idx + 1 /\ idx + 1 \in 3..(idx + 1)
              /\ (idx + 1) - 1 = idx /\ (idx + 1) - 2 = idx - 1 /\ idx + 1 \in 2..Len(source_map)
            BY ONLY <1>1, <1>2, <2>3
        <3>2. AgreesUpTo(idx - 1) BY ONLY <2>1, <3>1, AgreesBefore
        <3>3. entries[idx - 1] = Meaning[idx - 1]
            BY ONLY MapInv, <1>2, <1>3, <2>3, <3>2 DEF MapInv, CopiesAgree
        <3>4. IsBlank(idx + 1, f) BY ONLY <1>1, <2>3 DEF IsBlank, Entry
        <3>5. Meaning[(idx + 1) - 1][f] = Meaning[(idx + 1) - 2][f]
            BY ONLY <2>1, <3>1, <3>4, f \in Fields DEF AgreesUpTo
        <3>6. Meaning[idx + 1][f] = Meaning[(idx + 1) - 1][f]
            BY ONLY <1>2, <2>3, <3>1, MeaningBlank, f \in Fields
        <3> QED BY ONLY <2>3, <3>1, <3>3, <3>5, <3>6
    <2>4. CASE ~Given(idx + 1, f) /\ idx = 0 /\ Value(f) = 0
        <3>1. idx + 1 = 1 BY ONLY <2>4
        <3>2. ~Given(1, f) /\ 1 \in 1..Len(source_map) BY ONLY <1>3, <2>4, <3>1
        <3>3. Meaning[1][f] = 0 BY ONLY <1>2, <3>2, MeaningNone, f \in Fields
        <3> QED BY ONLY <2>4, <3>1, <3>3
    <2> QED BY <2>2, <2>3, <2>4, FieldIs
<1>9. IsOldMap => ParsedEntry[Depth] = 0
    <2>1. SUFFICES ASSUME IsOldMap PROVE Value(Depth) = 0 BY <1>4 DEF Fields, Depth
    <2>2. ~Given(idx + 1, Depth)
        <3>1. Len(source_map[idx + 1]) < Depth BY ONLY <1>2, <1>3, <2>1 DEF IsOldMap
        <3>2. source_map[idx + 1] \in Seq(Seq(Int))
            BY <1>3, EntriesAssumption DEF MapInv, MapType
        <3> QED BY ONLY <3>1, <3>2 DEF Given, Depth
    <2>3. idx >= 2 => entries[idx - 1][Depth] = 0
        BY ONLY MapInv, <1>2, <1>3, <2>1 DEF MapInv, OldDepthIsZero, IsOldMap
    <2>4. Depth \in Fields BY DEF Fields, Depth
    <2> QED BY <2>2, <2>3, <2>4, FieldIs
<1>10. IsFullMap => IsText(Cut(LineOf(ParsedEntry)))
    <2>1. SUFFICES ASSUME IsFullMap PROVE IsText(Cut(LineOf(ParsedEntry))) OBVIOUS
    <2>2. source_map[idx + 1] # <<>> BY ONLY <1>1 DEF Entry
    <2>3. IsFull(source_map[idx + 1]) BY ONLY <1>2, <1>3, <2>1, <2>2 DEF IsFullMap
    <2>4. \A f \in Fields : Value(f) = source_map[idx + 1][f][1]
        <3>1. \A f \in Fields : IsGiven(f) BY ONLY <2>3 DEF IsFull, IsGiven, Entry, Fields
        <3> QED BY ONLY <3>1 DEF Value, Entry
    <2>5. ParsedEntry = [f \in Fields |-> source_map[idx + 1][f][1]]
        BY ONLY <2>4 DEF ParsedEntry
    <2> QED BY ONLY <2>3, <2>5 DEF IsFull
<1> QED BY <1>1, <1>4, <1>5, <1>7, <1>8, <1>9, <1>10 DEF NewEntry

\* The invariant with an entry more.
LEMMA Grows ==
    ASSUME MapInv, NEW e, NewEntry(e), Parses, entries' = Append(entries, e), status' = status
    PROVE  MapInv'
<1>1. /\ status = "parse" /\ idx < Len(source_map) /\ source_map' = source_map /\ shown' = shown
    BY DEF Parses
<1>2. /\ Len(source_map) \in Nat /\ idx \in Nat /\ DOMAIN entries = 1..idx BY MapTypes
<1>3. entries \in Seq([Fields -> Int]) /\ e \in [Fields -> Int]
    BY DEF MapInv, MapType, NewEntry
<1>4. /\ entries' \in Seq([Fields -> Int]) /\ Len(entries') = idx + 1
      /\ \A i \in 1..idx : entries'[i] = entries[i]
      /\ entries'[idx + 1] = e
    BY ONLY <1>3, entries' = Append(entries, e), AppendProperties DEF idx
<1>5. DOMAIN entries' = 1..(idx + 1) BY ONLY <1>4
<1>6. \A i \in DOMAIN entries' : i \in DOMAIN entries \/ i = idx + 1 BY ONLY <1>2, <1>5
<1>7. MapType' BY ONLY MapInv, <1>1, <1>4 DEF MapInv, MapType
<1>8. SourceMapTypeOK'
    <2>1. Len(entries') <= Len(source_map') BY ONLY <1>1, <1>2, <1>4
    <2>2. \A i \in DOMAIN entries' : HasFile(entries'[i]) /\ \A f \in Fields : entries'[i][f] \in Parsable(f)
        BY ONLY MapInv, NewEntry(e), <1>2, <1>4, <1>6 DEF MapInv, SourceMapTypeOK, NewEntry
    <2> QED BY ONLY <1>1, <2>1, <2>2, status' = status DEF SourceMapTypeOK
<1>9. CopiesAgree'
    <2>1. ASSUME NEW i \in DOMAIN entries', AgreesUpTo(i) PROVE entries'[i] = Meaning[i]
        <3>1. CASE i \in DOMAIN entries
            BY ONLY MapInv, <1>2, <1>4, <2>1, <3>1 DEF MapInv, CopiesAgree
        <3>2. CASE i = idx + 1 BY ONLY NewEntry(e), <1>4, <2>1, <3>2 DEF NewEntry
        <3> QED BY ONLY <1>6, <3>1, <3>2, i \in DOMAIN entries'
    <2> QED BY ONLY <1>1, <2>1, SameMap DEF CopiesAgree
<1>10. OldDepthIsZero'
    BY ONLY MapInv, NewEntry(e), <1>1, <1>2, <1>4, <1>6
       DEF MapInv, OldDepthIsZero, IsOldMap, NewEntry
<1>11. FullIsShown'
    <2>1. IsFullMap => \A i \in DOMAIN entries' : IsText(Cut(LineOf(entries'[i])))
        BY ONLY MapInv, NewEntry(e), <1>2, <1>4, <1>6 DEF MapInv, FullIsShown, NewEntry
    <2>2. status' \notin {"error", "panic"} BY ONLY <1>1, status' = status
    <2> QED BY ONLY <1>1, <2>1, <2>2, SameMap DEF FullIsShown
<1>12. ShowsSource'
    BY ONLY MapInv, <1>1, SameMap DEF MapInv, ShowsSource
<1> QED BY ONLY <1>7, <1>8, <1>9, <1>10, <1>11, <1>12 DEF MapInv

-----------------------------------------------------------------------------
(* The other steps *)

LEMMA MapInit == Init => MapInv
<1> SUFFICES ASSUME Init PROVE MapInv OBVIOUS
<1>1. /\ entries = <<>> /\ status = "parse" /\ shown.line.to = 0 BY DEF Init
<1>2. source_map \in Seq(Entries) /\ Len(source_map) >= 1
    <2>1. PICK n \in 1..MaxEntries : source_map \in [1..n -> Entries] BY DEF Init
    <2>2. n \in Nat /\ n >= 1 BY ONLY <2>1, EntriesAssumption
    <2> QED BY ONLY <2>1, <2>2, SeqDef
<1>3. DOMAIN entries = {} /\ Len(entries) = 0 /\ entries \in Seq([Fields -> Int]) BY ONLY <1>1
<1>4. MapType BY ONLY <1>2, <1>3 DEF MapType
<1>5. SourceMapTypeOK BY ONLY <1>1, <1>2, <1>3 DEF SourceMapTypeOK
<1>6. CopiesAgree /\ OldDepthIsZero BY ONLY <1>3 DEF CopiesAgree, OldDepthIsZero
<1>7. FullIsShown BY ONLY <1>1, <1>3 DEF FullIsShown
<1>8. ShowsSource BY ONLY <1>1 DEF ShowsSource
<1> QED BY ONLY <1>4, <1>5, <1>6, <1>7, <1>8 DEF MapInv

\* The parser ends, before the map does only if the map is not full.
LEMMA EndsInv ==
    ASSUME MapInv, source_map' = source_map, entries' = entries, shown' = shown,
           status' \in {"done", "error", "panic"},
           status' = "done" => idx = Len(source_map),
           status' # "done" => ~IsFullMap
    PROVE  MapInv'
<1>1. MapType' BY ONLY MapInv, source_map' = source_map, entries' = entries DEF MapInv, MapType
<1>2. SourceMapTypeOK'
    <2>1. /\ Len(entries) <= Len(source_map)
          /\ \A i \in DOMAIN entries : HasFile(entries[i]) /\ \A f \in Fields :
                entries[i][f] \in Parsable(f)
        BY ONLY MapInv DEF MapInv, SourceMapTypeOK
    <2> QED BY ONLY <2>1, source_map' = source_map, entries' = entries,
                    status' \in {"done", "error", "panic"},
                    status' = "done" => idx = Len(source_map) DEF SourceMapTypeOK, idx
<1>3. CopiesAgree'
    BY ONLY MapInv, source_map' = source_map, entries' = entries, SameMap DEF MapInv, CopiesAgree
<1>4. OldDepthIsZero'
    BY ONLY MapInv, source_map' = source_map, entries' = entries DEF MapInv, OldDepthIsZero
<1>5. FullIsShown'
    <2>1. IsFullMap => /\ status' \notin {"error", "panic"}
                       /\ \A i \in DOMAIN entries : IsText(Cut(LineOf(entries[i])))
        BY ONLY MapInv, status' \in {"done", "error", "panic"}, status' # "done" => ~IsFullMap
           DEF MapInv, FullIsShown
    <2> QED BY ONLY <2>1, source_map' = source_map, entries' = entries, SameMap DEF FullIsShown
<1>6. ShowsSource'
    BY ONLY MapInv, source_map' = source_map, shown' = shown, SameMap DEF MapInv, ShowsSource
<1> QED BY ONLY <1>1, <1>2, <1>3, <1>4, <1>5, <1>6 DEF MapInv

\* No element of a full map ends the parser.
LEMMA FullGoesOn ==
    ASSUME MapInv, IsFullMap, idx < Len(source_map)
    PROVE  /\ ~PanicEmpty /\ ~RejectFirst /\ ~StopAtField /\ ~StopAtLine
<1>1. /\ Len(source_map) \in Nat /\ idx \in Nat /\ DOMAIN source_map = 1..Len(source_map)
    BY MapTypes
<1>2. idx + 1 \in 1..Len(source_map) BY ONLY <1>1, idx < Len(source_map)
<1>3. Entry # <<>> => IsFull(Entry) BY ONLY <1>1, <1>2, IsFullMap DEF IsFullMap, Entry
<1>4. ASSUME Entry = <<>> PROVE entries # <<>>
    <2>1. idx # 0 BY ONLY <1>4, IsFullMap, 0 + 1 = 1 DEF IsFullMap, Entry
    <2> QED BY ONLY <2>1 DEF idx
<1>5. ~PanicEmpty BY <1>4 DEF PanicEmpty
<1>6. ASSUME Entry # <<>>
      PROVE  /\ ~IsShort /\ (\A f \in Fields : ~Fails(f) /\ ~Panics(f))
             /\ HasFile(ParsedEntry) /\ IsText(LineOf(ParsedEntry))
    <2>1. IsFull(Entry) BY ONLY <1>3, <1>6
    <2>2. ~IsShort BY ONLY <2>1 DEF IsShort, IsFull
    <2>3. \A f \in Fields : IsGiven(f) /\ Entry[f][1] \in Parsable(f)
        BY ONLY <2>1 DEF IsFull, IsGiven, Fields
    <2>4. \A f \in Fields : ~Fails(f) /\ ~Panics(f) BY ONLY <2>3 DEF Fails, Panics
    <2>5. ParsedEntry = [f \in Fields |-> Entry[f][1]] BY ONLY <2>3 DEF ParsedEntry, Value
    <2> QED BY ONLY <2>1, <2>2, <2>4, <2>5 DEF IsFull
<1>7. ~RejectFirst BY <1>6 DEF RejectFirst
<1>8. ~StopAtField BY <1>6 DEF StopAtField, Stops
<1>9. ~StopAtLine BY <1>6 DEF StopAtLine
<1> QED BY <1>5, <1>7, <1>8, <1>9

LEMMA ShowInv ==
    ASSUME MapInv, NEW g \in 0..MaxEntries, Show(g) PROVE MapInv'
<1> DEFINE i == NatMin(g, Len(entries) - 1) + 1
<1>1. status = "done" /\ source_map' = source_map /\ entries' = entries
    BY DEF Show, Shows
<1>2. /\ Len(source_map) \in Nat /\ Len(source_map) >= 1 /\ Len(entries) = Len(source_map)
      /\ DOMAIN entries = 1..Len(entries) /\ g \in Nat
    BY <1>1, EntriesAssumption DEF MapInv, MapType, SourceMapTypeOK
<1>3. i \in DOMAIN entries BY ONLY <1>2 DEF NatMin
<1> HIDE DEF i
<1>4. EntryFor(g) = entries[i] BY DEF EntryFor, i
<1>5. CASE IsText(Cut(LineOf(EntryFor(g))))
    <2>1. shown' = [inst |-> g, line |-> Cut(LineOf(entries[i]))] /\ status' = status
        BY <1>4, <1>5 DEF Show, Shows
    <2>2. MapType' /\ SourceMapTypeOK' /\ OldDepthIsZero'
        BY ONLY MapInv, <1>1, <2>1 DEF MapInv, MapType, SourceMapTypeOK, OldDepthIsZero
    <2>3. CopiesAgree' /\ FullIsShown'
        BY ONLY MapInv, <1>1, <2>1, SameMap DEF MapInv, CopiesAgree, FullIsShown
    <2>4. ShowsSource'
        <3>1. NatMin(shown'.inst, Len(source_map) - 1) + 1 = i BY ONLY <1>2, <2>1 DEF i
        <3>2. AgreesUpTo(i) => shown'.line = Cut(LineOf(Meaning[i]))
            BY ONLY MapInv, <1>3, <2>1 DEF MapInv, CopiesAgree
        <3> QED BY ONLY <1>1, <3>1, <3>2, SameMap DEF ShowsSource
    <2> QED BY ONLY <2>2, <2>3, <2>4 DEF MapInv
<1>6. CASE ~IsText(Cut(LineOf(EntryFor(g))))
    <2>1. status' = "panic" /\ shown' = shown BY <1>6 DEF Show, Shows
    <2>2. ~IsFullMap BY ONLY MapInv, <1>3, <1>4, <1>6 DEF MapInv, FullIsShown
    <2> QED BY ONLY MapInv, <1>1, <2>1, <2>2, EndsInv
<1> QED BY <1>5, <1>6

LEMMA MapNext == MapInv /\ [Next]_vars => MapInv'
<1> SUFFICES ASSUME MapInv, [Next]_vars PROVE MapInv' OBVIOUS
<1>1. CASE ParseEmpty
    <2>1. NewEntry(entries[idx]) BY ONLY MapInv, <1>1, EmptyIsNew
    <2>2. Parses /\ entries' = Append(entries, entries[idx]) /\ status' = status
        BY <1>1 DEF ParseEmpty, idx
    <2> QED BY ONLY MapInv, <2>1, <2>2, Grows
<1>2. CASE ParseFields
    <2>1. NewEntry(ParsedEntry) BY ONLY MapInv, <1>2, ParsedIsNew
    <2>2. Parses /\ entries' = Append(entries, ParsedEntry) /\ status' = status
        BY <1>2 DEF ParseFields
    <2> QED BY ONLY MapInv, <2>1, <2>2, Grows
<1>3. CASE PanicEmpty \/ RejectFirst \/ StopAtField \/ StopAtLine
    <2>1. /\ source_map' = source_map /\ entries' = entries /\ shown' = shown
          /\ status' \in {"error", "panic"} /\ idx < Len(source_map)
        BY <1>3 DEF PanicEmpty, RejectFirst, StopAtField, StopAtLine, Parses, Ends
    <2>2. ~IsFullMap BY ONLY MapInv, <1>3, <2>1, FullGoesOn
    <2> QED BY ONLY MapInv, <2>1, <2>2, EndsInv
<1>4. CASE Finish
    <2>1. /\ source_map' = source_map /\ entries' = entries /\ shown' = shown
          /\ status' = "done" /\ idx = Len(source_map)
        BY <1>4 DEF Finish
    <2> QED BY ONLY MapInv, <2>1, EndsInv
<1>5. ASSUME NEW g \in 0..MaxEntries, Show(g) PROVE MapInv' BY ONLY MapInv, <1>5, ShowInv
<1>6. CASE UNCHANGED vars
    <2>1. source_map' = source_map /\ entries' = entries /\ status' = status /\ shown' = shown
        BY <1>6 DEF vars
    <2>2. MapType' /\ SourceMapTypeOK' /\ OldDepthIsZero'
        BY ONLY MapInv, <2>1 DEF MapInv, MapType, SourceMapTypeOK, OldDepthIsZero
    <2>3. CopiesAgree' /\ FullIsShown' /\ ShowsSource'
        BY ONLY MapInv, <2>1, SameMap DEF MapInv, CopiesAgree, FullIsShown, ShowsSource
    <2> QED BY ONLY <2>2, <2>3 DEF MapInv
<1> QED BY <1>1, <1>2, <1>3, <1>4, <1>5, <1>6 DEF Next

LEMMA SpecMap == Spec => []MapInv
<1> QED BY MapInit, MapNext, PTL DEF Spec

\* Every entry has parsable values and a file, for any map.
THEOREM TypeCorrect == Spec => []SourceMapTypeOK
<1>1. MapInv => SourceMapTypeOK BY DEF MapInv
<1> QED BY SpecMap, <1>1, PTL

\* Up to the first empty field that is copied from elements that differ, the
\* map is parsed to its meaning.
THEOREM CopiesStayRight == Spec => []CopiesAgree
<1>1. MapInv => CopiesAgree BY DEF MapInv
<1> QED BY SpecMap, <1>1, PTL

\* A block shows the source that the map means for its instruction.
THEOREM ShowsSourceAlways == Spec => []ShowsSource
<1>1. MapInv => ShowsSource BY DEF MapInv
<1> QED BY SpecMap, <1>1, PTL

\* Maps without modifier depths have depth 0 throughout.
THEOREM OldDepthStaysZero == Spec => []OldDepthIsZero
<1>1. MapInv => OldDepthIsZero BY DEF MapInv
<1> QED BY SpecMap, <1>1, PTL

\* A map of full and empty entries is parsed and can be shown.
THEOREM FullMapsAreParsed == Spec => []FullMapsParse
<1>1. MapInv => FullMapsParse BY DEF MapInv, FullIsShown, IsFullMap, FullMapsParse
<1> QED BY SpecMap, <1>1, PTL
=============================================================================
