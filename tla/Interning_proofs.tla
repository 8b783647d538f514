-------------------------- MODULE Interning_proofs --------------------------
(***************************************************************************)
(* Theorems about Interning, for every set of constants and every width of *)
(* words: names are distinct, stay what they were printed as, and the      *)
(* dictionary has the constants of the comparisons that are not traced.    *)
(***************************************************************************)
EXTENDS Interning, FiniteSetTheorems, TLAPS

Named   == DOMAIN interned_globals
IsShort(w) == w < SmallLimit

\* What the names say: the constant itself, or a number that was the size of
\* the map before, so that no constant to come can get it again.
NumbersAreOld ==
    \A w \in Named :
        IF IsShort(w) THEN interned_globals[w] = CName(w)
        ELSE \E n \in Nat : n < Cardinality(Named) /\ interned_globals[w] = GName(n)

\* A use, and a comparison that is not traced, has interned its constant; after
\* the globals are written the map no longer changes.
UsesAreInterned ==
    /\ \A use \in uses : use[1] \in Named /\ interned_globals[use[1]] = use[2]
    /\ untraced \subseteq Named
    /\ phase # "print" => declared = interned_globals

\* The dictionary loop has passed what is no longer pending.
DictFollows ==
    /\ phase # "print" => \A w \in Named : w \in pending \/ w \in dict \/ IsFiltered(w)
    /\ phase = "done" => pending = {}

InternInv == TypeOK /\ NamesAreDistinct /\ NumbersAreOld /\ UsesAreInterned /\ DictFollows

-----------------------------------------------------------------------------

LEMMA NameTypes ==
    /\ \A v, w : CName(v) = CName(w) => v = w
    /\ \A m, n : GName(m) = GName(n) => m = n
    /\ \A v, n : CName(v) # GName(n)
BY DEF CName, GName

\* What interning adds: nothing, or a name that no constant had.
LEMMA InternedAdds ==
    ASSUME TypeOK, NamesAreDistinct, NumbersAreOld, NEW w \in Words,
           interned_globals' = Interned(w)
    PROVE  /\ Named' = Named \cup {w}
           /\ IsFiniteSet(Named')
           /\ \A v \in Named : interned_globals'[v] = interned_globals[v]
           /\ interned_globals'[w] \in Name
           /\ NamesAreDistinct' /\ NumbersAreOld'
<1> DEFINE n == Cardinality(Named)
<1>1. IsFiniteSet(Named) BY DEF TypeOK, Named
<1>2. n \in Nat BY <1>1, FS_CardinalityType
<1>3. Words \subseteq Nat BY InterningAssumption
<1>4. CASE w \in Named
    <2>1. interned_globals' = interned_globals BY <1>4 DEF Interned, Named
    <2>2. Named' = Named /\ Named \cup {w} = Named BY <1>4, <2>1 DEF Named
    <2>3. NamesAreDistinct' BY <2>1 DEF NamesAreDistinct
    <2>4. NumbersAreOld' BY <2>1, <2>2 DEF NumbersAreOld
    <2>5. interned_globals[w] \in Name BY <1>4 DEF TypeOK, Named
    <2> QED BY <1>1, <2>1, <2>2, <2>3, <2>4, <2>5
<1>5. CASE w \notin Named
    <2>1. interned_globals' = [v \in Named \cup {w} |->
                IF v = w THEN NameFor(w) ELSE interned_globals[v]]
        BY <1>5 DEF Interned, Named
    <2>2. /\ Named' = Named \cup {w}
          /\ \A v \in Named : interned_globals'[v] = interned_globals[v]
          /\ interned_globals'[w] = NameFor(w)
        BY <1>5, <2>1 DEF Named
    <2>3. IsFiniteSet(Named') /\ Cardinality(Named') = n + 1
        BY <1>1, <1>5, <2>2, FS_AddElement
    <2>4. NameFor(w) = IF IsShort(w) THEN CName(w) ELSE GName(n)
        BY DEF NameFor, IsShort, Named
    <2>5. NameFor(w) \in Name
        BY <1>2, <1>3, <2>4 DEF Name, CName, GName
    <2> HIDE DEF n
    <2>6. \A v \in Named : interned_globals[v] # NameFor(w)
        <3> SUFFICES ASSUME NEW v \in Named PROVE interned_globals[v] # NameFor(w)
            OBVIOUS
        <3>1. v # w BY <1>5
        <3>2. CASE IsShort(v)
            <4>1. interned_globals[v] = CName(v) BY <3>2 DEF NumbersAreOld
            <4> QED BY <2>4, <3>1, <4>1, NameTypes
        <3>3. CASE ~IsShort(v)
            <4>1. PICK m \in Nat : m < n /\ interned_globals[v] = GName(m)
                BY <3>3 DEF NumbersAreOld, n
            <4>2. m # n BY <1>2, <4>1
            <4> QED BY <2>4, <4>1, <4>2, NameTypes
        <3> QED BY <3>2, <3>3
    <2>7. NamesAreDistinct'
        <3> SUFFICES ASSUME NEW u \in Named', NEW v \in Named',
                            interned_globals'[u] = interned_globals'[v]
                     PROVE  u = v
            BY DEF NamesAreDistinct, Named
        <3>1. CASE u \in Named /\ v \in Named
            BY <2>2, <3>1 DEF NamesAreDistinct, Named
        <3>2. CASE u = w /\ v \in Named BY <2>2, <2>6, <3>2
        <3>3. CASE u \in Named /\ v = w BY <2>2, <2>6, <3>3
        <3> QED BY <2>2, <3>1, <3>2, <3>3
    <2>8. NumbersAreOld'
        <3> SUFFICES ASSUME NEW v \in Named'
                     PROVE  IF IsShort(v) THEN interned_globals'[v] = CName(v)
                            ELSE \E m \in Nat : /\ m < Cardinality(Named')
                                                /\ interned_globals'[v] = GName(m)
            BY DEF NumbersAreOld, IsShort
        <3>1. CASE IsShort(v)
            <4>1. v \in Named => interned_globals[v] = CName(v)
                BY <3>1 DEF NumbersAreOld
            <4> QED BY <2>2, <2>4, <3>1, <4>1
        <3>2. CASE ~IsShort(v) /\ v \in Named
            <4>1. PICK m \in Nat : m < n /\ interned_globals[v] = GName(m)
                BY <3>2 DEF NumbersAreOld, n
            <4>2. m < n + 1 BY <1>2, <4>1
            <4> QED BY <2>2, <2>3, <3>2, <4>1, <4>2
        <3>3. CASE ~IsShort(v) /\ v = w
            <4>1. n < n + 1 BY <1>2
            <4> QED BY <1>2, <2>2, <2>3, <2>4, <3>3, <4>1
        <3> QED BY <2>2, <3>1, <3>2, <3>3
    <2> QED BY <2>2, <2>3, <2>5, <2>7, <2>8
<1> QED BY <1>4, <1>5

LEMMA InternInit == Init => InternInv
<1> SUFFICES ASSUME Init PROVE InternInv OBVIOUS
<1>1. Named = {} BY DEF Init, Named
<1>2. IsFiniteSet(Named) BY <1>1, FS_EmptySet
<1>3. MaxPrinted \in Nat BY InterningAssumption
<1>4. TypeOK BY <1>1, <1>2, <1>3 DEF Init, TypeOK, Named
<1>5. NamesAreDistinct /\ NumbersAreOld BY <1>1 DEF NamesAreDistinct, NumbersAreOld, Named
<1>6. UsesAreInterned /\ DictFollows BY <1>1 DEF Init, UsesAreInterned, DictFollows
<1> QED BY <1>4, <1>5, <1>6 DEF InternInv

\* An operand or a comparison interns one constant and uses its name.
LEMMA PrintStep ==
    ASSUME InternInv, NEW w \in Words, FormatConstant(w) \/ CompareConstant(w)
    PROVE  InternInv'
<1>1. TypeOK /\ NamesAreDistinct /\ NumbersAreOld /\ UsesAreInterned /\ DictFollows
    BY DEF InternInv
<1>2. /\ interned_globals' = Interned(w)
      /\ uses' = uses \cup {<<w, interned_globals'[w]>>}
      /\ untraced' \in {untraced, untraced \cup {w}}
      /\ phase = "print" /\ phase' = phase /\ printed < MaxPrinted /\ printed' = printed + 1
      /\ pending' = pending /\ dict' = dict
    BY DEF FormatConstant, CompareConstant, Prints, dictVars
<1>3. /\ Named' = Named \cup {w}
      /\ IsFiniteSet(Named')
      /\ \A v \in Named : interned_globals'[v] = interned_globals[v]
      /\ interned_globals'[w] \in Name
      /\ NamesAreDistinct' /\ NumbersAreOld'
    BY <1>1, <1>2, InternedAdds
<1>4. TypeOK'
    <2>1. \A v \in Named' : interned_globals'[v] \in Name
        BY <1>1, <1>3 DEF TypeOK, Named
    <2>2. printed' \in 0..MaxPrinted
        BY <1>1, <1>2, InterningAssumption DEF TypeOK
    <2>3. Named \subseteq Words /\ pending \subseteq Named BY <1>1 DEF TypeOK, Named
    <2>4. uses' \subseteq Words \X Name BY <1>1, <1>2, <1>3 DEF TypeOK
    <2> QED BY <1>1, <1>2, <1>3, <2>1, <2>2, <2>3, <2>4 DEF TypeOK, Named
<1>5. UsesAreInterned' BY <1>1, <1>2, <1>3 DEF UsesAreInterned
<1>6. DictFollows' BY <1>2 DEF DictFollows
<1> QED BY <1>3, <1>4, <1>5, <1>6 DEF InternInv

\* Writing leaves the names alone.
LEMMA WriteStep ==
    ASSUME InternInv,
           WriteGlobals \/ (\E w \in Words : WriteEntry(w)) \/ CloseDict \/ UNCHANGED vars
    PROVE  InternInv'
<1>1. TypeOK /\ NamesAreDistinct /\ NumbersAreOld /\ UsesAreInterned /\ DictFollows
    BY DEF InternInv
<1>2. /\ interned_globals' = interned_globals /\ uses' = uses
      /\ untraced' = untraced /\ printed' = printed
    BY DEF WriteGlobals, WriteEntry, CloseDict, vars, globalsVars
<1>3. Named' = Named BY <1>2 DEF Named
<1>4. NamesAreDistinct' /\ NumbersAreOld'
    BY <1>1, <1>2, <1>3 DEF NamesAreDistinct, NumbersAreOld
<1>5. CASE WriteGlobals
    <2>1. TypeOK' BY <1>1, <1>2, <1>5 DEF TypeOK, WriteGlobals
    <2>2. UsesAreInterned' BY <1>1, <1>2, <1>3, <1>5 DEF UsesAreInterned, WriteGlobals
    <2>3. DictFollows' BY <1>3, <1>5 DEF DictFollows, WriteGlobals, Named
    <2> QED BY <1>4, <2>1, <2>2, <2>3 DEF InternInv
<1>6. ASSUME NEW w \in Words, WriteEntry(w) PROVE InternInv'
    <2>1. /\ phase = "dict" /\ phase' = phase /\ pending' = pending \ {w}
          /\ dict' = IF IsFiltered(w) THEN dict ELSE dict \cup {w}
          /\ declared' = declared
        BY <1>6 DEF WriteEntry
    <2>2. TypeOK' BY <1>1, <1>2, <2>1 DEF TypeOK
    <2>3. UsesAreInterned' BY <1>1, <1>2, <1>3, <2>1 DEF UsesAreInterned
    <2>4. DictFollows' BY <1>1, <1>3, <2>1 DEF DictFollows
    <2> QED BY <1>4, <2>2, <2>3, <2>4 DEF InternInv
<1>7. CASE CloseDict
    <2>1. TypeOK' BY <1>1, <1>2, <1>7 DEF TypeOK, CloseDict
    <2>2. UsesAreInterned' BY <1>1, <1>2, <1>3, <1>7 DEF UsesAreInterned, CloseDict
    <2>3. DictFollows' BY <1>1, <1>3, <1>7 DEF DictFollows, CloseDict
    <2> QED BY <1>4, <2>1, <2>2, <2>3 DEF InternInv
<1>8. CASE UNCHANGED vars
    <2>1. dictVars' = dictVars BY <1>8 DEF vars
    <2>2. TypeOK' BY <1>1, <1>2, <2>1 DEF TypeOK, dictVars
    <2>3. UsesAreInterned' /\ DictFollows'
        BY <1>1, <1>2, <1>3, <2>1 DEF UsesAreInterned, DictFollows, dictVars
    <2> QED BY <1>4, <2>2, <2>3 DEF InternInv
<1> QED BY <1>5, <1>6, <1>7, <1>8

\* The invariant holds in all reachable states.
LEMMA InternInvariant == Spec => []InternInv
<1>1. Init => InternInv BY InternInit
<1>2. InternInv /\ [Next]_vars => InternInv'
    BY PrintStep, WriteStep DEF Next
<1> QED BY <1>1, <1>2, PTL DEF Spec

-----------------------------------------------------------------------------

\* Constants, names and the dictionary keep their types.
THEOREM TypeCorrect == Spec => []TypeOK
<1>1. InternInv => TypeOK BY DEF InternInv
<1> QED BY <1>1, InternInvariant, PTL

\* No two constants ever share a name, although a number is the size of a map
\* in which constants that are named by value count too.
THEOREM NamesStayDistinct == Spec => []NamesAreDistinct
<1>1. InternInv => NamesAreDistinct BY DEF InternInv
<1> QED BY <1>1, InternInvariant, PTL

\* The source file declares every constant by the name it was printed with.
THEOREM UsesStayDeclared == Spec => []UsesAreDeclared
<1>1. InternInv => UsesAreDeclared
    BY DEF InternInv, UsesAreInterned, UsesAreDeclared, Named
<1> QED BY <1>1, InternInvariant, PTL

\* A comparison is left untraced only if its constant gets into the dictionary,
\* is 0, is a jump destination or is a bit mask.
THEOREM UntracedGetIntoDict == Spec => []UntracedIsInDict
<1>1. InternInv => UntracedIsInDict
    BY DEF InternInv, UsesAreInterned, DictFollows, UntracedIsInDict, IsFiltered
<1> QED BY <1>1, InternInvariant, PTL
=============================================================================
