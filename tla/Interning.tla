----------------------------- MODULE Interning -----------------------------
(***************************************************************************)
(* The constants of a translated contract: format_constant of codegen.rs   *)
(* gives each a name when it is first printed, the names are declared when *)
(* all code is printed, and the fuzzing dictionary is written from them.   *)
(* A comparison with a constant is not traced, since the constant is in    *)
(* the dictionary.                                                         *)
(*                                                                         *)
(* Words are numbers of WordBytes digits below ByteSize; 2^32 and 2^64 are *)
(* SmallLimit and IndexLimit.                                              *)
(***************************************************************************)
EXTENDS Integers, FiniteSets

CONSTANTS
    ByteSize, WordBytes,
    SmallLimit,   \* the constants below it are named by value (2^32)
    IndexLimit,   \* those below it may be a jump destination (2^64)
    Words,        \* the constants of the contract
    Jumpdests,    \* its jump destinations
    MaxPrinted    \* bound: the operands and comparisons printed

ASSUME InterningAssumption ==
    /\ Words \subseteq Nat /\ Jumpdests \subseteq Nat
    /\ {ByteSize, WordBytes, SmallLimit, IndexLimit, MaxPrinted} \subseteq Nat
    /\ ByteSize > 1

VARIABLES
    interned_globals,   \* from constants to names
    uses,               \* what the code was printed with: constants and names
    untraced,           \* the constants of comparisons that are not traced
    printed,            \* the operands and comparisons printed
    declared,           \* the constants the source file declares, by name
    pending,            \* the constants the dictionary loop has not come to
    dict,               \* the dictionary
    phase               \* "print", "dict", "done"

globalsVars == <<interned_globals, uses, untraced, printed>>
dictVars    == <<declared, pending, dict, phase>>
vars        == <<globalsVars, dictVars>>

\* "c_" and the constant, or "g_" and a number.
CName(w) == <<"c", w>>
GName(n) == <<"g", n>>
Name == {"c", "g"} \X Nat

\* Mutant of NameFor: the name has the low 32 bits of a longer constant.
NameFor_LowBits(w) ==
    IF w < IndexLimit THEN CName(w % SmallLimit)
    ELSE GName(Cardinality(DOMAIN interned_globals))

\* Mutant of NameFor: the number is the index of the last constant.
NameFor_LastIndex(w) ==
    IF w < SmallLimit THEN CName(w) ELSE GName(Cardinality(DOMAIN interned_globals) - 1)

\* The number is the size of the map before.
NameFor(w) ==
    IF w < SmallLimit THEN CName(w) ELSE GName(Cardinality(DOMAIN interned_globals))

\* Mutant of Interned: a constant is named anew whenever it is printed.
Interned_Anew(w) ==
    [v \in DOMAIN interned_globals \cup {w} |->
        IF v = w THEN NameFor(w) ELSE interned_globals[v]]

\* BTreeMap::entry(constant).or_insert(name).
Interned(w) ==
    IF w \in DOMAIN interned_globals THEN interned_globals
    ELSE [v \in DOMAIN interned_globals \cup {w} |->
            IF v = w THEN NameFor(w) ELSE interned_globals[v]]

Prints ==
    /\ phase = "print" /\ printed < MaxPrinted
    /\ printed' = printed + 1
    /\ UNCHANGED dictVars

\* An operand, a stack set or a return that is a constant.
FormatConstant(w) ==
    /\ Prints
    /\ interned_globals' = Interned(w)
    /\ uses' = uses \cup {<<w, Interned(w)[w]>>}
    /\ UNCHANGED untraced

\* Mutant of CompareConstant: the constant is printed as a literal.
CompareConstant_Literal(w) ==
    /\ Prints
    /\ untraced' = untraced \cup {w}
    /\ UNCHANGED <<interned_globals, uses>>

\* SGT, GT, SLT, LT or EQ with a constant; TRACE_COMP is printed for others.
CompareConstant(w) ==
    /\ Prints
    /\ interned_globals' = Interned(w)
    /\ uses' = uses \cup {<<w, Interned(w)[w]>>}
    /\ untraced' = untraced \cup {w}

\* The dispatch code is printed before the constants it uses, but written after.
WriteGlobals ==
    /\ phase = "print"
    /\ phase' = "dict"
    /\ declared' = interned_globals
    /\ pending' = DOMAIN interned_globals
    /\ UNCHANGED <<globalsVars, dict>>

Digits(w) == {(w \div ByteSize ^ k) % ByteSize : k \in 0..(WordBytes - 1)}

\* Bytes 0, 1 and 0xff only: bit masks and the like.
IsBoring(w) == Digits(w) \subseteq {0, 1, ByteSize - 1}

IsFiltered(w) == w = 0 \/ (w < IndexLimit /\ w \in Jumpdests) \/ IsBoring(w)

WriteEntry(w) ==
    /\ phase = "dict" /\ w \in pending
    /\ \A v \in pending : w <= v
    /\ pending' = pending \ {w}
    /\ dict' = IF IsFiltered(w) THEN dict ELSE dict \cup {w}
    /\ UNCHANGED <<globalsVars, declared, phase>>

CloseDict ==
    /\ phase = "dict" /\ pending = {}
    /\ phase' = "done"
    /\ UNCHANGED <<globalsVars, declared, pending, dict>>

Init ==
    /\ interned_globals = [w \in {} |-> CName(0)]
    /\ uses = {} /\ untraced = {} /\ printed = 0
    /\ declared = [w \in {} |-> CName(0)]
    /\ pending = {} /\ dict = {} /\ phase = "print"

Next ==
    \/ \E w \in Words : FormatConstant(w) \/ CompareConstant(w) \/ WriteEntry(w)
    \/ WriteGlobals \/ CloseDict

Spec == Init /\ [][Next]_vars

-----------------------------------------------------------------------------
(* Properties *)

TypeOK ==
    /\ DOMAIN interned_globals \subseteq Words
    /\ IsFiniteSet(DOMAIN interned_globals)
    /\ \A w \in DOMAIN interned_globals : interned_globals[w] \in Name
    /\ uses \subseteq Words \X Name /\ untraced \subseteq Words
    /\ printed \in 0..MaxPrinted
    /\ pending \subseteq DOMAIN interned_globals /\ dict \subseteq Words
    /\ phase \in {"print", "dict", "done"}

\* Two constants never share a name, although the ones are named by their value
\* and the others by how many constants, of both kinds, there were before.
NamesAreDistinct ==
    \A v, w \in DOMAIN interned_globals :
        interned_globals[v] = interned_globals[w] => v = w

\* The name a constant was printed with, however long ago, is the one it is
\* declared with.
UsesAreDeclared ==
    /\ \A use \in uses : use[1] \in DOMAIN interned_globals
    /\ \A use \in uses : interned_globals[use[1]] = use[2]
    /\ phase # "print" => \A use \in uses :
          use[1] \in DOMAIN declared /\ declared[use[1]] = use[2]

\* A comparison that is not traced has its constant in the dictionary, unless
\* the constant is 0, a jump destination of the contract or a bit mask.
UntracedIsInDict ==
    phase = "done" => \A w \in untraced :
        w \in dict \/ w = 0 \/ w \in Jumpdests \/ IsBoring(w)

-----------------------------------------------------------------------------
(* What does not hold *)

\* The comment where a comparison is not traced says "if one of the two is a
\* constant, then they are added to dictionary" (codegen.rs:329), and the one at
\* the dictionary that 0 and bit masks are filtered (codegen.rs:720).
ComparesAreCovered ==
    phase = "done" => \A w \in untraced : w \in dict \/ w = 0 \/ IsBoring(w)
=============================================================================
