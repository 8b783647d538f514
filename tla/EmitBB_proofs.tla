----------------------------- MODULE EmitBB_proofs -----------------------------
(***************************************************************************)
(* Proofs about emit_basic_block: for blocks of any length, frames and     *)
(* stacks of any size and every height a block is entered with, the names  *)
(* of the generated statements are declared, the generated block throws    *)
(* only as the EVM does, leaves as the block ends and at the EVM's height, *)
(* and notices an underflow.                                               *)
(*                                                                         *)
(* From the top: sequences and ascending lists of slots, what the          *)
(* finalizer is made of, one lemma per printed instruction, the layout of  *)
(* the assembled text, the heights in it, and the induction.  What the     *)
(* emulation has left is used through the invariants of EmulateBB_proofs.  *)
(***************************************************************************)
EXTENDS EmitBB, EmulateBB_proofs

-----------------------------------------------------------------------------
(* The invariant: what has been printed, and where it is run *)

Deed ==
    {"peek", "set", "drop", "push", "handler", "if", "jump", "exit", "exit_on_error", "throw"}

StatementType == [do : Deed, n : Nat, uses : SUBSET Operand]

Printed == Len(instructions_gen)

Sets == Len(SetCode)
Drops == Len(DropCode)

HasBound(S) == \E b \in Nat : \A s \in S : s \in Nat /\ s <= b

\* All of the block is printed, and its last instruction is op.
Ends(op) == Printed = Len(insts) /\ insts # <<>> /\ LastOpcode = op

\* One of the first m instructions names the slot.
NamesSlot(slot, m) ==
    \E k \in 1..m : \E j \in 1..Len(insts[k].operands) : insts[k].operands[j] = StackRef(slot)

\* One of the first m instructions or the finalizer does.
Wanted(slot, m) == NamesSlot(slot, m) \/ slot \in FinalizerPeeks

\* A constant was swapped with the slot.
SwappedAway(slot) ==
    \E k \in 1..Len(insts) :
        /\ is_swap(insts[k].opcode) /\ ~insts[k].ignoreable
        /\ IsConstant(insts[k].operands[1]) /\ insts[k].operands[2] = StackRef(slot)

\* The result of instruction o.n is declared by one of the first i statements.
Computes(o, g, i) ==
    /\ Ret(insts[o.n + 1].opcode) = 1
    /\ \E h \in 1..i : g[h].do = "handler" /\ g[h].n = o.n

\* The statement after the first i of g, the code of m instructions, can use o.
Available(o, g, i, m) ==
    \/ IsConstant(o)
    \/ o.kind = "StackRef" /\ NamesSlot(o.n, m)
    \/ o.kind = "InstructionRef" /\ Computes(o, g, i)

\* A statement of the code of the first m instructions, jumps left out.
MayDo(st, m) ==
    /\ st.do \in {"set", "handler", "exit", "exit_on_error", "throw"}
    /\ st.do = "set" => \E slot \in Nat : NamesSlot(slot, m) /\ st.n <= slot
    /\ st.do = "exit" => m = Len(insts) /\ stops(LastOpcode)
    /\ st.do = "exit_on_error" => \E k \in 1..Len(insts) : MayFail(insts[k].opcode)
    /\ st.do = "throw" => m = Len(insts) /\ LastOpcode \notin Instruction

Does(g, do, n) == \E i \in 1..Len(g) : g[i].do = do /\ g[i].n = n

\* The code of an instruction that ends the block ends it.
EndsIt(g, m) ==
    m = Len(insts) => /\ stops(LastOpcode) => Does(g, "exit", 0)
                      /\ LastOpcode \notin Instruction => Does(g, "throw", 0)

HasResult(inst) == ~inst.ignoreable /\ inst.opcode \in Instruction /\ Ret(inst.opcode) = 1

\* g is the code of the first m instructions, jumps left out.
IsCode(g, m) ==
    /\ g \in Seq(StatementType)
    /\ \A i \in 1..Len(g) : MayDo(g[i], m) /\ \A o \in g[i].uses : Available(o, g, i - 1, m)
    /\ \A k \in 1..m : HasResult(insts[k]) => Does(g, "handler", k - 1)
    /\ EndsIt(g, m)

\* The slots that the first m instructions name are peeked or set.
Touches(g, m) == \A slot \in Nat : NamesSlot(slot, m) => slot \in stack_peeks \/ Does(g, "set", slot)

Leap == Finalizer \o <<Goto(Last(insts).operands[1])>>

JumpCode ==
    IF Ends(JUMP) THEN Leap
    ELSE IF Ends(JUMPI) THEN If(Last(insts).operands[2], Leap)
    ELSE <<>>

EmitType ==
    /\ stage \in {"emulate", "print", "run", "left"}
    /\ stage # "emulate" => phase # "emulate"
    /\ stage = "emulate" => instructions_gen = <<>> /\ ~finalizer_emitted
    /\ stage \in {"emulate", "print"} => text = <<>> /\ at = 0 /\ height = entered
    /\ stage # "left" => left = "no"
    /\ \A s \in DOMAIN stack_sets : s < FrameLen
    /\ entered \in 0..StackLimit

IsPrinted(g, m) ==
    /\ IsCode(g, m) /\ Touches(g, m)
    /\ FlattenSeq(instructions_gen) = g \o JumpCode

PeeksAreWanted(m) ==
    /\ HasBound(stack_peeks)
    /\ \A slot \in stack_peeks : Wanted(slot, m)
    /\ \A slot \in Nat : Wanted(slot, m) => slot \in stack_peeks \/ SwappedAway(slot)

PrintsWell(m) ==
    /\ instructions_gen \in Seq(Seq(StatementType)) /\ Printed = m /\ m <= Len(insts)
    /\ \E g : IsPrinted(g, m)
    /\ finalizer_emitted <=> Ends(JUMP)
    /\ PeeksAreWanted(m)

PrintInv == stage = "print" => \E m \in Nat : PrintsWell(m)

-----------------------------------------------------------------------------

\* The finalizer stands after the first b statements.
Copy(b) == \A j \in 1..Len(Finalizer) : text[b + j] = Finalizer[j]

\* Where its copies stand, if the rest of the text begins after c statements.
Copies(c) == IF LastOpcode = JUMPI THEN {c + 1, c + Len(Finalizer) + 2} ELSE {c}

\* The text: peeks and the code of the instructions, then finalizers and jumps.
Layout(c) ==
    /\ text \in Seq(StatementType)
    /\ \A i \in 1..c :
          \/ text[i].do = "peek" /\ Wanted(text[i].n, Len(insts))
          \/ MayDo(text[i], Len(insts))
    /\ \A slot \in Nat : NamesSlot(slot, Len(insts)) =>
          \E i \in 1..c : text[i].do \in {"peek", "set"} /\ text[i].n = slot
    /\ stops(LastOpcode) => \E i \in 1..c : text[i].do = "exit"
    /\ LastOpcode \notin Instruction => \E i \in 1..c : text[i].do = "throw"
    /\ \A b \in Copies(c) : Copy(b)
    /\ LastOpcode = JUMP =>
          Len(text) = c + Len(Finalizer) + 1 /\ text[c + Len(Finalizer) + 1].do = "jump"
    /\ LastOpcode = JUMPI =>
          /\ Len(text) = c + 2 * Len(Finalizer) + 2
          /\ text[c + 1].do = "if" /\ text[c + 1].n = Len(Finalizer) + 1
          /\ text[c + Len(Finalizer) + 2].do = "jump"
    /\ ~is_jump(LastOpcode) => Len(text) = c + Len(Finalizer)

\* The height after j statements of the finalizer.
HeightIn(j) ==
    entered - (IF j > Sets THEN pops_at_end ELSE 0)
            + (IF j > Sets + Drops THEN j - Sets - Drops ELSE 0)

\* A statement that a stack of the height at first lets pass.
Passed(st) ==
    /\ st.do \notin {"exit", "throw"}
    /\ st.do \in {"peek", "set"} => st.n < entered
    /\ st.do = "drop" => st.n <= entered

\* The statement to be executed is the one after j statements of the copy of
\* the finalizer after b.
InFinalizer(b, j) ==
    /\ j \in 0..Len(Finalizer) /\ at = b + j /\ height = HeightIn(j)
    /\ \A i \in 1..j : Passed(Finalizer[i])

RunsAt(c) ==
    /\ at \in 0..Len(text)
    /\ \A i \in 1..c : i <= at => Passed(text[i])
    /\ \/ at <= c /\ height = entered
       \/ \E b \in Copies(c) : \E j \in Nat : InFinalizer(b, j)

RunsInv == stage \in {"run", "left"} => \E c \in Nat : Layout(c) /\ RunsAt(c)
-----------------------------------------------------------------------------
(* FlattenSeq and Ascending are what they are meant to be *)

Flattens(f, s, m) ==
    \A i \in 1..m : f[i] = IF i = 1 THEN s[i] ELSE f[i - 1] \o s[i]

LEMMA FlattensExist ==
    ASSUME NEW S, NEW s \in Seq(Seq(S))
    PROVE  \E f : /\ f = [i \in 1..Len(s) |-> IF i = 1 THEN s[i] ELSE f[i - 1] \o s[i]]
<1> DEFINE IsFlat(f, m) == f \in [1..m -> Seq(S)] /\ Flattens(f, s, m)
           T == {m \in Nat : m <= Len(s) => \E f : IsFlat(f, m)}
<1>0. Len(s) \in Nat BY LenProperties
<1>1. 0 \in T
    <2>1. \A i : i \notin 1..0 OBVIOUS
    <2>2. [i \in 1..0 |-> <<>>] \in [1..0 -> Seq(S)] BY ONLY <2>1
    <2>3. Flattens([i \in 1..0 |-> <<>>], s, 0) BY ONLY <2>1 DEF Flattens
    <2> QED BY <2>2, <2>3
<1>2. ASSUME NEW m \in Nat, m \in T PROVE m + 1 \in T
    <2>1. SUFFICES ASSUME m + 1 <= Len(s) PROVE \E f : IsFlat(f, m + 1) OBVIOUS
    <2>2. PICK g : IsFlat(g, m)
        <3>1. m <= Len(s) BY ONLY <1>0, <2>1, m \in Nat
        <3> QED BY ONLY <1>2, <3>1
    <2> DEFINE x == IF m = 0 THEN s[1] ELSE g[m] \o s[m + 1]
               h == [i \in 1..(m + 1) |-> IF i <= m THEN g[i] ELSE x]
    <2>3. g \in [1..m -> Seq(S)] /\ Flattens(g, s, m) BY ONLY <2>2
    <2>4. x \in Seq(S)
        <3>1. m + 1 \in 1..Len(s) BY ONLY <1>0, <2>1, m \in Nat
        <3>2. s[m + 1] \in Seq(S) BY ONLY <3>1, s \in Seq(Seq(S)), ElementOfSeq
        <3>3. CASE m = 0
            <4>1. m + 1 = 1 BY ONLY <3>3
            <4> QED BY ONLY <3>2, <3>3, <4>1
        <3>4. CASE m # 0
            <4>1. m \in 1..m BY ONLY <3>4, m \in Nat
            <4>2. g[m] \in Seq(S) BY ONLY <2>3, <4>1
            <4>3. g[m] \o s[m + 1] \in Seq(S) BY ONLY <3>2, <4>2, ConcatProperties
            <4> QED BY ONLY <3>4, <4>3
        <3> QED BY <3>3, <3>4
    <2> HIDE DEF x
    <2>5. h \in [1..(m + 1) -> Seq(S)]
        <3>1. ASSUME NEW i \in 1..(m + 1) PROVE (IF i <= m THEN g[i] ELSE x) \in Seq(S)
            <4>1. i <= m => i \in 1..m BY ONLY m \in Nat, i \in 1..(m + 1)
            <4> QED BY ONLY <2>3, <2>4, <4>1
        <3> QED BY ONLY <3>1
    <2>6. ASSUME NEW i \in 1..(m + 1)
          PROVE  h[i] = IF i = 1 THEN s[i] ELSE h[i - 1] \o s[i]
        <3>0. \A k \in 1..(m + 1) : h[k] = IF k <= m THEN g[k] ELSE x OBVIOUS
        <3> HIDE DEF h
        <3>1. CASE i <= m
            <4>1. i \in 1..m /\ (i # 1 => i - 1 \in 1..(m + 1) /\ i - 1 <= m)
                BY ONLY <3>1, m \in Nat, i \in 1..(m + 1)
            <4>2. g[i] = IF i = 1 THEN s[i] ELSE g[i - 1] \o s[i] BY ONLY <2>3, <4>1 DEF Flattens
            <4>3. h[i] = g[i] BY ONLY <3>0, <3>1, i \in 1..(m + 1)
            <4>4. i # 1 => h[i - 1] = g[i - 1] BY ONLY <3>0, <4>1
            <4> QED BY ONLY <4>2, <4>3, <4>4
        <3>2. CASE ~(i <= m)
            <4>1. i = m + 1 BY ONLY <3>2, m \in Nat, i \in 1..(m + 1)
            <4>2. h[i] = x BY ONLY <3>0, <3>2, i \in 1..(m + 1)
            <4>3. CASE m = 0
                <5>1. i = 1 BY ONLY <4>1, <4>3
                <5> QED BY ONLY <4>2, <4>3, <5>1 DEF x
            <4>4. CASE m # 0
                <5>1. i # 1 /\ i - 1 = m /\ m \in 1..(m + 1) /\ m <= m BY ONLY <4>1, <4>4, m \in Nat
                <5>2. h[i - 1] = g[m] BY ONLY <3>0, <5>1
                <5> QED BY ONLY <4>1, <4>2, <4>4, <5>1, <5>2 DEF x
            <4> QED BY <4>3, <4>4
        <3> QED BY <3>1, <3>2
    <2>7. Flattens(h, s, m + 1)
        <3> HIDE DEF h
        <3> QED BY ONLY <2>6 DEF Flattens
    <2> HIDE DEF h
    <2> QED BY ONLY <2>5, <2>7
<1>3. Len(s) \in T
    <2> HIDE DEF T
    <2> QED BY ONLY <1>0, <1>1, <1>2, Induction
<1>4. PICK f : IsFlat(f, Len(s)) BY ONLY <1>0, <1>3
<1>5. f = [i \in 1..Len(s) |-> f[i]] /\ \A i \in 1..Len(s) : f[i] = IF i = 1 THEN s[i] ELSE f[i - 1] \o s[i]
    BY ONLY <1>4 DEF Flattens
<1>6. f = [i \in 1..Len(s) |-> IF i = 1 THEN s[i] ELSE f[i - 1] \o s[i]] BY ONLY <1>5
<1> QED BY ONLY <1>6

LEMMA FlattenIs ==
    ASSUME NEW S, NEW s \in Seq(Seq(S)), Len(s) # 0
    PROVE  \E f : Flattens(f, s, Len(s)) /\ FlattenSeq(s) = f[Len(s)]
<1> DEFINE E(f) == f = [i \in 1..Len(s) |-> IF i = 1 THEN s[i] ELSE f[i - 1] \o s[i]]
           c == CHOOSE f : E(f)
<1>1. FlattenSeq(s) = c[Len(s)] BY Zenon DEF FlattenSeq
<1>2. \E f : E(f) BY ONLY s \in Seq(Seq(S)), FlattensExist
<1>3. E(c)
    <2> HIDE DEF E
    <2> QED BY ONLY <1>2
<1>4. ASSUME NEW f, E(f) PROVE Flattens(f, s, Len(s))
    <2>1. \A i \in 1..Len(s) : f[i] = IF i = 1 THEN s[i] ELSE f[i - 1] \o s[i] BY ONLY <1>4
    <2> QED BY ONLY <2>1 DEF Flattens
<1> HIDE DEF E, c
<1> QED BY ONLY <1>1, <1>3, <1>4

AgreeUpTo(f, g, m) == \A i \in 1..m : f[i] = g[i]

LEMMA FlattensAgree ==
    ASSUME NEW s, NEW t, NEW m \in Nat, AgreeUpTo(s, t, m),
           NEW f, Flattens(f, s, m), NEW g, Flattens(g, t, m)
    PROVE  AgreeUpTo(f, g, m)
<1> DEFINE T == {i \in Nat : i \in 1..m => f[i] = g[i]}
<1>1. 0 \in T OBVIOUS
<1>2. ASSUME NEW i \in Nat, i \in T PROVE i + 1 \in T
    <2>1. ASSUME i + 1 \in 1..m PROVE f[i + 1] = g[i + 1]
        <3>1. /\ f[i + 1] = IF i + 1 = 1 THEN s[i + 1] ELSE f[i + 1 - 1] \o s[i + 1]
              /\ g[i + 1] = IF i + 1 = 1 THEN t[i + 1] ELSE g[i + 1 - 1] \o t[i + 1]
            BY ONLY <2>1, Flattens(f, s, m), Flattens(g, t, m) DEF Flattens
        <3>2. s[i + 1] = t[i + 1] BY ONLY <2>1, AgreeUpTo(s, t, m) DEF AgreeUpTo
        <3>3. i + 1 - 1 = i BY ONLY i \in Nat
        <3>4. CASE i = 0
            <4>1. i + 1 = 1 BY ONLY <3>4
            <4> QED BY ONLY <3>1, <3>2, <4>1
        <3>5. CASE i # 0
            <4>1. i \in 1..m /\ i + 1 # 1 BY ONLY <2>1, <3>5, i \in Nat, m \in Nat
            <4>2. f[i] = g[i] BY ONLY <1>2, <4>1
            <4> QED BY ONLY <3>1, <3>2, <3>3, <4>1, <4>2
        <3> QED BY <3>4, <3>5
    <2>2. i + 1 \in Nat BY ONLY i \in Nat
    <2> QED BY ONLY <2>1, <2>2
<1>3. \A i \in Nat : i \in T
    <2> HIDE DEF T
    <2> QED BY ONLY <1>1, <1>2, Induction
<1>4. \A i \in 1..m : i \in Nat BY ONLY m \in Nat
<1> QED BY ONLY <1>3, <1>4 DEF AgreeUpTo

LEMMA FlattenEmpty == FlattenSeq(<<>>) = <<>>
BY EmptySeq DEF FlattenSeq

LEMMA FlattenAppend ==
    ASSUME NEW S, NEW s \in Seq(Seq(S)), NEW c \in Seq(S)
    PROVE  FlattenSeq(Append(s, c)) = FlattenSeq(s) \o c
<1> DEFINE t == Append(s, c)
           n == Len(s)
<1>1. /\ n \in Nat /\ t \in Seq(Seq(S)) /\ Len(t) = n + 1 /\ t[n + 1] = c
      /\ \A i \in 1..n : s[i] = t[i]
    BY ONLY s \in Seq(Seq(S)), c \in Seq(S), LenProperties, AppendProperties
<1> HIDE DEF t, n
<1>2. Len(t) # 0 BY ONLY <1>1
<1>3. PICK g : Flattens(g, t, Len(t)) /\ FlattenSeq(t) = g[Len(t)] BY ONLY <1>1, <1>2, FlattenIs
<1>4. n + 1 \in 1..Len(t) /\ n + 1 - 1 = n BY ONLY <1>1
<1>5. g[n + 1] = IF n + 1 = 1 THEN c ELSE g[n] \o c
    BY ONLY <1>1, <1>3, <1>4 DEF Flattens
<1>6. CASE n = 0
    <2>1. s = <<>> BY ONLY <1>6, s \in Seq(Seq(S)), EmptySeq DEF n
    <2>2. FlattenSeq(s) = <<>> BY ONLY <2>1, FlattenEmpty
    <2>3. <<>> \o c = c BY ONLY c \in Seq(S), ConcatEmptySeq
    <2>4. n + 1 = 1 BY ONLY <1>6
    <2> QED BY ONLY <1>1, <1>3, <1>5, <2>2, <2>3, <2>4 DEF t
<1>7. CASE n # 0
    <2>1. Len(s) # 0 BY ONLY <1>7 DEF n
    <2>2. PICK f : Flattens(f, s, Len(s)) /\ FlattenSeq(s) = f[Len(s)]
        BY ONLY <2>1, s \in Seq(Seq(S)), FlattenIs
    <2>3. \A i \in 1..n : i \in 1..Len(t) BY ONLY <1>1
    <2>4. Flattens(g, t, n) BY ONLY <1>3, <2>3 DEF Flattens
    <2>5. Flattens(f, s, n) BY ONLY <2>2 DEF n
    <2>6. AgreeUpTo(s, t, n) BY ONLY <1>1 DEF AgreeUpTo
    <2>9. AgreeUpTo(f, g, n) BY ONLY <1>1, <2>4, <2>5, <2>6, FlattensAgree
    <2>7. n \in 1..n /\ n + 1 # 1 BY ONLY <1>1, <1>7
    <2>8. FlattenSeq(s) = g[n] BY ONLY <2>2, <2>7, <2>9 DEF n, AgreeUpTo
    <2> QED BY ONLY <1>1, <1>3, <1>5, <2>7, <2>8 DEF t
<1> QED BY <1>6, <1>7

\* The numbers of a bounded set, in ascending order.
LEMMA MaxIs ==
    ASSUME NEW S, NEW b \in Nat, \A s \in S : s \in Nat /\ s <= b
    PROVE  /\ Max(S \cup {0}) \in Nat
           /\ \A s \in S : s <= Max(S \cup {0})
<1> DEFINE T == S \cup {0}
           E(x) == x \in T /\ \A y \in T : x >= y
           U == {n \in Nat : (\A y \in T : y <= n) => \E x : E(x)}
<1>1. \A y \in T : y \in Nat /\ y <= b BY ONLY b \in Nat, \A s \in S : s \in Nat /\ s <= b
<1>2. 0 \in U
    <2>1. ASSUME \A y \in T : y <= 0 PROVE E(0)
        <3>1. \A y \in T : 0 >= y BY ONLY <1>1, <2>1
        <3> QED BY ONLY <3>1
    <2> HIDE DEF E, T
    <2> QED BY ONLY <2>1
<1>3. ASSUME NEW n \in Nat, n \in U PROVE n + 1 \in U
    <2>1. ASSUME \A y \in T : y <= n + 1 PROVE \E x : E(x)
        <3>1. CASE n + 1 \in T
            <4>1. \A y \in T : n + 1 >= y BY ONLY <1>1, <2>1, n \in Nat
            <4>2. E(n + 1) BY ONLY <3>1, <4>1
            <4> HIDE DEF E
            <4> QED BY ONLY <4>2
        <3>2. CASE n + 1 \notin T
            <4>1. ASSUME NEW y \in T PROVE y <= n
                <5>1. y \in Nat /\ y <= n + 1 /\ y # n + 1 BY ONLY <1>1, <2>1, <3>2, y \in T
                <5> QED BY ONLY <5>1, n \in Nat
            <4> HIDE DEF E
            <4> QED BY ONLY <1>3, <4>1
        <3> QED BY <3>1, <3>2
    <2>2. n + 1 \in Nat BY ONLY n \in Nat
    <2> HIDE DEF E, T
    <2> QED BY ONLY <2>1, <2>2
<1>4. \A n \in Nat : n \in U
    <2> HIDE DEF U
    <2> QED BY ONLY <1>2, <1>3, Induction
<1>5. \E x : E(x)
    <2> HIDE DEF E, T
    <2> QED BY ONLY <1>1, <1>4, b \in Nat
<1>6. Max(T) = CHOOSE x \in T : \A y \in T : x >= y BY Zenon DEF Max
<1>7. E(Max(T))
    <2>1. \E x \in T : \A y \in T : x >= y BY ONLY <1>5
    <2> HIDE DEF T
    <2> QED BY ONLY <1>6, <2>1
<1>8. Max(T) \in T /\ \A y \in T : Max(T) >= y BY ONLY <1>7
<1>9. \A s \in S : s \in T OBVIOUS
<1> HIDE DEF T
<1>10. Max(T) \in Nat /\ \A s \in S : s <= Max(T) BY ONLY <1>1, <1>8, <1>9
<1> QED BY ONLY <1>10 DEF T

\* What Ascending has collected of S below n.
Lists(q, S, n) ==
    /\ q \in Seq(Nat)
    /\ \A k \in 1..Len(q) : q[k] \in S
    /\ \A s \in S : s < n => \E k \in 1..Len(q) : q[k] = s

ListsBelow(f, S, m) ==
    \A n \in 0..m :
        f[n] = IF n = 0 THEN <<>> ELSE IF n - 1 \in S THEN Append(f[n - 1], n - 1) ELSE f[n - 1]

\* The definition of below in Ascending.
IsBelow(f, S, m) ==
    f = [n \in 0..m |-> IF n = 0 THEN <<>>
                        ELSE IF n - 1 \in S THEN Append(f[n - 1], n - 1)
                        ELSE f[n - 1]]

LEMMA BelowExists ==
    ASSUME NEW S, NEW m \in Nat
    PROVE  \E f : IsBelow(f, S, m)
<1> DEFINE Good(f, l) == f \in [0..l -> Seq(Nat)] /\ ListsBelow(f, S, l)
           T == {l \in Nat : \E f : Good(f, l)}
<1>1. 0 \in T
    <2> DEFINE f0 == [n \in 0..0 |-> <<>>]
    <2>1. <<>> \in Seq(Nat) BY EmptySeq
    <2>2. \A n \in 0..0 : n = 0 OBVIOUS
    <2>3. f0 \in [0..0 -> Seq(Nat)] BY ONLY <2>1
    <2>4. \A n \in 0..0 : f0[n] = <<>> OBVIOUS
    <2> HIDE DEF f0
    <2>5. ListsBelow(f0, S, 0) BY ONLY <2>2, <2>4 DEF ListsBelow
    <2> QED BY <2>3, <2>5
<1>2. ASSUME NEW l \in Nat, l \in T PROVE l + 1 \in T
    <2>1. PICK g : Good(g, l) BY ONLY <1>2
    <2> DEFINE x == IF l \in S THEN Append(g[l], l) ELSE g[l]
               h == [n \in 0..(l + 1) |-> IF n <= l THEN g[n] ELSE x]
    <2>2. g \in [0..l -> Seq(Nat)] /\ ListsBelow(g, S, l) BY ONLY <2>1
    <2>3. l \in 0..l BY ONLY l \in Nat
    <2>4. g[l] \in Seq(Nat) BY ONLY <2>2, <2>3
    <2>5. x \in Seq(Nat) BY ONLY <2>4, l \in Nat, AppendProperties
    <2> HIDE DEF x
    <2>6. h \in [0..(l + 1) -> Seq(Nat)]
        <3>1. ASSUME NEW n \in 0..(l + 1) PROVE (IF n <= l THEN g[n] ELSE x) \in Seq(Nat)
            <4>1. n <= l => n \in 0..l BY ONLY l \in Nat, n \in 0..(l + 1)
            <4> QED BY ONLY <2>2, <2>5, <4>1
        <3> QED BY ONLY <3>1
    <2>7. \A n \in 0..(l + 1) : h[n] = IF n <= l THEN g[n] ELSE x OBVIOUS
    <2> HIDE DEF h
    <2>8. ASSUME NEW n \in 0..(l + 1)
          PROVE  h[n] = IF n = 0 THEN <<>>
                        ELSE IF n - 1 \in S THEN Append(h[n - 1], n - 1) ELSE h[n - 1]
        <3>1. CASE n <= l
            <4>1. n \in 0..l /\ (n # 0 => n - 1 \in 0..(l + 1) /\ n - 1 <= l)
                BY ONLY <3>1, l \in Nat, n \in 0..(l + 1)
            <4>2. g[n] = IF n = 0 THEN <<>>
                         ELSE IF n - 1 \in S THEN Append(g[n - 1], n - 1) ELSE g[n - 1]
                BY ONLY <2>2, <4>1 DEF ListsBelow
            <4>3. h[n] = g[n] BY ONLY <2>7, <3>1, n \in 0..(l + 1)
            <4>4. n # 0 => h[n - 1] = g[n - 1] BY ONLY <2>7, <4>1
            <4> QED BY ONLY <4>2, <4>3, <4>4
        <3>2. CASE ~(n <= l)
            <4>1. n = l + 1 /\ n - 1 = l /\ n # 0 /\ l \in 0..(l + 1) /\ l <= l
                BY ONLY <3>2, l \in Nat, n \in 0..(l + 1)
            <4>2. h[n] = x BY ONLY <2>7, <3>2, n \in 0..(l + 1)
            <4>3. h[n - 1] = g[l] BY ONLY <2>7, <4>1
            <4> QED BY ONLY <4>1, <4>2, <4>3 DEF x
        <3> QED BY <3>1, <3>2
    <2>9. ListsBelow(h, S, l + 1) BY ONLY <2>8 DEF ListsBelow
    <2>10. l + 1 \in Nat BY ONLY l \in Nat
    <2> QED BY ONLY <2>6, <2>9, <2>10
<1>3. m \in T
    <2> HIDE DEF T
    <2> QED BY ONLY <1>1, <1>2, m \in Nat, Induction
<1>4. PICK f : Good(f, m) BY ONLY <1>3
<1>5. /\ f = [n \in 0..m |-> f[n]]
      /\ \A n \in 0..m :
            f[n] = IF n = 0 THEN <<>> ELSE IF n - 1 \in S THEN Append(f[n - 1], n - 1) ELSE f[n - 1]
    BY ONLY <1>4 DEF ListsBelow
<1>6. f = [n \in 0..m |-> IF n = 0 THEN <<>>
                          ELSE IF n - 1 \in S THEN Append(f[n - 1], n - 1)
                          ELSE f[n - 1]]
    BY ONLY <1>5
<1> QED BY ONLY <1>6 DEF IsBelow

LEMMA ListsMore ==
    ASSUME NEW S, NEW n \in Nat, NEW q, Lists(q, S, n), \A s \in S : s \in Nat
    PROVE  Lists(IF n \in S THEN Append(q, n) ELSE q, S, n + 1)
<1>0. q \in Seq(Nat) /\ Len(q) \in Nat BY LenProperties DEF Lists
<1>1. CASE n \in S
    <2>1. /\ Append(q, n) \in Seq(Nat) /\ Len(Append(q, n)) = Len(q) + 1
          /\ \A k \in 1..Len(q) : Append(q, n)[k] = q[k]
          /\ Append(q, n)[Len(q) + 1] = n
        BY ONLY <1>0, n \in Nat, AppendProperties
    <2> DEFINE r == Append(q, n)
    <2>2. \A k \in 1..Len(r) : k \in 1..Len(q) \/ k = Len(q) + 1 BY ONLY <1>0, <2>1
    <2>3. \A k \in 1..Len(q) : k \in 1..Len(r) BY ONLY <1>0, <2>1
    <2>4. Len(q) + 1 \in 1..Len(r) BY ONLY <1>0, <2>1
    <2>5. r \in Seq(Nat) /\ (\A k \in 1..Len(q) : r[k] = q[k]) /\ r[Len(q) + 1] = n BY ONLY <2>1
    <2> HIDE DEF r
    <2>6. \A k \in 1..Len(r) : r[k] \in S BY ONLY <1>1, <2>2, <2>5, Lists(q, S, n) DEF Lists
    <2>7. ASSUME NEW s \in S, s < n + 1 PROVE \E k \in 1..Len(r) : r[k] = s
        <3>1. s < n \/ s = n BY ONLY <2>7, n \in Nat, s \in S, \A t \in S : t \in Nat
        <3>2. CASE s < n BY ONLY <3>2, s \in S, <2>3, <2>5, Lists(q, S, n) DEF Lists
        <3>3. CASE s = n BY ONLY <3>3, <2>4, <2>5
        <3> QED BY <3>1, <3>2, <3>3
    <2>8. Lists(r, S, n + 1) BY ONLY <2>5, <2>6, <2>7 DEF Lists
    <2> QED BY ONLY <1>1, <2>8 DEF r
<1>2. CASE n \notin S
    <2>1. \A s \in S : s < n + 1 => s < n
        BY ONLY <1>2, n \in Nat, \A s \in S : s \in Nat
    <2>2. Lists(q, S, n + 1) BY ONLY <2>1, Lists(q, S, n) DEF Lists
    <2> QED BY ONLY <1>2, <2>2
<1> QED BY <1>1, <1>2

\* Ascending lists a bounded set of numbers.
LEMMA AscendingIs ==
    ASSUME NEW S, NEW b \in Nat, \A s \in S : s \in Nat /\ s <= b
    PROVE  /\ Ascending(S) \in Seq(Nat)
           /\ \A k \in 1..Len(Ascending(S)) : Ascending(S)[k] \in S
           /\ \A s \in S : \E k \in 1..Len(Ascending(S)) : Ascending(S)[k] = s
<1> DEFINE m == Max(S \cup {0}) + 1
           c == CHOOSE f : IsBelow(f, S, m)
<1>1. Max(S \cup {0}) \in Nat /\ \A s \in S : s <= Max(S \cup {0})
    BY ONLY b \in Nat, \A s \in S : s \in Nat /\ s <= b, MaxIs
<1>2. \A s \in S : s \in Nat BY ONLY \A s \in S : s \in Nat /\ s <= b
<1>3. m \in Nat /\ \A s \in S : s < m BY ONLY <1>1, <1>2
<1>4. Ascending(S) = c[m] BY Zenon DEF Ascending, IsBelow
<1> HIDE DEF m
<1>5. \E f : IsBelow(f, S, m)
    <2>1. m \in Nat BY ONLY <1>3
    <2> QED BY ONLY <2>1, BelowExists
<1>6. IsBelow(c, S, m) BY ONLY <1>5
<1>7. ListsBelow(c, S, m)
    <2> HIDE DEF c
    <2>1. \A n \in 0..m :
              c[n] = IF n = 0 THEN <<>>
                     ELSE IF n - 1 \in S THEN Append(c[n - 1], n - 1) ELSE c[n - 1]
        BY ONLY <1>6 DEF IsBelow
    <2> QED BY ONLY <2>1 DEF ListsBelow
<1> HIDE DEF c
<1> DEFINE T == {n \in Nat : n <= m => Lists(c[n], S, n)}
<1>8. 0 \in T
    <2>1. 0 \in 0..m BY ONLY <1>3
    <2>2. c[0] = <<>> BY ONLY <1>7, <2>1 DEF ListsBelow
    <2>3. <<>> \in Seq(Nat) /\ Len(<<>>) = 0 BY EmptySeq
    <2>4. (\A k : k \notin 1..0) /\ \A s \in S : ~(s < 0) BY ONLY <1>2
    <2>5. Lists(<<>>, S, 0) BY ONLY <2>3, <2>4 DEF Lists
    <2> QED BY ONLY <2>2, <2>5
<1>9. ASSUME NEW n \in Nat, n \in T PROVE n + 1 \in T
    <2>1. ASSUME n + 1 <= m PROVE Lists(c[n + 1], S, n + 1)
        <3>1. n <= m /\ n + 1 \in 0..m /\ n + 1 # 0 /\ n + 1 - 1 = n BY ONLY <1>3, <2>1, n \in Nat
        <3>2. Lists(c[n], S, n) BY ONLY <1>9, <3>1
        <3>3. c[n + 1] = IF n \in S THEN Append(c[n], n) ELSE c[n]
            BY ONLY <1>7, <3>1 DEF ListsBelow
        <3> QED BY ONLY <1>2, <3>2, <3>3, n \in Nat, ListsMore
    <2>2. n + 1 \in Nat BY ONLY n \in Nat
    <2> QED BY ONLY <2>1, <2>2
<1>10. \A n \in Nat : n \in T
    <2> HIDE DEF T
    <2> QED BY ONLY <1>8, <1>9, Induction
<1>11. m <= m BY ONLY <1>3
<1>12. Lists(c[m], S, m) BY ONLY <1>3, <1>10, <1>11
<1> QED BY ONLY <1>3, <1>4, <1>12 DEF Lists

\* Finitely many numbers have a bound.
LEMMA BoundExists ==
    ASSUME NEW f, NEW m \in Nat, \A k \in 1..m : f[k] \in Nat
    PROVE  \E b \in Nat : \A k \in 1..m : f[k] <= b
<1> DEFINE Bounds(b, l) == \A k \in 1..l : f[k] <= b
           T == {l \in Nat : l <= m => \E b \in Nat : Bounds(b, l)}
<1>1. 0 \in T
    <2>1. \A k : k \notin 1..0 OBVIOUS
    <2>2. Bounds(0, 0) BY ONLY <2>1
    <2> HIDE DEF Bounds
    <2> QED BY ONLY <2>2
<1>2. ASSUME NEW l \in Nat, l \in T PROVE l + 1 \in T
    <2>1. ASSUME l + 1 <= m PROVE \E b \in Nat : Bounds(b, l + 1)
        <3>1. l <= m /\ l + 1 \in 1..m /\ \A k \in 1..l : k \in 1..m
            BY ONLY l \in Nat, m \in Nat, <2>1
        <3>2. PICK b \in Nat : Bounds(b, l) BY ONLY <1>2, <3>1
        <3>3. f[l + 1] \in Nat /\ \A k \in 1..l : f[k] \in Nat
            BY ONLY <3>1, \A k \in 1..m : f[k] \in Nat
        <3>4. b + f[l + 1] \in Nat BY ONLY <3>3, b \in Nat
        <3>5. ASSUME NEW k \in 1..(l + 1) PROVE f[k] <= b + f[l + 1]
            <4>1. CASE k \in 1..l
                <5>1. f[k] <= b /\ f[k] \in Nat BY ONLY <3>2, <3>3, <4>1
                <5> QED BY ONLY <3>3, <5>1, b \in Nat
            <4>2. CASE k = l + 1 BY ONLY <3>3, <4>2, b \in Nat
            <4> QED BY ONLY <4>1, <4>2, k \in 1..(l + 1), l \in Nat
        <3>6. Bounds(b + f[l + 1], l + 1) BY ONLY <3>5
        <3> HIDE DEF Bounds
        <3> QED BY ONLY <3>4, <3>6
    <2>2. l + 1 \in Nat BY ONLY l \in Nat
    <2> HIDE DEF Bounds
    <2> QED BY ONLY <2>1, <2>2
<1>3. m \in T
    <2> HIDE DEF T
    <2> QED BY ONLY <1>1, <1>2, m \in Nat, Induction
<1>4. m <= m BY ONLY m \in Nat
<1> QED BY ONLY <1>3, <1>4

-----------------------------------------------------------------------------
(* Bounded sets of slots *)

LEMMA UnionBounded ==
    ASSUME NEW S, HasBound(S), NEW T, HasBound(T)
    PROVE  HasBound(S \cup T)
<1>1. PICK b \in Nat : \A s \in S : s \in Nat /\ s <= b BY DEF HasBound
<1>2. PICK c \in Nat : \A s \in T : s \in Nat /\ s <= c BY DEF HasBound
<1>3. \A s \in S : s \in Nat /\ s <= b + c BY ONLY <1>1, b \in Nat, c \in Nat
<1>4. \A s \in T : s \in Nat /\ s <= b + c BY ONLY <1>2, b \in Nat, c \in Nat
<1>5. b + c \in Nat BY ONLY b \in Nat, c \in Nat
<1> QED BY ONLY <1>3, <1>4, <1>5 DEF HasBound

LEMMA SubsetBounded ==
    ASSUME NEW S, HasBound(S), NEW T, T \subseteq S
    PROVE  HasBound(T)
BY DEF HasBound

\* The slots among finitely many operands.
LEMMA SlotsBounded ==
    ASSUME NEW f, NEW m \in Nat, \A k \in 1..m : f[k] \in Operand
    PROVE  HasBound(SlotsOf({f[k] : k \in 1..m}))
<1> DEFINE g == [k \in 1..m |-> f[k].n]
<1>1. \A k \in 1..m : g[k] = f[k].n OBVIOUS
<1>2. \A k \in 1..m : f[k].n \in Nat BY ONLY \A k \in 1..m : f[k] \in Operand DEF Operand
<1> HIDE DEF g
<1>3. \A k \in 1..m : g[k] \in Nat BY ONLY <1>1, <1>2
<1>4. PICK b \in Nat : \A k \in 1..m : g[k] <= b BY ONLY <1>3, m \in Nat, BoundExists
<1>5. ASSUME NEW slot \in SlotsOf({f[k] : k \in 1..m}) PROVE slot \in Nat /\ slot <= b
    <2>1. PICK k \in 1..m : slot = f[k].n BY ONLY <1>5 DEF SlotsOf
    <2> QED BY ONLY <1>1, <1>2, <1>4, <2>1
<1> QED BY ONLY <1>5 DEF HasBound

LEMMA OperandsBounded ==
    ASSUME NEW os \in Seq(Operand)
    PROVE  HasBound(SlotsOf(ToSet(os)))
<1>1. Len(os) \in Nat /\ DOMAIN os = 1..Len(os) BY LenProperties
<1>2. \A k \in 1..Len(os) : os[k] \in Operand BY ElementOfSeq
<1>3. ToSet(os) = {os[k] : k \in 1..Len(os)} BY ONLY <1>1 DEF ToSet
<1> QED BY ONLY <1>1, <1>2, <1>3, SlotsBounded

LEMMA FinalizerBounded ==
    ASSUME TypeBB, \A s \in DOMAIN stack_sets : s < FrameLen
    PROVE  HasBound(FinalizerPeeks)
<1>1. returns \in Seq(Operand) /\ DOMAIN returns = 1..Len(returns)
    BY LenProperties DEF TypeBB
<1>2. HasBound(SlotsOf(Range(returns)))
    <2>1. Range(returns) = ToSet(returns) BY ONLY <1>1 DEF Range, ToSet
    <2> QED BY ONLY <1>1, <2>1, OperandsBounded
<1>3. HasBound(SlotsOf(Range(stack_sets)))
    <2> DEFINE f == [k \in 1..FrameLen |->
                        IF k - 1 \in DOMAIN stack_sets THEN stack_sets[k - 1] ELSE Zero]
    <2>1. FrameLen \in Nat BY FrameLenAssumption
    <2>2. Zero \in Operand BY DEF Zero, Constant, Operand
    <2>3. \A k \in 1..FrameLen : f[k] \in Operand BY ONLY <2>2, TypeBB DEF TypeBB
    <2>4. ASSUME NEW o \in Range(stack_sets) PROVE o \in {f[k] : k \in 1..FrameLen}
        <3>1. PICK s \in DOMAIN stack_sets : o = stack_sets[s] BY ONLY <2>4 DEF Range
        <3>2. s \in Nat /\ s < FrameLen
            BY ONLY TypeBB, s \in DOMAIN stack_sets, \A t \in DOMAIN stack_sets : t < FrameLen DEF TypeBB
        <3>3. s + 1 \in 1..FrameLen /\ s + 1 - 1 = s BY ONLY <2>1, <3>2
        <3>4. f[s + 1] = stack_sets[s] BY ONLY <3>2, <3>3, s \in DOMAIN stack_sets
        <3> HIDE DEF f
        <3> QED BY ONLY <3>1, <3>3, <3>4
    <2> HIDE DEF f
    <2>5. HasBound(SlotsOf({f[k] : k \in 1..FrameLen})) BY ONLY <2>1, <2>3, SlotsBounded
    <2>6. SlotsOf(Range(stack_sets)) \subseteq SlotsOf({f[k] : k \in 1..FrameLen})
        BY ONLY <2>4 DEF SlotsOf
    <2> QED BY ONLY <2>5, <2>6, SubsetBounded
<1>4. HasBound(SlotsOf(Range(stack_sets)) \cup SlotsOf(Range(returns)))
    BY ONLY <1>2, <1>3, UnionBounded
<1>5. FinalizerPeeks = SlotsOf(Range(stack_sets)) \cup SlotsOf(Range(returns))
    BY DEF FinalizerPeeks, SlotsOf
<1> QED BY ONLY <1>4, <1>5

-----------------------------------------------------------------------------
(* The finalizer *)

LEMMA StatementIs ==
    ASSUME NEW do \in Deed, NEW n \in Nat, NEW uses \in SUBSET Operand
    PROVE  /\ Statement(do, n, uses) \in StatementType
           /\ Statement(do, n, uses).do = do /\ Statement(do, n, uses).n = n
           /\ Statement(do, n, uses).uses = uses
BY DEF Statement, StatementType

\* It sets the slots, drops the pops and pushes the returns.
FinalizerFacts ==
    /\ Finalizer \in Seq(StatementType)
    /\ Sets \in Nat /\ Drops \in Nat /\ Len(returns) \in Nat
    /\ Len(Finalizer) = Sets + Drops + Len(returns)
    /\ \A j \in 1..Sets :
          /\ Finalizer[j].do = "set" /\ Finalizer[j].n \in DOMAIN stack_sets
          /\ Finalizer[j].uses = {stack_sets[Finalizer[j].n]}
    /\ \A s \in DOMAIN stack_sets : \E j \in 1..Sets : Finalizer[j].n = s
    /\ Drops = IF pops_at_end > 0 THEN 1 ELSE 0
    /\ pops_at_end > 0 => Finalizer[Sets + 1] = DropN(pops_at_end)
    /\ \A j \in 1..Len(Finalizer) : j > Sets + Drops =>
          /\ Finalizer[j].do = "push" /\ Finalizer[j].n = 0
          /\ \E k \in 1..Len(returns) : Finalizer[j].uses = {returns[k]}

LEMMA FinalizerIs ==
    ASSUME TypeBB, \A s \in DOMAIN stack_sets : s < FrameLen
    PROVE  FinalizerFacts
<1>1. /\ DOMAIN stack_sets \subseteq Nat /\ pops_at_end \in Nat /\ returns \in Seq(Operand)
      /\ \A s \in DOMAIN stack_sets : stack_sets[s] \in Operand
      /\ Len(returns) \in Nat /\ DOMAIN returns = 1..Len(returns)
    BY LenProperties DEF TypeBB
<1>2. /\ SlotsSet \in Seq(Nat) /\ DOMAIN SlotsSet = 1..Len(SlotsSet) /\ Len(SlotsSet) \in Nat
      /\ \A k \in 1..Len(SlotsSet) : SlotsSet[k] \in DOMAIN stack_sets
      /\ \A s \in DOMAIN stack_sets : \E k \in 1..Len(SlotsSet) : SlotsSet[k] = s
    <2>1. FrameLen \in Nat BY FrameLenAssumption
    <2>2. \A s \in DOMAIN stack_sets : s \in Nat /\ s <= FrameLen
        BY ONLY <1>1, <2>1, \A s \in DOMAIN stack_sets : s < FrameLen
    <2>3. /\ SlotsSet \in Seq(Nat)
          /\ \A k \in 1..Len(SlotsSet) : SlotsSet[k] \in DOMAIN stack_sets
          /\ \A s \in DOMAIN stack_sets : \E k \in 1..Len(SlotsSet) : SlotsSet[k] = s
        BY ONLY <2>1, <2>2, AscendingIs DEF SlotsSet
    <2> QED BY ONLY <2>3, LenProperties
<1>3. /\ SetCode \in Seq(StatementType) /\ Len(SetCode) = Len(SlotsSet)
      /\ \A k \in 1..Len(SlotsSet) :
            /\ SetCode[k].do = "set" /\ SetCode[k].n = SlotsSet[k]
            /\ SetCode[k].uses = {stack_sets[SlotsSet[k]]}
    <2>1. ASSUME NEW k \in 1..Len(SlotsSet)
          PROVE  /\ SetCode[k] \in StatementType
                 /\ SetCode[k].do = "set" /\ SetCode[k].n = SlotsSet[k]
                 /\ SetCode[k].uses = {stack_sets[SlotsSet[k]]}
        <3>1. SetCode[k] = Statement("set", SlotsSet[k], {stack_sets[SlotsSet[k]]})
            BY ONLY <1>2, k \in 1..Len(SlotsSet) DEF SetCode, SetSlot
        <3>2. "set" \in Deed BY DEF Deed
        <3>3. SlotsSet[k] \in Nat /\ {stack_sets[SlotsSet[k]]} \in SUBSET Operand
            BY ONLY <1>1, <1>2, k \in 1..Len(SlotsSet)
        <3> QED BY ONLY <3>1, <3>2, <3>3, StatementIs
    <2>2. SetCode \in [1..Len(SlotsSet) -> StatementType]
        <3>1. DOMAIN SetCode = 1..Len(SlotsSet) BY ONLY <1>2 DEF SetCode
        <3>2. SetCode = [k \in DOMAIN SetCode |-> SetCode[k]] BY DEF SetCode
        <3> QED BY ONLY <2>1, <3>1, <3>2
    <2>3. SetCode \in Seq(StatementType) /\ Len(SetCode) = Len(SlotsSet)
        BY ONLY <1>2, <2>2, SeqDef, LenProperties
    <2> QED BY ONLY <2>1, <2>3
<1>4. /\ DropCode \in Seq(StatementType)
      /\ Len(DropCode) = IF pops_at_end > 0 THEN 1 ELSE 0
      /\ pops_at_end > 0 => DropCode[1] = DropN(pops_at_end)
    <2>1. "drop" \in Deed /\ {} \in SUBSET Operand BY DEF Deed
    <2>2. DropN(pops_at_end) \in StatementType BY ONLY <1>1, <2>1, StatementIs DEF DropN
    <2>3. \A st \in StatementType : <<st>> \in Seq(StatementType) /\ Len(<<st>>) = 1 /\ <<st>>[1] = st
        OBVIOUS
    <2>4. <<>> \in Seq(StatementType) /\ Len(<<>>) = 0 BY EmptySeq
    <2> QED BY ONLY <2>2, <2>3, <2>4 DEF DropCode
<1>5. /\ ReturnCode \in Seq(StatementType) /\ Len(ReturnCode) = Len(returns)
      /\ \A k \in 1..Len(returns) :
            /\ ReturnCode[k].do = "push" /\ ReturnCode[k].n = 0
            /\ \E l \in 1..Len(returns) : ReturnCode[k].uses = {returns[l]}
    <2>1. ASSUME NEW k \in 1..Len(returns)
          PROVE  /\ ReturnCode[k] \in StatementType
                 /\ ReturnCode[k].do = "push" /\ ReturnCode[k].n = 0
                 /\ \E l \in 1..Len(returns) : ReturnCode[k].uses = {returns[l]}
        <3>0. (Len(returns) - k) + 1 \in 1..Len(returns) BY ONLY <1>1, k \in 1..Len(returns)
        <3>1. Reverse(returns)[k] = returns[(Len(returns) - k) + 1]
            BY ONLY k \in 1..Len(returns) DEF Reverse
        <3>2. ReturnCode[k] = Statement("push", 0, {returns[(Len(returns) - k) + 1]})
            BY ONLY <1>1, <3>1, k \in 1..Len(returns) DEF ReturnCode, PushWord
        <3>3. returns[(Len(returns) - k) + 1] \in Operand BY ONLY <1>1, <3>0, ElementOfSeq
        <3>4. "push" \in Deed /\ 0 \in Nat BY DEF Deed
        <3>5. {returns[(Len(returns) - k) + 1]} \in SUBSET Operand BY ONLY <3>3
        <3> QED BY ONLY <3>0, <3>2, <3>4, <3>5, StatementIs
    <2>2. ReturnCode \in [1..Len(returns) -> StatementType]
        <3>1. DOMAIN ReturnCode = 1..Len(returns) BY ONLY <1>1 DEF ReturnCode
        <3>2. ReturnCode = [k \in DOMAIN ReturnCode |-> ReturnCode[k]] BY DEF ReturnCode
        <3> QED BY ONLY <2>1, <3>1, <3>2
    <2>3. ReturnCode \in Seq(StatementType) /\ Len(ReturnCode) = Len(returns)
        BY ONLY <1>1, <2>2, SeqDef, LenProperties
    <2> QED BY ONLY <2>1, <2>3
<1>6. /\ Sets = Len(SlotsSet) /\ Sets \in Nat /\ Drops \in Nat
      /\ Drops = IF pops_at_end > 0 THEN 1 ELSE 0
    BY ONLY <1>2, <1>3, <1>4 DEF Sets, Drops
<1>7. /\ SetCode \o DropCode \in Seq(StatementType)
      /\ Len(SetCode \o DropCode) = Sets + Drops
      /\ \A j \in 1..(Sets + Drops) :
            (SetCode \o DropCode)[j] = IF j <= Sets THEN SetCode[j] ELSE DropCode[j - Sets]
    BY ONLY <1>3, <1>4, ConcatProperties DEF Sets, Drops
<1>8. /\ Finalizer \in Seq(StatementType)
      /\ Len(Finalizer) = Sets + Drops + Len(returns)
      /\ \A j \in 1..(Sets + Drops + Len(returns)) :
            Finalizer[j] = IF j <= Sets + Drops THEN (SetCode \o DropCode)[j]
                           ELSE ReturnCode[j - (Sets + Drops)]
    BY ONLY <1>5, <1>7, ConcatProperties DEF Finalizer
<1>9. ASSUME NEW j \in 1..Sets PROVE Finalizer[j] = SetCode[j]
    <2>1. /\ j \in 1..(Sets + Drops + Len(returns)) /\ j <= Sets + Drops
          /\ j \in 1..(Sets + Drops) /\ j <= Sets
        BY ONLY <1>1, <1>6, j \in 1..Sets
    <2> QED BY ONLY <1>7, <1>8, <2>1
<1>10. pops_at_end > 0 => Finalizer[Sets + 1] = DropN(pops_at_end)
    <2>1. SUFFICES ASSUME pops_at_end > 0 PROVE Finalizer[Sets + 1] = DropN(pops_at_end) OBVIOUS
    <2>2. Drops = 1 BY ONLY <1>6, <2>1
    <2>3. /\ Sets + 1 \in 1..(Sets + Drops + Len(returns)) /\ Sets + 1 <= Sets + Drops
          /\ Sets + 1 \in 1..(Sets + Drops) /\ ~(Sets + 1 <= Sets) /\ Sets + 1 - Sets = 1
        BY ONLY <1>1, <1>6, <2>2
    <2>4. DropCode[1] = DropN(pops_at_end) BY ONLY <1>4, <2>1
    <2>5. Finalizer[Sets + 1] = (SetCode \o DropCode)[Sets + 1] BY ONLY <1>8, <2>3
    <2>6. (SetCode \o DropCode)[Sets + 1] = DropCode[1] BY ONLY <1>6, <1>7, <2>3
    <2> QED BY ONLY <2>4, <2>5, <2>6
<1>11. ASSUME NEW j \in 1..Len(Finalizer), j > Sets + Drops
       PROVE  /\ Finalizer[j].do = "push" /\ Finalizer[j].n = 0
              /\ \E k \in 1..Len(returns) : Finalizer[j].uses = {returns[k]}
    <2>1. /\ j \in 1..(Sets + Drops + Len(returns)) /\ ~(j <= Sets + Drops)
          /\ j - (Sets + Drops) \in 1..Len(returns)
        BY ONLY <1>1, <1>6, <1>8, <1>11
    <2>2. Finalizer[j] = ReturnCode[j - (Sets + Drops)] BY ONLY <1>8, <2>1
    <2> QED BY ONLY <1>5, <2>1, <2>2
<1>12. ASSUME NEW j \in 1..Sets
       PROVE  /\ Finalizer[j].do = "set" /\ Finalizer[j].n \in DOMAIN stack_sets
              /\ Finalizer[j].uses = {stack_sets[Finalizer[j].n]}
    BY ONLY <1>2, <1>3, <1>6, <1>9, j \in 1..Sets
<1>13. ASSUME NEW s \in DOMAIN stack_sets PROVE \E j \in 1..Sets : Finalizer[j].n = s
    <2>1. PICK k \in 1..Len(SlotsSet) : SlotsSet[k] = s BY ONLY <1>2
    <2>2. Finalizer[k].n = s BY ONLY <1>3, <1>6, <1>9, <2>1
    <2> QED BY ONLY <1>6, <2>2
<1> QED BY ONLY <1>1, <1>6, <1>8, <1>10, <1>11, <1>12, <1>13 DEF FinalizerFacts

-----------------------------------------------------------------------------
(* What is printed for the instructions *)

LEMMA ConcatIs ==
    ASSUME NEW g \in Seq(StatementType), NEW c \in Seq(StatementType)
    PROVE  /\ g \o c \in Seq(StatementType) /\ Len(g \o c) = Len(g) + Len(c)
           /\ Len(g) \in Nat /\ Len(c) \in Nat
           /\ \A i \in 1..Len(g) : i \in 1..Len(g \o c) /\ (g \o c)[i] = g[i]
           /\ \A i \in 1..Len(c) : Len(g) + i \in 1..Len(g \o c) /\ (g \o c)[Len(g) + i] = c[i]
           /\ \A i \in 1..Len(g \o c) : i \in 1..Len(g) \/ \E j \in 1..Len(c) : i = Len(g) + j
<1>1. /\ g \o c \in Seq(StatementType) /\ Len(g \o c) = Len(g) + Len(c)
      /\ \A i \in 1..(Len(g) + Len(c)) : (g \o c)[i] = IF i <= Len(g) THEN g[i] ELSE c[i - Len(g)]
    BY ConcatProperties
<1>2. Len(g) \in Nat /\ Len(c) \in Nat BY LenProperties
<1>3. ASSUME NEW i \in 1..Len(g) PROVE i \in 1..Len(g \o c) /\ (g \o c)[i] = g[i]
    <2>1. i \in 1..(Len(g) + Len(c)) /\ i <= Len(g) BY ONLY <1>2, i \in 1..Len(g)
    <2> QED BY ONLY <1>1, <2>1
<1>4. ASSUME NEW i \in 1..Len(c)
      PROVE  Len(g) + i \in 1..Len(g \o c) /\ (g \o c)[Len(g) + i] = c[i]
    <2>1. PICK j \in Nat : j = Len(g) + i BY ONLY <1>2, i \in 1..Len(c)
    <2>2. j \in 1..(Len(g) + Len(c)) /\ ~(j <= Len(g)) /\ j - Len(g) = i
        BY ONLY <1>2, <2>1, i \in 1..Len(c)
    <2>3. (g \o c)[j] = c[j - Len(g)] BY ONLY <1>1, <2>2
    <2> QED BY ONLY <1>1, <2>1, <2>2, <2>3
<1>5. ASSUME NEW i \in 1..Len(g \o c)
      PROVE  i \in 1..Len(g) \/ \E j \in 1..Len(c) : i = Len(g) + j
    <2>1. CASE i <= Len(g) BY ONLY <1>1, <1>2, <2>1, i \in 1..Len(g \o c)
    <2>2. CASE ~(i <= Len(g))
        <3>1. i - Len(g) \in 1..Len(c) /\ i = Len(g) + (i - Len(g))
            BY ONLY <1>1, <1>2, <2>2, i \in 1..Len(g \o c)
        <3> QED BY ONLY <3>1
    <2> QED BY <2>1, <2>2
<1> QED BY ONLY <1>1, <1>2, <1>3, <1>4, <1>5

LEMMA DoesConcat ==
    ASSUME NEW g \in Seq(StatementType), NEW c \in Seq(StatementType), NEW do, NEW n,
           Does(g, do, n) \/ Does(c, do, n)
    PROVE  Does(g \o c, do, n)
<1>1. ASSUME Does(g, do, n) PROVE Does(g \o c, do, n)
    <2>1. PICK i \in 1..Len(g) : g[i].do = do /\ g[i].n = n BY ONLY <1>1 DEF Does
    <2>2. i \in 1..Len(g \o c) /\ (g \o c)[i] = g[i] BY ConcatIs
    <2> QED BY ONLY <2>1, <2>2 DEF Does
<1>2. ASSUME Does(c, do, n) PROVE Does(g \o c, do, n)
    <2>1. PICK i \in 1..Len(c) : c[i].do = do /\ c[i].n = n BY ONLY <1>2 DEF Does
    <2>2. Len(g) + i \in 1..Len(g \o c) /\ (g \o c)[Len(g) + i] = c[i] BY ConcatIs
    <2> QED BY ONLY <2>1, <2>2 DEF Does
<1> QED BY ONLY <1>1, <1>2, Does(g, do, n) \/ Does(c, do, n)

LEMMA NamesLater ==
    ASSUME NEW m \in Nat, NEW slot, NamesSlot(slot, m)
    PROVE  NamesSlot(slot, m + 1)
<1>1. \A k \in 1..m : k \in 1..(m + 1) OBVIOUS
<1> QED BY ONLY <1>1, NamesSlot(slot, m) DEF NamesSlot

LEMMA MayDoLater ==
    ASSUME NEW m \in Nat, m < Len(insts), insts \in Seq(InstType), NEW st, MayDo(st, m)
    PROVE  MayDo(st, m + 1)
<1>1. m # Len(insts) BY ONLY m < Len(insts), m \in Nat, insts \in Seq(InstType), LenProperties
<1>2. \A slot \in Nat : NamesSlot(slot, m) => NamesSlot(slot, m + 1)
    BY ONLY m \in Nat, NamesLater
<1> QED BY ONLY <1>1, <1>2, MayDo(st, m) DEF MayDo

LEMMA AvailableLater ==
    ASSUME NEW m \in Nat, NEW g \in Seq(StatementType), NEW c \in Seq(StatementType),
           NEW i \in 0..Len(g), NEW o, Available(o, g, i, m)
    PROVE  Available(o, g \o c, i, m + 1)
<1>1. NamesSlot(o.n, m) => NamesSlot(o.n, m + 1) BY ONLY m \in Nat, NamesLater
<1>2. ASSUME Computes(o, g, i) PROVE Computes(o, g \o c, i)
    <2>1. PICK h \in 1..i : g[h].do = "handler" /\ g[h].n = o.n BY ONLY <1>2 DEF Computes
    <2>2. h \in 1..Len(g)
        <3>1. Len(g) \in Nat BY LenProperties
        <3> QED BY ONLY <3>1, i \in 0..Len(g), h \in 1..i
    <2>3. (g \o c)[h] = g[h] BY ONLY <2>2, g \in Seq(StatementType), c \in Seq(StatementType), ConcatIs
    <2> QED BY ONLY <1>2, <2>1, <2>3 DEF Computes
<1> QED BY ONLY <1>1, <1>2, Available(o, g, i, m) DEF Available

\* What is named was declared by the code of the instructions before.
LEMMA NamedAvailable ==
    ASSUME NEW m \in Nat, NEW g, IsCode(g, m), NEW o, Named(o, m, insts),
           \A k \in 1..m : insts[k].opcode \in Instruction,
           o.kind = "StackRef" => NamesSlot(o.n, m)
    PROVE  Available(o, g, Len(g), m)
<1>1. /\ o \in Operand
      /\ o.kind = "InstructionRef" =>
            o.n < m /\ ~insts[o.n + 1].ignoreable /\ Ret(insts[o.n + 1].opcode) = 1
    BY ONLY Named(o, m, insts) DEF Named, DefinedIn
<1>2. o.n \in Nat /\ o.kind \in {"Constant", "StackRef", "InstructionRef"} BY ONLY <1>1 DEF Operand
<1>3. ASSUME o.kind = "InstructionRef" PROVE Computes(o, g, Len(g))
    <2>1. PICK k \in 1..m : k = o.n + 1 /\ k - 1 = o.n
        <3>1. ASSUME NEW n \in Nat, n < m PROVE \E k \in 1..m : k = n + 1 /\ k - 1 = n
            <4>1. n + 1 \in 1..m /\ n + 1 = n + 1 /\ n + 1 - 1 = n BY ONLY n \in Nat, m \in Nat, <3>1
            <4> QED BY ONLY <4>1, n \in Nat, m \in Nat
        <3> QED BY ONLY <1>1, <1>2, <1>3, <3>1
    <2>2. HasResult(insts[k])
        BY ONLY <1>1, <1>3, <2>1, \A l \in 1..m : insts[l].opcode \in Instruction DEF HasResult
    <2>3. Does(g, "handler", k - 1) BY ONLY <2>2, IsCode(g, m) DEF IsCode
    <2>4. Does(g, "handler", o.n) BY ONLY <2>1, <2>3
    <2> QED BY ONLY <1>1, <1>3, <2>4 DEF Does, Computes
<1>4. o.kind = "Constant" => IsConstant(o) BY DEF IsConstant
<1> QED BY ONLY <1>2, <1>3, <1>4, o.kind = "StackRef" => NamesSlot(o.n, m) DEF Available

\* What may be printed for instruction k, a jump left out.
MayPrint(c, k) ==
    /\ c \in Seq(StatementType)
    /\ \A i \in 1..Len(c) : MayDo(c[i], k) /\ c[i].uses \subseteq ToSet(insts[k].operands)
    /\ HasResult(insts[k]) => Does(c, "handler", k - 1)
    /\ EndsIt(c, k)

\* The operands of an instruction, by their places.
LEMMA OperandsAre ==
    ASSUME insts \in Seq(InstType), NEW k \in 1..Len(insts)
    PROVE  /\ insts[k].operands \in Seq(Operand) /\ Len(insts[k].operands) \in Nat
           /\ ToSet(insts[k].operands) = {insts[k].operands[j] : j \in 1..Len(insts[k].operands)}
           /\ ToSet(insts[k].operands) \subseteq Operand
<1>1. insts[k] \in InstType BY ElementOfSeq
<1>2. insts[k].operands \in Seq(Operand) BY ONLY <1>1 DEF InstType
<1>3. /\ Len(insts[k].operands) \in Nat
      /\ DOMAIN insts[k].operands = 1..Len(insts[k].operands)
    BY ONLY <1>2, LenProperties
<1>4. ToSet(insts[k].operands) = {insts[k].operands[j] : j \in 1..Len(insts[k].operands)}
    BY ONLY <1>3 DEF ToSet
<1>5. \A j \in 1..Len(insts[k].operands) : insts[k].operands[j] \in Operand
    BY ONLY <1>2, ElementOfSeq
<1> QED BY ONLY <1>2, <1>3, <1>4, <1>5

LEMMA OperandAvailable ==
    ASSUME NamesInv, NEW m \in Nat, m < Len(insts), NEW g, IsCode(g, m),
           NEW o \in ToSet(insts[m + 1].operands)
    PROVE  Available(o, g, Len(g), m) \/ (o.kind = "StackRef" /\ NamesSlot(o.n, m + 1))
<1>1. insts \in Seq(InstType) /\ Len(insts) \in Nat BY LenProperties DEF NamesInv, TypeBB
<1>2. /\ m + 1 \in 1..Len(insts) /\ m + 1 - 1 = m
      /\ \A k \in 1..m : k \in 1..Len(insts) /\ k < Len(insts)
    BY ONLY <1>1, m \in Nat, m < Len(insts)
<1>3. PICK j \in 1..Len(insts[m + 1].operands) : o = insts[m + 1].operands[j]
    BY ONLY <1>1, <1>2, OperandsAre, o \in ToSet(insts[m + 1].operands)
<1>4. Named(o, m, insts)
    <2>1. Named(insts[m + 1].operands[j], m + 1 - 1, insts)
        BY ONLY <1>2, NamesInv DEF NamesInv, CodeIsNamed
    <2> QED BY ONLY <1>2, <1>3, <2>1
<1>5. \A k \in 1..m : insts[k].opcode \in Instruction
    BY ONLY <1>2, NamesInv DEF NamesInv, OnlyLastEnds
<1>6. CASE o.kind = "StackRef"
    <2>1. o \in Operand BY ONLY <1>4 DEF Named
    <2>2. o = StackRef(o.n) BY ONLY <1>6, <2>1 DEF Operand, StackRef
    <2>3. m + 1 \in 1..(m + 1) BY ONLY m \in Nat
    <2> QED BY ONLY <1>3, <1>6, <2>2, <2>3 DEF NamesSlot
<1>7. CASE o.kind # "StackRef"
    BY ONLY <1>4, <1>5, <1>7, IsCode(g, m), m \in Nat, NamedAvailable
<1> QED BY <1>6, <1>7

LEMMA CodeGrows ==
    ASSUME NamesInv, NEW m \in Nat, m < Len(insts), NEW g, IsCode(g, m),
           NEW c, MayPrint(c, m + 1)
    PROVE  IsCode(g \o c, m + 1)
<1>1. g \in Seq(StatementType) /\ c \in Seq(StatementType) BY DEF IsCode, MayPrint
<1>2. /\ g \o c \in Seq(StatementType) /\ Len(g \o c) = Len(g) + Len(c)
      /\ Len(g) \in Nat /\ Len(c) \in Nat
      /\ \A i \in 1..Len(g) : i \in 1..Len(g \o c) /\ (g \o c)[i] = g[i]
      /\ \A i \in 1..Len(c) : Len(g) + i \in 1..Len(g \o c) /\ (g \o c)[Len(g) + i] = c[i]
      /\ \A i \in 1..Len(g \o c) : i \in 1..Len(g) \/ \E j \in 1..Len(c) : i = Len(g) + j
    BY ONLY <1>1, ConcatIs
<1>3. insts \in Seq(InstType) BY DEF NamesInv, TypeBB
<1>4. ASSUME NEW i \in 1..Len(g)
      PROVE  MayDo(g[i], m + 1) /\ \A o \in g[i].uses : Available(o, g \o c, i - 1, m + 1)
    <2>1. MayDo(g[i], m) /\ \A o \in g[i].uses : Available(o, g, i - 1, m)
        BY ONLY IsCode(g, m), i \in 1..Len(g) DEF IsCode
    <2>2. MayDo(g[i], m + 1) BY ONLY <1>3, <2>1, m \in Nat, m < Len(insts), MayDoLater
    <2>3. i - 1 \in 0..Len(g) BY ONLY <1>2, i \in 1..Len(g)
    <2>4. \A o \in g[i].uses : Available(o, g \o c, i - 1, m + 1)
        BY ONLY <1>1, <2>1, <2>3, m \in Nat, AvailableLater
    <2> QED BY ONLY <2>2, <2>4
<1>5. ASSUME NEW j \in 1..Len(c)
      PROVE  /\ MayDo(c[j], m + 1)
             /\ \A o \in c[j].uses : Available(o, g \o c, Len(g) + j - 1, m + 1)
    <2>1. MayDo(c[j], m + 1) /\ c[j].uses \subseteq ToSet(insts[m + 1].operands)
        BY ONLY MayPrint(c, m + 1), j \in 1..Len(c) DEF MayPrint
    <2>2. ASSUME NEW o \in c[j].uses PROVE Available(o, g \o c, Len(g) + j - 1, m + 1)
        <3>1. o \in ToSet(insts[m + 1].operands) BY ONLY <2>1, o \in c[j].uses
        <3>2. Available(o, g, Len(g), m) \/ (o.kind = "StackRef" /\ NamesSlot(o.n, m + 1))
            BY ONLY <3>1, NamesInv, m \in Nat, m < Len(insts), IsCode(g, m), OperandAvailable
        <3>3. Len(g) \in 0..Len(g) BY ONLY <1>2
        <3>4. Available(o, g, Len(g), m) => Available(o, g \o c, Len(g), m + 1)
            BY ONLY <1>1, <3>3, m \in Nat, AvailableLater
        <3>5. \A h \in 1..Len(g) : h \in 1..(Len(g) + j - 1) BY ONLY <1>2, j \in 1..Len(c)
        <3>6. Available(o, g \o c, Len(g), m + 1) => Available(o, g \o c, Len(g) + j - 1, m + 1)
            BY ONLY <3>5 DEF Available, Computes
        <3> QED BY ONLY <3>2, <3>4, <3>6 DEF Available
    <2> QED BY ONLY <2>1, <2>2
<1>6. ASSUME NEW i \in 1..Len(g \o c)
      PROVE  /\ MayDo((g \o c)[i], m + 1)
             /\ \A o \in (g \o c)[i].uses : Available(o, g \o c, i - 1, m + 1)
    <2>1. CASE i \in 1..Len(g)
        <3>1. (g \o c)[i] = g[i] BY ONLY <1>2, <2>1
        <3> QED BY ONLY <1>4, <2>1, <3>1
    <2>2. ASSUME NEW j \in 1..Len(c), i = Len(g) + j
          PROVE  /\ MayDo((g \o c)[i], m + 1)
                 /\ \A o \in (g \o c)[i].uses : Available(o, g \o c, i - 1, m + 1)
        <3>1. (g \o c)[i] = c[j] BY ONLY <1>2, <2>2
        <3> QED BY ONLY <1>5, <2>2, <3>1
    <2> QED BY ONLY <1>2, <2>1, <2>2
<1>7. ASSUME NEW k \in 1..(m + 1), HasResult(insts[k]) PROVE Does(g \o c, "handler", k - 1)
    <2>1. CASE k \in 1..m
        <3>1. Does(g, "handler", k - 1) BY ONLY <1>7, <2>1, IsCode(g, m) DEF IsCode
        <3> QED BY ONLY <1>1, <3>1, DoesConcat
    <2>2. CASE k = m + 1
        <3>1. Does(c, "handler", k - 1) BY ONLY <1>7, <2>2, MayPrint(c, m + 1) DEF MayPrint
        <3> QED BY ONLY <1>1, <3>1, DoesConcat
    <2> QED BY ONLY <2>1, <2>2, k \in 1..(m + 1), m \in Nat
<1>8. EndsIt(g \o c, m + 1)
    <2>1. EndsIt(c, m + 1) BY DEF MayPrint
    <2>2. /\ Does(c, "exit", 0) => Does(g \o c, "exit", 0)
          /\ Does(c, "throw", 0) => Does(g \o c, "throw", 0)
        BY ONLY <1>1, DoesConcat
    <2> QED BY ONLY <2>1, <2>2 DEF EndsIt
<1> QED BY ONLY <1>2, <1>6, <1>7, <1>8 DEF IsCode

-----------------------------------------------------------------------------
(* Printing an instruction *)

\* What only depends on the emulated block stays.
LEMMA BlockStays ==
    ASSUME UNCHANGED bbVars
    PROVE  /\ Finalizer' = Finalizer /\ FinalizerPeeks' = FinalizerPeeks
           /\ Sets' = Sets /\ Drops' = Drops /\ LastOpcode' = LastOpcode /\ Leap' = Leap
           /\ Last(insts)' = Last(insts)
<1>1. insts' = insts /\ stack_sets' = stack_sets /\ returns' = returns /\ pops_at_end' = pops_at_end
    BY DEF bbVars
<1>2. SlotsSet' = SlotsSet BY ONLY <1>1 DEF SlotsSet
<1>3. SetCode' = SetCode BY ONLY <1>1, <1>2 DEF SetCode
<1>4. DropCode' = DropCode BY ONLY <1>1 DEF DropCode
<1>5. ReturnCode' = ReturnCode BY ONLY <1>1 DEF ReturnCode
<1>6. Finalizer' = Finalizer BY ONLY <1>3, <1>4, <1>5 DEF Finalizer
<1>7. FinalizerPeeks' = FinalizerPeeks BY ONLY <1>1 DEF FinalizerPeeks
<1>8. Sets' = Sets /\ Drops' = Drops BY ONLY <1>3, <1>4 DEF Sets, Drops
<1>9. LastOpcode' = LastOpcode /\ Last(insts)' = Last(insts) BY ONLY <1>1 DEF LastOpcode
<1>10. Leap' = Leap BY ONLY <1>6, <1>9 DEF Leap
<1> QED BY ONLY <1>6, <1>7, <1>8, <1>9, <1>10

LEMMA NamesStay ==
    ASSUME UNCHANGED bbVars, NEW slot, NEW m
    PROVE  /\ NamesSlot(slot, m)' <=> NamesSlot(slot, m)
           /\ Wanted(slot, m)' <=> Wanted(slot, m)
           /\ SwappedAway(slot)' <=> SwappedAway(slot)
<1>1. insts' = insts BY DEF bbVars
<1>2. NamesSlot(slot, m)' <=> NamesSlot(slot, m) BY ONLY <1>1 DEF NamesSlot
<1>3. FinalizerPeeks' = FinalizerPeeks BY BlockStays
<1>4. Wanted(slot, m)' <=> Wanted(slot, m) BY ONLY <1>2, <1>3 DEF Wanted
<1>5. SwappedAway(slot)' <=> SwappedAway(slot) BY ONLY <1>1 DEF SwappedAway
<1> QED BY ONLY <1>2, <1>4, <1>5

LEMMA CodeStays ==
    ASSUME UNCHANGED bbVars, NEW g, NEW m
    PROVE  IsCode(g, m)' <=> IsCode(g, m)
<1>1. insts' = insts /\ LastOpcode' = LastOpcode BY BlockStays DEF bbVars
<1>2. \A slot : NamesSlot(slot, m)' <=> NamesSlot(slot, m) BY NamesStay
<1>3. ASSUME NEW st PROVE MayDo(st, m)' <=> MayDo(st, m) BY ONLY <1>1, <1>2 DEF MayDo
<1>4. ASSUME NEW o, NEW i PROVE Available(o, g, i, m)' <=> Available(o, g, i, m)
    <2>1. Computes(o, g, i)' <=> Computes(o, g, i) BY ONLY <1>1 DEF Computes
    <2> QED BY ONLY <1>2, <2>1 DEF Available
<1>5. EndsIt(g, m)' <=> EndsIt(g, m) BY ONLY <1>1 DEF EndsIt
<1>6. ASSUME NEW k PROVE HasResult(insts[k])' <=> HasResult(insts[k]) BY ONLY <1>1 DEF HasResult
<1> QED BY ONLY <1>3, <1>4, <1>5, <1>6 DEF IsCode

LEMMA NamesOfNext ==
    ASSUME insts \in Seq(InstType), NEW m \in Nat, m < Len(insts), NEW slot
    PROVE  /\ NamesSlot(slot, m + 1) <=>
                  NamesSlot(slot, m) \/ slot \in SlotsOf(ToSet(insts[m + 1].operands))
           /\ slot \in SlotsOf(ToSet(insts[m + 1].operands)) => slot \in Nat
<1>1. m + 1 \in 1..Len(insts) BY LenProperties
<1>2. /\ ToSet(insts[m + 1].operands) =
             {insts[m + 1].operands[j] : j \in 1..Len(insts[m + 1].operands)}
      /\ ToSet(insts[m + 1].operands) \subseteq Operand
    BY ONLY <1>1, insts \in Seq(InstType), OperandsAre
<1>3. slot \in SlotsOf(ToSet(insts[m + 1].operands)) <=>
          \E o \in ToSet(insts[m + 1].operands) : o.kind = "StackRef" /\ o.n = slot
    BY ONLY TRUE DEF SlotsOf
<1>4. ASSUME NEW o \in ToSet(insts[m + 1].operands), o.kind = "StackRef", o.n = slot
      PROVE  o = StackRef(slot) /\ slot \in Nat
    <2>1. o \in Operand BY ONLY <1>2, o \in ToSet(insts[m + 1].operands)
    <2> QED BY ONLY <1>4, <2>1 DEF Operand, StackRef
<1>5. StackRef(slot).kind = "StackRef" /\ StackRef(slot).n = slot BY DEF StackRef
<1>6. \A k \in 1..(m + 1) : k \in 1..m \/ k = m + 1 BY ONLY m \in Nat
<1>7. (\A k \in 1..m : k \in 1..(m + 1)) /\ m + 1 \in 1..(m + 1) BY ONLY m \in Nat
<1>8. ASSUME NamesSlot(slot, m + 1)
      PROVE  NamesSlot(slot, m) \/ slot \in SlotsOf(ToSet(insts[m + 1].operands))
    <2>1. PICK k \in 1..(m + 1) :
              \E j \in 1..Len(insts[k].operands) : insts[k].operands[j] = StackRef(slot)
        BY ONLY <1>8 DEF NamesSlot
    <2>2. CASE k \in 1..m BY ONLY <2>1, <2>2 DEF NamesSlot
    <2>3. CASE k = m + 1
        <3>1. StackRef(slot) \in ToSet(insts[m + 1].operands) BY ONLY <1>2, <2>1, <2>3
        <3> QED BY ONLY <1>3, <1>5, <3>1
    <2> QED BY ONLY <1>6, <2>2, <2>3
<1>9. ASSUME slot \in SlotsOf(ToSet(insts[m + 1].operands)) PROVE NamesSlot(slot, m + 1)
    <2>1. StackRef(slot) \in ToSet(insts[m + 1].operands) BY ONLY <1>3, <1>4, <1>9
    <2> QED BY ONLY <1>2, <1>7, <2>1 DEF NamesSlot
<1>10. NamesSlot(slot, m) => NamesSlot(slot, m + 1) BY ONLY m \in Nat, NamesLater
<1> QED BY ONLY <1>3, <1>4, <1>8, <1>9, <1>10

\* Code d is printed for the next instruction, unless it is a jump, and its
\* slots are peeked unless d sets them.
PeeksMove(d) ==
    /\ stack_peeks' \subseteq stack_peeks \cup SlotsOf(Operands)
    /\ \A slot \in stack_peeks \cup SlotsOf(Operands) :
          slot \in stack_peeks' \/ (SwappedAway(slot) /\ Does(d, "set", slot))

\* Code c is printed, of which d is not the jump.
Printing(c, d) ==
    /\ instructions_gen' = Append(instructions_gen, c) /\ c \in Seq(StatementType)
    /\ MayPrint(d, Turn)
    /\ \/ d = c /\ ~is_jump(Inst.opcode) /\ finalizer_emitted' = finalizer_emitted
       \/ d = <<>> /\ Inst.opcode = JUMP /\ c = Leap /\ finalizer_emitted'
       \/ /\ d = <<>> /\ Inst.opcode = JUMPI /\ c = If(Last(insts).operands[2], Leap)
          /\ finalizer_emitted' = finalizer_emitted
    /\ PeeksMove(d)

LEMMA PrintStep ==
    ASSUME NamesInv, PrintInv, stage = "print", Turn <= Len(insts), UNCHANGED bbVars,
           NEW c, NEW d, Printing(c, d)
    PROVE  PrintInv'
<1>1. PICK m \in Nat : PrintsWell(m) BY DEF PrintInv
<1>2. /\ instructions_gen \in Seq(Seq(StatementType)) /\ Len(instructions_gen) = m
      /\ (finalizer_emitted <=> Ends(JUMP)) /\ PeeksAreWanted(m)
    BY ONLY <1>1 DEF PrintsWell, Printed
<1>3. PICK g : IsPrinted(g, m) BY ONLY <1>1 DEF PrintsWell
<1>4. /\ insts \in Seq(InstType) /\ Len(insts) \in Nat /\ insts' = insts
    BY LenProperties DEF NamesInv, TypeBB, bbVars
<1>5. Turn = m + 1 /\ m < Len(insts) /\ m # Len(insts) /\ m + 1 <= Len(insts) /\ m + 1 \in Nat
    BY ONLY <1>2, <1>4, Turn <= Len(insts), m \in Nat DEF Turn
<1>6. /\ instructions_gen' \in Seq(Seq(StatementType)) /\ Len(instructions_gen') = m + 1
      /\ FlattenSeq(instructions_gen') = FlattenSeq(instructions_gen) \o c
    <2>1. instructions_gen' = Append(instructions_gen, c) /\ c \in Seq(StatementType)
        BY DEF Printing
    <2> QED BY ONLY <1>2, <2>1, AppendProperties, FlattenAppend
<1>7. g \in Seq(StatementType) /\ d \in Seq(StatementType) /\ MayPrint(d, m + 1) /\ IsCode(g, m)
    BY ONLY <1>3, <1>5, Printing(c, d) DEF IsPrinted, IsCode, Printing, MayPrint
<1>8. IsCode(g \o d, m + 1) BY ONLY <1>5, <1>7, NamesInv, m \in Nat, CodeGrows
<1>9. Inst = insts[m + 1] /\ Operands = ToSet(insts[m + 1].operands)
    BY ONLY <1>5 DEF Inst, Operands
<1>10. ~Ends(JUMP) /\ ~Ends(JUMPI) /\ JumpCode = <<>>
    BY ONLY <1>2, <1>5 DEF Ends, Printed, JumpCode
<1>11. /\ is_jump(Inst.opcode) => m + 1 = Len(insts)
       /\ m + 1 = Len(insts) => LastOpcode = Inst.opcode
    <2>1. m + 1 \in 1..Len(insts) /\ (m + 1 # Len(insts) => m + 1 < Len(insts))
        BY ONLY <1>4, <1>5
    <2>2. m + 1 < Len(insts) => ~is_jump(insts[m + 1].opcode)
        BY ONLY <2>1, NamesInv DEF NamesInv, OnlyLastEnds
    <2> QED BY ONLY <1>9, <2>1, <2>2 DEF LastOpcode, Last
<1>12. \A op : Ends(op)' <=> m + 1 = Len(insts) /\ Inst.opcode = op
    <2>1. Len(instructions_gen)' = m + 1 /\ Len(insts)' = Len(insts) BY ONLY <1>4, <1>6
    <2>2. LastOpcode' = LastOpcode BY BlockStays
    <2>3. m + 1 = Len(insts) => insts # <<>>
        <3>1. Len(<<>>) = 0 BY EmptySeq
        <3> QED BY ONLY <1>5, <3>1, m \in Nat
    <2>4. ASSUME NEW op PROVE Ends(op)' <=> m + 1 = Len(insts) /\ insts # <<>> /\ LastOpcode = op
        BY ONLY <1>4, <2>1, <2>2 DEF Ends, Printed
    <2> QED BY ONLY <1>11, <2>3, <2>4
<1>13. FlattenSeq(instructions_gen') = (g \o d) \o JumpCode' /\ (finalizer_emitted' <=> Ends(JUMP)')
    <2>1. \A q \in Seq(StatementType) : q \o <<>> = q BY ONLY ConcatEmptySeq
    <2>2. FlattenSeq(instructions_gen') = g \o c
        BY ONLY <1>3, <1>6, <1>7, <1>10, <2>1 DEF IsPrinted
    <2>3. g \o d \in Seq(StatementType) BY ONLY <1>8 DEF IsCode
    <2>4. Leap' = Leap /\ Last(insts)' = Last(insts) BY BlockStays
    <2>5. JUMP # JUMPI BY DEF JUMP, JUMPI
    <2>6. CASE d = c /\ ~is_jump(Inst.opcode) /\ finalizer_emitted' = finalizer_emitted
        <3>1. ~Ends(JUMP)' /\ ~Ends(JUMPI)' BY ONLY <1>12, <2>6 DEF is_jump
        <3>2. JumpCode' = <<>> BY ONLY <3>1 DEF JumpCode
        <3> QED BY ONLY <1>2, <1>10, <2>1, <2>2, <2>3, <2>6, <3>1, <3>2
    <2>7. CASE d = <<>> /\ Inst.opcode = JUMP /\ c = Leap /\ finalizer_emitted'
        <3>1. Ends(JUMP)' BY ONLY <1>11, <1>12, <2>7 DEF is_jump
        <3>2. JumpCode' = Leap BY ONLY <2>4, <3>1 DEF JumpCode
        <3> QED BY ONLY <1>7, <2>1, <2>2, <2>7, <3>1, <3>2
    <2>8. CASE /\ d = <<>> /\ Inst.opcode = JUMPI /\ c = If(Last(insts).operands[2], Leap)
               /\ finalizer_emitted' = finalizer_emitted
        <3>1. ~Ends(JUMP)' /\ Ends(JUMPI)' BY ONLY <1>11, <1>12, <2>5, <2>8 DEF is_jump
        <3>2. JumpCode' = If(Last(insts).operands[2], Leap) BY ONLY <2>4, <3>1 DEF JumpCode
        <3> QED BY ONLY <1>2, <1>7, <1>10, <2>1, <2>2, <2>8, <3>1, <3>2
    <2> QED BY ONLY <2>6, <2>7, <2>8, Printing(c, d) DEF Printing
<1>14. /\ stack_peeks' \subseteq stack_peeks \cup SlotsOf(ToSet(insts[m + 1].operands))
       /\ \A slot \in stack_peeks \cup SlotsOf(ToSet(insts[m + 1].operands)) :
             slot \in stack_peeks' \/ (SwappedAway(slot) /\ Does(d, "set", slot))
    BY ONLY <1>9, Printing(c, d) DEF Printing, PeeksMove
<1>15. \A slot : /\ NamesSlot(slot, m + 1) <=>
                        NamesSlot(slot, m) \/ slot \in SlotsOf(ToSet(insts[m + 1].operands))
                 /\ slot \in SlotsOf(ToSet(insts[m + 1].operands)) => slot \in Nat
    BY ONLY <1>4, <1>5, m \in Nat, NamesOfNext
<1>16. Touches(g \o d, m + 1)'
    <2>1. ASSUME NEW slot \in Nat, NamesSlot(slot, m + 1)
          PROVE  slot \in stack_peeks' \/ Does(g \o d, "set", slot)
        <3>1. CASE slot \in stack_peeks \cup SlotsOf(ToSet(insts[m + 1].operands))
            <4>1. slot \in stack_peeks' \/ Does(d, "set", slot) BY ONLY <1>14, <3>1
            <4> QED BY ONLY <1>7, <4>1, DoesConcat
        <3>2. CASE NamesSlot(slot, m) /\ slot \notin stack_peeks
            <4>1. Does(g, "set", slot)
                BY ONLY <1>3, <3>2, slot \in Nat DEF IsPrinted, Touches
            <4> QED BY ONLY <1>7, <4>1, DoesConcat
        <3> QED BY ONLY <1>15, <2>1, <3>1, <3>2
    <2>2. \A slot : NamesSlot(slot, m + 1)' <=> NamesSlot(slot, m + 1) BY NamesStay
    <2> QED BY ONLY <2>1, <2>2 DEF Touches, Does
<1>17. PeeksAreWanted(m + 1)'
    <2>1. HasBound(stack_peeks')
        <3>1. HasBound(stack_peeks) BY ONLY <1>2 DEF PeeksAreWanted
        <3>2. m + 1 \in 1..Len(insts) BY ONLY <1>4, <1>5
        <3>3. insts[m + 1].operands \in Seq(Operand) BY ONLY <1>4, <3>2, OperandsAre
        <3>4. HasBound(SlotsOf(ToSet(insts[m + 1].operands))) BY ONLY <3>3, OperandsBounded
        <3>5. HasBound(stack_peeks \cup SlotsOf(ToSet(insts[m + 1].operands)))
            BY ONLY <3>1, <3>4, UnionBounded
        <3> QED BY ONLY <1>14, <3>5, SubsetBounded
    <2>2. ASSUME NEW slot \in stack_peeks' PROVE Wanted(slot, m + 1)
        <3>1. slot \in stack_peeks => Wanted(slot, m) BY ONLY <1>2 DEF PeeksAreWanted
        <3> QED BY ONLY <1>14, <1>15, <3>1, slot \in stack_peeks' DEF Wanted
    <2>3. ASSUME NEW slot \in Nat, Wanted(slot, m + 1)
          PROVE  slot \in stack_peeks' \/ SwappedAway(slot)
        <3>1. Wanted(slot, m) => slot \in stack_peeks \/ SwappedAway(slot)
            BY ONLY <1>2, slot \in Nat DEF PeeksAreWanted
        <3>2. Wanted(slot, m) \/ slot \in SlotsOf(ToSet(insts[m + 1].operands))
            BY ONLY <1>15, <2>3 DEF Wanted
        <3> QED BY ONLY <1>14, <3>1, <3>2
    <2>4. \A slot : /\ Wanted(slot, m + 1)' <=> Wanted(slot, m + 1)
                    /\ SwappedAway(slot)' <=> SwappedAway(slot)
        BY NamesStay
    <2> QED BY ONLY <2>1, <2>2, <2>3, <2>4 DEF PeeksAreWanted
<1>18. IsPrinted(g \o d, m + 1)'
    <2>1. IsCode(g \o d, m + 1)' BY <1>8, CodeStays
    <2> QED BY ONLY <1>13, <1>16, <2>1 DEF IsPrinted
<1>19. PrintsWell(m + 1)'
    <2>1. Len(insts)' = Len(insts) BY ONLY <1>4
    <2> QED BY ONLY <1>5, <1>6, <1>13, <1>17, <1>18, <2>1 DEF PrintsWell, Printed
<1> QED BY ONLY <1>5, <1>19 DEF PrintInv

\* The instruction to be printed.
LEMMA InstIs ==
    ASSUME NamesInv, PrintInv, stage = "print", Turn <= Len(insts)
    PROVE  /\ Turn \in 1..Len(insts) /\ Turn - 1 \in Nat
           /\ Inst = insts[Turn] /\ Inst.opcode \in Byte /\ WellFormed(Inst)
           /\ Inst.ignoreable \in BOOLEAN
           /\ Inst.operands \in Seq(Operand) /\ Len(Inst.operands) \in Nat
           /\ Operands = {Inst.operands[j] : j \in 1..Len(Inst.operands)}
           /\ Operands \subseteq Operand
           /\ Turn = Len(insts) => LastOpcode = Inst.opcode /\ Last(insts) = Inst
           /\ is_jump(Inst.opcode) \/ stops(Inst.opcode) \/ Inst.opcode \notin Instruction =>
                 Turn = Len(insts)
<1>1. PICK m \in Nat : PrintsWell(m) BY DEF PrintInv
<1>2. Len(instructions_gen) = m BY ONLY <1>1 DEF PrintsWell, Printed
<1>3. insts \in Seq(InstType) /\ Len(insts) \in Nat BY LenProperties DEF NamesInv, TypeBB
<1>4. Turn \in 1..Len(insts) /\ Turn - 1 \in Nat /\ (Turn # Len(insts) => Turn < Len(insts))
    BY ONLY <1>2, <1>3, m \in Nat, Turn <= Len(insts) DEF Turn
<1>5. Inst = insts[Turn] BY DEF Inst
<1>6. Inst \in InstType BY ONLY <1>3, <1>4, <1>5, ElementOfSeq
<1>7. Inst.opcode \in Byte /\ Inst.ignoreable \in BOOLEAN BY ONLY <1>6 DEF InstType
<1>8. /\ Inst.operands \in Seq(Operand) /\ Len(Inst.operands) \in Nat
      /\ Operands = {Inst.operands[j] : j \in 1..Len(Inst.operands)}
      /\ Operands \subseteq Operand
    BY ONLY <1>3, <1>4, <1>5, OperandsAre DEF Operands
<1>9. WellFormed(Inst) BY ONLY <1>4, <1>5, NamesInv DEF NamesInv, CodeIsNamed
<1>10. Turn = Len(insts) => LastOpcode = Inst.opcode /\ Last(insts) = Inst
    BY ONLY <1>5 DEF LastOpcode, Last
<1>11. is_jump(Inst.opcode) \/ stops(Inst.opcode) \/ Inst.opcode \notin Instruction =>
           Turn = Len(insts)
    BY ONLY <1>4, <1>5, NamesInv DEF NamesInv, OnlyLastEnds
<1> QED BY ONLY <1>4, <1>5, <1>7, <1>8, <1>9, <1>10, <1>11

\* Statements that may be printed for instruction k.
May(c, k) ==
    /\ c \in Seq(StatementType)
    /\ \A i \in 1..Len(c) : MayDo(c[i], k) /\ c[i].uses \subseteq ToSet(insts[k].operands)

LEMMA MayNone == ASSUME NEW k PROVE May(<<>>, k)
<1>1. <<>> \in Seq(StatementType) /\ Len(<<>>) = 0 BY EmptySeq
<1>2. \A i : i \notin 1..0 OBVIOUS
<1> QED BY ONLY <1>1, <1>2 DEF May

LEMMA OneStatement ==
    ASSUME NEW st \in StatementType
    PROVE  /\ <<st>> \in Seq(StatementType) /\ Len(<<st>>) = 1 /\ <<st>>[1] = st
           /\ Does(<<st>>, st.do, st.n)
<1>1. <<st>> \in Seq(StatementType) /\ Len(<<st>>) = 1 /\ <<st>>[1] = st OBVIOUS
<1>2. 1 \in 1..1 OBVIOUS
<1> QED BY ONLY <1>1, <1>2 DEF Does

LEMMA MayOne ==
    ASSUME NEW k, NEW st \in StatementType, MayDo(st, k), st.uses \subseteq ToSet(insts[k].operands)
    PROVE  May(<<st>>, k)
<1>1. <<st>> \in Seq(StatementType) /\ Len(<<st>>) = 1 /\ <<st>>[1] = st BY OneStatement
<1>2. \A i \in 1..1 : i = 1 OBVIOUS
<1> QED BY ONLY <1>1, <1>2, MayDo(st, k), st.uses \subseteq ToSet(insts[k].operands) DEF May

LEMMA MayConcat ==
    ASSUME NEW k, NEW c, May(c, k), NEW d, May(d, k)
    PROVE  May(c \o d, k)
<1>1. c \in Seq(StatementType) /\ d \in Seq(StatementType) BY DEF May
<1>2. /\ c \o d \in Seq(StatementType)
      /\ \A i \in 1..Len(c) : (c \o d)[i] = c[i]
      /\ \A i \in 1..Len(d) : (c \o d)[Len(c) + i] = d[i]
      /\ \A i \in 1..Len(c \o d) : i \in 1..Len(c) \/ \E j \in 1..Len(d) : i = Len(c) + j
    BY ONLY <1>1, ConcatIs
<1>3. ASSUME NEW i \in 1..Len(c \o d)
      PROVE  MayDo((c \o d)[i], k) /\ (c \o d)[i].uses \subseteq ToSet(insts[k].operands)
    <2>1. CASE i \in 1..Len(c)
        <3>1. (c \o d)[i] = c[i] BY ONLY <1>2, <2>1
        <3>2. MayDo(c[i], k) /\ c[i].uses \subseteq ToSet(insts[k].operands)
            BY ONLY <2>1, May(c, k) DEF May
        <3> QED BY ONLY <3>1, <3>2
    <2>2. ASSUME NEW j \in 1..Len(d), i = Len(c) + j
          PROVE  MayDo((c \o d)[i], k) /\ (c \o d)[i].uses \subseteq ToSet(insts[k].operands)
        <3>1. (c \o d)[i] = d[j] BY ONLY <1>2, <2>2
        <3>2. MayDo(d[j], k) /\ d[j].uses \subseteq ToSet(insts[k].operands)
            BY ONLY May(d, k) DEF May
        <3> QED BY ONLY <3>1, <3>2
    <2> QED BY ONLY <1>2, <2>1, <2>2
<1> QED BY ONLY <1>2, <1>3 DEF May

\* Jumps, swaps and what ends a block are different and have no result.
LEMMA Sorts ==
    /\ JUMP \in Instruction /\ JUMPI \in Instruction /\ JUMP # JUMPI
    /\ ~stops(JUMP) /\ ~stops(JUMPI) /\ Ret(JUMP) = 0 /\ Ret(JUMPI) = 0
    /\ Args(JUMP) = 1 /\ Args(JUMPI) = 2
    /\ \A op \in Byte : is_swap(op) =>
          op \in Instruction /\ ~stops(op) /\ ~is_jump(op) /\ Ret(op) # 1
    /\ \A op : stops(op) => op \in Instruction /\ ~is_jump(op)
<1>1. JUMP \in Instruction /\ JUMPI \in Instruction /\ JUMP # JUMPI
    BY DEF JUMP, JUMPI, Instruction
<1>2. ~stops(JUMP) /\ ~stops(JUMPI)
    BY DEF JUMP, JUMPI, stops, SELFDESTRUCT, STOP, REVERT, RETURN, INVALID
<1>3. Ret(JUMP) = 0 /\ Ret(JUMPI) = 0 /\ Args(JUMP) = 1 /\ Args(JUMPI) = 2
    BY DEF JUMP, JUMPI, Ret, Args, is_dup, is_swap, DUP1, DUP16, SWAP1, SWAP16
<1>4. ASSUME NEW op \in Byte, is_swap(op)
      PROVE  op \in Instruction /\ ~stops(op) /\ ~is_jump(op) /\ Ret(op) # 1
    BY <1>4, Classes
<1>5. ASSUME NEW op, stops(op) PROVE op \in Instruction /\ ~is_jump(op)
    BY <1>5 DEF stops, SELFDESTRUCT, STOP, REVERT, RETURN, INVALID, Instruction, is_jump, JUMP, JUMPI
<1> QED BY ONLY <1>1, <1>2, <1>3, <1>4, <1>5

LEMMA PeeksAll == ASSUME PeeksOperands, NEW d PROVE PeeksMove(d)
BY DEF PeeksOperands, PeeksMove

LEMMA PrintsIgnoreable == NamesInv /\ PrintInv /\ PrintIgnoreable => PrintInv'
<1> SUFFICES ASSUME NamesInv, PrintInv, PrintIgnoreable PROVE PrintInv' OBVIOUS
<1>1. /\ stage = "print" /\ Turn <= Len(insts) /\ UNCHANGED bbVars /\ Inst.ignoreable
      /\ instructions_gen' = Append(instructions_gen, <<>>) /\ PeeksOperands
      /\ finalizer_emitted' = finalizer_emitted
    BY DEF PrintIgnoreable, Prints
<1>2. /\ Inst = insts[Turn] /\ WellFormed(Inst)
      /\ Turn = Len(insts) => LastOpcode = Inst.opcode
    BY <1>1, InstIs
<1>3. ~is_jump(Inst.opcode) /\ ~stops(Inst.opcode) /\ Inst.opcode \in Instruction
    BY ONLY <1>1, <1>2 DEF WellFormed
<1>4. MayPrint(<<>>, Turn)
    <2>1. EndsIt(<<>>, Turn) BY ONLY <1>2, <1>3 DEF EndsIt
    <2>2. ~HasResult(insts[Turn]) BY ONLY <1>1, <1>2 DEF HasResult
    <2> QED BY ONLY <2>1, <2>2, MayNone DEF MayPrint, May
<1>5. PeeksMove(<<>>) BY ONLY <1>1, PeeksAll
<1>6. Printing(<<>>, <<>>) BY ONLY <1>1, <1>3, <1>4, <1>5 DEF Printing, MayPrint
<1> QED BY ONLY <1>1, <1>6, NamesInv, PrintInv, PrintStep

\* Code for jumps is no code of its own.
LEMMA JumpPrints ==
    ASSUME NamesInv, PrintInv, stage = "print", Turn <= Len(insts), is_jump(Inst.opcode)
    PROVE  /\ MayPrint(<<>>, Turn) /\ Last(insts) = Inst
           /\ Inst.operands[1] \in Operand
           /\ Inst.opcode = JUMPI => Inst.operands[2] \in Operand
<1>1. /\ Turn = Len(insts) /\ LastOpcode = Inst.opcode /\ Last(insts) = Inst
      /\ Inst = insts[Turn] /\ WellFormed(Inst) /\ Inst.operands \in Seq(Operand)
    BY InstIs
<1>2. Inst.opcode = JUMP \/ Inst.opcode = JUMPI BY DEF is_jump
<1>3. MayPrint(<<>>, Turn)
    <2>1. EndsIt(<<>>, Turn) BY ONLY <1>1, <1>2, Sorts DEF EndsIt
    <2>2. Ret(Inst.opcode) = 0 BY ONLY <1>2, Sorts
    <2>3. ~HasResult(insts[Turn]) BY ONLY <1>1, <2>2 DEF HasResult
    <2> QED BY ONLY <2>1, <2>3, MayNone DEF MayPrint, May
<1>4. Len(Inst.operands) = Args(Inst.opcode) BY ONLY <1>1, is_jump(Inst.opcode) DEF WellFormed
<1>5. 1 \in 1..Len(Inst.operands) /\ (Inst.opcode = JUMPI => 2 \in 1..Len(Inst.operands))
    BY ONLY <1>2, <1>4, Sorts
<1>6. Inst.operands[1] \in Operand /\ (Inst.opcode = JUMPI => Inst.operands[2] \in Operand)
    BY ONLY <1>1, <1>5, ElementOfSeq
<1> QED BY ONLY <1>1, <1>3, <1>6

LEMMA LeapIs ==
    ASSUME FinalizerFacts, Last(insts).operands[1] \in Operand
    PROVE  /\ Leap \in Seq(StatementType) /\ Len(Leap) = Len(Finalizer) + 1
           /\ \A j \in 1..Len(Finalizer) : Leap[j] = Finalizer[j]
           /\ Leap[Len(Finalizer) + 1].do = "jump"
           /\ Leap[Len(Finalizer) + 1].uses = {Last(insts).operands[1]}
<1> DEFINE o == Last(insts).operands[1]
<1>1. Finalizer \in Seq(StatementType) BY DEF FinalizerFacts
<1>2. Goto(o) \in StatementType /\ Goto(o).do = "jump" /\ Goto(o).uses = {o}
    <2>1. "jump" \in Deed /\ 0 \in Nat /\ {o} \in SUBSET Operand BY DEF Deed
    <2> HIDE DEF o
    <2> QED BY ONLY <2>1, StatementIs DEF Goto
<1>3. Leap = Finalizer \o <<Goto(o)>> BY DEF Leap
<1> HIDE DEF o
<1>4. <<Goto(o)>> \in Seq(StatementType) /\ Len(<<Goto(o)>>) = 1 /\ <<Goto(o)>>[1] = Goto(o)
    BY ONLY <1>2, OneStatement
<1>5. 1 \in 1..1 OBVIOUS
<1>6. /\ Leap \in Seq(StatementType) /\ Len(Leap) = Len(Finalizer) + 1
      /\ \A j \in 1..Len(Finalizer) : Leap[j] = Finalizer[j]
      /\ Leap[Len(Finalizer) + 1] = Goto(o)
    BY ONLY <1>1, <1>3, <1>4, <1>5, ConcatIs
<1> QED BY ONLY <1>2, <1>6 DEF o

LEMMA PrintsJump == NamesInv /\ EmitType /\ PrintInv /\ PrintJump => PrintInv'
<1> SUFFICES ASSUME NamesInv, EmitType, PrintInv, PrintJump PROVE PrintInv' OBVIOUS
<1>1. /\ stage = "print" /\ Turn <= Len(insts) /\ UNCHANGED bbVars /\ Inst.opcode = JUMP
      /\ instructions_gen' = Append(instructions_gen, Finalizer \o <<Goto(Inst.operands[1])>>)
      /\ PeeksOperands /\ finalizer_emitted'
    BY DEF PrintJump, Prints, Emits
<1>2. is_jump(Inst.opcode) BY ONLY <1>1 DEF is_jump
<1>3. MayPrint(<<>>, Turn) /\ Last(insts) = Inst /\ Inst.operands[1] \in Operand
    BY <1>1, <1>2, JumpPrints
<1>4. FinalizerFacts BY FinalizerIs DEF NamesInv, EmitType
<1>5. Leap \in Seq(StatementType) BY ONLY <1>3, <1>4, LeapIs
<1>6. instructions_gen' = Append(instructions_gen, Leap) BY ONLY <1>1, <1>3 DEF Leap
<1>7. PeeksMove(<<>>) BY ONLY <1>1, PeeksAll
<1>8. Printing(Leap, <<>>) BY ONLY <1>1, <1>3, <1>5, <1>6, <1>7 DEF Printing
<1> QED BY ONLY <1>1, <1>8, NamesInv, PrintInv, PrintStep

LEMMA IfIs ==
    ASSUME NEW body \in Seq(StatementType), NEW o \in Operand
    PROVE  /\ If(o, body) \in Seq(StatementType) /\ Len(If(o, body)) = Len(body) + 1
           /\ If(o, body)[1] = Statement("if", Len(body), {o})
           /\ Statement("if", Len(body), {o}) \in StatementType
           /\ \A j \in 1..Len(body) : If(o, body)[1 + j] = body[j]
<1> DEFINE st == Statement("if", Len(body), {o})
<1>1. st \in StatementType
    <2>1. "if" \in Deed /\ {o} \in SUBSET Operand /\ Len(body) \in Nat BY LenProperties DEF Deed
    <2> QED BY ONLY <2>1, StatementIs
<1>2. If(o, body) = <<st>> \o body BY DEF If
<1> HIDE DEF st
<1>3. <<st>> \in Seq(StatementType) /\ Len(<<st>>) = 1 /\ <<st>>[1] = st BY ONLY <1>1, OneStatement
<1>4. 1 \in 1..1 OBVIOUS
<1>5. /\ If(o, body) \in Seq(StatementType) /\ Len(If(o, body)) = 1 + Len(body)
      /\ Len(body) \in Nat
      /\ If(o, body)[1] = st
      /\ \A j \in 1..Len(body) : If(o, body)[1 + j] = body[j]
    BY ONLY <1>2, <1>3, <1>4, body \in Seq(StatementType), ConcatIs
<1>6. 1 + Len(body) = Len(body) + 1 BY ONLY <1>5
<1> QED BY ONLY <1>1, <1>5, <1>6 DEF st

LEMMA PrintsJumpI == NamesInv /\ EmitType /\ PrintInv /\ PrintJumpI => PrintInv'
<1> SUFFICES ASSUME NamesInv, EmitType, PrintInv, PrintJumpI PROVE PrintInv' OBVIOUS
<1>1. /\ stage = "print" /\ Turn <= Len(insts) /\ UNCHANGED bbVars /\ Inst.opcode = JUMPI
      /\ instructions_gen' = Append(instructions_gen,
             If(Inst.operands[2], Finalizer \o <<Goto(Inst.operands[1])>>))
      /\ PeeksOperands /\ finalizer_emitted' = finalizer_emitted
    BY DEF PrintJumpI, Prints, Emits
<1>2. is_jump(Inst.opcode) BY ONLY <1>1 DEF is_jump
<1>3. /\ MayPrint(<<>>, Turn) /\ Last(insts) = Inst /\ Inst.operands[1] \in Operand
      /\ Inst.operands[2] \in Operand
    BY <1>1, <1>2, JumpPrints
<1>4. FinalizerFacts BY FinalizerIs DEF NamesInv, EmitType
<1>5. Leap \in Seq(StatementType) BY ONLY <1>3, <1>4, LeapIs
<1>6. instructions_gen' = Append(instructions_gen, If(Last(insts).operands[2], Leap))
    BY ONLY <1>1, <1>3 DEF Leap
<1>7. If(Last(insts).operands[2], Leap) \in Seq(StatementType) BY ONLY <1>3, <1>5, IfIs
<1>8. PeeksMove(<<>>) BY ONLY <1>1, PeeksAll
<1>9. Printing(If(Last(insts).operands[2], Leap), <<>>)
    BY ONLY <1>1, <1>3, <1>6, <1>7, <1>8 DEF Printing
<1> QED BY ONLY <1>1, <1>9, NamesInv, PrintInv, PrintStep

\* A swap is printed as assignments to slots it names.
LEMMA SwapPrints ==
    ASSUME NamesInv, PrintInv, stage = "print", Turn <= Len(insts), Emits, is_swap(Inst.opcode)
    PROVE  /\ Turn \in Nat /\ ~is_jump(Inst.opcode)
           /\ Inst.operands[2] = StackRef(Inst.operands[2].n) /\ Inst.operands[2].n \in Nat
           /\ May(<<SetSlot(Inst.operands[2].n, Inst.operands[1])>>, Turn)
           /\ Does(<<SetSlot(Inst.operands[2].n, Inst.operands[1])>>, "set", Inst.operands[2].n)
           /\ Inst.operands[1].kind = "StackRef" => May(<<SetSlot(0, Inst.operands[2])>>, Turn)
           /\ \A c : May(c, Turn) => MayPrint(c, Turn)
<1> DEFINE x == Inst.operands[1]
           y == Inst.operands[2]
<1>1. /\ Turn \in 1..Len(insts) /\ Inst = insts[Turn] /\ Inst.opcode \in Byte /\ WellFormed(Inst)
      /\ Inst.operands \in Seq(Operand)
      /\ Operands = {Inst.operands[j] : j \in 1..Len(Inst.operands)} /\ Operands \subseteq Operand
      /\ Turn = Len(insts) => LastOpcode = Inst.opcode
    BY InstIs
<1>2. Turn \in Nat /\ Turn \in 1..Turn
    <2>1. insts \in Seq(InstType) /\ Len(insts) \in Nat BY LenProperties DEF NamesInv, TypeBB
    <2> QED BY ONLY <1>1, <2>1
<1>3. Inst.opcode \in Instruction /\ ~Inst.ignoreable BY ONLY Emits DEF Emits
<1>4. ~is_jump(Inst.opcode) /\ ~stops(Inst.opcode) /\ Ret(Inst.opcode) # 1
    BY ONLY <1>1, is_swap(Inst.opcode), Sorts
<1>5. Len(Inst.operands) = 2 /\ y.kind = "StackRef"
    BY ONLY <1>1, <1>3, is_swap(Inst.opcode) DEF WellFormed
<1>6. 1 \in 1..Len(Inst.operands) /\ 2 \in 1..Len(Inst.operands) BY ONLY <1>5
<1>7. x \in Operands /\ y \in Operands BY ONLY <1>1, <1>6
<1> HIDE DEF x, y
<1>8. x \in Operand /\ y \in Operand BY ONLY <1>1, <1>7
<1>9. y = StackRef(y.n) /\ y.n \in Nat /\ x.n \in Nat BY ONLY <1>5, <1>8 DEF Operand, StackRef
<1>10. ToSet(insts[Turn].operands) = Operands BY ONLY <1>1 DEF Operands
<1>11. NamesSlot(y.n, Turn)
    <2>1. insts[Turn].operands[2] = StackRef(y.n) BY ONLY <1>1, <1>9 DEF y
    <2> QED BY ONLY <1>1, <1>2, <1>6, <2>1 DEF NamesSlot
<1>12. x.kind = "StackRef" => NamesSlot(x.n, Turn)
    <2>1. SUFFICES ASSUME x.kind = "StackRef" PROVE NamesSlot(x.n, Turn) OBVIOUS
    <2>2. x = StackRef(x.n) BY ONLY <1>8, <2>1 DEF Operand, StackRef
    <2>3. insts[Turn].operands[1] = StackRef(x.n) BY ONLY <1>1, <2>2 DEF x
    <2> QED BY ONLY <1>1, <1>2, <1>6, <2>3 DEF NamesSlot
<1>13. ASSUME NEW n \in Nat, NEW o \in Operands, NEW slot \in Nat, n <= slot, NamesSlot(slot, Turn)
       PROVE  /\ May(<<SetSlot(n, o)>>, Turn)
              /\ Does(<<SetSlot(n, o)>>, "set", n)
    <2>1. "set" \in Deed /\ {o} \in SUBSET Operand BY ONLY <1>1, o \in Operands DEF Deed
    <2>2. /\ SetSlot(n, o) \in StatementType /\ SetSlot(n, o).do = "set" /\ SetSlot(n, o).n = n
          /\ SetSlot(n, o).uses = {o}
        BY ONLY <2>1, n \in Nat, StatementIs DEF SetSlot
    <2>3. MayDo(SetSlot(n, o), Turn) BY ONLY <1>13, <2>2 DEF MayDo
    <2>4. SetSlot(n, o).uses \subseteq ToSet(insts[Turn].operands)
        BY ONLY <1>10, <2>2, o \in Operands
    <2>5. May(<<SetSlot(n, o)>>, Turn) BY ONLY <2>2, <2>3, <2>4, MayOne
    <2>6. Does(<<SetSlot(n, o)>>, SetSlot(n, o).do, SetSlot(n, o).n) BY ONLY <2>2, OneStatement
    <2> QED BY ONLY <2>2, <2>5, <2>6
<1>14. /\ May(<<SetSlot(y.n, x)>>, Turn) /\ Does(<<SetSlot(y.n, x)>>, "set", y.n)
       /\ x.kind = "StackRef" => May(<<SetSlot(0, y)>>, Turn)
    <2>1. y.n <= y.n /\ 0 <= x.n /\ 0 \in Nat BY ONLY <1>9
    <2> QED BY ONLY <1>7, <1>9, <1>11, <1>12, <1>13, <2>1
<1>15. ASSUME NEW c, May(c, Turn) PROVE MayPrint(c, Turn)
    <2>1. EndsIt(c, Turn) BY ONLY <1>1, <1>3, <1>4 DEF EndsIt
    <2>2. ~HasResult(insts[Turn]) BY ONLY <1>1, <1>4 DEF HasResult
    <2> QED BY ONLY <1>15, <2>1, <2>2 DEF MayPrint, May
<1> QED BY ONLY <1>2, <1>4, <1>9, <1>14, <1>15 DEF x, y

LEMMA PrintsSwap == NamesInv /\ PrintInv /\ PrintSwap => PrintInv'
<1> SUFFICES ASSUME NamesInv, PrintInv, PrintSwap PROVE PrintInv' OBVIOUS
<1> DEFINE x == Inst.operands[1]
           y == Inst.operands[2]
           top == IF x.kind = "StackRef" THEN <<SetSlot(0, y)>> ELSE <<>>
           c == <<SetSlot(y.n, x)>> \o top
<1>1. /\ stage = "print" /\ Turn <= Len(insts) /\ UNCHANGED bbVars
      /\ Emits /\ is_swap(Inst.opcode)
      /\ instructions_gen' = Append(instructions_gen, c) /\ PeeksOperands
      /\ finalizer_emitted' = finalizer_emitted
    BY DEF PrintSwap, Prints
<1>2. /\ ~is_jump(Inst.opcode)
      /\ May(<<SetSlot(y.n, x)>>, Turn)
      /\ x.kind = "StackRef" => May(<<SetSlot(0, y)>>, Turn)
      /\ \A d : May(d, Turn) => MayPrint(d, Turn)
    BY <1>1, SwapPrints
<1>3. May(top, Turn) BY ONLY <1>2, MayNone
<1> HIDE DEF top
<1>4. May(c, Turn) BY ONLY <1>2, <1>3, MayConcat
<1> HIDE DEF c
<1>5. MayPrint(c, Turn) BY ONLY <1>2, <1>4
<1>6. c \in Seq(StatementType) BY ONLY <1>5 DEF MayPrint
<1>7. PeeksMove(c) BY ONLY <1>1, PeeksAll
<1>8. Printing(c, c) BY ONLY <1>1, <1>2, <1>5, <1>6, <1>7 DEF Printing
<1> QED BY ONLY <1>1, <1>8, NamesInv, PrintInv, PrintStep

LEMMA PrintsSwapOfConstant == NamesInv /\ PrintInv /\ PrintSwapOfConstant => PrintInv'
<1> SUFFICES ASSUME NamesInv, PrintInv, PrintSwapOfConstant PROVE PrintInv' OBVIOUS
<1> DEFINE x == Inst.operands[1]
           y == Inst.operands[2]
           c == <<SetSlot(y.n, x)>>
<1>1. /\ stage = "print" /\ Turn <= Len(insts) /\ UNCHANGED bbVars
      /\ Emits /\ is_swap(Inst.opcode) /\ IsConstant(x)
      /\ instructions_gen' = Append(instructions_gen, c)
      /\ stack_peeks' = (stack_peeks \cup SlotsOf(Operands)) \ {y.n}
      /\ finalizer_emitted' = finalizer_emitted
    BY DEF PrintSwapOfConstant, Prints
<1>2. /\ ~is_jump(Inst.opcode)
      /\ y = StackRef(y.n)
      /\ May(c, Turn) /\ Does(c, "set", y.n)
      /\ \A d : May(d, Turn) => MayPrint(d, Turn)
    BY <1>1, SwapPrints
<1>3. Turn \in 1..Len(insts) /\ Inst = insts[Turn] BY <1>1, InstIs
<1> HIDE DEF c
<1>4. MayPrint(c, Turn) BY ONLY <1>2
<1>5. c \in Seq(StatementType) BY ONLY <1>4 DEF MayPrint
<1>6. SwappedAway(y.n)
    <2>1. insts[Turn].operands[2] = StackRef(y.n) BY ONLY <1>2, <1>3
    <2>2. IsConstant(insts[Turn].operands[1]) BY ONLY <1>1, <1>3
    <2>3. is_swap(insts[Turn].opcode) /\ ~insts[Turn].ignoreable BY ONLY <1>1, <1>3 DEF Emits
    <2> QED BY ONLY <1>3, <2>1, <2>2, <2>3 DEF SwappedAway
<1> HIDE DEF y
<1>7. PeeksMove(c) BY ONLY <1>1, <1>2, <1>6 DEF PeeksMove
<1>8. Printing(c, c) BY ONLY <1>1, <1>2, <1>4, <1>5, <1>7 DEF Printing
<1> QED BY ONLY <1>1, <1>8, NamesInv, PrintInv, PrintStep

\* The call of a handler, what leaves the block after it included.
LEMMA PrintsHandler == NamesInv /\ PrintInv /\ PrintHandler => PrintInv'
<1> SUFFICES ASSUME NamesInv, PrintInv, PrintHandler PROVE PrintInv' OBVIOUS
<1> DEFINE op == Inst.opcode
           h == <<Handler(Turn - 1, Operands)>>
           e == IF stops(op) THEN <<Exit>> ELSE <<>>
           f == IF MayFail(op) THEN <<ExitOnError>> ELSE <<>>
           c == (h \o e) \o f
<1>1. /\ stage = "print" /\ Turn <= Len(insts) /\ UNCHANGED bbVars
      /\ Emits /\ ~is_jump(op)
      /\ instructions_gen' = Append(instructions_gen, c) /\ PeeksOperands
      /\ finalizer_emitted' = finalizer_emitted
    BY DEF PrintHandler, Prints
<1>2. /\ Turn \in 1..Len(insts) /\ Turn - 1 \in Nat /\ Inst = insts[Turn]
      /\ Operands \subseteq Operand
      /\ Turn = Len(insts) => LastOpcode = op
      /\ stops(op) => Turn = Len(insts)
    BY <1>1, InstIs
<1>3. op \in Instruction BY ONLY <1>1 DEF Emits
<1>4. /\ May(h, Turn) /\ h \in Seq(StatementType) /\ Does(h, "handler", Turn - 1)
    <2>1. "handler" \in Deed /\ Operands \in SUBSET Operand BY ONLY <1>2 DEF Deed
    <2> DEFINE st == Handler(Turn - 1, Operands)
    <2>2. /\ st \in StatementType /\ st.do = "handler" /\ st.n = Turn - 1 /\ st.uses = Operands
        BY ONLY <1>2, <2>1, StatementIs DEF Handler
    <2> HIDE DEF st
    <2>3. MayDo(st, Turn) BY ONLY <2>2 DEF MayDo
    <2>4. ToSet(insts[Turn].operands) = Operands BY ONLY <1>2 DEF Operands
    <2>5. May(<<st>>, Turn) BY ONLY <2>2, <2>3, <2>4, MayOne
    <2>6. <<st>> \in Seq(StatementType) /\ Does(<<st>>, st.do, st.n) BY ONLY <2>2, OneStatement
    <2> QED BY ONLY <2>2, <2>5, <2>6 DEF st
<1>5. /\ May(e, Turn) /\ e \in Seq(StatementType) /\ (stops(op) => Does(e, "exit", 0))
    <2>1. "exit" \in Deed /\ 0 \in Nat /\ {} \in SUBSET Operand BY DEF Deed
    <2>2. Exit \in StatementType /\ Exit.do = "exit" /\ Exit.n = 0 /\ Exit.uses = {}
        BY ONLY <2>1, StatementIs DEF Exit
    <2>3. ASSUME stops(op) PROVE /\ May(<<Exit>>, Turn) /\ Does(<<Exit>>, "exit", 0)
        <3>1. MayDo(Exit, Turn) BY ONLY <1>2, <2>2, <2>3 DEF MayDo
        <3>2. May(<<Exit>>, Turn) BY ONLY <2>2, <3>1, MayOne
        <3>3. Does(<<Exit>>, Exit.do, Exit.n) BY ONLY <2>2, OneStatement
        <3> QED BY ONLY <2>2, <3>2, <3>3
    <2>4. May(<<>>, Turn) BY MayNone
    <2>5. May(e, Turn) /\ (stops(op) => Does(e, "exit", 0)) BY ONLY <2>3, <2>4
    <2> QED BY ONLY <2>5 DEF May
<1>6. May(f, Turn) /\ f \in Seq(StatementType)
    <2>1. "exit_on_error" \in Deed /\ 0 \in Nat /\ {} \in SUBSET Operand BY DEF Deed
    <2>2. ExitOnError \in StatementType /\ ExitOnError.do = "exit_on_error" /\ ExitOnError.uses = {}
        BY ONLY <2>1, StatementIs DEF ExitOnError
    <2>3. ASSUME MayFail(op) PROVE May(<<ExitOnError>>, Turn)
        <3>1. MayFail(insts[Turn].opcode) BY ONLY <1>2, <2>3
        <3>2. MayDo(ExitOnError, Turn) BY ONLY <1>2, <2>2, <3>1 DEF MayDo
        <3> QED BY ONLY <2>2, <3>2, MayOne
    <2>4. May(<<>>, Turn) BY MayNone
    <2>5. May(f, Turn) BY ONLY <2>3, <2>4
    <2> QED BY ONLY <2>5 DEF May
<1> HIDE DEF h, e, f
<1>7. May(c, Turn) BY ONLY <1>4, <1>5, <1>6, MayConcat
<1>8. h \o e \in Seq(StatementType) BY ONLY <1>4, <1>5, ConcatIs
<1>9. Does(c, "handler", Turn - 1) /\ (stops(op) => Does(c, "exit", 0))
    <2>1. Does(h \o e, "handler", Turn - 1) BY ONLY <1>4, <1>5, DoesConcat
    <2>2. stops(op) => Does(h \o e, "exit", 0) BY ONLY <1>4, <1>5, DoesConcat
    <2>3. Does(c, "handler", Turn - 1) BY ONLY <1>6, <1>8, <2>1, DoesConcat
    <2>4. stops(op) => Does(c, "exit", 0) BY ONLY <1>6, <1>8, <2>2, DoesConcat
    <2> QED BY ONLY <2>3, <2>4
<1> HIDE DEF c
<1>10. MayPrint(c, Turn)
    <2>1. EndsIt(c, Turn) BY ONLY <1>2, <1>3, <1>9 DEF EndsIt
    <2> QED BY ONLY <1>7, <1>9, <2>1 DEF MayPrint, May
<1>11. c \in Seq(StatementType) BY ONLY <1>10 DEF MayPrint
<1>12. PeeksMove(c) BY ONLY <1>1, PeeksAll
<1>13. Printing(c, c) BY ONLY <1>1, <1>10, <1>11, <1>12 DEF Printing
<1> QED BY ONLY <1>1, <1>13, NamesInv, PrintInv, PrintStep

LEMMA PrintsInvalid == NamesInv /\ PrintInv /\ PrintInvalid => PrintInv'
<1> SUFFICES ASSUME NamesInv, PrintInv, PrintInvalid PROVE PrintInv' OBVIOUS
<1> DEFINE c == <<Throw>>
<1>1. /\ stage = "print" /\ Turn <= Len(insts) /\ UNCHANGED bbVars /\ Inst.opcode \notin Instruction
      /\ instructions_gen' = Append(instructions_gen, c) /\ stack_peeks' = stack_peeks
      /\ finalizer_emitted' = finalizer_emitted
    BY DEF PrintInvalid, Prints
<1>2. /\ Inst = insts[Turn] /\ WellFormed(Inst) /\ Turn = Len(insts) /\ LastOpcode = Inst.opcode
      /\ Operands = {Inst.operands[j] : j \in 1..Len(Inst.operands)}
    BY <1>1, InstIs
<1>3. ~is_jump(Inst.opcode) /\ ~stops(Inst.opcode) BY ONLY <1>1, Sorts DEF is_jump
<1>4. SlotsOf(Operands) = {}
    <2>1. Len(Inst.operands) = 0 BY ONLY <1>1, <1>2 DEF WellFormed
    <2>2. \A j : j \notin 1..0 OBVIOUS
    <2>3. Operands = {} BY ONLY <1>2, <2>1, <2>2
    <2> QED BY ONLY <2>3 DEF SlotsOf
<1>5. /\ May(c, Turn) /\ Does(c, "throw", 0)
    <2>1. "throw" \in Deed /\ 0 \in Nat /\ {} \in SUBSET Operand BY DEF Deed
    <2>2. Throw \in StatementType /\ Throw.do = "throw" /\ Throw.n = 0 /\ Throw.uses = {}
        BY ONLY <2>1, StatementIs DEF Throw
    <2>3. MayDo(Throw, Turn) BY ONLY <1>1, <1>2, <2>2 DEF MayDo
    <2>4. May(<<Throw>>, Turn) BY ONLY <2>2, <2>3, MayOne
    <2>5. Does(<<Throw>>, Throw.do, Throw.n) BY ONLY <2>2, OneStatement
    <2> QED BY ONLY <2>2, <2>4, <2>5
<1> HIDE DEF c
<1>6. MayPrint(c, Turn)
    <2>1. EndsIt(c, Turn) BY ONLY <1>2, <1>3, <1>5 DEF EndsIt
    <2>2. ~HasResult(insts[Turn]) BY ONLY <1>1, <1>2 DEF HasResult
    <2> QED BY ONLY <1>5, <2>1, <2>2 DEF MayPrint, May
<1>7. c \in Seq(StatementType) BY ONLY <1>6 DEF MayPrint
<1>8. PeeksMove(c) BY ONLY <1>1, <1>4 DEF PeeksMove
<1>9. Printing(c, c) BY ONLY <1>1, <1>3, <1>6, <1>7, <1>8 DEF Printing
<1> QED BY ONLY <1>1, <1>9, NamesInv, PrintInv, PrintStep

\* No instruction is printed yet and what the finalizer uses is peeked.
LEMMA PrintsFinalizer == NamesInv /\ EmitType /\ PrintFinalizer => PrintInv'
<1> SUFFICES ASSUME NamesInv, EmitType, PrintFinalizer PROVE PrintInv' OBVIOUS
<1>1. /\ phase # "emulate" /\ UNCHANGED bbVars
      /\ stack_peeks' = FinalizerPeeks
      /\ instructions_gen' = <<>> /\ ~finalizer_emitted'
    BY DEF PrintFinalizer, EmitType
<1>2. insts \in Seq(InstType) /\ Len(insts) \in Nat /\ insts' = insts
    BY ONLY <1>1, NamesInv, LenProperties DEF NamesInv, TypeBB, bbVars
<1>3. insts # <<>> BY ONLY <1>1, NamesInv DEF NamesInv, OnlyLastEnds
<1>4. Len(insts) # 0 BY ONLY <1>2, <1>3, EmptySeq
<1>5. instructions_gen' \in Seq(Seq(StatementType)) /\ Len(instructions_gen') = 0
    BY ONLY <1>1, EmptySeq
<1>6. \A op : ~Ends(op)' BY ONLY <1>2, <1>4, <1>5 DEF Ends, Printed
<1>7. JumpCode' = <<>> BY ONLY <1>6 DEF JumpCode
<1>8. \A k : k \notin 1..0 OBVIOUS
<1>9. \A slot : ~NamesSlot(slot, 0) BY ONLY <1>8 DEF NamesSlot
<1>10. IsCode(<<>>, 0)
    <2>1. <<>> \in Seq(StatementType) /\ Len(<<>>) = 0 BY EmptySeq
    <2>2. EndsIt(<<>>, 0) BY ONLY <1>4 DEF EndsIt
    <2> QED BY ONLY <1>8, <2>1, <2>2 DEF IsCode
<1>11. IsPrinted(<<>>, 0)'
    <2>1. IsCode(<<>>, 0)' BY <1>1, <1>10, CodeStays
    <2>2. \A slot : NamesSlot(slot, 0)' <=> NamesSlot(slot, 0) BY <1>1, NamesStay
    <2>3. Touches(<<>>, 0)' BY ONLY <1>9, <2>2 DEF Touches
    <2>4. FlattenSeq(instructions_gen') = <<>> BY ONLY <1>1, FlattenEmpty
    <2>5. <<>> \o JumpCode' = <<>>
        <3>1. <<>> \in Seq(StatementType) BY EmptySeq
        <3> QED BY ONLY <1>7, <3>1, ConcatEmptySeq
    <2> QED BY ONLY <2>1, <2>3, <2>4, <2>5 DEF IsPrinted
<1>12. PeeksAreWanted(0)'
    <2>1. HasBound(FinalizerPeeks) BY FinalizerBounded DEF NamesInv, EmitType
    <2>2. \A slot : Wanted(slot, 0) <=> slot \in FinalizerPeeks BY ONLY <1>9 DEF Wanted
    <2>3. \A slot : Wanted(slot, 0)' <=> Wanted(slot, 0) BY <1>1, NamesStay
    <2> QED BY ONLY <1>1, <2>1, <2>2, <2>3 DEF PeeksAreWanted
<1>13. PrintsWell(0)'
    <2>1. Len(insts)' \in Nat BY ONLY <1>2
    <2>2. Printed' = 0 BY ONLY <1>5 DEF Printed
    <2> QED BY ONLY <1>1, <1>5, <1>6, <1>11, <1>12, <2>1, <2>2 DEF PrintsWell
<1>14. 0 \in Nat OBVIOUS
<1> QED BY ONLY <1>13, <1>14 DEF PrintInv

-----------------------------------------------------------------------------
(* The text *)

\* What follows the code of the instructions.
Ending ==
    IF LastOpcode = JUMP THEN Leap
    ELSE IF LastOpcode = JUMPI THEN If(Last(insts).operands[2], Leap) \o Finalizer
    ELSE Finalizer

\* The operands of a jump, once all instructions are printed.
Usable(o) ==
    /\ o \in Operand
    /\ Named(o, Len(insts), insts)
    /\ o.kind = "StackRef" => Wanted(o.n, Len(insts))

LEMMA LastIs ==
    ASSUME NamesInv, phase # "emulate"
    PROVE  /\ insts \in Seq(InstType) /\ Len(insts) \in 1..Len(insts) /\ Len(insts) \in Nat
           /\ insts # <<>> /\ Last(insts) = insts[Len(insts)]
           /\ LastOpcode = insts[Len(insts)].opcode
           /\ phase # "bailed" <=> LastOpcode \in Instruction
<1>1. insts \in Seq(InstType) /\ Len(insts) \in Nat BY LenProperties DEF NamesInv, TypeBB
<1>2. insts # <<>> BY DEF NamesInv, OnlyLastEnds
<1>3. Len(insts) # 0 BY ONLY <1>1, <1>2, EmptySeq
<1>4. Len(insts) \in 1..Len(insts) BY ONLY <1>1, <1>3
<1>5. Last(insts) = insts[Len(insts)] /\ LastOpcode = insts[Len(insts)].opcode
    BY DEF LastOpcode, Last
<1>6. phase # "bailed" <=> insts[Len(insts)].opcode \in Instruction
    BY ONLY <1>4, NamesInv DEF NamesInv, OnlyLastEnds
<1> QED BY ONLY <1>1, <1>2, <1>4, <1>5, <1>6

LEMMA JumpUses ==
    ASSUME NamesInv, phase # "emulate", is_jump(LastOpcode)
    PROVE  /\ Usable(Last(insts).operands[1])
           /\ LastOpcode = JUMPI => Usable(Last(insts).operands[2])
<1> DEFINE n == Len(insts)
<1>1. /\ insts \in Seq(InstType) /\ n \in 1..n /\ n \in Nat
      /\ Last(insts) = insts[n] /\ LastOpcode = insts[n].opcode
    BY LastIs
<1> HIDE DEF n
<1>2. WellFormed(insts[n]) /\ \A j \in 1..Len(insts[n].operands) : Named(insts[n].operands[j], n - 1, insts)
    BY ONLY <1>1, NamesInv DEF NamesInv, CodeIsNamed, n
<1>3. /\ Len(insts[n].operands) = Args(LastOpcode)
    BY ONLY <1>1, <1>2, is_jump(LastOpcode) DEF WellFormed
<1>4. /\ 1 \in 1..Len(insts[n].operands)
      /\ LastOpcode = JUMPI => 2 \in 1..Len(insts[n].operands)
    BY ONLY <1>3, is_jump(LastOpcode), Sorts DEF is_jump
<1>5. ASSUME NEW j \in 1..Len(insts[n].operands) PROVE Usable(insts[n].operands[j])
    <2> DEFINE o == insts[n].operands[j]
    <2>1. Named(o, n - 1, insts) BY ONLY <1>2, j \in 1..Len(insts[n].operands)
    <2> HIDE DEF o
    <2>2. o \in Operand BY ONLY <2>1 DEF Named
    <2>3. o.n \in Nat BY ONLY <2>2 DEF Operand
    <2>4. Named(o, n, insts)
        <3>1. o.n < n - 1 => o.n < n BY ONLY <1>1, <2>3
        <3> QED BY ONLY <2>1, <3>1 DEF Named, DefinedIn
    <2>5. ASSUME o.kind = "StackRef" PROVE NamesSlot(o.n, n)
        <3>1. o = StackRef(o.n) BY ONLY <2>2, <2>5 DEF Operand, StackRef
        <3>2. insts[n].operands[j] = StackRef(o.n) BY ONLY <3>1 DEF o
        <3> QED BY ONLY <1>1, <3>2, j \in 1..Len(insts[n].operands) DEF NamesSlot
    <2> QED BY ONLY <2>2, <2>4, <2>5 DEF Usable, Wanted, o, n
<1> QED BY ONLY <1>1, <1>4, <1>5

LEMMA FinalizerUses ==
    ASSUME NamesInv, FinalizerFacts, NEW j \in 1..Len(Finalizer), NEW o \in Finalizer[j].uses
    PROVE  Usable(o) /\ phase = "done"
<1>1. (o \in Range(stack_sets) \/ o \in Range(returns)) /\ Named(o, Len(insts), insts) /\ phase = "done"
    <2>1. CASE j <= Sets
        <3>1. j \in 1..Sets BY ONLY <2>1, FinalizerFacts, j \in 1..Len(Finalizer) DEF FinalizerFacts
        <3>0. Finalizer[j].n \in DOMAIN stack_sets /\ Finalizer[j].uses = {stack_sets[Finalizer[j].n]}
            BY ONLY <3>1, FinalizerFacts DEF FinalizerFacts
        <3>2. Finalizer[j].n \in DOMAIN stack_sets /\ o = stack_sets[Finalizer[j].n]
            BY ONLY <3>0, o \in Finalizer[j].uses
        <3>3. Named(o, Len(insts), insts) /\ phase = "done"
            BY ONLY <3>2, NamesInv DEF NamesInv, FinalizerIsNamed
        <3> QED BY ONLY <3>2, <3>3 DEF Range
    <2>2. CASE j > Sets /\ j <= Sets + Drops
        <3>1. pops_at_end > 0 /\ j = Sets + 1
            BY ONLY <2>2, FinalizerFacts, j \in 1..Len(Finalizer) DEF FinalizerFacts
        <3>2. Finalizer[j].uses = {}
            BY ONLY <3>1, FinalizerFacts DEF FinalizerFacts, DropN, Statement
        <3> QED BY ONLY <3>2, o \in Finalizer[j].uses
    <2>3. CASE j > Sets + Drops
        <3>0. PICK k \in 1..Len(returns) : Finalizer[j].uses = {returns[k]}
            BY ONLY <2>3, FinalizerFacts, j \in 1..Len(Finalizer) DEF FinalizerFacts
        <3>1. o = returns[k] BY ONLY <3>0, o \in Finalizer[j].uses
        <3>2. returns \in Seq(Operand) BY DEF NamesInv, TypeBB
        <3>3. Named(o, Len(insts), insts)
            BY ONLY <3>1, NamesInv DEF NamesInv, FinalizerIsNamed
        <3>4. returns # <<>>
            <4>1. \A i : i \notin 1..0 OBVIOUS
            <4> QED BY ONLY <3>1, <4>1, EmptySeq
        <3>5. phase = "done" BY ONLY <3>4, NamesInv DEF NamesInv, FinalizerIsNamed
        <3>6. DOMAIN returns = 1..Len(returns) BY ONLY <3>2, LenProperties
        <3> QED BY ONLY <3>1, <3>3, <3>5, <3>6 DEF Range
    <2>4. j \in Nat /\ Sets \in Nat /\ Drops \in Nat
        BY FinalizerFacts, j \in 1..Len(Finalizer), LenProperties DEF FinalizerFacts
    <2>5. j <= Sets \/ (j > Sets /\ j <= Sets + Drops) \/ j > Sets + Drops BY ONLY <2>4
    <2> QED BY ONLY <2>1, <2>2, <2>3, <2>5
<1>2. o \in Operand BY ONLY <1>1 DEF Named
<1>3. o.kind = "StackRef" => o.n \in FinalizerPeeks BY ONLY <1>1 DEF FinalizerPeeks, SlotsOf
<1> QED BY ONLY <1>1, <1>2, <1>3 DEF Usable, Wanted

EndingFacts ==
    /\ Ending \in Seq(StatementType)
    /\ ~is_jump(LastOpcode) => Ending = Finalizer
    /\ LastOpcode = JUMP =>
          /\ Len(Ending) = Len(Finalizer) + 1
          /\ \A j \in 1..Len(Finalizer) : Ending[j] = Finalizer[j]
          /\ Ending[Len(Finalizer) + 1].do = "jump"
    /\ LastOpcode = JUMPI =>
          /\ Len(Ending) = 2 * Len(Finalizer) + 2
          /\ Ending[1].do = "if" /\ Ending[1].n = Len(Finalizer) + 1
          /\ \A j \in 1..Len(Finalizer) :
                Ending[1 + j] = Finalizer[j] /\ Ending[Len(Finalizer) + 2 + j] = Finalizer[j]
          /\ Ending[Len(Finalizer) + 2].do = "jump"
    /\ \A j \in 1..Len(Ending) : \A o \in Ending[j].uses :
          Usable(o) /\ (phase = "done" \/ is_jump(LastOpcode))

LEMMA EndingIs ==
    ASSUME NamesInv, FinalizerFacts, phase # "emulate"
    PROVE  EndingFacts
<1> DEFINE F == Len(Finalizer)
           b == Last(insts).operands[2]
           body == If(b, Leap)
<1>1. Finalizer \in Seq(StatementType) /\ F \in Nat BY LenProperties DEF FinalizerFacts
<1>2. ASSUME NEW j \in 1..F, NEW o \in Finalizer[j].uses PROVE Usable(o) /\ phase = "done"
    BY <1>2, FinalizerUses
<1>3. CASE ~is_jump(LastOpcode)
    <2>1. LastOpcode # JUMP /\ LastOpcode # JUMPI BY ONLY <1>3 DEF is_jump
    <2>2. Ending = Finalizer BY ONLY <2>1 DEF Ending
    <2> QED BY ONLY <1>1, <1>2, <1>3, <2>1, <2>2 DEF EndingFacts
<1>4. ASSUME is_jump(LastOpcode)
      PROVE  /\ Leap \in Seq(StatementType) /\ Len(Leap) = F + 1
             /\ \A j \in 1..F : Leap[j] = Finalizer[j]
             /\ Leap[F + 1].do = "jump"
             /\ \A o \in Leap[F + 1].uses : Usable(o)
             /\ LastOpcode = JUMPI => Usable(b)
    <2>1. Usable(Last(insts).operands[1]) /\ (LastOpcode = JUMPI => Usable(b)) BY <1>4, JumpUses
    <2>2. Last(insts).operands[1] \in Operand BY ONLY <2>1 DEF Usable
    <2>3. /\ Leap \in Seq(StatementType) /\ Len(Leap) = F + 1
          /\ \A j \in 1..F : Leap[j] = Finalizer[j]
          /\ Leap[F + 1].do = "jump"
          /\ Leap[F + 1].uses = {Last(insts).operands[1]}
        BY ONLY <2>2, FinalizerFacts, LeapIs
    <2> QED BY ONLY <2>1, <2>3
<1> HIDE DEF b, F
<1>5. ASSUME is_jump(LastOpcode), NEW j \in 1..(F + 1), NEW o \in Leap[j].uses PROVE Usable(o)
    <2>1. j \in 1..F \/ j = F + 1 BY ONLY <1>1, j \in 1..(F + 1)
    <2> QED BY ONLY <1>2, <1>4, <1>5, <2>1
<1>6. CASE LastOpcode = JUMP
    <2>1. is_jump(LastOpcode) /\ LastOpcode # JUMPI BY ONLY <1>6, Sorts DEF is_jump
    <2>2. Ending = Leap BY ONLY <1>6 DEF Ending
    <2> QED BY ONLY <1>4, <1>5, <1>6, <2>1, <2>2 DEF EndingFacts, F
<1>7. CASE LastOpcode = JUMPI
    <2>1. is_jump(LastOpcode) /\ LastOpcode # JUMP BY ONLY <1>7, Sorts DEF is_jump
    <2>2. Ending = body \o Finalizer BY ONLY <1>7, <2>1 DEF Ending, b
    <2>3. b \in Operand BY ONLY <1>4, <1>7, <2>1 DEF Usable
    <2>4. /\ body \in Seq(StatementType) /\ Len(body) = Len(Leap) + 1
          /\ body[1] = Statement("if", Len(Leap), {b})
          /\ \A j \in 1..Len(Leap) : body[1 + j] = Leap[j]
        BY ONLY <1>4, <2>1, <2>3, IfIs
    <2>5. body[1].do = "if" /\ body[1].n = Len(Leap) /\ body[1].uses = {b}
        BY ONLY <2>4 DEF Statement
    <2> HIDE DEF body
    <2>6. Len(Leap) = F + 1 /\ Len(body) = F + 2 BY ONLY <1>1, <1>4, <2>1, <2>4
    <2>7. /\ Ending \in Seq(StatementType) /\ Len(Ending) = Len(body) + Len(Finalizer)
          /\ \A i \in 1..Len(body) : Ending[i] = body[i]
          /\ \A j \in 1..Len(Finalizer) : Ending[Len(body) + j] = Finalizer[j]
          /\ \A i \in 1..Len(Ending) :
                i \in 1..Len(body) \/ \E j \in 1..Len(Finalizer) : i = Len(body) + j
        BY ONLY <1>1, <2>2, <2>4, ConcatIs
    <2>8. Len(Ending) = 2 * F + 2 BY ONLY <1>1, <2>6, <2>7 DEF F
    <2>9. /\ 1 \in 1..Len(body) /\ F + 1 \in 1..Len(Leap) /\ 1 + (F + 1) = F + 2
          /\ F + 2 \in 1..Len(body)
          /\ \A j \in 1..F : j \in 1..Len(Leap) /\ 1 + j \in 1..Len(body)
          /\ \A i \in 1..Len(body) : i # 1 => \E j \in 1..(F + 1) : i = 1 + j
        <3>1. ASSUME NEW i \in 1..Len(body), i # 1 PROVE \E j \in 1..(F + 1) : i = 1 + j
            <4>1. i - 1 \in 1..(F + 1) /\ i = 1 + (i - 1) BY ONLY <1>1, <2>6, <3>1, i \in 1..Len(body)
            <4> QED BY ONLY <4>1
        <3>2. /\ 1 \in 1..Len(body) /\ F + 1 \in 1..Len(Leap) /\ 1 + (F + 1) = F + 2
              /\ F + 2 \in 1..Len(body)
              /\ \A j \in 1..F : j \in 1..Len(Leap) /\ 1 + j \in 1..Len(body)
            BY ONLY <1>1, <2>6
        <3> QED BY ONLY <3>1, <3>2
    <2>10. \A j \in 1..F : Ending[1 + j] = Finalizer[j]
        BY ONLY <1>4, <2>1, <2>4, <2>7, <2>9
    <2>11. Ending[F + 2].do = "jump"
        <3>1. Ending[F + 2] = body[F + 2] BY ONLY <2>7, <2>9
        <3>2. body[F + 2] = Leap[F + 1] BY ONLY <2>4, <2>9
        <3> QED BY ONLY <1>4, <2>1, <3>1, <3>2
    <2>12. ASSUME NEW i \in 1..Len(Ending), NEW o \in Ending[i].uses PROVE Usable(o)
        <3>1. CASE i = 1 BY ONLY <1>4, <1>7, <2>1, <2>5, <2>7, <2>9, <3>1, o \in Ending[i].uses
        <3>2. ASSUME NEW j \in 1..(F + 1), i = 1 + j, i \in 1..Len(body) PROVE Usable(o)
            <4>1. Ending[i] = Leap[j] BY ONLY <2>4, <2>6, <2>7, <3>2
            <4> QED BY ONLY <1>5, <2>1, <4>1, o \in Ending[i].uses, j \in 1..(F + 1)
        <3>3. ASSUME NEW j \in 1..Len(Finalizer), i = Len(body) + j PROVE Usable(o)
            <4>1. Ending[i] = Finalizer[j] BY ONLY <2>7, <3>3
            <4> QED BY ONLY <1>2, <4>1, o \in Ending[i].uses, j \in 1..Len(Finalizer) DEF F
        <3> QED BY ONLY <2>7, <2>9, <3>1, <3>2, <3>3, i \in 1..Len(Ending)
    <2>13. \A j \in 1..F : Ending[F + 2 + j] = Finalizer[j] BY ONLY <2>6, <2>7 DEF F
    <2>14. Ending[1].do = "if" /\ Ending[1].n = F + 1 BY ONLY <2>5, <2>6, <2>7, <2>9
    <2> QED BY ONLY <1>7, <2>1, <2>7, <2>8, <2>10, <2>11, <2>12, <2>13, <2>14 DEF EndingFacts, F
<1> QED BY ONLY <1>3, <1>6, <1>7 DEF is_jump

PeekFacts ==
    /\ PeekCode \in Seq(StatementType)
    /\ \A i \in 1..Len(PeekCode) :
          /\ PeekCode[i].do = "peek" /\ PeekCode[i].n \in stack_peeks /\ PeekCode[i].uses = {}
    /\ \A slot \in stack_peeks : \E i \in 1..Len(PeekCode) : PeekCode[i].n = slot

LEMMA PeeksAre == ASSUME HasBound(stack_peeks) PROVE PeekFacts
<1> DEFINE slots == Ascending(stack_peeks)
<1>1. PICK b \in Nat : \A s \in stack_peeks : s \in Nat /\ s <= b BY DEF HasBound
<1>2. /\ slots \in Seq(Nat) /\ DOMAIN slots = 1..Len(slots) /\ Len(slots) \in Nat
      /\ \A k \in 1..Len(slots) : slots[k] \in stack_peeks
      /\ \A s \in stack_peeks : \E k \in 1..Len(slots) : slots[k] = s
    <2>1. /\ slots \in Seq(Nat)
          /\ \A k \in 1..Len(slots) : slots[k] \in stack_peeks
          /\ \A s \in stack_peeks : \E k \in 1..Len(slots) : slots[k] = s
        BY ONLY <1>1, b \in Nat, AscendingIs
    <2> QED BY ONLY <2>1, LenProperties
<1>3. PeekCode = [k \in DOMAIN slots |-> Peek(slots[k])] BY DEF PeekCode
<1> HIDE DEF slots
<1>4. ASSUME NEW k \in 1..Len(slots)
      PROVE  /\ PeekCode[k] \in StatementType /\ PeekCode[k].do = "peek"
             /\ PeekCode[k].n = slots[k] /\ PeekCode[k].uses = {}
    <2>1. PeekCode[k] = Statement("peek", slots[k], {})
        BY ONLY <1>2, <1>3, k \in 1..Len(slots) DEF Peek
    <2>2. "peek" \in Deed /\ {} \in SUBSET Operand /\ slots[k] \in Nat
        BY ONLY <1>2, ElementOfSeq, k \in 1..Len(slots) DEF Deed
    <2> QED BY ONLY <2>1, <2>2, StatementIs
<1>5. PeekCode \in [1..Len(slots) -> StatementType]
    <2>1. DOMAIN PeekCode = 1..Len(slots) BY ONLY <1>2, <1>3
    <2>2. PeekCode = [k \in DOMAIN PeekCode |-> PeekCode[k]] BY ONLY <1>3
    <2> QED BY ONLY <1>4, <2>1, <2>2
<1>6. PeekCode \in Seq(StatementType) /\ Len(PeekCode) = Len(slots)
    BY ONLY <1>2, <1>5, SeqDef, LenProperties
<1> QED BY ONLY <1>2, <1>4, <1>6 DEF PeekFacts

LEMMA Associative ==
    ASSUME NEW a \in Seq(StatementType), NEW b \in Seq(StatementType), NEW c \in Seq(StatementType)
    PROVE  (a \o b) \o c = a \o (b \o c)
BY ConcatAssociative

\* g is the code of the instructions of the text to be assembled.
IsAssembled(g) ==
    /\ IsCode(g, Len(insts)) /\ Touches(g, Len(insts)) /\ PeeksAreWanted(Len(insts))
    /\ PeekFacts /\ EndingFacts
    /\ text' = (PeekCode \o g) \o Ending

LEMMA AssembleIs ==
    ASSUME NamesInv, EmitType, PrintInv, Assemble
    PROVE  /\ phase # "emulate" /\ UNCHANGED bbVars /\ at' = 0 /\ height' = entered' /\ left' = "no"
           /\ \E g : IsAssembled(g)
<1>1. /\ stage = "print" /\ Turn > Len(insts) /\ UNCHANGED bbVars
      /\ text' = (PeekCode \o FlattenSeq(instructions_gen))
                     \o (IF finalizer_emitted THEN <<>> ELSE Finalizer)
      /\ at' = at /\ height' = height /\ entered' = entered /\ left' = left
    BY DEF Assemble, execVars
<1>2. phase # "emulate" /\ at = 0 /\ height = entered /\ left = "no" BY ONLY <1>1, EmitType DEF EmitType
<1>3. PICK m \in Nat : PrintsWell(m) BY <1>1 DEF PrintInv
<1>4. Printed = m /\ m <= Len(insts) /\ (finalizer_emitted <=> Ends(JUMP)) /\ PeeksAreWanted(m)
    BY ONLY <1>3 DEF PrintsWell
<1>5. PICK g : IsPrinted(g, m) BY ONLY <1>3 DEF PrintsWell
<1>6. insts # <<>> /\ Len(insts) \in Nat BY <1>2, LastIs
<1>7. m = Len(insts)
    <2>1. m + 1 > Len(insts) BY ONLY <1>1, <1>4 DEF Turn, Printed
    <2> QED BY ONLY <1>4, <1>6, <2>1, m \in Nat
<1>8. \A op : Ends(op) <=> LastOpcode = op BY ONLY <1>4, <1>6, <1>7 DEF Ends
<1>9. FinalizerFacts BY FinalizerIs DEF NamesInv, EmitType
<1>10. EndingFacts BY <1>2, <1>9, EndingIs
<1>11. PeekFacts
    <2>1. HasBound(stack_peeks) BY ONLY <1>4 DEF PeeksAreWanted
    <2> QED BY ONLY <2>1, PeeksAre
<1>12. /\ g \in Seq(StatementType) /\ Finalizer \in Seq(StatementType)
       /\ PeekCode \in Seq(StatementType) /\ <<>> \in Seq(StatementType)
       /\ Ending \in Seq(StatementType)
       /\ FlattenSeq(instructions_gen) = g \o JumpCode
    BY ONLY <1>5, <1>9, <1>10, <1>11, EmptySeq
    DEF IsPrinted, IsCode, FinalizerFacts, PeekFacts, EndingFacts
<1>13. /\ JumpCode \in Seq(StatementType)
       /\ JumpCode \o (IF finalizer_emitted THEN <<>> ELSE Finalizer) = Ending
    <2>1. \A q \in Seq(StatementType) : q \o <<>> = q /\ <<>> \o q = q BY ONLY ConcatEmptySeq
    <2>2. JUMP # JUMPI BY ONLY Sorts
    <2>3. CASE LastOpcode = JUMP
        <3>1. finalizer_emitted BY ONLY <1>4, <1>8, <2>3
        <3>2. JumpCode = Leap /\ Ending = Leap BY ONLY <1>8, <2>3 DEF JumpCode, Ending
        <3> QED BY ONLY <1>12, <2>1, <3>1, <3>2
    <2>4. CASE LastOpcode = JUMPI
        <3>1. ~finalizer_emitted BY ONLY <1>4, <1>8, <2>2, <2>4
        <3> DEFINE body == If(Last(insts).operands[2], Leap)
        <3>2. JumpCode = body /\ Ending = body \o Finalizer
            BY ONLY <1>8, <2>2, <2>4 DEF JumpCode, Ending
        <3> HIDE DEF body
        <3>3. body \in Seq(StatementType)
            <4>1. Usable(Last(insts).operands[1]) /\ Usable(Last(insts).operands[2])
                <5>1. is_jump(LastOpcode) BY ONLY <2>4 DEF is_jump
                <5> QED BY <1>2, <2>4, <5>1, JumpUses
            <4>2. Last(insts).operands[1] \in Operand /\ Last(insts).operands[2] \in Operand
                BY ONLY <4>1 DEF Usable
            <4>3. Leap \in Seq(StatementType) BY ONLY <1>9, <4>2, LeapIs
            <4> QED BY ONLY <4>2, <4>3, IfIs DEF body
        <3> QED BY ONLY <3>1, <3>2, <3>3
    <2>5. CASE LastOpcode # JUMP /\ LastOpcode # JUMPI
        <3>1. ~finalizer_emitted BY ONLY <1>4, <1>8, <2>5
        <3>2. JumpCode = <<>> /\ Ending = Finalizer BY ONLY <1>8, <2>5 DEF JumpCode, Ending
        <3> QED BY ONLY <1>12, <2>1, <3>1, <3>2
    <2> QED BY ONLY <2>3, <2>4, <2>5
<1> DEFINE R == IF finalizer_emitted THEN <<>> ELSE Finalizer
           J == JumpCode
           P == PeekCode
<1>14. R \in Seq(StatementType) BY ONLY <1>12
<1>15. text' = (P \o (g \o J)) \o R BY ONLY <1>1, <1>12
<1>16. J \in Seq(StatementType) /\ J \o R = Ending BY ONLY <1>13
<1>17. P \in Seq(StatementType) BY ONLY <1>12
<1> HIDE DEF R, J, P
<1>18. P \o (g \o J) = (P \o g) \o J BY ONLY <1>12, <1>16, <1>17, Associative
<1>19. P \o g \in Seq(StatementType) BY ONLY <1>12, <1>17, ConcatProperties
<1>20. ((P \o g) \o J) \o R = (P \o g) \o (J \o R) BY ONLY <1>14, <1>16, <1>19, Associative
<1>21. text' = (PeekCode \o g) \o Ending BY ONLY <1>15, <1>16, <1>18, <1>20 DEF P
<1>22. IsAssembled(g) BY ONLY <1>4, <1>5, <1>7, <1>10, <1>11, <1>21 DEF IsAssembled, IsPrinted
<1> QED BY ONLY <1>1, <1>2, <1>22

\* Where the parts of the text stand.
Before(g) == Len(PeekCode \o g)

Placed(g) ==
    /\ text' \in Seq(StatementType) /\ g \in Seq(StatementType)
    /\ Before(g) = Len(PeekCode) + Len(g) /\ Before(g) \in Nat
    /\ Len(PeekCode) \in Nat /\ Len(g) \in Nat /\ Len(Ending) \in Nat
    /\ Len(text') = Before(g) + Len(Ending)
    /\ \A i \in 1..Len(PeekCode) : i \in 1..Before(g) /\ text'[i] = PeekCode[i]
    /\ \A j \in 1..Len(g) : Len(PeekCode) + j \in 1..Before(g) /\ text'[Len(PeekCode) + j] = g[j]
    /\ \A j \in 1..Len(Ending) : text'[Before(g) + j] = Ending[j]
    /\ \A i \in 1..Before(g) :
          i \in 1..Len(PeekCode) \/ \E j \in 1..Len(g) : i = Len(PeekCode) + j
    /\ \A i \in 1..Len(text') :
          i \in 1..Before(g) \/ \E j \in 1..Len(Ending) : i = Before(g) + j

LEMMA PlacesAre == ASSUME NEW g, IsAssembled(g) PROVE Placed(g)
<1> DEFINE P == PeekCode
           Q == P \o g
           T == Ending
<1>1. P \in Seq(StatementType) /\ g \in Seq(StatementType) /\ T \in Seq(StatementType)
    BY ONLY IsAssembled(g) DEF IsAssembled, PeekFacts, EndingFacts, IsCode
<1> HIDE DEF P, T
<1>2. /\ Q \in Seq(StatementType) /\ Len(Q) = Len(P) + Len(g) /\ Len(P) \in Nat /\ Len(g) \in Nat
      /\ \A i \in 1..Len(P) : i \in 1..Len(Q) /\ Q[i] = P[i]
      /\ \A j \in 1..Len(g) : Len(P) + j \in 1..Len(Q) /\ Q[Len(P) + j] = g[j]
      /\ \A i \in 1..Len(Q) : i \in 1..Len(P) \/ \E j \in 1..Len(g) : i = Len(P) + j
    BY ONLY <1>1, ConcatIs
<1>3. text' = Q \o T /\ Before(g) = Len(Q) BY ONLY IsAssembled(g) DEF IsAssembled, P, T, Before
<1> HIDE DEF Q
<1>4. /\ text' \in Seq(StatementType) /\ Len(text') = Len(Q) + Len(T)
      /\ Len(Q) \in Nat /\ Len(T) \in Nat
      /\ \A i \in 1..Len(Q) : text'[i] = Q[i]
      /\ \A j \in 1..Len(T) : text'[Len(Q) + j] = T[j]
      /\ \A i \in 1..Len(text') : i \in 1..Len(Q) \/ \E j \in 1..Len(T) : i = Len(Q) + j
    <2> DEFINE U == Q \o T
    <2>0. Q \in Seq(StatementType) /\ T \in Seq(StatementType) BY ONLY <1>1, <1>2
    <2>1. /\ U \in Seq(StatementType) /\ Len(U) = Len(Q) + Len(T)
          /\ Len(Q) \in Nat /\ Len(T) \in Nat
          /\ \A i \in 1..Len(Q) : U[i] = Q[i]
          /\ \A j \in 1..Len(T) : U[Len(Q) + j] = T[j]
          /\ \A i \in 1..Len(U) : i \in 1..Len(Q) \/ \E j \in 1..Len(T) : i = Len(Q) + j
        BY ONLY <2>0, ConcatIs
    <2>2. text' = U BY ONLY <1>3
    <2> HIDE DEF U
    <2> QED BY ONLY <2>1, <2>2
<1>5. \A i \in 1..Len(P) : i \in 1..Len(Q) /\ text'[i] = P[i] BY ONLY <1>2, <1>4
<1>6. \A j \in 1..Len(g) : Len(P) + j \in 1..Len(Q) /\ text'[Len(P) + j] = g[j]
    BY ONLY <1>2, <1>4
<1> QED BY ONLY <1>1, <1>2, <1>3, <1>4, <1>5, <1>6 DEF Placed, P, T

LEMMA AssembledLayout ==
    ASSUME NamesInv, phase # "emulate", FinalizerFacts, UNCHANGED bbVars, NEW g, IsAssembled(g),
           NEW c, c = Before(g)
    PROVE  Layout(c)'
<1> DEFINE F == Len(Finalizer)
<1>a. PICK n : n = Len(insts) OBVIOUS
<1>0. Placed(g) BY PlacesAre
<1>1. /\ text' \in Seq(StatementType) /\ g \in Seq(StatementType)
      /\ c = Len(PeekCode) + Len(g) /\ c \in Nat
      /\ Len(text') = c + Len(Ending)
      /\ \A i \in 1..Len(PeekCode) : i \in 1..c /\ text'[i] = PeekCode[i]
      /\ \A j \in 1..Len(g) : Len(PeekCode) + j \in 1..c /\ text'[Len(PeekCode) + j] = g[j]
      /\ \A j \in 1..Len(Ending) : text'[c + j] = Ending[j]
      /\ \A i \in 1..c : i \in 1..Len(PeekCode) \/ \E j \in 1..Len(g) : i = Len(PeekCode) + j
    BY ONLY <1>0, c = Before(g) DEF Placed
<1>2. /\ IsCode(g, n) /\ Touches(g, n) /\ PeeksAreWanted(n) /\ PeekFacts /\ EndingFacts
    BY <1>a DEF IsAssembled
<1>3. c \in Nat /\ F \in Nat /\ n \in Nat /\ LastOpcode \in Byte
    <2>1. insts \in Seq(InstType) /\ n \in 1..n /\ n \in Nat /\ LastOpcode = insts[n].opcode
        BY <1>a, LastIs
    <2>2. insts[n] \in InstType BY ONLY <1>a, <2>1, ElementOfSeq
    <2>3. LastOpcode \in Byte BY ONLY <2>1, <2>2 DEF InstType
    <2> QED BY <1>1, <2>1, <2>3, LenProperties DEF FinalizerFacts
<1>4. ASSUME NEW i \in 1..c
      PROVE  \/ text'[i].do = "peek" /\ Wanted(text'[i].n, n)
             \/ MayDo(text'[i], n)
    <2>1. CASE i \in 1..Len(PeekCode)
        <3>1. text'[i].do = "peek" /\ text'[i].n \in stack_peeks
            BY ONLY <1>1, <1>2, <2>1 DEF PeekFacts
        <3> QED BY ONLY <1>2, <3>1 DEF PeeksAreWanted
    <2>2. ASSUME NEW j \in 1..Len(g), i = Len(PeekCode) + j PROVE MayDo(text'[i], n)
        <3>1. text'[i] = g[j] BY ONLY <1>1, <2>2
        <3> QED BY ONLY <1>2, <3>1, j \in 1..Len(g) DEF IsCode
    <2> QED BY ONLY <1>1, <2>1, <2>2, i \in 1..c
<1>5. ASSUME NEW do, NEW k, Does(g, do, k) PROVE \E i \in 1..c : text'[i].do = do /\ text'[i].n = k
    <2>1. PICK j \in 1..Len(g) : g[j].do = do /\ g[j].n = k BY ONLY <1>5 DEF Does
    <2>2. Len(PeekCode) + j \in 1..c /\ text'[Len(PeekCode) + j] = g[j] BY ONLY <1>1
    <2> QED BY ONLY <2>1, <2>2
<1>6. ASSUME NEW slot \in Nat, NamesSlot(slot, n)
      PROVE  \E i \in 1..c : text'[i].do \in {"peek", "set"} /\ text'[i].n = slot
    <2>1. CASE slot \in stack_peeks
        <3>1. PICK i \in 1..Len(PeekCode) : PeekCode[i].n = slot /\ PeekCode[i].do = "peek"
            BY ONLY <1>2, <2>1 DEF PeekFacts
        <3>2. i \in 1..c /\ text'[i] = PeekCode[i] BY ONLY <1>1
        <3> QED BY ONLY <3>1, <3>2
    <2>2. CASE Does(g, "set", slot)
        <3>1. PICK i \in 1..c : text'[i].do = "set" /\ text'[i].n = slot BY ONLY <1>5, <2>2
        <3> QED BY ONLY <3>1
    <2> QED BY ONLY <1>2, <1>6, <2>1, <2>2 DEF Touches
<1>7. /\ stops(LastOpcode) => \E i \in 1..c : text'[i].do = "exit"
      /\ LastOpcode \notin Instruction => \E i \in 1..c : text'[i].do = "throw"
    <2>1. /\ stops(LastOpcode) => Does(g, "exit", 0)
          /\ LastOpcode \notin Instruction => Does(g, "throw", 0)
        BY ONLY <1>a, <1>2 DEF IsCode, EndsIt
    <2> QED BY ONLY <1>5, <2>1
<1>8. \A j \in 1..Len(Ending) : text'[c + j] = Ending[j] /\ Len(text') = c + Len(Ending)
    BY ONLY <1>1
<1>9. ASSUME NEW b \in Copies(c), NEW j \in 1..F PROVE text'[b + j] = Finalizer[j]
    <2>1. CASE LastOpcode = JUMPI
        <3>1. /\ Len(Ending) = 2 * F + 2
              /\ Ending[1 + j] = Finalizer[j] /\ Ending[F + 2 + j] = Finalizer[j]
            BY ONLY <1>2, <2>1, j \in 1..F DEF EndingFacts
        <3>2. 1 + j \in 1..Len(Ending) /\ F + 2 + j \in 1..Len(Ending)
            BY ONLY <1>3, <3>1, j \in 1..F
        <3>3. text'[c + (1 + j)] = Finalizer[j] /\ text'[c + (F + 2 + j)] = Finalizer[j]
            BY ONLY <1>8, <3>1, <3>2
        <3>4. c + (1 + j) = c + 1 + j /\ c + (F + 2 + j) = c + F + 2 + j
            BY ONLY <1>3, j \in 1..F
        <3>5. b = c + 1 \/ b = c + F + 2 BY ONLY <2>1, b \in Copies(c) DEF Copies
        <3> QED BY ONLY <3>3, <3>4, <3>5
    <2>2. CASE LastOpcode # JUMPI
        <3>1. b = c BY ONLY <2>2, b \in Copies(c) DEF Copies
        <3>2. Ending[j] = Finalizer[j] /\ (Len(Ending) = F \/ Len(Ending) = F + 1)
            BY ONLY <1>2, <2>2, j \in 1..F DEF EndingFacts, is_jump
        <3>3. j \in 1..Len(Ending) BY ONLY <1>3, <3>2, j \in 1..F
        <3> QED BY ONLY <1>8, <3>1, <3>2, <3>3
    <2> QED BY ONLY <2>1, <2>2
<1>10. LastOpcode = JUMP => Len(text') = c + F + 1 /\ text'[c + F + 1].do = "jump"
    <2>1. SUFFICES ASSUME LastOpcode = JUMP
                   PROVE  Len(text') = c + F + 1 /\ text'[c + F + 1].do = "jump"
        OBVIOUS
    <2>2. Len(Ending) = F + 1 /\ Ending[F + 1].do = "jump" BY ONLY <1>2, <2>1 DEF EndingFacts
    <2>3. F + 1 \in 1..Len(Ending) /\ c + (F + 1) = c + F + 1 BY ONLY <1>3, <2>2
    <2> QED BY ONLY <1>8, <2>2, <2>3
<1>11. LastOpcode = JUMPI =>
          /\ Len(text') = c + 2 * F + 2
          /\ text'[c + 1].do = "if" /\ text'[c + 1].n = F + 1
          /\ text'[c + F + 2].do = "jump"
    <2>1. SUFFICES ASSUME LastOpcode = JUMPI
                   PROVE  /\ Len(text') = c + 2 * F + 2
                          /\ text'[c + 1].do = "if" /\ text'[c + 1].n = F + 1
                          /\ text'[c + F + 2].do = "jump"
        OBVIOUS
    <2>2. /\ Len(Ending) = 2 * F + 2
          /\ Ending[1].do = "if" /\ Ending[1].n = F + 1
          /\ Ending[F + 2].do = "jump"
        BY ONLY <1>2, <2>1 DEF EndingFacts
    <2>3. /\ 1 \in 1..Len(Ending) /\ F + 2 \in 1..Len(Ending)
          /\ c + (F + 2) = c + F + 2 /\ c + (2 * F + 2) = c + 2 * F + 2
        BY ONLY <1>3, <2>2
    <2> QED BY ONLY <1>8, <2>2, <2>3
<1>12. ~is_jump(LastOpcode) => Len(text') = c + F
    BY ONLY <1>1, <1>2 DEF EndingFacts
<1>13. /\ LastOpcode' = LastOpcode /\ Finalizer' = Finalizer /\ insts' = insts
       /\ \A slot : NamesSlot(slot, n)' <=> NamesSlot(slot, n)
       /\ \A slot : Wanted(slot, n)' <=> Wanted(slot, n)
    BY BlockStays, NamesStay DEF bbVars
<1>14. ASSUME NEW st PROVE MayDo(st, n)' <=> MayDo(st, n) BY ONLY <1>13 DEF MayDo
<1>15. \A b \in Copies(c)' : Copy(b)'
    <2>1. Copies(c)' = Copies(c) BY ONLY <1>13 DEF Copies
    <2>2. ASSUME NEW b \in Copies(c) PROVE Copy(b)' BY ONLY <1>9, <1>13 DEF Copy
    <2> QED BY ONLY <2>1, <2>2
<1>16. /\ \A i \in 1..c :
             \/ text'[i].do = "peek" /\ Wanted(text[i].n, n)'
             \/ MayDo(text[i], n)'
       /\ \A slot \in Nat : NamesSlot(slot, n)' =>
             \E i \in 1..c : text'[i].do \in {"peek", "set"} /\ text'[i].n = slot
    BY ONLY <1>4, <1>6, <1>13, <1>14
<1>17. Len(insts)' = n /\ Len(Finalizer)' = F BY ONLY <1>a, <1>13
<1> QED BY ONLY <1>1, <1>7, <1>10, <1>11, <1>12, <1>13, <1>15, <1>16, <1>17 DEF Layout

\* What is declared by the first i - 1 statements.
LEMMA DeclaredIs ==
    ASSUME NEW i, NEW j \in 1..(i - 1), insts' = insts
    PROVE  /\ text'[j].do = "peek" => StackRef(text'[j].n) \in Declared(i)'
           /\ text'[j].do = "handler" /\ Ret(insts[text'[j].n + 1].opcode) = 1 =>
                 InstructionRef(text'[j].n) \in Declared(i)'
<1>1. text'[j].do = "peek" => StackRef(text'[j].n) \in Declared(i)'
    <2>1. SUFFICES ASSUME text'[j].do = "peek" PROVE StackRef(text'[j].n) \in Declared(i)' OBVIOUS
    <2>2. j \in {h \in 1..(i - 1) : text'[h].do = "peek"} BY ONLY <2>1, j \in 1..(i - 1)
    <2>3. StackRef(text'[j].n) \in
              {StackRef(text'[l].n) : l \in {h \in 1..(i - 1) : text'[h].do = "peek"}}
        BY ONLY <2>2
    <2> QED BY ONLY <2>3 DEF Declared
<1>2. text'[j].do = "handler" /\ Ret(insts[text'[j].n + 1].opcode) = 1 =>
          InstructionRef(text'[j].n) \in Declared(i)'
    <2>1. SUFFICES ASSUME text'[j].do = "handler", Ret(insts[text'[j].n + 1].opcode) = 1
                   PROVE  InstructionRef(text'[j].n) \in Declared(i)'
        OBVIOUS
    <2>2. j \in {h \in 1..(i - 1) :
                    text'[h].do = "handler" /\ Ret(insts[text'[h].n + 1].opcode) = 1}
        BY ONLY <2>1, j \in 1..(i - 1)
    <2>3. InstructionRef(text'[j].n) \in
              {InstructionRef(text'[l].n) : l \in {h \in 1..(i - 1) :
                    text'[h].do = "handler" /\ Ret(insts[text'[h].n + 1].opcode) = 1}}
        BY ONLY <2>2
    <2> QED BY ONLY <2>3, insts' = insts DEF Declared
<1> QED BY ONLY <1>1, <1>2

\* What can be used after h statements of the code is declared by then, unless
\* a constant was swapped with it.
LEMMA Ready ==
    ASSUME NEW n, n = Len(insts), insts' = insts, NEW g, IsAssembled(g),
           NEW h \in 0..Len(g), NEW i \in Nat, Len(PeekCode) + h < i, NEW o \in Operand,
           Available(o, g, h, n) \/ (o.kind = "StackRef" /\ Wanted(o.n, n)),
           ~IsConstant(o), o \notin Declared(i)'
    PROVE  o = StackRef(o.n) /\ SwappedAway(o.n)
<1>1. Placed(g) BY PlacesAre
<1>2. /\ PeeksAreWanted(n) /\ PeekFacts BY n = Len(insts) DEF IsAssembled
<1>3. /\ Len(PeekCode) \in Nat /\ Len(g) \in Nat
      /\ \A j \in 1..Len(PeekCode) : text'[j] = PeekCode[j]
      /\ \A j \in 1..Len(g) : text'[Len(PeekCode) + j] = g[j]
    BY ONLY <1>1 DEF Placed
<1>4. ASSUME o.kind = "StackRef", Wanted(o.n, n) PROVE o = StackRef(o.n) /\ SwappedAway(o.n)
    <2>1. o = StackRef(o.n) /\ o.n \in Nat BY ONLY <1>4, o \in Operand DEF Operand, StackRef
    <2>2. ASSUME o.n \in stack_peeks PROVE FALSE
        <3>1. PICK j \in 1..Len(PeekCode) : PeekCode[j].n = o.n /\ PeekCode[j].do = "peek"
            BY ONLY <1>2, <2>2 DEF PeekFacts
        <3>2. j \in 1..(i - 1)
            BY ONLY <1>3, j \in 1..Len(PeekCode), h \in 0..Len(g), i \in Nat, Len(PeekCode) + h < i
        <3>3. text'[j].do = "peek" /\ text'[j].n = o.n BY ONLY <1>3, <3>1
        <3>4. StackRef(text'[j].n) \in Declared(i)'
            BY ONLY <3>2, <3>3, insts' = insts, DeclaredIs
        <3> QED BY ONLY <2>1, <3>3, <3>4, o \notin Declared(i)'
    <2>3. o.n \in stack_peeks \/ SwappedAway(o.n) BY ONLY <1>2, <1>4, <2>1 DEF PeeksAreWanted
    <2> QED BY ONLY <2>1, <2>2, <2>3
<1>5. ASSUME o.kind = "InstructionRef", Computes(o, g, h) PROVE FALSE
    <2>1. PICK q \in 1..h : g[q].do = "handler" /\ g[q].n = o.n BY ONLY <1>5 DEF Computes
    <2>2. PICK j \in Nat : j = Len(PeekCode) + q BY ONLY <1>3, q \in 1..h, h \in 0..Len(g)
    <2>3. j \in 1..(i - 1) /\ q \in 1..Len(g)
        BY ONLY <1>3, <2>2, q \in 1..h, h \in 0..Len(g), i \in Nat, Len(PeekCode) + h < i
    <2>4. text'[j].do = "handler" /\ text'[j].n = o.n BY ONLY <1>3, <2>1, <2>2, <2>3
    <2>5. Ret(insts[o.n + 1].opcode) = 1 BY ONLY <1>5 DEF Computes
    <2>6. Ret(insts[text'[j].n + 1].opcode) = 1 BY ONLY <2>4, <2>5
    <2>7. InstructionRef(text'[j].n) \in Declared(i)'
        BY ONLY <2>3, <2>4, <2>6, insts' = insts, DeclaredIs
    <2>8. o = InstructionRef(o.n) BY ONLY <1>5, o \in Operand DEF Operand, InstructionRef
    <2> QED BY ONLY <2>4, <2>7, <2>8, o \notin Declared(i)'
<1>6. NamesSlot(o.n, n) => Wanted(o.n, n) BY ONLY TRUE DEF Wanted
<1> QED BY ONLY <1>4, <1>5, <1>6, ~IsConstant(o),
        Available(o, g, h, n) \/ (o.kind = "StackRef" /\ Wanted(o.n, n)) DEF Available

LEMMA UsableIs ==
    ASSUME NamesInv, phase # "emulate", NEW n, n = Len(insts), NEW g, IsCode(g, n),
           NEW o, Usable(o), phase = "done" \/ is_jump(LastOpcode)
    PROVE  /\ o \in Operand
           /\ Available(o, g, Len(g), n) \/ (o.kind = "StackRef" /\ Wanted(o.n, n))
<1>1. /\ o \in Operand /\ Named(o, n, insts) /\ (o.kind = "StackRef" => Wanted(o.n, n))
    BY ONLY Usable(o), n = Len(insts) DEF Usable
<1>2. /\ n \in Nat /\ insts \in Seq(InstType) /\ LastOpcode = insts[n].opcode
      /\ phase # "bailed" <=> LastOpcode \in Instruction
    BY LastIs
<1>3. LastOpcode \in Instruction
    <2>1. phase = "done" => phase # "bailed" OBVIOUS
    <2> QED BY ONLY <1>2, <2>1, phase = "done" \/ is_jump(LastOpcode), Sorts DEF is_jump
<1>4. \A k \in 1..n : insts[k].opcode \in Instruction
    <2>1. \A k \in 1..n : k < n \/ k = n BY ONLY <1>2
    <2>2. \A k \in 1..n : k < n => insts[k].opcode \in Instruction
        BY ONLY NamesInv, n = Len(insts) DEF NamesInv, OnlyLastEnds
    <2> QED BY ONLY <1>2, <1>3, <2>1, <2>2
<1>5. ASSUME o.kind # "StackRef" PROVE Available(o, g, Len(g), n)
    BY ONLY <1>1, <1>2, <1>4, <1>5, IsCode(g, n), NamedAvailable
<1> QED BY ONLY <1>1, <1>5

LEMMA AssembledNames ==
    ASSUME NamesInv, phase # "emulate", insts' = insts, NEW g, IsAssembled(g)
    PROVE  OnlySwappedAreUndeclared'
<1>a. PICK n : n = Len(insts) OBVIOUS
<1>1. Placed(g) BY PlacesAre
<1>2. IsCode(g, n) /\ PeekFacts /\ EndingFacts BY <1>a DEF IsAssembled
<1>3. insts \in Seq(InstType) /\ DOMAIN insts = 1..n BY <1>a, LastIs, LenProperties
<1>4. /\ Len(PeekCode) \in Nat /\ Len(g) \in Nat /\ DOMAIN text' = 1..Len(text')
      /\ Before(g) = Len(PeekCode) + Len(g) /\ text' \in Seq(StatementType) /\ Len(text') \in Nat
    BY ONLY <1>1, LenProperties DEF Placed
<1>5. ASSUME NEW i \in 1..Len(text'), NEW o \in Undeclared(i)'
      PROVE  o = StackRef(o.n) /\ SwappedAway(o.n)
    <2>1. o \in text'[i].uses /\ ~IsConstant(o) /\ o \notin Declared(i)'
        BY ONLY o \in Undeclared(i)' DEF Undeclared
    <2>2. i \in Nat BY ONLY <1>4, i \in 1..Len(text')
    <2>3. ASSUME NEW h \in 0..Len(g), Len(PeekCode) + h < i, o \in Operand,
                 Available(o, g, h, n) \/ (o.kind = "StackRef" /\ Wanted(o.n, n))
          PROVE  o = StackRef(o.n) /\ SwappedAway(o.n)
        BY ONLY <1>a, <2>1, <2>2, <2>3, insts' = insts, IsAssembled(g), Ready
    <2>4. CASE i \in 1..Len(PeekCode)
        <3>1. text'[i] = PeekCode[i] BY ONLY <1>1, <2>4 DEF Placed
        <3>2. text'[i].uses = {} BY ONLY <1>2, <2>4, <3>1 DEF PeekFacts
        <3> QED BY ONLY <2>1, <3>2
    <2>5. ASSUME NEW j \in 1..Len(g), i = Len(PeekCode) + j
          PROVE  o = StackRef(o.n) /\ SwappedAway(o.n)
        <3>1. text'[i] = g[j] BY ONLY <1>1, <2>5 DEF Placed
        <3>2. Available(o, g, j - 1, n) BY ONLY <1>2, <2>1, <3>1, j \in 1..Len(g) DEF IsCode
        <3>3. o \in Operand
            <4>1. g[j] \in StatementType BY ONLY <1>2, ElementOfSeq, j \in 1..Len(g) DEF IsCode
            <4> QED BY ONLY <2>1, <3>1, <4>1 DEF StatementType
        <3>4. j - 1 \in 0..Len(g) /\ Len(PeekCode) + (j - 1) < i
            BY ONLY <1>4, <2>5, j \in 1..Len(g)
        <3> QED BY ONLY <2>3, <3>2, <3>3, <3>4
    <2>6. ASSUME NEW j \in 1..Len(Ending), i = Before(g) + j
          PROVE  o = StackRef(o.n) /\ SwappedAway(o.n)
        <3>1. text'[i] = Ending[j] BY ONLY <1>1, <2>6 DEF Placed
        <3>2. Usable(o) /\ (phase = "done" \/ is_jump(LastOpcode))
            BY ONLY <1>2, <2>1, <3>1, j \in 1..Len(Ending) DEF EndingFacts
        <3>3. /\ o \in Operand
              /\ Available(o, g, Len(g), n) \/ (o.kind = "StackRef" /\ Wanted(o.n, n))
            BY ONLY <1>a, <1>2, <3>2, NamesInv, phase # "emulate", UsableIs
        <3>4. Len(g) \in 0..Len(g) /\ Len(PeekCode) + Len(g) < i
            <4>1. Len(Ending) \in Nat BY ONLY <1>1 DEF Placed
            <4> QED BY ONLY <1>4, <2>6, <4>1, j \in 1..Len(Ending)
        <3> QED BY ONLY <2>3, <3>3, <3>4
    <2>7. \/ i \in 1..Len(PeekCode)
          \/ \E j \in 1..Len(g) : i = Len(PeekCode) + j
          \/ \E j \in 1..Len(Ending) : i = Before(g) + j
        BY ONLY <1>1, i \in 1..Len(text') DEF Placed
    <2> QED BY ONLY <2>4, <2>5, <2>6, <2>7
<1>6. ASSUME NEW i \in DOMAIN text', NEW o \in Undeclared(i)'
      PROVE  \E k \in DOMAIN insts :
                 /\ is_swap(insts[k].opcode) /\ ~insts[k].ignoreable
                 /\ IsConstant(insts[k].operands[1]) /\ insts[k].operands[2] = o
    <2>1. o = StackRef(o.n) /\ SwappedAway(o.n) BY ONLY <1>4, <1>5, <1>6
    <2>2. PICK k \in 1..n :
              /\ is_swap(insts[k].opcode) /\ ~insts[k].ignoreable
              /\ IsConstant(insts[k].operands[1]) /\ insts[k].operands[2] = StackRef(o.n)
        BY ONLY <1>a, <2>1 DEF SwappedAway
    <2> QED BY ONLY <1>3, <2>1, <2>2
<1> QED BY ONLY <1>6, insts' = insts DEF OnlySwappedAreUndeclared

LEMMA AssembledRuns ==
    ASSUME NamesInv, EmitType, PrintInv, Assemble
    PROVE  RunsInv' /\ OnlySwappedAreUndeclared' /\ left' = "no"
<1>1. /\ phase # "emulate" /\ UNCHANGED bbVars /\ at' = 0 /\ height' = entered' /\ left' = "no"
    BY AssembleIs
<1>2. PICK g : IsAssembled(g) BY AssembleIs
<1>3. FinalizerFacts BY FinalizerIs DEF NamesInv, EmitType
<1>4. Placed(g) BY <1>2, PlacesAre
<1>5. PICK c : c = Before(g) OBVIOUS
<1>6. c \in Nat BY ONLY <1>4, <1>5 DEF Placed
<1>7. Layout(c)' BY <1>1, <1>2, <1>3, <1>5, AssembledLayout
<1>8. RunsAt(c)'
    <2>1. Len(text') \in Nat BY ONLY <1>4, LenProperties DEF Placed
    <2>2. 0 \in 0..Len(text') /\ 0 <= c /\ \A i \in 1..c : ~(i <= 0) BY ONLY <1>6, <2>1
    <2> QED BY ONLY <1>1, <2>2 DEF RunsAt
<1>9. RunsInv' BY ONLY <1>6, <1>7, <1>8 DEF RunsInv
<1>10. insts' = insts BY ONLY <1>1 DEF bbVars
<1>11. OnlySwappedAreUndeclared' BY <1>1, <1>2, <1>10, AssembledNames
<1> QED BY ONLY <1>1, <1>9, <1>11

-----------------------------------------------------------------------------
(* The text at run time *)

LEMMA LayoutStays ==
    ASSUME UNCHANGED <<bbVars, text, entered>>, NEW c
    PROVE  /\ Layout(c)' <=> Layout(c)
           /\ Copies(c)' = Copies(c)
           /\ \A st : Passed(st)' <=> Passed(st)
           /\ \A j : HeightIn(j)' = HeightIn(j)
<1>1. /\ insts' = insts /\ pops_at_end' = pops_at_end /\ text' = text /\ entered' = entered
      /\ UNCHANGED bbVars
    BY DEF bbVars
<1>2. Finalizer' = Finalizer /\ LastOpcode' = LastOpcode /\ Sets' = Sets /\ Drops' = Drops
    BY <1>1, BlockStays
<1>3. \A slot, m : /\ NamesSlot(slot, m)' <=> NamesSlot(slot, m)
                   /\ Wanted(slot, m)' <=> Wanted(slot, m)
    BY <1>1, NamesStay
<1>4. ASSUME NEW st, NEW m PROVE MayDo(st, m)' <=> MayDo(st, m)
    BY ONLY <1>1, <1>2, <1>3 DEF MayDo
<1>5. Copies(c)' = Copies(c) BY ONLY <1>2 DEF Copies
<1>6. ASSUME NEW b PROVE Copy(b)' <=> Copy(b) BY ONLY <1>1, <1>2 DEF Copy
<1>7. Layout(c)' <=> Layout(c) BY ONLY <1>1, <1>2, <1>3, <1>4, <1>5, <1>6 DEF Layout
<1>8. ASSUME NEW st PROVE Passed(st)' <=> Passed(st) BY ONLY <1>1 DEF Passed
<1>9. ASSUME NEW j PROVE HeightIn(j)' = HeightIn(j) BY ONLY <1>1, <1>2 DEF HeightIn
<1> QED BY ONLY <1>5, <1>7, <1>8, <1>9

AllPassed(c) == \A i \in 1..c : Passed(text[i])

\* The finalizer is done.
AtEnd(c) == AllPassed(c) /\ \E b \in Copies(c) : InFinalizer(b, Len(Finalizer))

LEMMA Where ==
    ASSUME FinalizerFacts, entered \in Nat, NEW c \in Nat, Layout(c), RunsAt(c)
    PROVE  /\ at \in 0..Len(text) /\ Len(text) \in Nat /\ c \in 0..Len(text)
           /\ \/ at < c /\ height = entered
              \/ at = c /\ LastOpcode = JUMPI /\ height = entered /\ AllPassed(c)
              \/ AllPassed(c) /\ \E b \in Copies(c) : \E j \in 0..Len(Finalizer) : InFinalizer(b, j)
<1> DEFINE F == Len(Finalizer)
<1>1. F \in Nat /\ Sets \in Nat /\ Drops \in Nat BY LenProperties DEF FinalizerFacts
<1>2. at \in 0..Len(text) /\ \A i \in 1..c : i <= at => Passed(text[i]) BY DEF RunsAt
<1>3. Len(text) \in Nat BY LenProperties DEF Layout
<1>4. c \in 0..Len(text)
    <2>1. Len(text) = c + F + 1 \/ Len(text) = c + 2 * F + 2 \/ Len(text) = c + F
        BY ONLY Layout(c) DEF Layout, is_jump
    <2> QED BY ONLY <1>1, <1>3, <2>1, c \in Nat
<1>5. at >= c => AllPassed(c)
    <2>1. SUFFICES ASSUME at >= c PROVE AllPassed(c) OBVIOUS
    <2>2. \A i \in 1..c : i <= at BY ONLY <1>2, <1>3, <2>1, c \in Nat
    <2> QED BY ONLY <1>2, <2>2 DEF AllPassed
<1>6. CASE at <= c /\ height = entered
    <2>1. CASE at < c BY ONLY <1>2, <1>3, <1>4, <1>6, <2>1
    <2>2. CASE at = c /\ LastOpcode = JUMPI
        <3>1. AllPassed(c) BY ONLY <1>5, <2>2, c \in Nat
        <3> QED BY ONLY <1>2, <1>3, <1>4, <1>6, <2>2, <3>1
    <2>3. CASE at = c /\ LastOpcode # JUMPI
        <3>1. AllPassed(c) BY ONLY <1>5, <2>3, c \in Nat
        <3>2. c \in Copies(c) BY ONLY <2>3 DEF Copies
        <3>3. HeightIn(0) = entered
            <4>1. ~(0 > Sets) /\ ~(0 > Sets + Drops) BY ONLY <1>1
            <4> QED BY ONLY <4>1, entered \in Nat DEF HeightIn
        <3>4. 0 \in 0..F /\ at = c + 0 /\ \A i : i \notin 1..0 BY ONLY <1>1, <2>3, c \in Nat
        <3>5. InFinalizer(c, 0) BY ONLY <1>6, <3>3, <3>4 DEF InFinalizer
        <3> QED BY ONLY <1>2, <1>3, <1>4, <3>1, <3>2, <3>4, <3>5
    <2> QED BY ONLY <1>2, <1>3, <1>6, <2>1, <2>2, <2>3, c \in Nat
<1>7. ASSUME NEW b \in Copies(c), NEW j \in Nat, InFinalizer(b, j)
      PROVE  AllPassed(c) /\ j \in 0..F
    <2>1. j \in 0..F /\ at = b + j BY ONLY <1>7 DEF InFinalizer
    <2>2. b = c \/ b = c + 1 \/ b = c + F + 2 BY ONLY b \in Copies(c) DEF Copies
    <2>3. at >= c BY ONLY <1>1, <2>1, <2>2, c \in Nat, j \in Nat
    <2> QED BY ONLY <1>5, <2>1, <2>3
<1>8. CASE \E b \in Copies(c) : \E j \in Nat : InFinalizer(b, j)
    BY ONLY <1>2, <1>3, <1>4, <1>7, <1>8
<1> QED BY <1>6, <1>8 DEF RunsAt

\* The statement to be executed.
LEMMA NextStatement ==
    ASSUME FinalizerFacts, entered \in Nat, NEW c \in Nat, Layout(c), RunsAt(c),
           at < Len(text), NEW st, st = text[at + 1]
    PROVE  \/ /\ at < c /\ height = entered
              /\ (st.do = "peek" /\ Wanted(st.n, Len(insts))) \/ MayDo(st, Len(insts))
           \/ /\ at = c /\ LastOpcode = JUMPI /\ height = entered /\ AllPassed(c)
              /\ st.do = "if" /\ st.n = Len(Finalizer) + 1
           \/ /\ AllPassed(c)
              /\ \E b \in Copies(c) : \E j \in Nat :
                    /\ InFinalizer(b, j) /\ j + 1 \in 1..Len(Finalizer) /\ st = Finalizer[j + 1]
           \/ AtEnd(c) /\ is_jump(LastOpcode) /\ st.do = "jump"
<1> DEFINE F == Len(Finalizer)
<1>1. F \in Nat BY LenProperties DEF FinalizerFacts
<1>2. at \in 0..Len(text) /\ Len(text) \in Nat BY Where
<1>3. CASE at < c /\ height = entered
    <2>1. at + 1 \in 1..c BY ONLY <1>2, <1>3, c \in Nat
    <2> QED BY ONLY <1>3, <2>1, Layout(c), st = text[at + 1] DEF Layout
<1>4. CASE at = c /\ LastOpcode = JUMPI /\ height = entered /\ AllPassed(c)
    BY ONLY <1>4, Layout(c), st = text[at + 1] DEF Layout
<1>5. ASSUME NEW b \in Copies(c), NEW j \in 0..F, InFinalizer(b, j), AllPassed(c)
      PROVE  \/ j \in Nat /\ j + 1 \in 1..F /\ st = Finalizer[j + 1]
             \/ AtEnd(c) /\ is_jump(LastOpcode) /\ st.do = "jump"
    <2>1. at = b + j BY ONLY <1>5 DEF InFinalizer
    <2>2. b \in Nat /\ (b = c \/ b = c + 1 \/ b = c + F + 2)
        <3>1. b = c \/ b = c + 1 \/ b = c + F + 2 BY ONLY b \in Copies(c) DEF Copies
        <3> QED BY ONLY <1>1, <3>1, c \in Nat
    <2>3. CASE j < F
        <3>1. j \in Nat /\ j + 1 \in 1..F /\ at + 1 = b + (j + 1)
            BY ONLY <1>1, <2>1, <2>2, <2>3, j \in 0..F
        <3>2. Copy(b) BY ONLY Layout(c), b \in Copies(c) DEF Layout
        <3>3. text[b + (j + 1)] = Finalizer[j + 1] BY ONLY <3>1, <3>2 DEF Copy
        <3> QED BY ONLY <3>1, <3>3, st = text[at + 1]
    <2>4. CASE j = F
        <3>1. AtEnd(c) BY ONLY <1>5, <2>4 DEF AtEnd
        <3>2. CASE LastOpcode = JUMP
            <4>1. b = c BY ONLY <3>2, b \in Copies(c), Sorts DEF Copies
            <4>2. at + 1 = c + F + 1 BY ONLY <1>1, <2>1, <2>4, <4>1, c \in Nat
            <4>3. st.do = "jump" BY ONLY <3>2, <4>2, Layout(c), st = text[at + 1] DEF Layout
            <4> QED BY ONLY <3>1, <3>2, <4>3 DEF is_jump
        <3>3. CASE LastOpcode = JUMPI
            <4>1. Len(text) = c + 2 * F + 2 /\ text[c + F + 2].do = "jump"
                BY ONLY <3>3, Layout(c) DEF Layout
            <4>2. b = c + 1 \/ b = c + F + 2 BY ONLY <3>3, b \in Copies(c) DEF Copies
            <4>3. at + 1 = c + F + 2
                BY ONLY <1>1, <1>2, <2>1, <2>4, <4>1, <4>2, c \in Nat, at < Len(text)
            <4>4. st.do = "jump" BY ONLY <4>1, <4>3, st = text[at + 1]
            <4> QED BY ONLY <3>1, <3>3, <4>4 DEF is_jump
        <3>4. CASE ~is_jump(LastOpcode)
            <4>1. b = c BY ONLY <3>4, b \in Copies(c) DEF Copies, is_jump
            <4>2. Len(text) = c + F BY ONLY <3>4, Layout(c) DEF Layout
            <4> QED BY ONLY <1>1, <1>2, <2>1, <2>4, <4>1, <4>2, c \in Nat, at < Len(text)
        <3> QED BY ONLY <3>2, <3>3, <3>4 DEF is_jump
    <2> QED BY ONLY <1>1, <2>3, <2>4, j \in 0..F
<1>6. \/ at < c /\ height = entered
      \/ at = c /\ LastOpcode = JUMPI /\ height = entered /\ AllPassed(c)
      \/ AllPassed(c) /\ \E b \in Copies(c) : \E j \in 0..F : InFinalizer(b, j)
    BY Where
<1> HIDE DEF F
<1>7. CASE AllPassed(c) /\ \E b \in Copies(c) : \E j \in 0..F : InFinalizer(b, j)
    <2>1. PICK b \in Copies(c), j \in 0..F : InFinalizer(b, j) BY ONLY <1>7
    <2>2. \/ j \in Nat /\ j + 1 \in 1..F /\ st = Finalizer[j + 1]
          \/ AtEnd(c) /\ is_jump(LastOpcode) /\ st.do = "jump"
        BY ONLY <1>5, <1>7, <2>1
    <2> QED BY ONLY <1>7, <2>1, <2>2 DEF F
<1> QED BY ONLY <1>3, <1>4, <1>6, <1>7

\* Nothing is left to be executed.
LEMMA NoStatement ==
    ASSUME FinalizerFacts, entered \in Nat, NEW c \in Nat, Layout(c), RunsAt(c), at = Len(text)
    PROVE  AtEnd(c) /\ LastOpcode # JUMP
<1> DEFINE F == Len(Finalizer)
<1>1. F \in Nat BY LenProperties DEF FinalizerFacts
<1>2. at \in 0..Len(text) /\ Len(text) \in Nat /\ c \in 0..Len(text) BY Where
<1>3. /\ LastOpcode = JUMP => Len(text) = c + F + 1
      /\ LastOpcode = JUMPI => Len(text) = c + 2 * F + 2
      /\ LastOpcode # JUMP /\ LastOpcode # JUMPI => Len(text) = c + F
    BY ONLY Layout(c) DEF Layout, is_jump
<1>4. ~(at < c) /\ ~(at = c /\ LastOpcode = JUMPI)
    BY ONLY <1>1, <1>2, <1>3, c \in Nat, at = Len(text)
<1>5. AllPassed(c) /\ \E b \in Copies(c) : \E j \in 0..F : InFinalizer(b, j) BY <1>4, Where
<1>6. PICK b \in Copies(c), j \in 0..F : InFinalizer(b, j) BY ONLY <1>5
<1>7. at = b + j BY ONLY <1>6 DEF InFinalizer
<1>8. /\ LastOpcode # JUMPI => b = c
      /\ LastOpcode = JUMPI => b = c + 1 \/ b = c + F + 2
    BY ONLY b \in Copies(c) DEF Copies
<1>9. JUMP # JUMPI BY Sorts
<1>10. LastOpcode # JUMP /\ j = F
    <2>1. CASE LastOpcode = JUMP
        BY ONLY <1>1, <1>3, <1>7, <1>8, <1>9, <2>1, c \in Nat, j \in 0..F, at = Len(text)
    <2>2. CASE LastOpcode = JUMPI
        BY ONLY <1>1, <1>3, <1>7, <1>8, <1>9, <2>2, c \in Nat, j \in 0..F, at = Len(text)
    <2>3. CASE LastOpcode # JUMP /\ LastOpcode # JUMPI
        BY ONLY <1>1, <1>3, <1>7, <1>8, <2>3, c \in Nat, j \in 0..F, at = Len(text)
    <2> QED BY ONLY <2>1, <2>2, <2>3
<1> QED BY ONLY <1>5, <1>6, <1>10 DEF AtEnd

\* The height when the slots are set and the pops are done.
LEMMA PushHeights ==
    ASSUME entered \in Nat, pops_at_end \in Nat, Sets \in Nat, Drops \in Nat,
           Drops = IF pops_at_end > 0 THEN 1 ELSE 0, NEW i \in Nat, i >= Sets + Drops
    PROVE  HeightIn(i) = entered - pops_at_end + (i - Sets - Drops)
<1>1. HeightIn(i) = entered - (IF i > Sets THEN pops_at_end ELSE 0)
                            + (IF i > Sets + Drops THEN i - Sets - Drops ELSE 0)
    BY DEF HeightIn
<1>2. (IF i > Sets THEN pops_at_end ELSE 0) = pops_at_end OBVIOUS
<1>3. (IF i > Sets + Drops THEN i - Sets - Drops ELSE 0) = i - Sets - Drops OBVIOUS
<1> QED BY ONLY <1>1, <1>2, <1>3

\* The statements of the finalizer and the heights around them.
LEMMA FinalizerStep ==
    ASSUME FinalizerFacts, entered \in Nat, pops_at_end \in Nat, NEW j \in Nat, j + 1 \in 1..Len(Finalizer)
    PROVE  LET st == Finalizer[j + 1] IN
           \/ /\ st.do = "set" /\ st.n \in DOMAIN stack_sets
              /\ HeightIn(j) = entered /\ HeightIn(j + 1) = entered
           \/ /\ st.do = "drop" /\ st.n = pops_at_end
              /\ HeightIn(j) = entered /\ HeightIn(j + 1) = entered - pops_at_end
           \/ /\ st.do = "push"
              /\ HeightIn(j) \in Int /\ HeightIn(j + 1) = HeightIn(j) + 1
              /\ HeightIn(j) < entered + Len(returns) - pops_at_end
<1> DEFINE st == Finalizer[j + 1]
<1>1. /\ Sets \in Nat /\ Drops \in Nat /\ Len(returns) \in Nat
      /\ Len(Finalizer) = Sets + Drops + Len(returns)
      /\ Drops = IF pops_at_end > 0 THEN 1 ELSE 0
    BY ONLY FinalizerFacts DEF FinalizerFacts
<1>2. CASE j + 1 <= Sets
    <2>1. j + 1 \in 1..Sets /\ ~(j > Sets) /\ ~(j > Sets + Drops) /\ ~(j + 1 > Sets)
          /\ ~(j + 1 > Sets + Drops)
        BY ONLY <1>1, <1>2, j \in Nat
    <2>2. HeightIn(j) = entered /\ HeightIn(j + 1) = entered
        BY ONLY <2>1, entered \in Nat DEF HeightIn
    <2>3. st.do = "set" /\ st.n \in DOMAIN stack_sets
        BY ONLY <2>1, FinalizerFacts DEF FinalizerFacts
    <2> QED BY ONLY <2>2, <2>3
<1>3. CASE j + 1 = Sets + 1 /\ pops_at_end > 0
    <2>1. j = Sets /\ Drops = 1 BY ONLY <1>1, <1>3, j \in Nat
    <2>2. ~(j > Sets) /\ ~(j > Sets + Drops) /\ (j + 1 > Sets) /\ ~(j + 1 > Sets + Drops)
        BY ONLY <1>1, <2>1
    <2>3. HeightIn(j) = entered /\ HeightIn(j + 1) = entered - pops_at_end
        BY ONLY <2>2, entered \in Nat, pops_at_end \in Nat DEF HeightIn
    <2>4. st = DropN(pops_at_end) BY ONLY <1>3, FinalizerFacts DEF FinalizerFacts
    <2>5. st.do = "drop" /\ st.n = pops_at_end BY ONLY <2>4 DEF DropN, Statement
    <2> QED BY ONLY <2>3, <2>5
<1>4. CASE j + 1 > Sets + Drops
    <2>1. st.do = "push" BY ONLY <1>4, FinalizerFacts, j + 1 \in 1..Len(Finalizer) DEF FinalizerFacts
    <2>2. \A i \in Nat : i >= Sets + Drops => HeightIn(i) = entered - pops_at_end + (i - Sets - Drops)
        BY ONLY PushHeights, <1>1, entered \in Nat, pops_at_end \in Nat
    <2>3. HeightIn(j) = entered - pops_at_end + (j - Sets - Drops)
        BY ONLY <1>1, <1>4, <2>2, j \in Nat
    <2>4. HeightIn(j + 1) = entered - pops_at_end + (j + 1 - Sets - Drops)
        BY ONLY <1>1, <1>4, <2>2, j \in Nat
    <2>5. /\ HeightIn(j) \in Int /\ HeightIn(j + 1) = HeightIn(j) + 1
          /\ HeightIn(j) < entered + Len(returns) - pops_at_end
        BY ONLY <1>1, <2>3, <2>4, j \in Nat, entered \in Nat, pops_at_end \in Nat,
                j + 1 \in 1..Len(Finalizer)
    <2> QED BY ONLY <2>1, <2>5
<1>5. j + 1 <= Sets \/ (j + 1 = Sets + 1 /\ pops_at_end > 0) \/ j + 1 > Sets + Drops
    BY ONLY <1>1, j \in Nat, pops_at_end \in Nat
<1> QED BY ONLY <1>2, <1>3, <1>4, <1>5

LEMMA HeightAtEnd ==
    ASSUME FinalizerFacts, entered \in Nat, pops_at_end \in Nat
    PROVE  HeightIn(Len(Finalizer)) = entered + Len(returns) - pops_at_end
<1> DEFINE F == Len(Finalizer)
<1>1. /\ Sets \in Nat /\ Drops \in Nat /\ Len(returns) \in Nat
      /\ F = Sets + Drops + Len(returns)
      /\ Drops = IF pops_at_end > 0 THEN 1 ELSE 0
    BY ONLY FinalizerFacts DEF FinalizerFacts
<1>2. F \in Nat /\ F >= Sets + Drops /\ F - Sets - Drops = Len(returns)
    BY ONLY <1>1
<1>3. HeightIn(F) = entered - pops_at_end + (F - Sets - Drops)
    BY ONLY <1>1, <1>2, entered \in Nat, pops_at_end \in Nat, PushHeights
<1> QED BY ONLY <1>1, <1>2, <1>3, entered \in Nat, pops_at_end \in Nat

-----------------------------------------------------------------------------
(* The EVM's heights *)

LEMMA RunFacts ==
    ASSUME NamesInv, EmitType, stage # "emulate"
    PROVE  /\ phase # "emulate" /\ FinalizerFacts
           /\ entered \in Nat /\ entered <= StackLimit /\ StackLimit \in Nat
           /\ pops_at_end \in Nat
<1>1. phase # "emulate" /\ entered \in 0..StackLimit BY DEF EmitType
<1>2. StackLimit \in Nat BY HeightsAssumption
<1>3. FinalizerFacts BY FinalizerIs DEF NamesInv, EmitType
<1>4. pops_at_end \in Nat BY DEF NamesInv, TypeBB
<1> QED BY ONLY <1>1, <1>2, <1>3, <1>4

LEMMA EvmIs ==
    ASSUME NamesInv, HeightsInv, EmitType, stage # "emulate"
    PROVE  /\ ~EvmUnderflows => OnStack(insts, entered)
           /\ phase = "done" =>
                 /\ EvmHeight[Len(insts)] = entered + Len(returns) - pops_at_end
                 /\ ~EvmUnderflows =>
                       /\ pops_at_end <= entered
                       /\ \A slot \in DOMAIN stack_sets \cup FinalizerPeeks : slot < entered
                 /\ EvmUnderflows /\ OnStack(insts, entered) =>
                       \/ entered < pops_at_end
                       \/ ~PopsInFrame
                       \/ \E s \in DOMAIN stack_sets : ~(s < entered)
           /\ ~EvmOverflows => EvmHeight[Len(insts)] <= StackLimit
<1>1. phase # "emulate" /\ entered \in Nat BY RunFacts
<1>2. insts \in Seq(InstType) /\ Len(insts) \in Nat /\ Len(insts) \in 1..Len(insts) BY <1>1, LastIs
<1>3. DOMAIN insts = 1..Len(insts) BY ONLY <1>2, LenProperties
<1>4. entered \in Int BY ONLY <1>1
<1>5. /\ AreHeights(EvmHeight, insts, entered)
      /\ \A k \in 0..Len(insts) : EvmHeight[k] \in Int
    BY ONLY <1>2, <1>4, HeightsExist DEF EvmHeight
<1>6. HeightsAre(EvmHeight, entered) BY ONLY <1>1, <1>5, HeightsInv DEF HeightsInv
<1>7. EvmUnderflows <=> ~Deep(EvmHeight, insts)
    <2>1. ASSUME NEW k \in 1..Len(insts)
          PROVE  EvmHeight[k - 1] < Args(insts[k].opcode) <=> ~(Args(insts[k].opcode) <= EvmHeight[k - 1])
        <3>1. insts[k] \in InstType BY ONLY <1>2, ElementOfSeq, k \in 1..Len(insts)
        <3>2. Args(insts[k].opcode) \in Nat BY ONLY <3>1, ArgsOfInst
        <3>3. k - 1 \in 0..Len(insts) BY ONLY <1>2, k \in 1..Len(insts)
        <3>4. EvmHeight[k - 1] \in Int BY ONLY <1>5, <3>3
        <3> QED BY ONLY <3>2, <3>4
    <2> QED BY ONLY <1>3, <2>1 DEF EvmUnderflows, Deep
<1>8. ~EvmUnderflows => OnStack(insts, entered) BY ONLY <1>6, <1>7 DEF HeightsAre
<1>9. ASSUME phase = "done"
      PROVE  /\ EvmHeight[Len(insts)] = entered + Len(returns) - pops_at_end
             /\ ~EvmUnderflows =>
                   /\ pops_at_end <= entered
                   /\ \A slot \in DOMAIN stack_sets \cup FinalizerPeeks : slot < entered
             /\ EvmUnderflows /\ OnStack(insts, entered) =>
                   \/ entered < pops_at_end
                   \/ ~PopsInFrame
                   \/ \E s \in DOMAIN stack_sets : ~(s < entered)
    <2>1. FinalHeights(EvmHeight, entered) BY ONLY <1>6, <1>9 DEF HeightsAre
    <2>2. EvmHeight[Len(insts)] = entered + Len(returns) - pops_at_end
        BY ONLY <2>1 DEF FinalHeights
    <2>3. ASSUME ~EvmUnderflows
          PROVE  /\ pops_at_end <= entered
                 /\ \A slot \in DOMAIN stack_sets \cup FinalizerPeeks : slot < entered
        <3>1. /\ pops_at_end <= entered
              /\ \A s \in DOMAIN stack_sets :
                    s < entered /\ (stack_sets[s].kind = "StackRef" => stack_sets[s].n < entered)
              /\ \A k \in 1..Len(returns) : returns[k].kind = "StackRef" => returns[k].n < entered
            BY ONLY <1>7, <2>1, <2>3 DEF FinalHeights
        <3>2. DOMAIN returns = 1..Len(returns) BY LenProperties DEF NamesInv, TypeBB
        <3>3. ASSUME NEW slot \in FinalizerPeeks PROVE slot < entered
            <4>1. PICK o \in Range(stack_sets) \cup Range(returns) : o.kind = "StackRef" /\ slot = o.n
                BY ONLY slot \in FinalizerPeeks DEF FinalizerPeeks, SlotsOf
            <4>2. CASE o \in Range(stack_sets)
                <5>1. PICK s \in DOMAIN stack_sets : o = stack_sets[s] BY ONLY <4>2 DEF Range
                <5> QED BY ONLY <3>1, <4>1, <5>1
            <4>3. CASE o \in Range(returns)
                <5>1. PICK k \in DOMAIN returns : o = returns[k] BY ONLY <4>3 DEF Range
                <5> QED BY ONLY <3>1, <3>2, <4>1, <5>1
            <4> QED BY ONLY <4>2, <4>3, o \in Range(stack_sets) \cup Range(returns)
        <3> QED BY ONLY <3>1, <3>3
    <2>4. EvmUnderflows /\ OnStack(insts, entered) =>
              \/ entered < pops_at_end
              \/ ~PopsInFrame
              \/ \E s \in DOMAIN stack_sets : ~(s < entered)
        BY ONLY <1>7, <2>1 DEF FinalHeights, PopsInFrame
    <2> QED BY ONLY <2>2, <2>3, <2>4
<1>10. ~EvmOverflows => EvmHeight[Len(insts)] <= StackLimit
    <2>1. StackLimit \in Nat BY HeightsAssumption
    <2>2. Len(insts) \in 0..Len(insts) BY ONLY <1>2
    <2>3. EvmHeight[Len(insts)] \in Int BY ONLY <1>5, <2>2
    <2>4. ~EvmOverflows => ~(EvmHeight[Len(insts)] > StackLimit) BY ONLY <1>2, <1>3 DEF EvmOverflows
    <2> QED BY ONLY <2>1, <2>3, <2>4
<1> QED BY ONLY <1>8, <1>9, <1>10

LEMMA OnStackIs ==
    ASSUME NamesInv, entered \in Nat
    PROVE  OnStack(insts, entered) <=> \A slot \in Nat : NamesSlot(slot, Len(insts)) => slot < entered
<1>0. insts \in Seq(InstType) BY DEF NamesInv, TypeBB
<1>1. ASSUME OnStack(insts, entered), NEW slot \in Nat, NamesSlot(slot, Len(insts))
      PROVE  slot < entered
    <2>0. PICK k \in 1..Len(insts) :
              \E j \in 1..Len(insts[k].operands) : insts[k].operands[j] = StackRef(slot)
        BY ONLY <1>1 DEF NamesSlot
    <2>1. PICK j \in 1..Len(insts[k].operands) : insts[k].operands[j] = StackRef(slot)
        BY ONLY <2>0
    <2>2. StackRef(slot).kind = "StackRef" /\ StackRef(slot).n = slot BY DEF StackRef
    <2> QED BY ONLY <1>1, <2>1, <2>2 DEF OnStack
<1>2. ASSUME \A slot \in Nat : NamesSlot(slot, Len(insts)) => slot < entered,
             NEW k \in 1..Len(insts), NEW j \in 1..Len(insts[k].operands),
             insts[k].operands[j].kind = "StackRef"
      PROVE  insts[k].operands[j].n < entered
    <2> DEFINE o == insts[k].operands[j]
    <2>1. insts[k].operands \in Seq(Operand) BY ONLY <1>0, OperandsAre, k \in 1..Len(insts)
    <2>2. o \in Operand BY ONLY <2>1, ElementOfSeq, j \in 1..Len(insts[k].operands)
    <2>3. o = StackRef(o.n) /\ o.n \in Nat BY ONLY <1>2, <2>2 DEF Operand, StackRef
    <2> QED BY ONLY <1>2, <2>3 DEF NamesSlot
<1> QED BY ONLY <1>1, <1>2 DEF OnStack

\* A block the EVM does not throw in passes every statement.
LEMMA NoThrow ==
    ASSUME NamesInv, HeightsInv, EmitType, stage = "run", RunsInv, ~EvmThrows,
           NEW st, Runs(st)
    PROVE  Fits(st) /\ st.do # "throw"
<1>1. /\ phase # "emulate" /\ FinalizerFacts /\ entered \in Nat /\ entered <= StackLimit
      /\ StackLimit \in Nat /\ pops_at_end \in Nat
    BY RunFacts
<1>2. PICK c \in Nat : Layout(c) /\ RunsAt(c) BY DEF RunsInv
<1>3. at < Len(text) /\ st = text[at + 1] BY DEF Runs
<1>4. /\ ~EvmUnderflows /\ ~EvmOverflows
      /\ \A k \in DOMAIN insts : insts[k].opcode \in Instruction
    BY DEF EvmThrows
<1>5. LastOpcode \in Instruction /\ phase = "done"
    <2>1. /\ insts \in Seq(InstType) /\ Len(insts) \in 1..Len(insts)
          /\ LastOpcode = insts[Len(insts)].opcode
          /\ phase # "bailed" <=> LastOpcode \in Instruction
        BY <1>1, LastIs
    <2>2. DOMAIN insts = 1..Len(insts) BY ONLY <2>1, LenProperties
    <2>3. LastOpcode \in Instruction BY ONLY <1>4, <2>1, <2>2
    <2>4. phase \in {"emulate", "bailed", "done"} BY DEF NamesInv, TypeBB
    <2> QED BY ONLY <1>1, <2>1, <2>3, <2>4
<1>6. /\ OnStack(insts, entered)
      /\ EvmHeight[Len(insts)] = entered + Len(returns) - pops_at_end
      /\ pops_at_end <= entered
      /\ \A slot \in DOMAIN stack_sets \cup FinalizerPeeks : slot < entered
      /\ EvmHeight[Len(insts)] <= StackLimit
    BY <1>1, <1>4, <1>5, EvmIs
<1>7. \A slot \in Nat : NamesSlot(slot, Len(insts)) => slot < entered
    BY <1>1, <1>6, OnStackIs
<1>8. \/ /\ at < c /\ height = entered
         /\ (st.do = "peek" /\ Wanted(st.n, Len(insts))) \/ MayDo(st, Len(insts))
      \/ /\ at = c /\ LastOpcode = JUMPI /\ height = entered /\ AllPassed(c)
         /\ st.do = "if" /\ st.n = Len(Finalizer) + 1
      \/ /\ AllPassed(c)
         /\ \E b \in Copies(c) : \E j \in Nat :
               /\ InFinalizer(b, j) /\ j + 1 \in 1..Len(Finalizer) /\ st = Finalizer[j + 1]
      \/ AtEnd(c) /\ is_jump(LastOpcode) /\ st.do = "jump"
    BY ONLY <1>1, <1>2, <1>3, NextStatement
<1>9. st \in StatementType /\ st.n \in Nat
    <2>1. text \in Seq(StatementType) /\ Len(text) \in Nat BY <1>2, LenProperties DEF Layout
    <2>2. at \in 0..Len(text) BY ONLY <1>2 DEF RunsAt
    <2>3. at + 1 \in 1..Len(text) BY ONLY <1>3, <2>1, <2>2
    <2>4. st \in StatementType BY ONLY <1>3, <2>1, <2>3, ElementOfSeq
    <2> QED BY ONLY <2>4 DEF StatementType
<1>10. CASE at < c /\ height = entered /\ st.do = "peek" /\ Wanted(st.n, Len(insts))
    <2>1. st.n < height BY ONLY <1>6, <1>7, <1>9, <1>10 DEF Wanted
    <2> QED BY ONLY <1>10, <2>1 DEF Fits
<1>11. CASE at < c /\ height = entered /\ MayDo(st, Len(insts))
    <2>1. CASE st.do = "set"
        <3>1. PICK slot \in Nat : NamesSlot(slot, Len(insts)) /\ st.n <= slot
            BY ONLY <1>11, <2>1 DEF MayDo
        <3>2. slot < entered BY ONLY <1>7, <3>1
        <3>3. st.n < height BY ONLY <1>1, <1>9, <1>11, <3>1, <3>2
        <3> QED BY ONLY <2>1, <3>3 DEF Fits
    <2>2. CASE st.do # "set"
        <3>1. st.do \in {"handler", "exit", "exit_on_error"} BY ONLY <1>5, <1>11, <2>2 DEF MayDo
        <3> QED BY ONLY <3>1 DEF Fits
    <2> QED BY ONLY <2>1, <2>2
<1>12. CASE st.do = "if" BY ONLY <1>12 DEF Fits
<1>13. ASSUME NEW b, NEW j \in Nat, InFinalizer(b, j), j + 1 \in 1..Len(Finalizer),
              st = Finalizer[j + 1]
       PROVE  Fits(st) /\ st.do # "throw"
    <2>1. height = HeightIn(j) BY ONLY <1>13 DEF InFinalizer
    <2>2. \/ /\ st.do = "set" /\ st.n \in DOMAIN stack_sets
             /\ HeightIn(j) = entered
          \/ st.do = "drop" /\ st.n = pops_at_end /\ HeightIn(j) = entered
          \/ /\ st.do = "push" /\ HeightIn(j) \in Int
             /\ HeightIn(j) < entered + Len(returns) - pops_at_end
        BY ONLY <1>1, <1>13, FinalizerStep
    <2>3. CASE st.do = "set" /\ st.n \in DOMAIN stack_sets /\ HeightIn(j) = entered
        <3>1. st.n < height BY ONLY <1>6, <2>1, <2>3
        <3> QED BY ONLY <2>3, <3>1 DEF Fits
    <2>4. CASE st.do = "drop" /\ st.n = pops_at_end /\ HeightIn(j) = entered
        <3>1. st.n <= height BY ONLY <1>6, <2>1, <2>4
        <3> QED BY ONLY <2>4, <3>1 DEF Fits
    <2>5. CASE /\ st.do = "push" /\ HeightIn(j) \in Int
               /\ HeightIn(j) < entered + Len(returns) - pops_at_end
        <3>0. Len(returns) \in Nat BY ONLY <1>1 DEF FinalizerFacts
        <3>1. height < StackLimit BY ONLY <1>1, <1>6, <2>1, <2>5, <3>0
        <3> QED BY ONLY <2>5, <3>1 DEF Fits
    <2> QED BY ONLY <2>2, <2>3, <2>4, <2>5
<1>14. CASE st.do = "jump" BY ONLY <1>14 DEF Fits
<1> QED BY ONLY <1>8, <1>10, <1>11, <1>12, <1>13, <1>14

-----------------------------------------------------------------------------
(* The steps *)

\* Where a block that goes on has come to, and how.
LEMMA EndFacts ==
    ASSUME NamesInv, HeightsInv, EmitType, stage = "run", NEW c \in Nat, Layout(c), AtEnd(c)
    PROVE  /\ LastOpcode \in Instruction /\ ~stops(LastOpcode)
           /\ height = EvmHeight[Len(insts)]
           /\ PopsInFrame => ~EvmUnderflows
<1>1. /\ phase # "emulate" /\ FinalizerFacts /\ entered \in Nat /\ pops_at_end \in Nat
    BY RunFacts
<1>2. AllPassed(c) BY DEF AtEnd
<1>3. \A i \in 1..c : /\ text[i].do \notin {"exit", "throw"}
                      /\ text[i].do \in {"peek", "set"} => text[i].n < entered
    BY ONLY <1>2 DEF AllPassed, Passed
<1>4. LastOpcode \in Instruction /\ ~stops(LastOpcode) BY ONLY <1>3, Layout(c) DEF Layout
<1>5. phase = "done"
    <2>1. phase # "bailed" <=> LastOpcode \in Instruction BY <1>1, LastIs
    <2>2. phase \in {"emulate", "bailed", "done"} BY DEF NamesInv, TypeBB
    <2> QED BY ONLY <1>1, <1>4, <2>1, <2>2
<1>6. height = HeightIn(Len(Finalizer)) /\ \A i \in 1..Len(Finalizer) : Passed(Finalizer[i])
    BY ONLY AtEnd(c) DEF AtEnd, InFinalizer
<1>7. HeightIn(Len(Finalizer)) = entered + Len(returns) - pops_at_end BY ONLY <1>1, HeightAtEnd
<1>8. /\ EvmHeight[Len(insts)] = entered + Len(returns) - pops_at_end
      /\ EvmUnderflows /\ OnStack(insts, entered) =>
            \/ entered < pops_at_end
            \/ ~PopsInFrame
            \/ \E s \in DOMAIN stack_sets : ~(s < entered)
    BY <1>5, EvmIs
<1>9. OnStack(insts, entered)
    <2>1. ASSUME NEW slot \in Nat, NamesSlot(slot, Len(insts)) PROVE slot < entered
        <3>1. PICK i \in 1..c : text[i].do \in {"peek", "set"} /\ text[i].n = slot
            BY ONLY <2>1, Layout(c) DEF Layout
        <3> QED BY ONLY <1>3, <3>1
    <2> QED BY <1>1, <2>1, OnStackIs
<1>10. ~(entered < pops_at_end)
    <2>1. SUFFICES ASSUME entered < pops_at_end PROVE FALSE OBVIOUS
    <2>2. pops_at_end > 0 BY ONLY <1>1, <2>1
    <2>3. Finalizer[Sets + 1] = DropN(pops_at_end) /\ Sets + 1 \in 1..Len(Finalizer)
        BY ONLY <1>1, <2>2 DEF FinalizerFacts
    <2>4. Passed(DropN(pops_at_end)) BY ONLY <1>6, <2>3
    <2>5. pops_at_end <= entered BY ONLY <2>4 DEF Passed, DropN, Statement
    <2> QED BY ONLY <1>1, <2>1, <2>5
<1>11. ASSUME NEW s \in DOMAIN stack_sets PROVE s < entered
    <2>1. PICK j \in 1..Sets : Finalizer[j].n = s /\ Finalizer[j].do = "set"
        BY ONLY <1>1, s \in DOMAIN stack_sets DEF FinalizerFacts
    <2>2. j \in 1..Len(Finalizer)
        <3>1. Sets \in Nat /\ Drops \in Nat /\ Len(returns) \in Nat
              /\ Len(Finalizer) = Sets + Drops + Len(returns)
            BY ONLY <1>1 DEF FinalizerFacts
        <3> QED BY ONLY <3>1, j \in 1..Sets
    <2>3. Passed(Finalizer[j]) BY ONLY <1>6, <2>2
    <2> QED BY ONLY <2>1, <2>3 DEF Passed
<1> QED BY ONLY <1>4, <1>6, <1>7, <1>8, <1>9, <1>10, <1>11

LEMMA EvmStays ==
    ASSUME UNCHANGED <<bbVars, entered>>
    PROVE  /\ EvmHeight' = EvmHeight /\ LastOpcode' = LastOpcode
           /\ (EvmUnderflows' <=> EvmUnderflows) /\ (EvmThrows' <=> EvmThrows)
           /\ (PopsInFrame' <=> PopsInFrame)
<1>1. /\ insts' = insts /\ evm_stack' = evm_stack /\ pops_at_end' = pops_at_end
      /\ entered' = entered
    BY DEF bbVars
<1>2. EvmHeight' = EvmHeight BY ONLY <1>1 DEF EvmHeight, EvmHeights
<1>3. LastOpcode' = LastOpcode BY ONLY <1>1 DEF LastOpcode
<1>4. EvmUnderflows' <=> EvmUnderflows BY ONLY <1>1, <1>2 DEF EvmUnderflows
<1>5. EvmOverflows' <=> EvmOverflows BY ONLY <1>1, <1>2 DEF EvmOverflows
<1>6. EvmThrows' <=> EvmThrows BY ONLY <1>1, <1>4, <1>5 DEF EvmThrows
<1>7. PopsInFrame' <=> PopsInFrame BY ONLY <1>1 DEF PopsInFrame, Missing
<1> QED BY ONLY <1>2, <1>3, <1>4, <1>6, <1>7

Outcomes == ThrowsOnlyAsEvm /\ LeavesAsEvm /\ UnderflowIsNoticed

LEMMA LeavesRightly ==
    ASSUME NamesInv, HeightsInv, EmitType, stage = "run", RunsInv, NEW how, Leave(how),
           \/ how = "threw" /\ \E st : ThrowAt(st)
           \/ how = "jumped" /\ \E st : JumpAt(st)
           \/ how = "exited" /\ \E st : ExitAt(st)
           \/ how = "fell" /\ at = Len(text)
    PROVE  Outcomes'
<1>1. /\ phase # "emulate" /\ FinalizerFacts /\ entered \in Nat /\ pops_at_end \in Nat
    BY RunFacts
<1>2. PICK c \in Nat : Layout(c) /\ RunsAt(c) BY DEF RunsInv
<1>3. /\ left' = how /\ height' = height /\ UNCHANGED <<bbVars, entered>> /\ insts' = insts
    BY DEF Leave, bbVars
<1>4. /\ EvmHeight' = EvmHeight /\ LastOpcode' = LastOpcode
      /\ (EvmUnderflows' <=> EvmUnderflows) /\ (EvmThrows' <=> EvmThrows)
      /\ (PopsInFrame' <=> PopsInFrame)
    BY <1>3, EvmStays
<1>5. AtEnd(c) =>
          /\ LastOpcode \in Instruction /\ ~stops(LastOpcode)
          /\ height = EvmHeight[Len(insts)]
          /\ PopsInFrame => ~EvmUnderflows
    BY <1>2, EndFacts
<1>6. CASE how = "threw" /\ \E st : ThrowAt(st)
    <2>1. PICK st : ThrowAt(st) BY ONLY <1>6
    <2>2. Runs(st) /\ (~Fits(st) \/ st.do = "throw") BY ONLY <2>1 DEF ThrowAt
    <2>3. EvmThrows BY <2>2, NoThrow
    <2> QED BY ONLY <1>3, <1>4, <1>6, <2>3
            DEF Outcomes, ThrowsOnlyAsEvm, LeavesAsEvm, UnderflowIsNoticed
<1>7. CASE how = "jumped" /\ \E st : JumpAt(st)
    <2>1. PICK st : JumpAt(st) BY ONLY <1>7
    <2>2. at < Len(text) /\ st = text[at + 1] /\ st.do = "jump" BY ONLY <2>1 DEF JumpAt, Runs
    <2>3. \/ /\ at < c /\ height = entered
             /\ (st.do = "peek" /\ Wanted(st.n, Len(insts))) \/ MayDo(st, Len(insts))
          \/ /\ at = c /\ LastOpcode = JUMPI /\ height = entered /\ AllPassed(c)
             /\ st.do = "if" /\ st.n = Len(Finalizer) + 1
          \/ /\ AllPassed(c)
             /\ \E b \in Copies(c) : \E j \in Nat :
                   /\ InFinalizer(b, j) /\ j + 1 \in 1..Len(Finalizer) /\ st = Finalizer[j + 1]
          \/ AtEnd(c) /\ is_jump(LastOpcode) /\ st.do = "jump"
        BY ONLY <1>1, <1>2, <2>2, NextStatement
    <2>4. ~MayDo(st, Len(insts)) BY ONLY <2>2 DEF MayDo
    <2>5. ASSUME NEW j \in Nat, j + 1 \in 1..Len(Finalizer), st = Finalizer[j + 1] PROVE FALSE
        <3>1. st.do = "set" \/ st.do = "drop" \/ st.do = "push" BY ONLY <1>1, <2>5, FinalizerStep
        <3> QED BY ONLY <2>2, <3>1
    <2>6. AtEnd(c) /\ is_jump(LastOpcode) BY ONLY <2>2, <2>3, <2>4, <2>5
    <2> QED BY ONLY <1>3, <1>4, <1>5, <1>7, <2>6
            DEF Outcomes, ThrowsOnlyAsEvm, LeavesAsEvm, UnderflowIsNoticed
<1>8. CASE how = "exited" /\ \E st : ExitAt(st)
    <2>1. PICK st : ExitAt(st) BY ONLY <1>8
    <2>2. at < Len(text) /\ st = text[at + 1] /\ st.do \in {"exit", "exit_on_error"}
        BY ONLY <2>1 DEF ExitAt, Runs
    <2>3. \/ /\ at < c /\ height = entered
             /\ (st.do = "peek" /\ Wanted(st.n, Len(insts))) \/ MayDo(st, Len(insts))
          \/ /\ at = c /\ LastOpcode = JUMPI /\ height = entered /\ AllPassed(c)
             /\ st.do = "if" /\ st.n = Len(Finalizer) + 1
          \/ /\ AllPassed(c)
             /\ \E b \in Copies(c) : \E j \in Nat :
                   /\ InFinalizer(b, j) /\ j + 1 \in 1..Len(Finalizer) /\ st = Finalizer[j + 1]
          \/ AtEnd(c) /\ is_jump(LastOpcode) /\ st.do = "jump"
        BY ONLY <1>1, <1>2, <2>2, NextStatement
    <2>4. ASSUME NEW j \in Nat, j + 1 \in 1..Len(Finalizer), st = Finalizer[j + 1] PROVE FALSE
        <3>1. st.do = "set" \/ st.do = "drop" \/ st.do = "push" BY ONLY <1>1, <2>4, FinalizerStep
        <3> QED BY ONLY <2>2, <3>1
    <2>5. MayDo(st, Len(insts)) BY ONLY <2>2, <2>3, <2>4
    <2>6. stops(LastOpcode) \/ \E k \in 1..Len(insts) : MayFail(insts[k].opcode)
        BY ONLY <2>2, <2>5 DEF MayDo
    <2>7. DOMAIN insts = 1..Len(insts) BY LenProperties DEF NamesInv, TypeBB
    <2> QED BY ONLY <1>3, <1>4, <1>8, <2>6, <2>7
            DEF Outcomes, ThrowsOnlyAsEvm, LeavesAsEvm, UnderflowIsNoticed
<1>9. CASE how = "fell" /\ at = Len(text)
    <2>1. AtEnd(c) /\ LastOpcode # JUMP BY ONLY <1>1, <1>2, <1>9, NoStatement
    <2> QED BY ONLY <1>3, <1>4, <1>5, <1>9, <2>1
            DEF Outcomes, ThrowsOnlyAsEvm, LeavesAsEvm, UnderflowIsNoticed
<1> QED BY ONLY <1>6, <1>7, <1>8, <1>9,
        \/ how = "threw" /\ \E st : ThrowAt(st)
        \/ how = "jumped" /\ \E st : JumpAt(st)
        \/ how = "exited" /\ \E st : ExitAt(st)
        \/ how = "fell" /\ at = Len(text)

\* A block that is not left satisfies them.
LEMMA NotLeft == ASSUME left' = "no" PROVE Outcomes'
BY DEF Outcomes, ThrowsOnlyAsEvm, LeavesAsEvm, UnderflowIsNoticed

\* A statement that is done leads to where the invariant says.
LEMMA StepsOn ==
    ASSUME NamesInv, EmitType, RunsInv, NEW st, StepOver(st)
    PROVE  RunsInv'
<1>0. stage = "run" BY DEF StepOver, Runs
<1>1. /\ FinalizerFacts /\ entered \in Nat /\ pops_at_end \in Nat BY <1>0, RunFacts
<1>2. PICK c \in Nat : Layout(c) /\ RunsAt(c) BY <1>0 DEF RunsInv
<1>3. /\ at < Len(text) /\ st = text[at + 1] /\ Fits(st)
      /\ st.do \notin {"jump", "exit", "throw"}
      /\ at' \in {at + 1} \cup (IF st.do = "if" THEN {at + 1 + st.n} ELSE {})
      /\ height' = HeightAfter(st)
      /\ UNCHANGED <<bbVars, text, entered>>
    BY DEF StepOver, Runs
<1>4. /\ Layout(c)' /\ Copies(c)' = Copies(c)
      /\ \A s : Passed(s)' <=> Passed(s)
      /\ \A j : HeightIn(j)' = HeightIn(j)
      /\ Finalizer' = Finalizer /\ text' = text /\ entered' = entered
    BY <1>2, <1>3, LayoutStays, BlockStays
<1>5. /\ at \in 0..Len(text) /\ Len(text) \in Nat /\ c \in 0..Len(text)
      /\ \A i \in 1..c : i <= at => Passed(text[i])
    BY ONLY <1>1, <1>2, Where DEF RunsAt
<1>6. \/ /\ at < c /\ height = entered
         /\ (st.do = "peek" /\ Wanted(st.n, Len(insts))) \/ MayDo(st, Len(insts))
      \/ /\ at = c /\ LastOpcode = JUMPI /\ height = entered /\ AllPassed(c)
         /\ st.do = "if" /\ st.n = Len(Finalizer) + 1
      \/ /\ AllPassed(c)
         /\ \E b \in Copies(c) : \E j \in Nat :
               /\ InFinalizer(b, j) /\ j + 1 \in 1..Len(Finalizer) /\ st = Finalizer[j + 1]
      \/ AtEnd(c) /\ is_jump(LastOpcode) /\ st.do = "jump"
    BY ONLY <1>1, <1>2, <1>3, NextStatement
<1>7. CASE /\ at < c /\ height = entered
           /\ (st.do = "peek" /\ Wanted(st.n, Len(insts))) \/ MayDo(st, Len(insts))
    <2>1. st.do \in {"peek", "set", "handler", "exit_on_error"}
        BY ONLY <1>3, <1>7 DEF MayDo
    <2>2. at' = at + 1 /\ height' = entered BY ONLY <1>3, <1>7, <2>1 DEF HeightAfter
    <2>3. Passed(st)
        <3>1. st.do \in {"peek", "set"} => st.n < entered BY ONLY <1>3, <1>7 DEF Fits
        <3> QED BY ONLY <2>1, <3>1 DEF Passed
    <2>4. /\ at' \in 0..Len(text) /\ at' <= c
          /\ \A i \in 1..c : i <= at' => i <= at \/ i = at + 1
        BY ONLY <1>5, <1>7, <2>2
    <2>5. ASSUME NEW i \in 1..c, i <= at' PROVE Passed(text[i])
        <3>1. i = at + 1 => text[i] = st BY ONLY <1>3
        <3> QED BY ONLY <1>5, <2>3, <2>4, <2>5, <3>1
    <2>6. \A i \in 1..c : i <= at' => Passed(text[i])' BY ONLY <1>4, <2>5
    <2>7. RunsAt(c)' BY ONLY <1>4, <2>2, <2>4, <2>6 DEF RunsAt
    <2> QED BY ONLY <1>4, <2>7 DEF RunsInv
<1>8. ASSUME NEW b \in Copies(c), NEW j \in Nat, j \in 0..Len(Finalizer), at' = b + j,
             height' = HeightIn(j), \A i \in 1..j : Passed(Finalizer[i]), AllPassed(c),
             at' \in 0..Len(text)
      PROVE  RunsInv'
    <2>1. InFinalizer(b, j)'
        <3>1. \A i \in 1..j : Passed(Finalizer[i])' BY ONLY <1>4, <1>8
        <3> QED BY ONLY <1>4, <1>8, <3>1 DEF InFinalizer
    <2>2. \A i \in 1..c : Passed(text[i])' BY ONLY <1>4, <1>8 DEF AllPassed
    <2>3. RunsAt(c)' BY ONLY <1>4, <1>8, <2>1, <2>2 DEF RunsAt
    <2> QED BY ONLY <1>4, <2>3 DEF RunsInv
<1>9. CASE /\ at = c /\ LastOpcode = JUMPI /\ height = entered /\ AllPassed(c)
           /\ st.do = "if" /\ st.n = Len(Finalizer) + 1
    <2> DEFINE F == Len(Finalizer)
    <2>1. F \in Nat /\ Sets \in Nat /\ Drops \in Nat BY <1>1, LenProperties DEF FinalizerFacts
    <2>2. Len(text) = c + 2 * F + 2 BY ONLY <1>2, <1>9 DEF Layout
    <2>3. at' = c + 1 \/ at' = c + F + 2
        <3>1. at' = at + 1 \/ at' = at + 1 + st.n BY ONLY <1>3
        <3> QED BY ONLY <1>9, <2>1, <3>1, c \in Nat
    <2>4. height' = entered BY ONLY <1>3, <1>9 DEF HeightAfter
    <2>5. HeightIn(0) = entered
        <3>1. ~(0 > Sets) /\ ~(0 > Sets + Drops) BY ONLY <2>1
        <3> QED BY ONLY <1>1, <3>1 DEF HeightIn
    <2>6. PICK b \in Copies(c) : at' = b
        <3>1. Copies(c) = {c + 1, c + F + 2} BY ONLY <1>9 DEF Copies
        <3> QED BY ONLY <2>3, <3>1
    <2>7. /\ at' = b + 0 /\ 0 \in 0..F /\ 0 \in Nat /\ at' \in 0..Len(text)
          /\ \A i : i \notin 1..0
        BY ONLY <2>1, <2>2, <2>3, <2>6, c \in Nat
    <2> QED BY ONLY <1>8, <1>9, <2>4, <2>5, <2>7
<1>10. ASSUME AllPassed(c), NEW b \in Copies(c), NEW j \in Nat, InFinalizer(b, j),
              j + 1 \in 1..Len(Finalizer), st = Finalizer[j + 1]
       PROVE  RunsInv'
    <2>1. at = b + j /\ height = HeightIn(j) /\ \A i \in 1..j : Passed(Finalizer[i])
        BY ONLY <1>10 DEF InFinalizer
    <2>2. \/ /\ st.do = "set" /\ st.n \in DOMAIN stack_sets
             /\ HeightIn(j) = entered /\ HeightIn(j + 1) = entered
          \/ /\ st.do = "drop" /\ st.n = pops_at_end
             /\ HeightIn(j) = entered /\ HeightIn(j + 1) = entered - pops_at_end
          \/ /\ st.do = "push"
             /\ HeightIn(j) \in Int /\ HeightIn(j + 1) = HeightIn(j) + 1
        BY ONLY <1>1, <1>10, FinalizerStep
    <2>3. at' = at + 1 /\ height' = HeightIn(j + 1) /\ Passed(st)
        <3>1. CASE st.do = "set" /\ HeightIn(j) = entered /\ HeightIn(j + 1) = entered
            BY ONLY <1>3, <2>1, <3>1 DEF HeightAfter, Fits, Passed
        <3>2. CASE /\ st.do = "drop" /\ st.n = pops_at_end
                   /\ HeightIn(j) = entered /\ HeightIn(j + 1) = entered - pops_at_end
            BY ONLY <1>3, <2>1, <3>2 DEF HeightAfter, Fits, Passed
        <3>3. CASE st.do = "push" /\ HeightIn(j + 1) = HeightIn(j) + 1
            BY ONLY <1>3, <2>1, <3>3 DEF HeightAfter, Fits, Passed
        <3> QED BY ONLY <2>2, <3>1, <3>2, <3>3
    <2>4. b \in Nat
        <3>1. b = c \/ b = c + 1 \/ b = c + Len(Finalizer) + 2
            BY ONLY b \in Copies(c) DEF Copies
        <3>2. Len(Finalizer) \in Nat BY <1>1, LenProperties DEF FinalizerFacts
        <3> QED BY ONLY <3>1, <3>2, c \in Nat
    <2>5. at' = b + (j + 1) /\ j + 1 \in Nat /\ j + 1 \in 0..Len(Finalizer) /\ at' \in 0..Len(text)
          /\ \A i \in 1..(j + 1) : i \in 1..j \/ i = j + 1
        <3>1. Len(Finalizer) \in Nat BY <1>1, LenProperties DEF FinalizerFacts
        <3>2. at < Len(text) BY ONLY <1>3
        <3> QED BY ONLY <1>5, <1>10, <2>1, <2>3, <2>4, <3>1, <3>2, j \in Nat
    <2>6. \A i \in 1..(j + 1) : Passed(Finalizer[i]) BY ONLY <1>10, <2>1, <2>3, <2>5
    <2> QED BY ONLY <1>8, <1>10, <2>3, <2>5, <2>6
<1> QED BY ONLY <1>3, <1>6, <1>7, <1>9, <1>10
-----------------------------------------------------------------------------
(* The invariant is inductive *)

EmitInv ==
    /\ NamesInv /\ HeightsInv /\ EmitType
    /\ PrintInv /\ RunsInv /\ OnlySwappedAreUndeclared /\ Outcomes

\* Nothing but the emulation touches the block.
LEMMA BlockNext ==
    ASSUME NamesInv, HeightsInv, NextBB \/ UNCHANGED bbVars
    PROVE  NamesInv' /\ HeightsInv'
BY NamesNext, HeightsNext

LEMMA Emulates ==
    ASSUME NamesInv, NextBB, \A s \in DOMAIN stack_sets : s < FrameLen
    PROVE  phase = "emulate" /\ \A s \in DOMAIN stack_sets' : s < FrameLen
<1>1. CASE FinishBB BY <1>1, FinishIs DEF NamesInv
<1>2. CASE \E op \in Opcodes : Emulate(op)
    <2>1. PICK op \in Opcodes : Emulate(op) BY <1>2
    <2>2. PICK inst : Codes(inst) BY <2>1, EmulateIs DEF NamesInv
    <2>3. phase = "emulate" /\ stack_sets' = stack_sets BY ONLY <2>2 DEF Codes, Takes
    <2> QED BY ONLY <2>3, \A s \in DOMAIN stack_sets : s < FrameLen
<1> QED BY ONLY <1>1, <1>2, NextBB DEF NextBB

LEMMA NoText == ASSUME text' = <<>> PROVE OnlySwappedAreUndeclared'
<1>1. DOMAIN text' = {} BY ONLY text' = <<>>
<1> QED BY ONLY <1>1 DEF OnlySwappedAreUndeclared

LEMMA EmitInit_Inv == EmitInit => EmitInv
<1> SUFFICES ASSUME EmitInit PROVE EmitInv OBVIOUS
<1>1. /\ InitBB /\ stage = "emulate" /\ instructions_gen = <<>> /\ ~finalizer_emitted
      /\ text = <<>> /\ at = 0 /\ entered \in EntryHeights /\ height = entered /\ left = "no"
    BY DEF EmitInit
<1>2. NamesInv /\ HeightsInv BY ONLY <1>1, NamesInit, HeightsInit
<1>3. EmitType
    <2>1. DOMAIN stack_sets = {} BY ONLY <1>1 DEF InitBB
    <2>2. entered \in 0..StackLimit BY ONLY <1>1, HeightsAssumption
    <2> QED BY ONLY <1>1, <2>1, <2>2 DEF EmitType
<1>4. PrintInv /\ RunsInv BY ONLY <1>1 DEF PrintInv, RunsInv
<1>5. OnlySwappedAreUndeclared
    <2>1. DOMAIN text = {} BY ONLY <1>1
    <2> QED BY ONLY <2>1 DEF OnlySwappedAreUndeclared
<1>6. Outcomes BY ONLY <1>1 DEF Outcomes, ThrowsOnlyAsEvm, LeavesAsEvm, UnderflowIsNoticed
<1> QED BY ONLY <1>2, <1>3, <1>4, <1>5, <1>6 DEF EmitInv

\* The emulation, whose steps come first.
LEMMA EmulationKeeps ==
    ASSUME EmitInv, NextBB, UNCHANGED <<stage, printVars, text, execVars>>
    PROVE  EmitInv'
<1>1. NamesInv /\ HeightsInv /\ EmitType BY ONLY EmitInv DEF EmitInv
<1>2. NamesInv' /\ HeightsInv' BY ONLY <1>1, NextBB, BlockNext
<1>3. phase = "emulate" /\ \A s \in DOMAIN stack_sets' : s < FrameLen
    BY ONLY <1>1, NextBB, Emulates DEF EmitType
<1>4. /\ stage' = stage /\ instructions_gen' = instructions_gen
      /\ finalizer_emitted' = finalizer_emitted /\ text' = text
      /\ at' = at /\ entered' = entered /\ height' = height /\ left' = left
    BY DEF printVars, execVars
<1>5. stage = "emulate" /\ text = <<>> /\ left = "no" BY ONLY <1>1, <1>3 DEF EmitType
<1>6. EmitType' BY ONLY <1>1, <1>3, <1>4, <1>5 DEF EmitType
<1>7. PrintInv' /\ RunsInv' BY ONLY <1>4, <1>5 DEF PrintInv, RunsInv
<1>8. OnlySwappedAreUndeclared' BY ONLY <1>4, <1>5, NoText
<1>9. Outcomes' BY ONLY <1>4, <1>5, NotLeft
<1> QED BY ONLY <1>2, <1>6, <1>7, <1>8, <1>9 DEF EmitInv

\* Printing the finalizer or an instruction.
PrintsOne ==
    \/ PrintIgnoreable \/ PrintJump \/ PrintJumpI
    \/ PrintSwap \/ PrintSwapOfConstant \/ PrintHandler \/ PrintInvalid

LEMMA PrintingKeeps == ASSUME EmitInv, PrintFinalizer \/ PrintsOne PROVE EmitInv'
<1>1. NamesInv /\ HeightsInv /\ EmitType /\ PrintInv BY ONLY EmitInv DEF EmitInv
<1>2. /\ UNCHANGED bbVars /\ phase # "emulate" /\ stage' = "print"
      /\ text' = <<>> /\ at' = 0 /\ height' = entered' /\ entered' = entered /\ left' = "no"
    <2>1. CASE PrintFinalizer BY ONLY <1>1, <2>1 DEF PrintFinalizer, EmitType, execVars
    <2>2. CASE PrintsOne
        <3>1. \E code : Prints(code)
            BY ONLY <2>2 DEF PrintsOne, PrintIgnoreable, PrintJump, PrintJumpI, PrintSwap,
                PrintSwapOfConstant, PrintHandler, PrintInvalid
        <3> QED BY ONLY <1>1, <3>1 DEF Prints, EmitType, execVars
    <2> QED BY <2>1, <2>2
<1>3. NamesInv' /\ HeightsInv' BY ONLY <1>1, <1>2, BlockNext
<1>4. EmitType'
    <2>1. stack_sets' = stack_sets /\ phase' = phase BY ONLY <1>2 DEF bbVars
    <2> QED BY ONLY <1>1, <1>2, <2>1 DEF EmitType
<1>5. PrintInv'
    BY ONLY <1>1, PrintFinalizer \/ PrintsOne, PrintsFinalizer, PrintsIgnoreable, PrintsJump,
        PrintsJumpI, PrintsSwap, PrintsSwapOfConstant, PrintsHandler, PrintsInvalid
    DEF PrintsOne
<1>6. RunsInv' BY ONLY <1>2 DEF RunsInv
<1>7. OnlySwappedAreUndeclared' BY ONLY <1>2, NoText
<1>8. Outcomes' BY ONLY <1>2, NotLeft
<1> QED BY ONLY <1>3, <1>4, <1>5, <1>6, <1>7, <1>8 DEF EmitInv

LEMMA AssemblyKeeps == ASSUME EmitInv, Assemble PROVE EmitInv'
<1>1. NamesInv /\ HeightsInv /\ EmitType /\ PrintInv BY ONLY EmitInv DEF EmitInv
<1>2. /\ UNCHANGED bbVars /\ stage = "print" /\ stage' = "run" /\ entered' = entered
    BY DEF Assemble, execVars
<1>3. phase # "emulate" BY ONLY <1>1, <1>2 DEF EmitType
<1>4. RunsInv' /\ OnlySwappedAreUndeclared' /\ left' = "no" BY ONLY <1>1, Assemble, AssembledRuns
<1>5. NamesInv' /\ HeightsInv' BY ONLY <1>1, <1>2, BlockNext
<1>6. EmitType'
    <2>1. stack_sets' = stack_sets /\ phase' = phase BY ONLY <1>2 DEF bbVars
    <2> QED BY ONLY <1>1, <1>2, <1>3, <1>4, <2>1 DEF EmitType
<1>7. PrintInv' BY ONLY <1>2 DEF PrintInv
<1>8. Outcomes' BY ONLY <1>4, NotLeft
<1> QED BY ONLY <1>4, <1>5, <1>6, <1>7, <1>8 DEF EmitInv

\* While the block runs its text stays as it was printed.
LEMMA TextStays ==
    ASSUME EmitInv, stage = "run", UNCHANGED <<bbVars, text, entered>>,
           stage' \in {"run", "left"}, stage' # "left" => left' = "no"
    PROVE  NamesInv' /\ HeightsInv' /\ EmitType' /\ PrintInv' /\ OnlySwappedAreUndeclared'
<1>1. NamesInv /\ HeightsInv /\ EmitType /\ OnlySwappedAreUndeclared BY ONLY EmitInv DEF EmitInv
<1>2. NamesInv' /\ HeightsInv' BY ONLY <1>1, UNCHANGED <<bbVars, text, entered>>, BlockNext
<1>3. /\ insts' = insts /\ stack_sets' = stack_sets /\ phase' = phase
      /\ text' = text /\ entered' = entered
    BY DEF bbVars
<1>4. EmitType' BY ONLY <1>1, <1>3, stage = "run", stage' \in {"run", "left"},
                        stage' # "left" => left' = "no" DEF EmitType
<1>5. PrintInv' BY ONLY stage' \in {"run", "left"} DEF PrintInv
<1>6. OnlySwappedAreUndeclared'
    BY ONLY <1>1, <1>3 DEF OnlySwappedAreUndeclared, Undeclared, Declared
<1> QED BY ONLY <1>2, <1>4, <1>5, <1>6

LEMMA StepKeeps == ASSUME EmitInv, NEW st, StepOver(st) PROVE EmitInv'
<1>1. NamesInv /\ EmitType /\ RunsInv BY ONLY EmitInv DEF EmitInv
<1>2. /\ stage = "run" /\ stage' = stage /\ left' = left /\ UNCHANGED <<bbVars, text, entered>>
    BY DEF StepOver, Runs
<1>3. left = "no" BY ONLY <1>1, <1>2 DEF EmitType
<1>4. NamesInv' /\ HeightsInv' /\ EmitType' /\ PrintInv' /\ OnlySwappedAreUndeclared'
    BY ONLY EmitInv, <1>2, <1>3, TextStays
<1>5. RunsInv' BY ONLY <1>1, StepOver(st), StepsOn
<1>6. Outcomes' BY ONLY <1>2, <1>3, NotLeft
<1> QED BY ONLY <1>4, <1>5, <1>6 DEF EmitInv

LEMMA RunsStay ==
    ASSUME UNCHANGED <<bbVars, text, entered, at, height>>, NEW c, Layout(c), RunsAt(c)
    PROVE  Layout(c)' /\ RunsAt(c)'
<1>1. text' = text /\ at' = at /\ height' = height /\ entered' = entered OBVIOUS
<1>2. /\ Layout(c)' <=> Layout(c)
      /\ Copies(c)' = Copies(c)
      /\ \A st : Passed(st)' <=> Passed(st)
      /\ \A j : HeightIn(j)' = HeightIn(j)
    BY LayoutStays
<1>3. Finalizer' = Finalizer BY BlockStays
<1>4. ASSUME NEW b, NEW j PROVE InFinalizer(b, j)' <=> InFinalizer(b, j)
    BY ONLY <1>1, <1>2, <1>3 DEF InFinalizer
<1>5. RunsAt(c)'
    <2>1. at' \in 0..Len(text') BY ONLY <1>1, RunsAt(c) DEF RunsAt
    <2>2. \A i \in 1..c : i <= at' => Passed(text[i])'
        <3>1. \A i \in 1..c : i <= at => Passed(text[i]) BY ONLY RunsAt(c) DEF RunsAt
        <3> QED BY ONLY <1>1, <1>2, <3>1
    <2>3. \/ at' <= c /\ height' = entered'
          \/ \E b \in Copies(c)' : \E j \in Nat : InFinalizer(b, j)'
        <3>1. \/ at <= c /\ height = entered
              \/ \E b \in Copies(c) : \E j \in Nat : InFinalizer(b, j)
            BY ONLY RunsAt(c) DEF RunsAt
        <3>2. CASE at <= c /\ height = entered BY ONLY <1>1, <3>2
        <3>3. CASE \E b \in Copies(c) : \E j \in Nat : InFinalizer(b, j)
            BY ONLY <1>2, <1>4, <3>3
        <3> QED BY ONLY <3>1, <3>2, <3>3
    <2> QED BY ONLY <2>1, <2>2, <2>3 DEF RunsAt
<1> QED BY ONLY <1>2, <1>5, Layout(c)

LEMMA LeavingKeeps ==
    ASSUME EmitInv, stage = "run", NEW how, Leave(how),
           \/ how = "threw" /\ \E st : ThrowAt(st)
           \/ how = "jumped" /\ \E st : JumpAt(st)
           \/ how = "exited" /\ \E st : ExitAt(st)
           \/ how = "fell" /\ at = Len(text)
    PROVE  EmitInv'
<1>1. NamesInv /\ HeightsInv /\ EmitType /\ RunsInv BY ONLY EmitInv DEF EmitInv
<1>2. Outcomes' BY <1>1, LeavesRightly
<1>3. /\ stage' = "left" /\ UNCHANGED <<bbVars, text, entered>> /\ at' = at /\ height' = height
      /\ text' = text
    BY DEF Leave
<1>4. NamesInv' /\ HeightsInv' /\ EmitType' /\ PrintInv' /\ OnlySwappedAreUndeclared'
    BY ONLY EmitInv, stage = "run", <1>3, TextStays
<1>5. RunsInv'
    <2>1. PICK c \in Nat : Layout(c) /\ RunsAt(c) BY ONLY <1>1, stage = "run" DEF RunsInv
    <2>2. Layout(c)' /\ RunsAt(c)' BY ONLY <1>3, <2>1, RunsStay
    <2> QED BY ONLY <2>2 DEF RunsInv
<1> QED BY ONLY <1>2, <1>4, <1>5 DEF EmitInv

LEMMA PrintsStay ==
    ASSUME UNCHANGED <<bbVars, stack_peeks, instructions_gen, finalizer_emitted>>,
           NEW m, PrintsWell(m)
    PROVE  PrintsWell(m)'
<1>1. /\ insts' = insts /\ stack_peeks' = stack_peeks
      /\ instructions_gen' = instructions_gen /\ finalizer_emitted' = finalizer_emitted
    BY DEF bbVars
<1>2. /\ Finalizer' = Finalizer /\ LastOpcode' = LastOpcode /\ Leap' = Leap
      /\ Last(insts)' = Last(insts)
    BY BlockStays
<1>3. Printed' = Printed BY ONLY <1>1 DEF Printed
<1>4. \A op : Ends(op)' <=> Ends(op) BY ONLY <1>1, <1>2, <1>3 DEF Ends
<1>5. JumpCode' = JumpCode
    <2>1. (Ends(JUMP)' <=> Ends(JUMP)) /\ (Ends(JUMPI)' <=> Ends(JUMPI)) BY ONLY <1>4
    <2> QED BY ONLY <1>2, <2>1 DEF JumpCode
<1>6. ASSUME NEW slot
      PROVE  /\ NamesSlot(slot, m)' <=> NamesSlot(slot, m)
             /\ Wanted(slot, m)' <=> Wanted(slot, m)
             /\ SwappedAway(slot)' <=> SwappedAway(slot)
    BY NamesStay
<1>7. ASSUME NEW g, IsPrinted(g, m) PROVE IsPrinted(g, m)'
    <2>1. IsCode(g, m)' BY <1>7, CodeStays DEF IsPrinted
    <2>2. Touches(g, m)' BY ONLY <1>1, <1>6, <1>7 DEF IsPrinted, Touches
    <2> QED BY ONLY <1>1, <1>5, <1>7, <2>1, <2>2 DEF IsPrinted
<1>8. PeeksAreWanted(m)' BY ONLY <1>1, <1>6, PrintsWell(m) DEF PrintsWell, PeeksAreWanted
<1> QED BY ONLY <1>1, <1>3, <1>4, <1>7, <1>8, PrintsWell(m) DEF PrintsWell

\* A step that stutters.
LEMMA Idle ==
    ASSUME EmitInv, UNCHANGED bbVars, stage' = stage, text' = text, at' = at, entered' = entered,
           height' = height, left' = left, stack_peeks' = stack_peeks,
           instructions_gen' = instructions_gen, finalizer_emitted' = finalizer_emitted
    PROVE  EmitInv'
<1>1. /\ NamesInv /\ HeightsInv /\ EmitType
      /\ PrintInv /\ RunsInv /\ OnlySwappedAreUndeclared /\ Outcomes
    BY ONLY EmitInv DEF EmitInv
<1>2. NamesInv' /\ HeightsInv' BY ONLY <1>1, UNCHANGED bbVars, BlockNext
<1>3. insts' = insts /\ stack_sets' = stack_sets /\ phase' = phase BY DEF bbVars
<1>4. EmitType'
    BY ONLY <1>1, <1>3, stage' = stage, text' = text, at' = at, entered' = entered,
            height' = height, left' = left, instructions_gen' = instructions_gen,
            finalizer_emitted' = finalizer_emitted DEF EmitType
<1>5. OnlySwappedAreUndeclared'
    BY ONLY <1>1, <1>3, text' = text DEF OnlySwappedAreUndeclared, Undeclared, Declared
<1>6. Outcomes'
    <2>1. /\ EvmHeight' = EvmHeight /\ LastOpcode' = LastOpcode
          /\ (EvmUnderflows' <=> EvmUnderflows) /\ (EvmThrows' <=> EvmThrows)
          /\ (PopsInFrame' <=> PopsInFrame)
        BY ONLY UNCHANGED bbVars, entered' = entered, EvmStays
    <2> QED BY ONLY <1>1, <1>3, <2>1, left' = left, height' = height
            DEF Outcomes, ThrowsOnlyAsEvm, LeavesAsEvm, UnderflowIsNoticed
<1>7. RunsInv'
    BY ONLY <1>1, UNCHANGED bbVars, stage' = stage, text' = text, at' = at, entered' = entered,
            height' = height, RunsStay DEF RunsInv
<1>8. PrintInv'
    <2>1. SUFFICES ASSUME stage = "print" PROVE \E m \in Nat : PrintsWell(m)'
        BY ONLY <2>1, stage' = stage DEF PrintInv
    <2>2. PICK m \in Nat : PrintsWell(m) BY ONLY <1>1, <2>1 DEF PrintInv
    <2>3. PrintsWell(m)'
        BY ONLY <2>2, UNCHANGED bbVars, stack_peeks' = stack_peeks,
                instructions_gen' = instructions_gen, finalizer_emitted' = finalizer_emitted,
                PrintsStay
    <2> QED BY ONLY <2>3
<1> QED BY ONLY <1>2, <1>4, <1>5, <1>6, <1>7, <1>8 DEF EmitInv

LEMMA EmitNext_Inv == EmitInv /\ [EmitNext]_emitVars => EmitInv'
<1> SUFFICES ASSUME EmitInv, [EmitNext]_emitVars PROVE EmitInv' OBVIOUS
<1>1. CASE NextBB /\ UNCHANGED <<stage, printVars, text, execVars>> BY <1>1, EmulationKeeps
<1>2. CASE PrintFinalizer \/ PrintsOne BY <1>2, PrintingKeeps
<1>3. CASE Assemble BY <1>3, AssemblyKeeps
<1>4. ASSUME NEW st \in ToSet(text), StepOver(st) \/ ThrowAt(st) \/ JumpAt(st) \/ ExitAt(st)
      PROVE  EmitInv'
    <2>1. CASE StepOver(st) BY <2>1, StepKeeps
    <2>2. CASE ThrowAt(st)
        <3>1. stage = "run" /\ Leave("threw") BY ONLY <2>2 DEF ThrowAt, Runs
        <3> QED BY ONLY EmitInv, <2>2, <3>1, LeavingKeeps
    <2>3. CASE JumpAt(st)
        <3>1. stage = "run" /\ Leave("jumped") BY ONLY <2>3 DEF JumpAt, Runs
        <3> QED BY ONLY EmitInv, <2>3, <3>1, LeavingKeeps
    <2>4. CASE ExitAt(st)
        <3>1. stage = "run" /\ Leave("exited") BY ONLY <2>4 DEF ExitAt, Runs
        <3> QED BY ONLY EmitInv, <2>4, <3>1, LeavingKeeps
    <2> QED BY <1>4, <2>1, <2>2, <2>3, <2>4
<1>5. CASE FallThrough
    <2>1. stage = "run" /\ at = Len(text) /\ Leave("fell") BY ONLY <1>5 DEF FallThrough
    <2> QED BY ONLY EmitInv, <2>1, LeavingKeeps
<1>6. CASE UNCHANGED emitVars
    <2>1. /\ UNCHANGED bbVars /\ stage' = stage /\ text' = text /\ at' = at /\ entered' = entered
          /\ height' = height /\ left' = left /\ stack_peeks' = stack_peeks
          /\ instructions_gen' = instructions_gen /\ finalizer_emitted' = finalizer_emitted
        BY ONLY <1>6 DEF emitVars, printVars, execVars
    <2> QED BY ONLY EmitInv, <2>1, Idle
<1> QED BY ONLY <1>1, <1>2, <1>3, <1>4, <1>5, <1>6, [EmitNext]_emitVars DEF EmitNext, PrintsOne

-----------------------------------------------------------------------------
(* What is proved of emit_basic_block, for blocks of any length, frames and *)
(* stacks of any size and every height a block is entered with.            *)

\* What the proofs below rest on: the emulated block is named and its heights
\* are right, the code printed so far declares what it uses, and the text that
\* runs is laid out as peeks, instructions and copies of the finalizer.
THEOREM EmitInvariant == EmitSpec => []EmitInv
<1> QED BY EmitInit_Inv, EmitNext_Inv, PTL DEF EmitSpec

\* Of the generated statements each names only stack slots peeked and results
\* declared before it, the finalizer's copies included, but for a slot whose
\* peek was removed when a constant was swapped with it.
THEOREM NamesComeFirst == EmitSpec => []OnlySwappedAreUndeclared
<1>1. EmitInv => OnlySwappedAreUndeclared BY DEF EmitInv
<1> QED BY <1>1, EmitInvariant, PTL

\* Hoisting the peeks to the start of the block and the pops and pushes to its
\* end makes no block throw that does not throw in the EVM.
THEOREM ThrowsRightly == EmitSpec => []ThrowsOnlyAsEvm
<1>1. EmitInv => ThrowsOnlyAsEvm BY DEF EmitInv, Outcomes
<1> QED BY <1>1, EmitInvariant, PTL

\* The generated block jumps, falls through or exits as its last instruction
\* has it and, through whichever copy of the finalizer, leaves the stack at the
\* height the EVM leaves.
THEOREM LeavesLikeEvm == EmitSpec => []LeavesAsEvm
<1>1. EmitInv => LeavesAsEvm BY DEF EmitInv, Outcomes
<1> QED BY <1>1, EmitInvariant, PTL

\* A generated block that goes on to another one did not run below the bottom
\* of the stack, unless it pops beyond the frame and pushes again.
THEOREM UnderflowStops == EmitSpec => []UnderflowIsNoticed
<1>1. EmitInv => UnderflowIsNoticed BY DEF EmitInv, Outcomes
<1> QED BY <1>1, EmitInvariant, PTL
=============================================================================
