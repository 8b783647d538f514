------------------------- MODULE JumpDispatch_proofs -------------------------
(***************************************************************************)
(* Theorems about Bytecode, for every alphabet, code length and word size: *)
(* the two scans stay in their types and agree with each other and with    *)
(* the EVM; every jump destination is the head of a block; the blocks are  *)
(* straight-line code, one behind the other, and have the EVM's immediates *)
(* and the ordinals of their instructions.                                 *)
(*                                                                         *)
(* And about JumpDispatch, which goes on from there, for every set of words*)
(* a jump may find and every 2^32 and 2^64: all labels that are gone to    *)
(* are printed, and, as long as the words of computed jumps are in the     *)
(* range of the table, control goes where the EVM goes.                    *)
(***************************************************************************)
EXTENDS JumpDispatch, SequenceTheorems, FiniteSetTheorems, TLAPS

-----------------------------------------------------------------------------
(* The bytes of the code and what they decode to *)

\* A PUSH has immediate bytes and nothing else has any.
LEMMA PushBytesType ==
    ASSUME NEW op \in Byte PROVE push_bytes(op) \in Nat
BY DEF push_bytes, is_push, PUSH1, PUSH32, Byte

LEMMA PositionsType ==
    ASSUME TypeOK
    PROVE  /\ Len(code) \in Nat
           /\ \A p \in Positions : p \in Nat /\ p < Len(code) /\ ByteAt(p) \in Byte
           /\ \A p \in Nat : p < Len(code) => p \in Positions
<1>1. code \in Seq(Byte) BY DEF TypeOK
<1>2. Len(code) \in Nat BY <1>1
<1>3. ASSUME NEW p \in Positions
      PROVE  p \in Nat /\ p < Len(code) /\ ByteAt(p) \in Byte
    <2>1. p \in Nat /\ p < Len(code) BY <1>2 DEF Positions
    <2>2. p + 1 \in 1..Len(code) BY <1>2, <2>1
    <2> QED BY <1>1, <2>1, <2>2 DEF ByteAt
<1>4. ASSUME NEW p \in Nat, p < Len(code) PROVE p \in Positions
    BY <1>2, <1>4 DEF Positions
<1> QED BY <1>2, <1>3, <1>4

\* The successor of an instruction lies behind it.
LEMMA NextPcType ==
    ASSUME TypeOK, NEW p \in Positions
    PROVE  NextPc(p) \in Nat /\ NextPc(p) > p
<1>1. p \in Nat /\ ByteAt(p) \in Byte BY PositionsType
<1>2. push_bytes(ByteAt(p)) \in Nat BY <1>1, PushBytesType
<1> QED BY <1>1, <1>2 DEF NextPc

\* from_big_endian of a slice of the code is a word.
LEMMA FromBigEndianType ==
    ASSUME TypeOK, NEW first \in Nat, NEW last \in Nat, last <= Len(code)
    PROVE  FromBigEndian(first, last) \in Word
<1> SUFFICES ASSUME NEW k \in 1..WordBytes
             PROVE  (LET p == last - WordBytes + k - 1
                     IN  IF p >= first THEN ByteAt(p) ELSE 0) \in Byte
    BY DEF FromBigEndian, Word
<1> DEFINE p == last - WordBytes + k - 1
<1>1. p \in Int /\ p < last BY WordBytesAssumption
<1>2. CASE p >= first
    <2>1. p \in Nat /\ p < Len(code) BY <1>1, <1>2, PositionsType
    <2>2. ByteAt(p) \in Byte BY <2>1, PositionsType
    <2> QED BY <1>2, <2>2
<1>3. CASE ~(p >= first) BY <1>3 DEF Byte
<1> QED BY <1>2, <1>3

\* parse builds a well-formed instruction at every address inside the code.
LEMMA DecodeType ==
    ASSUME TypeOK, NEW p \in Positions PROVE Decode(p) \in IInstruction
<1>1. p \in Nat /\ ByteAt(p) \in Byte BY PositionsType
<1>2. Zero \in Word BY DEF Zero, Word, Byte
<1>3. PushValue(p) \in Word
    <2> DEFINE n == push_bytes(ByteAt(p))
    <2>1. n \in Nat BY <1>1, PushBytesType
    <2>2. Len(code) \in Nat BY PositionsType
    <2> HIDE DEF n
    <2>3. CASE p + 1 + n < Len(code)
        <3>1. FromBigEndian(p + 1, p + 1 + n) \in Word
            BY <1>1, <2>1, <2>2, <2>3, FromBigEndianType
        <3> QED BY <2>3, <3>1 DEF PushValue, n
    <2>4. CASE ~(p + 1 + n < Len(code))
        <3>1. FromBigEndian(p + 1, Len(code)) \in Word
            BY <1>1, <2>2, FromBigEndianType
        <3> QED BY <1>2, <2>4, <3>1 DEF PushValue, n
    <2> QED BY <2>3, <2>4
<1>4. inst_global_index + Len(bb.instructions) \in Nat
    BY DEF TypeOK, BasicBlock
<1>5. FromAddress(p) \in Word
    <2>1. ASSUME NEW k \in 1..WordBytes PROVE (p \div Place(k)) % 256 \in Byte
        <3>1. Place(k) \in Nat \ {0} BY PlaceAssumption
        <3>2. p \div Place(k) \in Nat BY <1>1, <3>1
        <3> QED BY <3>2 DEF Byte
    <2> QED BY <2>1 DEF FromAddress, Word
<1> QED BY <1>1, <1>2, <1>3, <1>4, <1>5 DEF Decode, IInstruction

LEMMA EmptyBlockType ==
    ASSUME NEW n \in Nat PROVE EmptyBlock(n) \in BasicBlock
BY EmptySeq DEF EmptyBlock, BasicBlock

-----------------------------------------------------------------------------
(* Type correctness *)

\* The parse loop is only entered, and only continued, inside the code.
PcInside == phase = "parse" => pc < Len(code)

LEMMA TypeInit == Init => TypeOK /\ PcInside
<1> SUFFICES ASSUME Init PROVE TypeOK /\ PcInside OBVIOUS
<1>1. code \in Seq(Byte)
    <2>1. PICK n \in 0..MaxCode : code \in [1..n -> Alphabet] BY DEF Init
    <2>2. code \in [1..n -> Byte] BY <2>1, AlphabetAssumption
    <2>3. n \in Nat BY <2>1, MaxCodeAssumption
    <2> QED BY <2>2, <2>3
<1>2. EmptyBlock(0) \in BasicBlock BY EmptyBlockType
<1>3. blocks \in Seq(BasicBlock) BY EmptySeq DEF Init
<1>4. Len(code) \in Nat BY <1>1
<1> QED BY <1>1, <1>2, <1>3, <1>4 DEF Init, TypeOK, PcInside

LEMMA TypeStep == TypeOK /\ PcInside /\ [Next]_vars => TypeOK' /\ PcInside'
<1> SUFFICES ASSUME TypeOK, PcInside, [Next]_vars PROVE TypeOK' /\ PcInside'
    OBVIOUS
<1>0. code \in Seq(Byte) /\ Len(code) \in Nat BY DEF TypeOK
<1>1. CASE ParseInstruction
    <2>1. pc \in Positions
        <3>1. pc \in Nat /\ pc < Len(code) BY <1>1 DEF ParseInstruction, PcInside, TypeOK
        <3> QED BY <3>1, PositionsType
    <2>2. Decode(pc) \in IInstruction BY <2>1, DecodeType
    <2>3. NextPc(pc) \in Nat BY <2>1, NextPcType
    <2>4. Append(bb.instructions, Decode(pc)) \in Seq(IInstruction)
        BY <2>2, AppendProperties DEF TypeOK, BasicBlock
    <2>5. bb' \in BasicBlock
        BY <1>1, <2>4 DEF ParseInstruction, TypeOK, BasicBlock
    <2> QED BY <1>0, <1>1, <2>3, <2>5 DEF ParseInstruction, TypeOK, PcInside, metaVars, Positions
<1>2. CASE PushBlock
    <2>1. Append(blocks, bb) \in Seq(BasicBlock) BY AppendProperties DEF TypeOK
    <2>2. inst_global_index + Len(bb.instructions) \in Nat BY DEF TypeOK, BasicBlock
    <2>3. EmptyBlock(pc) \in BasicBlock BY EmptyBlockType DEF TypeOK
    <2> QED BY <1>2, <2>1, <2>2, <2>3 DEF PushBlock, TypeOK, PcInside, metaVars, Positions
<1>3. CASE MarkJumpdest
    BY <1>0, <1>3 DEF MarkJumpdest, TypeOK, PcInside, parseVars, Positions
<1>4. CASE MarkPush
    <2>1. i \in Positions
        <3>1. i \in Nat /\ i < Len(code) BY <1>4 DEF MarkPush, TypeOK
        <3> QED BY <3>1, PositionsType
    <2>2. NextPc(i) \in Nat BY <2>1, NextPcType
    <2> QED BY <1>4, <2>2 DEF MarkPush, TypeOK, PcInside, parseVars, Positions
<1>5. CASE MarkOther
    BY <1>5 DEF MarkOther, TypeOK, PcInside, parseVars, Positions
<1>6. CASE Finish
    BY <1>6 DEF Finish, TypeOK, PcInside, parseVars, metaVars, Positions
<1>7. CASE UNCHANGED vars
    BY <1>7 DEF vars, TypeOK, PcInside, Positions
<1> QED BY <1>1, <1>2, <1>3, <1>4, <1>5, <1>6, <1>7 DEF Next

\* The variables of the two scans keep the types of the fields they stand for.
THEOREM TypeCorrect == Spec => []TypeOK
<1>1. Init => TypeOK /\ PcInside BY TypeInit
<1>2. (TypeOK /\ PcInside) /\ [Next]_vars => (TypeOK /\ PcInside)' BY TypeStep
<1> QED BY <1>1, <1>2, PTL DEF Spec

-----------------------------------------------------------------------------
(* The two scans meet the same instructions *)

\* Every instruction decoded so far.
Decoded == Parsed \cup Addresses(bb)

\* How far parse has got: pc is the frontier of what is decoded, and the
\* decoded instructions follow each other without overlap.
Frontier ==
    /\ 0 \in Decoded \cup {pc}
    /\ \A a \in Decoded :
          /\ a \in Positions
          /\ NextPc(a) \in Decoded \cup {pc}
          /\ NextPc(a) <= pc
          /\ \A p \in Decoded : ~(a < p /\ p < NextPc(a))

\* A decoded JUMPDEST is the head of its block: parse closes the block before it.
JumpdestsAreHeads ==
    /\ \A a \in Decoded : ByteAt(a) = JUMPDEST => a \in Heads \cup {bb.address}
    /\ bb.instructions = <<>> => bb.address = pc
    /\ phase = "parse" /\ bb.instructions # <<>> => ByteAt(pc) # JUMPDEST

\* CodeMeta::new starts when the code is decoded to its end.
ScansInOrder ==
    /\ phase \in {"parse", "push"} => jumpdests = {} /\ i = 0 /\ iscode = Positions
    /\ phase \in {"meta", "done"} => bb.instructions = <<>> /\ pc >= Len(code)
    /\ phase = "done" => i >= Len(code)

\* CodeMeta::new visits decoded instructions only, and has classified all
\* the positions behind it as parse did.
MetaFollowsParse ==
    phase \in {"meta", "done"} =>
        /\ i \in Decoded \/ i >= Len(code)
        /\ jumpdests \subseteq Heads
        /\ \A p \in Positions : IF p < i THEN p \in iscode <=> p \in Decoded
                                         ELSE p \in iscode

ScanInv == TypeOK /\ PcInside /\ Frontier /\ JumpdestsAreHeads /\ ScansInOrder /\ MetaFollowsParse

\* The bytes, and so the instruction boundaries, never change.
LEMMA CodeIsConstant ==
    ASSUME code' = code
    PROVE  /\ Positions' = Positions /\ Len(code)' = Len(code)
           /\ \A p : ByteAt(p)' = ByteAt(p) /\ NextPc(p)' = NextPc(p)
BY DEF Positions, ByteAt, NextPc

\* What a step of parse decodes.
LEMMA ParseDecodes ==
    ASSUME TypeOK, ParseInstruction
    PROVE  /\ Decoded' = Decoded \cup {pc}
           /\ Heads' = Heads
           /\ bb'.address = bb.address
           /\ bb'.instructions # <<>>
<1>1. bb.instructions \in Seq(IInstruction) /\ Len(bb.instructions) \in Nat
    BY DEF TypeOK, BasicBlock
<1>2. /\ bb'.instructions = Append(bb.instructions, Decode(pc))
      /\ bb'.address = bb.address
    BY DEF ParseInstruction, TypeOK, BasicBlock
<1>3. Decode(pc).address = pc BY DEF Decode
<1>4. /\ Len(bb'.instructions) = Len(bb.instructions) + 1
      /\ \A k \in 1..Len(bb.instructions) : bb'.instructions[k] = bb.instructions[k]
      /\ bb'.instructions[Len(bb.instructions) + 1] = Decode(pc)
      /\ DOMAIN bb'.instructions = 1..(Len(bb.instructions) + 1)
      /\ DOMAIN bb.instructions = 1..Len(bb.instructions)
    BY <1>1, <1>2
<1>5. DOMAIN bb'.instructions = (DOMAIN bb.instructions) \cup {Len(bb.instructions) + 1}
    BY <1>1, <1>4
<1>6. Addresses(bb)' = Addresses(bb) \cup {pc}
    <2>1. InstructionsOf(bb)' = InstructionsOf(bb) \cup {Decode(pc)}
        BY <1>4, <1>5 DEF InstructionsOf
    <2> QED BY <1>3, <2>1 DEF Addresses
<1>7. blocks' = blocks BY DEF ParseInstruction
<1>8. Parsed' = Parsed BY <1>7 DEF Parsed, Addresses, InstructionsOf
<1>9. Heads' = Heads BY <1>7 DEF Heads
<1>10. bb'.instructions # <<>> BY <1>1, <1>4
<1> QED BY <1>2, <1>6, <1>8, <1>9, <1>10 DEF Decoded

\* Keeping a block decodes nothing and makes its address a head.
LEMMA PushKeepsDecoded ==
    ASSUME TypeOK, PushBlock
    PROVE  /\ Decoded' = Decoded
           /\ Heads' = Heads \cup {bb.address}
           /\ bb'.address = pc
           /\ bb'.instructions = <<>>
<1>1. blocks \in Seq(BasicBlock) /\ Len(blocks) \in Nat BY DEF TypeOK
<1>2. /\ blocks' = Append(blocks, bb)
      /\ bb'.address = pc
      /\ bb'.instructions = <<>>
    BY DEF PushBlock, EmptyBlock
<1>3. /\ \A j \in DOMAIN blocks : blocks'[j] = blocks[j]
      /\ blocks'[Len(blocks) + 1] = bb
      /\ DOMAIN blocks' = (DOMAIN blocks) \cup {Len(blocks) + 1}
    BY <1>1, <1>2
<1>4. Heads' = Heads \cup {bb.address} BY <1>3 DEF Heads
<1>5. Parsed' = Parsed \cup Addresses(bb)
    <2>1. Parsed' = UNION {Addresses(blocks'[j]) : j \in DOMAIN blocks'}
        BY DEF Parsed, Addresses, InstructionsOf
    <2> QED BY <1>3, <2>1 DEF Parsed
<1>6. Addresses(bb)' = {} BY <1>2 DEF Addresses, InstructionsOf
<1> QED BY <1>2, <1>4, <1>5, <1>6 DEF Decoded

LEMMA ScanInit == Init => ScanInv
<1> SUFFICES ASSUME Init PROVE ScanInv OBVIOUS
<1>1. TypeOK /\ PcInside BY TypeInit
<1>2. Decoded = {} BY DEF Init, Decoded, Parsed, Addresses, InstructionsOf, EmptyBlock
<1>3. Frontier BY <1>2 DEF Frontier, Init
<1>4. JumpdestsAreHeads BY <1>2 DEF JumpdestsAreHeads, Init, EmptyBlock
<1>5. Len(code) \in Nat BY <1>1, PositionsType
<1>6. ScansInOrder BY <1>5 DEF ScansInOrder, Init, EmptyBlock
<1>7. MetaFollowsParse
    <2>1. CASE Len(code) = 0
        BY <1>1, <1>5, <2>1, PositionsType DEF MetaFollowsParse, Init
    <2>2. CASE Len(code) # 0
        BY <2>2 DEF MetaFollowsParse, Init
    <2> QED BY <2>1, <2>2
<1> QED BY <1>1, <1>3, <1>4, <1>6, <1>7 DEF ScanInv

\* One step of parse moves the frontier over the instruction it decodes.
LEMMA ParseStep ==
    ASSUME ScanInv, ParseInstruction
    PROVE  Frontier' /\ JumpdestsAreHeads' /\ ScansInOrder' /\ MetaFollowsParse'
<1>1. TypeOK /\ PcInside /\ Frontier /\ JumpdestsAreHeads /\ ScansInOrder BY DEF ScanInv
<1>2. /\ code' = code /\ pc' = NextPc(pc) /\ phase = "parse" /\ phase' \in {"parse", "push"}
      /\ jumpdests' = jumpdests /\ i' = i /\ iscode' = iscode
      /\ phase' = "parse" => ~EndsBlock(pc) /\ NextPc(pc) < Len(code)
    <2>1. phase' = IF EndsBlock(pc) \/ NextPc(pc) >= Len(code) THEN "push" ELSE "parse"
        BY DEF ParseInstruction
    <2>2. pc \in Nat /\ Len(code) \in Nat BY <1>1, PositionsType DEF TypeOK
    <2>3. pc \in Positions
        BY <1>1, <2>2, PositionsType DEF ParseInstruction, PcInside
    <2>4. NextPc(pc) \in Nat BY <1>1, <2>3, NextPcType
    <2> QED BY <2>1, <2>2, <2>4 DEF ParseInstruction, metaVars
<1>3. /\ Positions' = Positions /\ Len(code)' = Len(code)
      /\ \A p : ByteAt(p)' = ByteAt(p) /\ NextPc(p)' = NextPc(p)
    BY <1>2, CodeIsConstant
<1>4. /\ Decoded' = Decoded \cup {pc} /\ Heads' = Heads
      /\ bb'.address = bb.address /\ bb'.instructions # <<>>
    BY <1>1, ParseDecodes
<1>5. pc \in Positions /\ pc \in Nat
    BY <1>1, <1>2, PositionsType DEF PcInside, TypeOK
<1>6. NextPc(pc) \in Nat /\ NextPc(pc) > pc BY <1>1, <1>5, NextPcType
<1>7. Frontier'
    <2>1. 0 \in Decoded' \cup {pc'} BY <1>1, <1>4 DEF Frontier
    <2> SUFFICES ASSUME NEW a \in Decoded'
                 PROVE  /\ a \in Positions
                        /\ NextPc(a) \in Decoded' \cup {pc'}
                        /\ NextPc(a) <= pc'
                        /\ \A p \in Decoded' : ~(a < p /\ p < NextPc(a))
        BY <1>3, <2>1 DEF Frontier
    <2>2. \A p \in Decoded : p \in Nat /\ p < pc
        <3> SUFFICES ASSUME NEW p \in Decoded PROVE p \in Nat /\ p < pc OBVIOUS
        <3>1. p \in Positions /\ NextPc(p) <= pc BY <1>1 DEF Frontier
        <3>2. p \in Nat /\ NextPc(p) \in Nat /\ NextPc(p) > p
            BY <1>1, <3>1, PositionsType, NextPcType
        <3> QED BY <1>5, <3>1, <3>2
    <2>3. CASE a \in Decoded
        <3>1. /\ a \in Positions /\ NextPc(a) \in Decoded \cup {pc} /\ NextPc(a) <= pc
              /\ \A p \in Decoded : ~(a < p /\ p < NextPc(a))
            BY <1>1, <2>3 DEF Frontier
        <3>2. NextPc(a) \in Nat BY <1>1, <3>1, NextPcType
        <3>3. NextPc(a) <= NextPc(pc) BY <1>5, <1>6, <3>1, <3>2
        <3>4. ~(a < pc /\ pc < NextPc(a)) BY <1>5, <3>1, <3>2
        <3> QED BY <1>2, <1>4, <3>1, <3>3, <3>4
    <2>4. CASE a = pc
        <3>1. \A p \in Decoded : ~(pc < p /\ p < NextPc(pc)) BY <1>5, <2>2
        <3>2. ~(pc < pc /\ pc < NextPc(pc)) BY <1>5
        <3>3. NextPc(pc) <= NextPc(pc) BY <1>6
        <3> QED BY <1>2, <1>4, <1>5, <2>4, <3>1, <3>2, <3>3
    <2> QED BY <1>4, <2>3, <2>4
<1>8. JumpdestsAreHeads'
    <2>1. \A a \in Decoded' : ByteAt(a) = JUMPDEST => a \in Heads' \cup {bb'.address}
        BY <1>1, <1>2, <1>4 DEF JumpdestsAreHeads
    <2>2. phase' = "parse" => ByteAt(pc') # JUMPDEST
        BY <1>2 DEF EndsBlock, NextIsJumpdest
    <2> QED BY <1>3, <1>4, <2>1, <2>2 DEF JumpdestsAreHeads
<1>9. ScansInOrder' BY <1>1, <1>2, <1>3 DEF ScansInOrder
<1>10. MetaFollowsParse' BY <1>2 DEF MetaFollowsParse
<1> QED BY <1>7, <1>8, <1>9, <1>10

\* Keeping a block disturbs nothing; after the last one CodeMeta::new starts.
LEMMA PushStep ==
    ASSUME ScanInv, PushBlock
    PROVE  Frontier' /\ JumpdestsAreHeads' /\ ScansInOrder' /\ MetaFollowsParse'
<1>1. TypeOK /\ Frontier /\ JumpdestsAreHeads /\ ScansInOrder BY DEF ScanInv
<1>2. /\ code' = code /\ pc' = pc /\ phase = "push"
      /\ jumpdests' = jumpdests /\ i' = i /\ iscode' = iscode
      /\ phase' = IF pc < Len(code) THEN "parse" ELSE "meta"
    BY DEF PushBlock, metaVars
<1>3. /\ Positions' = Positions /\ Len(code)' = Len(code)
      /\ \A p : ByteAt(p)' = ByteAt(p) /\ NextPc(p)' = NextPc(p)
    BY <1>2, CodeIsConstant
<1>4. /\ Decoded' = Decoded /\ Heads' = Heads \cup {bb.address}
      /\ bb'.address = pc /\ bb'.instructions = <<>>
    BY <1>1, PushKeepsDecoded
<1>5. Frontier' BY <1>1, <1>2, <1>3, <1>4 DEF Frontier
<1>6. JumpdestsAreHeads'
    BY <1>1, <1>2, <1>3, <1>4 DEF JumpdestsAreHeads
<1>7. Len(code) \in Nat /\ pc \in Nat BY <1>1, PositionsType DEF TypeOK
<1>8. ScansInOrder' BY <1>1, <1>2, <1>3, <1>4, <1>7 DEF ScansInOrder
<1>9. MetaFollowsParse'
    <2> SUFFICES ASSUME phase' = "meta"
                 PROVE  /\ i' \in Decoded' \/ i' >= Len(code)'
                        /\ jumpdests' \subseteq Heads'
                        /\ \A p \in Positions' :
                              IF p < i' THEN p \in iscode' <=> p \in Decoded'
                                        ELSE p \in iscode'
        BY <1>2 DEF MetaFollowsParse
    <2>1. i = 0 /\ jumpdests = {} /\ iscode = Positions BY <1>1, <1>2 DEF ScansInOrder
    <2>2. 0 \in Decoded \/ 0 >= Len(code) BY <1>1, <1>2, <1>7 DEF Frontier
    <2>3. \A p \in Positions : ~(p < 0) BY <1>1, PositionsType
    <2> QED BY <1>2, <1>3, <1>4, <2>1, <2>2, <2>3
<1> QED BY <1>5, <1>6, <1>8, <1>9

\* What every step of CodeMeta::new leaves alone.
LEMMA MetaKeepsParse ==
    ASSUME code' = code, parseVars' = parseVars
    PROVE  Decoded' = Decoded /\ Heads' = Heads
BY DEF parseVars, Decoded, Parsed, Heads, Addresses, InstructionsOf

\* CodeMeta::new is always on a decoded instruction, whose successor is decoded.
LEMMA MetaPosition ==
    ASSUME ScanInv, phase = "meta", i < Len(code)
    PROVE  /\ i \in Decoded /\ i \in Positions /\ i \in Nat
           /\ NextPc(i) \in Nat /\ NextPc(i) > i
           /\ NextPc(i) \in Decoded \/ NextPc(i) >= Len(code)
           /\ \A p \in Positions : i < p /\ p < NextPc(i) => p \notin Decoded
           /\ ByteAt(i) = JUMPDEST => i \in Heads
<1>1. TypeOK /\ Frontier /\ JumpdestsAreHeads /\ ScansInOrder /\ MetaFollowsParse
    BY DEF ScanInv
<1>2. Len(code) \in Nat /\ i \in Nat /\ pc \in Nat BY <1>1, PositionsType DEF TypeOK
<1>3. i \in Decoded BY <1>1, <1>2 DEF MetaFollowsParse
<1>4. i \in Positions BY <1>1, <1>3 DEF Frontier
<1>5. NextPc(i) \in Nat /\ NextPc(i) > i BY <1>1, <1>4, NextPcType
<1>6. pc >= Len(code) /\ bb.instructions = <<>> BY <1>1 DEF ScansInOrder
<1>7. NextPc(i) \in Decoded \/ NextPc(i) >= Len(code) BY <1>1, <1>3, <1>6 DEF Frontier
<1>8. \A p \in Positions : i < p /\ p < NextPc(i) => p \notin Decoded
    BY <1>1, <1>3 DEF Frontier
<1>9. ByteAt(i) = JUMPDEST => i \in Heads
    <2>1. i # bb.address BY <1>1, <1>2, <1>6 DEF JumpdestsAreHeads
    <2> QED BY <1>1, <1>3, <2>1 DEF JumpdestsAreHeads
<1> QED BY <1>2, <1>3, <1>4, <1>5, <1>7, <1>8, <1>9

\* A step of CodeMeta::new classifies the bytes of one decoded instruction.
LEMMA MetaStep ==
    ASSUME ScanInv, MarkJumpdest \/ MarkPush \/ MarkOther
    PROVE  Frontier' /\ JumpdestsAreHeads' /\ ScansInOrder' /\ MetaFollowsParse'
<1>1. TypeOK /\ Frontier /\ JumpdestsAreHeads /\ ScansInOrder /\ MetaFollowsParse
    BY DEF ScanInv
<1>2. /\ code' = code /\ phase' = phase /\ parseVars' = parseVars
      /\ phase = "meta" /\ i < Len(code)
    BY DEF MarkJumpdest, MarkPush, MarkOther
<1>3. /\ Positions' = Positions /\ Len(code)' = Len(code)
      /\ \A p : ByteAt(p)' = ByteAt(p) /\ NextPc(p)' = NextPc(p)
    BY <1>2, CodeIsConstant
<1>4. Decoded' = Decoded /\ Heads' = Heads BY <1>2, MetaKeepsParse
<1>5. pc' = pc /\ bb' = bb BY <1>2 DEF parseVars
<1>6. Frontier' BY <1>1, <1>3, <1>4, <1>5 DEF Frontier
<1>7. JumpdestsAreHeads' BY <1>1, <1>2, <1>3, <1>4, <1>5 DEF JumpdestsAreHeads
<1>8. ScansInOrder' BY <1>1, <1>2, <1>3, <1>5 DEF ScansInOrder
<1>9. /\ i \in Decoded /\ i \in Positions /\ i \in Nat
      /\ NextPc(i) \in Nat /\ NextPc(i) > i
      /\ NextPc(i) \in Decoded \/ NextPc(i) >= Len(code)
      /\ \A p \in Positions : i < p /\ p < NextPc(i) => p \notin Decoded
      /\ ByteAt(i) = JUMPDEST => i \in Heads
    BY <1>2, MetaPosition
<1>10. i' = NextPc(i)
    <2>1. CASE MarkPush BY <2>1 DEF MarkPush
    <2>2. CASE MarkJumpdest \/ MarkOther
        <3>1. i' = i + 1 BY <2>2 DEF MarkJumpdest, MarkOther
        <3>2. ~is_push(ByteAt(i))
            <4>1. ~is_push(JUMPDEST) BY DEF is_push, JUMPDEST, PUSH1, PUSH32
            <4> QED BY <2>2, <4>1 DEF MarkJumpdest, MarkOther
        <3>3. push_bytes(ByteAt(i)) = 0 BY <3>2 DEF push_bytes
        <3> QED BY <1>9, <3>1, <3>3 DEF NextPc
    <2> QED BY <2>1, <2>2, <1>2 DEF MarkJumpdest, MarkPush, MarkOther
<1>11. jumpdests' \subseteq Heads
    BY <1>1, <1>2, <1>9 DEF MarkJumpdest, MarkPush, MarkOther, MetaFollowsParse
<1>12. ASSUME NEW p \in Positions
       PROVE  IF p < NextPc(i) THEN p \in iscode' <=> p \in Decoded ELSE p \in iscode'
    <2>1. p \in Nat BY <1>1, PositionsType
    <2>2. IF p < i THEN p \in iscode <=> p \in Decoded ELSE p \in iscode
        BY <1>1, <1>2 DEF MetaFollowsParse
    <2>3. iscode' = iscode \ {j \in Positions : i + 1 <= j /\ j < NextPc(i)}
        <3>1. CASE MarkPush BY <3>1 DEF MarkPush
        <3>2. CASE MarkJumpdest \/ MarkOther
            <4>1. iscode' = iscode /\ NextPc(i) = i + 1
                BY <1>10, <3>2 DEF MarkJumpdest, MarkOther
            <4>2. ASSUME NEW j \in Positions, i + 1 <= j, j < NextPc(i) PROVE FALSE
                <5>1. j \in Nat BY <1>1, PositionsType
                <5> QED BY <1>9, <4>1, <4>2, <5>1
            <4> QED BY <4>1, <4>2
        <3> QED BY <3>1, <3>2
    <2>4. CASE p < i
        <3>1. p < NextPc(i) /\ ~(i + 1 <= p) BY <1>9, <2>1, <2>4
        <3> QED BY <2>2, <2>3, <2>4, <3>1
    <2>5. CASE p = i
        <3>1. ~(p < i) /\ ~(i + 1 <= p) /\ p < NextPc(i) BY <1>9, <2>5
        <3>2. p \in iscode' BY <2>2, <2>3, <3>1
        <3> QED BY <1>9, <2>5, <3>1, <3>2
    <2>6. CASE i < p /\ p < NextPc(i)
        <3>1. p \notin Decoded BY <1>9, <2>6
        <3>2. i + 1 <= p BY <1>9, <2>1, <2>6
        <3>3. p \notin iscode' BY <2>3, <2>6, <3>2
        <3> QED BY <2>6, <3>1, <3>3
    <2>7. CASE ~(p < NextPc(i))
        <3>1. ~(p < i) BY <1>9, <2>1, <2>7
        <3> QED BY <2>2, <2>3, <2>7, <3>1
    <2>8. p < i \/ p = i \/ (i < p /\ p < NextPc(i)) \/ ~(p < NextPc(i)) BY <1>9, <2>1
    <2> QED BY <2>4, <2>5, <2>6, <2>7, <2>8
<1>13. MetaFollowsParse'
    BY <1>3, <1>4, <1>9, <1>10, <1>11, <1>12 DEF MetaFollowsParse
<1> QED BY <1>6, <1>7, <1>8, <1>13

LEMMA ScanStep == ScanInv /\ [Next]_vars => ScanInv'
<1> SUFFICES ASSUME ScanInv, [Next]_vars PROVE ScanInv' OBVIOUS
<1>0. TypeOK' /\ PcInside' BY TypeStep DEF ScanInv
<1>1. CASE ParseInstruction BY <1>0, <1>1, ParseStep DEF ScanInv
<1>2. CASE PushBlock BY <1>0, <1>2, PushStep DEF ScanInv
<1>3. CASE MarkJumpdest \/ MarkPush \/ MarkOther BY <1>0, <1>3, MetaStep DEF ScanInv
<1>4. CASE Finish
    <2>1. /\ code' = code /\ parseVars' = parseVars /\ metaVars' = metaVars
          /\ phase = "meta" /\ phase' = "done" /\ i >= Len(code)
        BY <1>4 DEF Finish
    <2>2. /\ Positions' = Positions /\ Len(code)' = Len(code)
          /\ \A p : ByteAt(p)' = ByteAt(p) /\ NextPc(p)' = NextPc(p)
        BY <2>1, CodeIsConstant
    <2>3. Decoded' = Decoded /\ Heads' = Heads BY <2>1, MetaKeepsParse
    <2>4. pc' = pc /\ bb' = bb /\ i' = i /\ jumpdests' = jumpdests /\ iscode' = iscode
        BY <2>1 DEF parseVars, metaVars
    <2>5. Frontier' BY <2>2, <2>3, <2>4 DEF ScanInv, Frontier
    <2>6. JumpdestsAreHeads' BY <2>1, <2>2, <2>3, <2>4 DEF ScanInv, JumpdestsAreHeads
    <2>7. ScansInOrder' BY <2>1, <2>2, <2>4 DEF ScanInv, ScansInOrder
    <2>8. MetaFollowsParse' BY <2>1, <2>2, <2>3, <2>4 DEF ScanInv, MetaFollowsParse
    <2> QED BY <1>0, <2>5, <2>6, <2>7, <2>8 DEF ScanInv
<1>5. CASE UNCHANGED vars
    <2>1. /\ code' = code /\ parseVars' = parseVars /\ metaVars' = metaVars /\ phase' = phase
        BY <1>5 DEF vars, parseVars, metaVars
    <2>2. /\ Positions' = Positions /\ Len(code)' = Len(code)
          /\ \A p : ByteAt(p)' = ByteAt(p) /\ NextPc(p)' = NextPc(p)
        BY <2>1, CodeIsConstant
    <2>3. Decoded' = Decoded /\ Heads' = Heads BY <2>1, MetaKeepsParse
    <2>4. pc' = pc /\ bb' = bb /\ i' = i /\ jumpdests' = jumpdests /\ iscode' = iscode
        BY <2>1 DEF parseVars, metaVars
    <2>5. Frontier' BY <2>2, <2>3, <2>4 DEF ScanInv, Frontier
    <2>6. JumpdestsAreHeads' BY <2>1, <2>2, <2>3, <2>4 DEF ScanInv, JumpdestsAreHeads
    <2>7. ScansInOrder' BY <2>1, <2>2, <2>4 DEF ScanInv, ScansInOrder
    <2>8. MetaFollowsParse' BY <2>1, <2>2, <2>3, <2>4 DEF ScanInv, MetaFollowsParse
    <2> QED BY <1>0, <2>5, <2>6, <2>7, <2>8 DEF ScanInv
<1> QED BY <1>1, <1>2, <1>3, <1>4, <1>5 DEF Next

LEMMA ScanCorrect == Spec => []ScanInv
<1>1. Init => ScanInv BY ScanInit
<1>2. ScanInv /\ [Next]_vars => ScanInv' BY ScanStep
<1> QED BY <1>1, <1>2, PTL DEF Spec

\* Every jump destination CodeMeta::new marks is the head of a block, so the
\* label the jump table takes the address of exists in the generated function.
THEOREM JumpdestsAreLabelsAlways == Spec => []JumpdestsAreLabels
<1>1. ScanInv => JumpdestsAreLabels
    <2> SUFFICES ASSUME ScanInv PROVE JumpdestsAreLabels OBVIOUS
    <2>1. CASE phase \in {"parse", "push"}
        BY <2>1 DEF ScanInv, ScansInOrder, JumpdestsAreLabels
    <2>2. CASE phase \in {"meta", "done"}
        BY <2>2 DEF ScanInv, MetaFollowsParse, JumpdestsAreLabels
    <2> QED BY <2>1, <2>2 DEF ScanInv, TypeOK
<1> QED BY <1>1, ScanCorrect, PTL

\* When both scans have run, is_instruction accepts exactly the addresses of
\* the instructions parse put into the blocks.
THEOREM ScansAgreeAlways == Spec => []ScansAgree
<1>1. ScanInv => ScansAgree
    <2> SUFFICES ASSUME ScanInv, phase = "done" PROVE iscode = Parsed
        BY DEF ScansAgree
    <2>1. TypeOK /\ Frontier /\ ScansInOrder /\ MetaFollowsParse BY DEF ScanInv
    <2>2. Decoded = Parsed
        BY <2>1 DEF ScansInOrder, Decoded, Addresses, InstructionsOf
    <2>3. i \in Nat /\ i >= Len(code) BY <2>1 DEF ScansInOrder, TypeOK
    <2>4. \A p \in Positions : p < i BY <2>1, <2>3, PositionsType
    <2>5. \A p \in Positions : p \in iscode <=> p \in Decoded
        BY <2>1, <2>4 DEF MetaFollowsParse
    <2>6. iscode \subseteq Positions /\ Decoded \subseteq Positions
        BY <2>1 DEF TypeOK, Frontier
    <2> QED BY <2>2, <2>5, <2>6
<1> QED BY <1>1, ScanCorrect, PTL

-----------------------------------------------------------------------------
(* The destinations are the EVM's *)

\* What parse has decoded, and where it is, lies in every set that the EVM's
\* boundaries could be.
DecodedIsLeast ==
    \A S \in SUBSET EvmPositions(code) :
        ClosedUnderNext(code, S) => Decoded \subseteq S /\ (pc \in Positions => pc \in S)

\* CodeMeta::new has marked the decoded JUMPDESTs behind it and nothing else.
MarksAreDecoded ==
    phase \in {"meta", "done"} =>
        \A p \in Positions :
            p \in jumpdests <=> p < i /\ p \in Decoded /\ ByteAt(p) = JUMPDEST

DestInv == ScanInv /\ DecodedIsLeast /\ MarksAreDecoded

LEMMA EvmNextIsNextPc == \A p : EvmNext(code, p) = NextPc(p)
BY DEF EvmNext, NextPc, ByteAt

LEMMA EvmPositionsArePositions == EvmPositions(code) = Positions
BY DEF EvmPositions, Positions

LEMMA DestInit == Init => DestInv
<1> SUFFICES ASSUME Init PROVE DestInv OBVIOUS
<1>1. ScanInv BY ScanInit
<1>2. Decoded = {} BY DEF Init, Decoded, Parsed, Addresses, InstructionsOf, EmptyBlock
<1>3. DecodedIsLeast BY <1>2 DEF DecodedIsLeast, ClosedUnderNext, Init
<1>4. MarksAreDecoded BY <1>2 DEF MarksAreDecoded, Init
<1> QED BY <1>1, <1>3, <1>4 DEF DestInv

\* The instruction after one in a closed set is in it.
LEMMA LeastParse ==
    ASSUME DestInv, ParseInstruction PROVE DecodedIsLeast'
<1>1. TypeOK /\ PcInside /\ DecodedIsLeast BY DEF DestInv, ScanInv
<1>2. code' = code /\ pc' = NextPc(pc) /\ phase = "parse" BY DEF ParseInstruction
<1>3. Decoded' = Decoded \cup {pc} BY <1>1, ParseDecodes
<1>4. pc \in Positions BY <1>1, <1>2, PositionsType DEF PcInside, TypeOK
<1>5. Positions' = Positions BY <1>2, CodeIsConstant
<1> SUFFICES ASSUME NEW S \in SUBSET EvmPositions(code), ClosedUnderNext(code, S)
             PROVE  Decoded' \subseteq S /\ (pc' \in Positions => pc' \in S)
    BY <1>2, <1>5 DEF DecodedIsLeast
<1>6. Decoded \subseteq S /\ pc \in S BY <1>1, <1>4 DEF DecodedIsLeast
<1>7. NextPc(pc) \in Positions => NextPc(pc) \in S
    BY <1>6, EvmNextIsNextPc, EvmPositionsArePositions DEF ClosedUnderNext
<1> QED BY <1>2, <1>3, <1>6, <1>7

LEMMA DestStep == DestInv /\ [Next]_vars => DestInv'
<1> SUFFICES ASSUME DestInv, [Next]_vars PROVE DestInv' OBVIOUS
<1>0. ScanInv /\ TypeOK /\ ScanInv' BY ScanStep DEF DestInv, ScanInv
<1>1. CASE ParseInstruction
    <2>1. DecodedIsLeast' BY <1>1, LeastParse
    <2>2. phase' \in {"parse", "push"} BY <1>1 DEF ParseInstruction
    <2>3. MarksAreDecoded' BY <2>2 DEF MarksAreDecoded
    <2> QED BY <1>0, <2>1, <2>3 DEF DestInv
<1>2. CASE PushBlock
    <2>1. /\ code' = code /\ pc' = pc /\ phase = "push" /\ i' = i /\ jumpdests' = jumpdests
          /\ Decoded' = Decoded
        BY <1>0, <1>2, PushKeepsDecoded DEF PushBlock, metaVars
    <2>2. Positions' = Positions BY <2>1, CodeIsConstant
    <2>3. DecodedIsLeast' BY <2>1, <2>2 DEF DestInv, DecodedIsLeast
    <2>4. jumpdests = {} /\ i = 0 BY <1>0, <2>1 DEF ScanInv, ScansInOrder
    <2>5. \A p \in Positions : ~(p < 0) BY <1>0, PositionsType
    <2>6. MarksAreDecoded' BY <2>1, <2>2, <2>4, <2>5 DEF MarksAreDecoded
    <2> QED BY <1>0, <2>3, <2>6 DEF DestInv
<1>3. CASE MarkJumpdest \/ MarkPush \/ MarkOther
    <2>1. /\ code' = code /\ phase' = phase /\ parseVars' = parseVars
          /\ phase = "meta" /\ i < Len(code)
        BY <1>3 DEF MarkJumpdest, MarkPush, MarkOther
    <2>2. Decoded' = Decoded /\ Positions' = Positions /\ pc' = pc
          /\ \A p : ByteAt(p)' = ByteAt(p)
        BY <2>1, MetaKeepsParse, CodeIsConstant DEF parseVars
    <2>3. DecodedIsLeast' BY <2>1, <2>2 DEF DestInv, DecodedIsLeast
    <2>4. /\ i \in Decoded /\ i \in Positions /\ i \in Nat
          /\ NextPc(i) \in Nat /\ NextPc(i) > i
          /\ \A p \in Positions : i < p /\ p < NextPc(i) => p \notin Decoded
        BY <1>0, <2>1, MetaPosition
    <2>5. ~is_push(JUMPDEST) BY DEF is_push, JUMPDEST, PUSH1, PUSH32
    <2>6. /\ i' = NextPc(i)
          /\ jumpdests' = IF ByteAt(i) = JUMPDEST THEN jumpdests \cup {i} ELSE jumpdests
        <3>1. CASE MarkPush BY <2>5, <3>1 DEF MarkPush
        <3>2. CASE MarkJumpdest \/ MarkOther
            <4>1. i' = i + 1 /\ ~is_push(ByteAt(i)) BY <2>5, <3>2 DEF MarkJumpdest, MarkOther
            <4>2. NextPc(i) = i + 1 BY <2>4, <4>1 DEF NextPc, push_bytes
            <4> QED BY <3>2, <4>1, <4>2 DEF MarkJumpdest, MarkOther
        <3> QED BY <1>3, <3>1, <3>2
    <2>7. ASSUME NEW p \in Positions
          PROVE  p \in jumpdests' <=> p < i' /\ p \in Decoded /\ ByteAt(p) = JUMPDEST
        <3>1. p \in Nat BY <1>0, PositionsType
        <3>2. p \in jumpdests <=> p < i /\ p \in Decoded /\ ByteAt(p) = JUMPDEST
            BY <2>1 DEF DestInv, MarksAreDecoded
        <3>3. CASE p = i
            <4>1. p < i' /\ ~(p < i) BY <2>4, <2>6, <3>3
            <4> QED BY <2>4, <2>6, <3>2, <3>3, <4>1
        <3>4. CASE p < i
            <4>1. p < i' /\ p # i BY <2>4, <2>6, <3>1, <3>4
            <4> QED BY <2>6, <3>2, <3>4, <4>1
        <3>5. CASE i < p
            <4>1. ~(p < i) /\ p # i BY <2>4, <3>1, <3>5
            <4>2. p < i' => p \notin Decoded BY <2>4, <2>6, <3>5
            <4> QED BY <2>6, <3>2, <4>1, <4>2
        <3> QED BY <2>4, <3>1, <3>3, <3>4, <3>5
    <2>8. MarksAreDecoded' BY <2>2, <2>7 DEF MarksAreDecoded
    <2> QED BY <1>0, <2>3, <2>8 DEF DestInv
<1>4. CASE Finish \/ UNCHANGED vars
    <2>1. /\ code' = code /\ parseVars' = parseVars /\ metaVars' = metaVars
          /\ phase' \in {"meta", "done"} => phase \in {"meta", "done"}
        BY <1>4 DEF Finish, vars, parseVars, metaVars
    <2>2. /\ Decoded' = Decoded /\ Positions' = Positions /\ pc' = pc /\ i' = i
          /\ jumpdests' = jumpdests /\ \A p : ByteAt(p)' = ByteAt(p)
        BY <2>1, MetaKeepsParse, CodeIsConstant DEF parseVars, metaVars
    <2>3. DecodedIsLeast' BY <2>1, <2>2 DEF DestInv, DecodedIsLeast
    <2>4. MarksAreDecoded' BY <2>1, <2>2 DEF DestInv, MarksAreDecoded
    <2> QED BY <1>0, <2>3, <2>4 DEF DestInv
<1> QED BY <1>1, <1>2, <1>3, <1>4 DEF Next

LEMMA DestCorrect == Spec => []DestInv
<1>1. Init => DestInv BY DestInit
<1>2. DestInv /\ [Next]_vars => DestInv' BY DestStep
<1> QED BY <1>1, <1>2, PTL DEF Spec

\* At the end the decoded addresses are the EVM's instruction boundaries.
LEMMA DecodedAreBoundaries ==
    ASSUME DestInv, phase \in {"meta", "done"}
    PROVE  EvmBoundaries(code) = Decoded
<1>1. TypeOK /\ Frontier /\ ScansInOrder /\ DecodedIsLeast BY DEF DestInv, ScanInv
<1>2. Len(code) \in Nat /\ pc \in Nat /\ pc >= Len(code)
    BY <1>1, PositionsType DEF ScansInOrder, TypeOK
<1>3. Decoded \subseteq EvmPositions(code)
    BY <1>1, EvmPositionsArePositions DEF Frontier
<1>4. Decoded \subseteq EvmBoundaries(code)
    BY <1>1, <1>3 DEF DecodedIsLeast, EvmBoundaries
<1>5. EvmBoundaries(code) \subseteq Decoded
    <2> SUFFICES ASSUME NEW p \in EvmBoundaries(code) PROVE p \in Decoded OBVIOUS
    <2>1. p \in Positions /\ \A S \in SUBSET EvmPositions(code) :
             ClosedUnderNext(code, S) => p \in S
        BY EvmPositionsArePositions DEF EvmBoundaries
    <2>2. pc \notin Positions
        BY <1>1, <1>2, PositionsType
    <2>3. 0 \in Positions
        <3>1. p \in Nat /\ p < Len(code) BY <1>1, <2>1, PositionsType
        <3>2. 0 < Len(code) BY <1>2, <3>1
        <3> QED BY <1>1, <3>2, PositionsType
    <2>4. 0 \in Decoded BY <1>1, <2>2, <2>3 DEF Frontier
    <2>5. \A a \in Decoded : NextPc(a) \in Positions => NextPc(a) \in Decoded
        BY <1>1, <2>2 DEF Frontier
    <2>6. ClosedUnderNext(code, Decoded)
        BY <2>4, <2>5, EvmNextIsNextPc, EvmPositionsArePositions DEF ClosedUnderNext
    <2> QED BY <1>3, <2>1, <2>6
<1> QED BY <1>4, <1>5

\* The destinations the translator accepts are exactly the EVM's.
THEOREM JumpdestsAreEvmsAlways == Spec => []JumpdestsAreEvms
<1>1. DestInv => JumpdestsAreEvms
    <2> SUFFICES ASSUME DestInv, phase = "done"
                 PROVE  jumpdests = EvmJumpdests(code)
        BY DEF JumpdestsAreEvms
    <2>1. TypeOK /\ Frontier /\ ScansInOrder /\ MarksAreDecoded BY DEF DestInv, ScanInv
    <2>2. i \in Nat /\ i >= Len(code) BY <2>1 DEF ScansInOrder, TypeOK
    <2>3. \A p \in Positions : p < i BY <2>1, <2>2, PositionsType
    <2>4. jumpdests = {p \in Decoded : ByteAt(p) = JUMPDEST}
        BY <2>1, <2>3 DEF MarksAreDecoded, TypeOK, Frontier
    <2>5. EvmBoundaries(code) = Decoded BY DecodedAreBoundaries
    <2> QED BY <2>4, <2>5 DEF EvmJumpdests, ByteAt
<1> QED BY <1>1, DestCorrect, PTL

-----------------------------------------------------------------------------
(* The shape of the blocks *)

\* What Decode makes of the bytes at its address.
IsDecoded(x) ==
    /\ x.address \in Positions
    /\ x.opcode = ByteAt(x.address)
    /\ x.valid = (x.opcode \in Instruction)
    /\ is_push(x.opcode) => x.value = PushValue(x.address)

LastOf(b) == b.instructions[Len(b.instructions)]
EndOf(b) == NextPc(LastOf(b).address)

\* A block: its instructions are decoded one behind the other from its address,
\* and none of them is entered or left by a jump in the middle.
WellBuilt(b) ==
    /\ b.instructions # <<>>
    /\ b.instructions[1].address = b.address
    /\ StraightLine(b)
    /\ b.ends_on_invalid = (LastOf(b).opcode \notin Instruction)
    /\ \A k \in DOMAIN b.instructions :
          /\ IsDecoded(b.instructions[k])
          /\ NextPc(b.instructions[k].address) <= EndOf(b)
          /\ k < Len(b.instructions) =>
                b.instructions[k + 1].address = NextPc(b.instructions[k].address)

\* Control passes the last instruction so far.
IsOpen(b) ==
    LastOf(b).opcode \in Instruction /\ ~stops(LastOf(b).opcode) /\ ~is_jump(LastOf(b).opcode)

BlocksBuilt  == \A j \in DOMAIN blocks : WellBuilt(blocks[j])
BlocksFollow ==
    \A j \in DOMAIN blocks :
        EndOf(blocks[j]) = IF j < Len(blocks) THEN blocks[j + 1].address ELSE bb.address
StartIsFirst == IF blocks = <<>> THEN bb.address = 0 ELSE blocks[1].address = 0

\* The block being built ends at pc.
BlockGoesOn ==
    IF bb.instructions = <<>> THEN bb.address = pc /\ phase # "push"
    ELSE /\ WellBuilt(bb) /\ EndOf(bb) = pc
         /\ phase = "parse" => IsOpen(bb) /\ ByteAt(pc) # JUMPDEST

ShapeInv == ScanInv /\ BlocksBuilt /\ BlocksFollow /\ StartIsFirst /\ BlockGoesOn

\* One more instruction at the end of a block that is still open.
LEMMA BlockGrows ==
    ASSUME TypeOK, pc \in Positions, NEW b \in BasicBlock, NEW c \in BasicBlock,
           c.address = b.address, c.instructions = Append(b.instructions, Decode(pc)),
           c.ends_on_invalid = (ByteAt(pc) \notin Instruction),
           IF b.instructions = <<>> THEN b.address = pc
           ELSE WellBuilt(b) /\ EndOf(b) = pc /\ IsOpen(b) /\ ByteAt(pc) # JUMPDEST
    PROVE  WellBuilt(c) /\ LastOf(c) = Decode(pc) /\ EndOf(c) = NextPc(pc)
<1> DEFINE n == Len(b.instructions)
<1>1. b.instructions \in Seq(IInstruction) /\ n \in Nat BY DEF BasicBlock
<1>2. Decode(pc) \in IInstruction BY DecodeType
<1>3. /\ Len(c.instructions) = n + 1
      /\ DOMAIN c.instructions = 1..(n + 1)
      /\ \A k \in 1..n : c.instructions[k] = b.instructions[k]
      /\ c.instructions[n + 1] = Decode(pc)
      /\ c.instructions # <<>>
    BY <1>1, <1>2
<1>4. DOMAIN b.instructions = 1..n BY <1>1
<1>5. b.instructions = <<>> <=> n = 0 BY <1>1
<1>6. LastOf(b) = b.instructions[n] BY DEF LastOf
<1>7. LastOf(c) = Decode(pc) BY <1>3 DEF LastOf
<1>8. /\ Decode(pc).address = pc /\ Decode(pc).opcode = ByteAt(pc)
      /\ IsDecoded(Decode(pc))
    BY DEF Decode, IsDecoded
<1>9. EndOf(c) = NextPc(pc) BY <1>7, <1>8 DEF EndOf
<1>10. pc \in Nat /\ NextPc(pc) \in Nat /\ NextPc(pc) > pc
    BY PositionsType, NextPcType
<1> HIDE DEF n
<1>11. c.instructions[1].address = c.address
    <2>1. CASE n = 0 BY <1>3, <1>5, <1>8, <2>1
    <2>2. CASE n # 0
        <3>1. 1 \in 1..n BY <1>1, <2>2
        <3> QED BY <1>3, <1>5, <2>2, <3>1 DEF WellBuilt
    <2> QED BY <2>1, <2>2
<1>12. ASSUME NEW k \in 1..n
       PROVE  /\ IsDecoded(b.instructions[k])
              /\ NextPc(b.instructions[k].address) <= pc
              /\ NextPc(b.instructions[k].address) \in Nat
              /\ k < n => b.instructions[k + 1].address = NextPc(b.instructions[k].address)
              /\ k > 1 => b.instructions[k].opcode # JUMPDEST
              /\ b.instructions[k].opcode \in Instruction
              /\ ~stops(b.instructions[k].opcode) /\ ~is_jump(b.instructions[k].opcode)
    <2>1. n # 0 BY <1>1, <1>12
    <2>2. WellBuilt(b) /\ EndOf(b) = pc /\ IsOpen(b) BY <1>5, <2>1
    <2>3. /\ IsDecoded(b.instructions[k])
          /\ NextPc(b.instructions[k].address) <= pc
          /\ k < n => b.instructions[k + 1].address = NextPc(b.instructions[k].address)
        BY <1>4, <2>2 DEF WellBuilt, n
    <2>4. NextPc(b.instructions[k].address) \in Nat BY <2>3, NextPcType DEF IsDecoded
    <2>5. /\ k > 1 => b.instructions[k].opcode # JUMPDEST
          /\ k < n => /\ b.instructions[k].opcode \in Instruction
                      /\ ~stops(b.instructions[k].opcode)
                      /\ ~is_jump(b.instructions[k].opcode)
        BY <1>4, <2>2 DEF WellBuilt, StraightLine, n
    <2>6. CASE k = n BY <1>6, <2>2, <2>3, <2>4, <2>5, <2>6 DEF IsOpen
    <2>7. CASE k < n BY <2>3, <2>4, <2>5, <2>7
    <2> QED BY <1>1, <2>6, <2>7
<1>13. StraightLine(c)
    <2> SUFFICES ASSUME NEW k \in 1..(n + 1)
                 PROVE  /\ k > 1 => c.instructions[k].opcode # JUMPDEST
                        /\ k < n + 1 => /\ c.instructions[k].opcode \in Instruction
                                        /\ ~stops(c.instructions[k].opcode)
                                        /\ ~is_jump(c.instructions[k].opcode)
        BY <1>3 DEF StraightLine
    <2>1. CASE k \in 1..n BY <1>3, <1>12, <2>1
    <2>2. CASE k = n + 1
        <3>1. ~(k < n + 1) /\ (k > 1 => n # 0) BY <1>1, <2>2
        <3> QED BY <1>3, <1>5, <1>8, <2>2, <3>1
    <2>3. k \in 1..n \/ k = n + 1 BY <1>1
    <2> QED BY <2>1, <2>2, <2>3
<1>14. ASSUME NEW k \in 1..(n + 1)
       PROVE  /\ IsDecoded(c.instructions[k])
              /\ NextPc(c.instructions[k].address) <= NextPc(pc)
              /\ k < n + 1 =>
                    c.instructions[k + 1].address = NextPc(c.instructions[k].address)
    <2>1. CASE k \in 1..n
        <3>1. NextPc(b.instructions[k].address) <= NextPc(pc) BY <1>10, <1>12, <2>1
        <3>2. CASE k < n
            <4>1. k + 1 \in 1..n BY <1>1, <3>2
            <4> QED BY <1>3, <1>12, <2>1, <3>1, <3>2, <4>1
        <3>3. CASE k = n
            <4>1. n # 0 BY <1>1, <2>1
            <4>2. NextPc(b.instructions[n].address) = pc
                BY <1>5, <1>6, <4>1 DEF EndOf
            <4> QED BY <1>3, <1>8, <1>12, <2>1, <3>1, <3>3, <4>2
        <3>4. k < n \/ k = n BY <1>1, <2>1
        <3> QED BY <3>2, <3>3, <3>4
    <2>2. CASE k = n + 1
        <3>1. ~(k < n + 1) /\ NextPc(pc) <= NextPc(pc) BY <1>1, <1>10, <2>2
        <3> QED BY <1>3, <1>8, <2>2, <3>1
    <2>3. k \in 1..n \/ k = n + 1 BY <1>1
    <2> QED BY <2>1, <2>2, <2>3
<1>15. c.ends_on_invalid = (LastOf(c).opcode \notin Instruction) BY <1>7, <1>8
<1> QED BY <1>3, <1>7, <1>9, <1>11, <1>13, <1>14, <1>15 DEF WellBuilt

\* What is said of blocks is said of the code, which does not change.
LEMMA ShapeIsOfCode ==
    ASSUME code' = code
    PROVE  /\ \A b : WellBuilt(b)' <=> WellBuilt(b)
           /\ \A b : EndOf(b)' = EndOf(b)
<1>1. /\ Positions' = Positions /\ Len(code)' = Len(code)
      /\ \A p : ByteAt(p)' = ByteAt(p) /\ NextPc(p)' = NextPc(p)
    BY CodeIsConstant
<1>2. \A p : PushValue(p)' = PushValue(p)
    BY DEF PushValue, FromBigEndian, NextPc, ByteAt
<1>3. \A x : IsDecoded(x)' <=> IsDecoded(x) BY <1>1, <1>2 DEF IsDecoded
<1>4. \A b : EndOf(b)' = EndOf(b) BY <1>1 DEF EndOf, LastOf
<1>5. \A b : WellBuilt(b)' <=> WellBuilt(b)
    BY <1>1, <1>3, <1>4 DEF WellBuilt, StraightLine, LastOf
<1> QED BY <1>4, <1>5

LEMMA ShapeInit == Init => ShapeInv
<1> SUFFICES ASSUME Init PROVE ShapeInv OBVIOUS
<1>1. ScanInv BY ScanInit
<1>2. blocks = <<>> /\ DOMAIN blocks = {} /\ bb = EmptyBlock(0) /\ pc = 0 /\ phase # "push"
    BY DEF Init
<1> QED BY <1>1, <1>2
        DEF ShapeInv, BlocksBuilt, BlocksFollow, StartIsFirst, BlockGoesOn, EmptyBlock

\* A step that leaves the code and the blocks alone.
LEMMA BlocksStay ==
    ASSUME ShapeInv, code' = code, blocks' = blocks, bb'.address = bb.address
    PROVE  BlocksBuilt' /\ BlocksFollow' /\ StartIsFirst'
<1>1. /\ \A b : WellBuilt(b)' <=> WellBuilt(b)
      /\ \A b : EndOf(b)' = EndOf(b)
    BY ShapeIsOfCode
<1>2. BlocksBuilt' BY <1>1 DEF ShapeInv, BlocksBuilt
<1>3. BlocksFollow' BY <1>1 DEF ShapeInv, BlocksFollow
<1>4. StartIsFirst' BY DEF ShapeInv, StartIsFirst
<1> QED BY <1>2, <1>3, <1>4

LEMMA ShapeParse == ASSUME ShapeInv, ParseInstruction PROVE ShapeInv'
<1>1. TypeOK /\ PcInside /\ BlockGoesOn /\ ScanInv BY DEF ShapeInv, ScanInv
<1>2. /\ code' = code /\ blocks' = blocks /\ pc' = NextPc(pc) /\ phase = "parse"
      /\ phase' = "parse" => ~EndsBlock(pc)
    BY DEF ParseInstruction
<1>3. /\ bb'.address = bb.address /\ bb'.instructions = Append(bb.instructions, Decode(pc))
      /\ bb'.ends_on_invalid = (ByteAt(pc) \notin Instruction)
      /\ bb \in BasicBlock
    BY <1>1 DEF ParseInstruction, TypeOK, BasicBlock
<1>4. ScanInv' /\ TypeOK' BY <1>1, ScanStep DEF Next, ScanInv
<1>5. bb' \in BasicBlock BY <1>4 DEF TypeOK
<1>6. pc \in Positions BY <1>1, <1>2, PositionsType DEF PcInside, TypeOK
<1>7. WellBuilt(bb') /\ LastOf(bb') = Decode(pc) /\ EndOf(bb') = NextPc(pc)
    <2>1. IF bb.instructions = <<>> THEN bb.address = pc
          ELSE WellBuilt(bb) /\ EndOf(bb) = pc /\ IsOpen(bb) /\ ByteAt(pc) # JUMPDEST
        BY <1>1, <1>2 DEF BlockGoesOn
    <2> QED BY <1>1, <1>3, <1>5, <1>6, <2>1, BlockGrows
<1>8. BlocksBuilt' /\ BlocksFollow' /\ StartIsFirst' BY <1>2, <1>3, BlocksStay
<1>9. bb'.instructions # <<>> BY <1>7 DEF WellBuilt
<1>10. /\ \A b : WellBuilt(b)' <=> WellBuilt(b)
       /\ \A b : EndOf(b)' = EndOf(b)
       /\ \A p : ByteAt(p)' = ByteAt(p)
    BY <1>2, ShapeIsOfCode, CodeIsConstant
<1>11. phase' = "parse" => IsOpen(bb') /\ ByteAt(pc') # JUMPDEST
    <2> SUFFICES ASSUME phase' = "parse" PROVE IsOpen(bb') /\ ByteAt(pc') # JUMPDEST
        OBVIOUS
    <2>1. LastOf(bb').opcode = ByteAt(pc) BY <1>7 DEF Decode
    <2>2. /\ ByteAt(pc) \in Instruction /\ ~stops(ByteAt(pc)) /\ ~is_jump(ByteAt(pc))
          /\ ~NextIsJumpdest(pc)
        BY <1>2 DEF EndsBlock
    <2>3. NextPc(pc) < Len(code)
        <3>1. Len(code) \in Nat /\ NextPc(pc) \in Nat BY <1>1, <1>6, PositionsType, NextPcType
        <3> QED BY <1>2, <3>1 DEF ParseInstruction
    <2>4. ByteAt(pc') # JUMPDEST BY <1>2, <2>2, <2>3 DEF NextIsJumpdest
    <2> QED BY <2>1, <2>2, <2>4 DEF IsOpen
<1>12. BlockGoesOn' BY <1>2, <1>7, <1>9, <1>10, <1>11 DEF BlockGoesOn, IsOpen, LastOf
<1> QED BY <1>4, <1>8, <1>12 DEF ShapeInv

LEMMA ShapePush == ASSUME ShapeInv, PushBlock PROVE ShapeInv'
<1>1. TypeOK /\ BlockGoesOn /\ ScanInv /\ BlocksBuilt /\ BlocksFollow /\ StartIsFirst
    BY DEF ShapeInv, ScanInv
<1>2. /\ code' = code /\ blocks' = Append(blocks, bb) /\ pc' = pc /\ phase = "push"
      /\ phase' # "push" /\ bb' = EmptyBlock(pc)
    BY DEF PushBlock
<1>3. ScanInv' BY <1>1, ScanStep DEF Next
<1> DEFINE n == Len(blocks)
<1>4. blocks \in Seq(BasicBlock) /\ n \in Nat /\ DOMAIN blocks = 1..n BY <1>1 DEF TypeOK
<1>5. /\ Len(blocks') = n + 1 /\ DOMAIN blocks' = 1..(n + 1)
      /\ \A j \in 1..n : blocks'[j] = blocks[j]
      /\ blocks'[n + 1] = bb
      /\ blocks' # <<>>
    BY <1>2, <1>4
<1>6. bb'.address = pc /\ bb'.instructions = <<>> BY <1>2 DEF EmptyBlock
<1>7. WellBuilt(bb) /\ EndOf(bb) = pc BY <1>1, <1>2 DEF BlockGoesOn
<1>8. blocks = <<>> <=> n = 0 BY <1>4
<1> HIDE DEF n
<1>9. /\ \A b : WellBuilt(b)' <=> WellBuilt(b)
      /\ \A b : EndOf(b)' = EndOf(b)
    BY <1>2, ShapeIsOfCode
<1>10. \A j \in 1..(n + 1) : WellBuilt(blocks'[j])
    <2> SUFFICES ASSUME NEW j \in 1..(n + 1) PROVE WellBuilt(blocks'[j]) OBVIOUS
    <2>1. j \in 1..n \/ j = n + 1 BY <1>4
    <2> QED BY <1>1, <1>4, <1>5, <1>7, <2>1 DEF BlocksBuilt
<1>11. BlocksBuilt' BY <1>5, <1>9, <1>10 DEF BlocksBuilt
<1>12. ASSUME NEW j \in 1..(n + 1)
       PROVE  EndOf(blocks'[j]) = IF j < n + 1 THEN blocks'[j + 1].address ELSE bb'.address
    <2>1. CASE j = n + 1
        <3>1. ~(j < n + 1) BY <1>4, <2>1
        <3> QED BY <1>5, <1>6, <1>7, <2>1, <3>1
    <2>2. CASE j \in 1..n
        <3>1. EndOf(blocks[j]) = IF j < n THEN blocks[j + 1].address ELSE bb.address
            BY <1>1, <1>4, <2>2 DEF BlocksFollow, n
        <3>2. CASE j < n
            <4>1. j + 1 \in 1..n /\ j < n + 1 BY <1>4, <2>2, <3>2
            <4> QED BY <1>5, <2>2, <3>1, <3>2, <4>1
        <3>3. CASE j = n
            <4>1. ~(j < n) /\ j < n + 1 /\ j + 1 = n + 1 BY <1>4, <3>3
            <4> QED BY <1>5, <2>2, <3>1, <4>1
        <3>4. j < n \/ j = n BY <1>4, <2>2
        <3> QED BY <3>2, <3>3, <3>4
    <2>3. j \in 1..n \/ j = n + 1 BY <1>4
    <2> QED BY <2>1, <2>2, <2>3
<1>13. BlocksFollow' BY <1>5, <1>9, <1>12 DEF BlocksFollow
<1>14. StartIsFirst'
    <2>1. CASE n = 0 BY <1>1, <1>5, <1>8, <2>1 DEF StartIsFirst
    <2>2. CASE n # 0
        <3>1. 1 \in 1..n BY <1>4, <2>2
        <3> QED BY <1>1, <1>5, <1>8, <2>2, <3>1 DEF StartIsFirst
    <2> QED BY <2>1, <2>2
<1>15. BlockGoesOn' BY <1>2, <1>6 DEF BlockGoesOn
<1> QED BY <1>3, <1>11, <1>13, <1>14, <1>15 DEF ShapeInv

LEMMA ShapeStep == ShapeInv /\ [Next]_vars => ShapeInv'
<1> SUFFICES ASSUME ShapeInv, [Next]_vars PROVE ShapeInv' OBVIOUS
<1>1. CASE ParseInstruction BY <1>1, ShapeParse
<1>2. CASE PushBlock BY <1>2, ShapePush
<1>3. CASE MarkJumpdest \/ MarkPush \/ MarkOther \/ Finish \/ UNCHANGED vars
    <2>1. /\ code' = code /\ blocks' = blocks /\ bb' = bb /\ pc' = pc
          /\ phase' = phase \/ phase' = "done"
        BY <1>3 DEF MarkJumpdest, MarkPush, MarkOther, Finish, parseVars, vars
    <2>2. ScanInv' BY ScanStep DEF ShapeInv
    <2>3. BlocksBuilt' /\ BlocksFollow' /\ StartIsFirst' BY <2>1, BlocksStay
    <2>4. /\ \A b : WellBuilt(b)' <=> WellBuilt(b)
          /\ \A b : EndOf(b)' = EndOf(b)
          /\ \A p : ByteAt(p)' = ByteAt(p)
        BY <2>1, ShapeIsOfCode, CodeIsConstant
    <2>5. BlockGoesOn' BY <2>1, <2>4 DEF ShapeInv, BlockGoesOn, IsOpen, LastOf
    <2> QED BY <2>2, <2>3, <2>5 DEF ShapeInv
<1> QED BY <1>1, <1>2, <1>3 DEF Next

LEMMA ShapeCorrect == Spec => []ShapeInv
<1>1. Init => ShapeInv BY ShapeInit
<1>2. ShapeInv /\ [Next]_vars => ShapeInv' BY ShapeStep
<1> QED BY <1>1, <1>2, PTL DEF Spec

\* Every block is entered at its label and left at its end only.
THEOREM BlocksStayStraightLine == Spec => []BlocksAreStraightLine
<1>1. ShapeInv => BlocksAreStraightLine
    BY DEF ShapeInv, BlocksBuilt, WellBuilt, LastOf, BlocksAreStraightLine
<1> QED BY <1>1, ShapeCorrect, PTL

\* Every block begins where the one that is printed before it ends.
THEOREM BlocksFallThrough == Spec => []FallThroughIsNextBlock
<1>1. ShapeInv => FallThroughIsNextBlock
    <2> SUFFICES ASSUME ShapeInv, NEW j \in 1..(Len(blocks) - 1)
                 PROVE  blocks[j + 1].address = EndOf(blocks[j])
        BY DEF FallThroughIsNextBlock, EndOf, LastOf
    <2>1. Len(blocks) \in Nat /\ DOMAIN blocks = 1..Len(blocks)
        BY DEF ShapeInv, ScanInv, TypeOK
    <2>2. j \in DOMAIN blocks /\ j < Len(blocks) BY <2>1
    <2> QED BY <2>2 DEF ShapeInv, BlocksFollow
<1> QED BY <1>1, ShapeCorrect, PTL

-----------------------------------------------------------------------------
(* What a PUSH pushes *)

LEMMA PushHasBytes ==
    ASSUME NEW op \in Byte, is_push(op) PROVE push_bytes(op) \in Nat \ {0}
BY DEF push_bytes, is_push, PUSH1, PUSH32, Byte

\* A PUSH whose immediate the code has to its end.
LEMMA WholePush ==
    ASSUME TypeOK, NEW p \in Positions, is_push(ByteAt(p)), ~(NextPc(p) > Len(code))
    PROVE  PushValue(p) = EvmImmediate(p)
<1> DEFINE n == push_bytes(ByteAt(p))
<1>1. p \in Nat /\ ByteAt(p) \in Byte /\ Len(code) \in Nat BY PositionsType
<1>2. n \in Nat \ {0} BY <1>1, PushHasBytes
<1>3. NextPc(p) = p + 1 + n BY DEF NextPc
<1> HIDE DEF n
<1>4. p + 1 + n <= Len(code) /\ p + 1 # Len(code) BY <1>1, <1>2, <1>3
<1>5. PushValue(p) = FromBigEndian(p + 1, p + 1 + n)
    <2>1. CASE p + 1 + n < Len(code) BY <2>1 DEF PushValue, n
    <2>2. CASE p + 1 + n = Len(code)
        <3>1. ~(p + 1 + n < Len(code)) BY <1>1, <1>2, <2>2
        <3>2. PushValue(p) = FromBigEndian(p + 1, Len(code))
            BY <1>4, <3>1 DEF PushValue, n
        <3> QED BY <2>2, <3>2
    <2> QED BY <1>1, <1>2, <1>4, <2>1, <2>2
<1>6. ASSUME NEW k \in 1..WordBytes
      PROVE  (IF (p + 1 + n) - WordBytes + k - 1 >= p + 1
              THEN ByteAt((p + 1 + n) - WordBytes + k - 1) ELSE 0)
             = (IF p + n + k - WordBytes > p /\ p + n + k - WordBytes \in Positions
                THEN ByteAt(p + n + k - WordBytes) ELSE 0)
    <2>1. WordBytes \in Nat \ {0} BY WordBytesAssumption
    <2>2. (p + 1 + n) - WordBytes + k - 1 = p + n + k - WordBytes BY <1>1, <1>2, <2>1
    <2> DEFINE q == p + n + k - WordBytes
    <2>3. q \in Int /\ (q >= p + 1 <=> q > p) /\ q < Len(code)
        BY <1>1, <1>2, <1>4, <2>1
    <2> HIDE DEF q
    <2>4. q > p => q \in Nat /\ q \in Positions BY <1>1, <2>3, PositionsType
    <2>5. (IF q >= p + 1 THEN ByteAt(q) ELSE 0)
          = (IF q > p /\ q \in Positions THEN ByteAt(q) ELSE 0)
        BY <2>3, <2>4
    <2> QED BY <2>2, <2>5 DEF q
<1> QED BY <1>5, <1>6 DEF FromBigEndian, EvmImmediate, n

\* Every PUSH in the blocks whose immediate is whole has the EVM's constant, and
\* one that the code cuts off is in the last block, where nothing follows it.
THEOREM PushesStayEvms == Spec => []PushesEvmImmediate
<1>1. ShapeInv => PushesEvmImmediate
    <2> SUFFICES ASSUME ShapeInv, NEW j \in DOMAIN blocks,
                        NEW k \in DOMAIN blocks[j].instructions,
                        is_push(blocks[j].instructions[k].opcode),
                        blocks[j].instructions[k].value
                            # EvmImmediate(blocks[j].instructions[k].address)
                 PROVE  /\ NextPc(blocks[j].instructions[k].address) > Len(code)
                        /\ j = Len(blocks)
        BY DEF PushesEvmImmediate, InstructionsOf
    <2> DEFINE x == blocks[j].instructions[k]
    <2>1. TypeOK BY DEF ShapeInv, ScanInv
    <2>2. /\ Len(blocks) \in Nat /\ j \in 1..Len(blocks) /\ Len(code) \in Nat
          /\ \A h \in 1..Len(blocks) : WellBuilt(blocks[h])
        BY <2>1, PositionsType DEF ShapeInv, BlocksBuilt, TypeOK
    <2>3. IsDecoded(x) /\ NextPc(x.address) <= EndOf(blocks[j])
        BY <2>2 DEF WellBuilt
    <2> HIDE DEF x
    <2>4. x.address \in Positions /\ NextPc(x.address) \in Nat
        BY <2>1, <2>3, NextPcType DEF IsDecoded
    <2>5. NextPc(x.address) > Len(code)
        BY <2>1, <2>3, <2>4, WholePush DEF IsDecoded, x
    <2>6. ASSUME j < Len(blocks) PROVE FALSE
        <3>1. j + 1 \in 1..Len(blocks) BY <2>2, <2>6
        <3>2. EndOf(blocks[j]) = blocks[j + 1].address
            BY <2>6 DEF ShapeInv, BlocksFollow
        <3>3. WellBuilt(blocks[j + 1]) /\ blocks[j + 1] \in BasicBlock
            BY <2>1, <2>2, <3>1 DEF TypeOK
        <3>4. 1 \in DOMAIN blocks[j + 1].instructions
            BY <3>3 DEF WellBuilt, BasicBlock
        <3>5. blocks[j + 1].address \in Positions
            BY <3>3, <3>4 DEF WellBuilt, IsDecoded
        <3>6. blocks[j + 1].address \in Nat /\ blocks[j + 1].address < Len(code)
            BY <2>1, <3>5, PositionsType
        <3> QED BY <2>2, <2>3, <2>4, <2>5, <3>2, <3>6
    <2> QED BY <2>2, <2>5, <2>6 DEF x
<1> QED BY <1>1, ShapeCorrect, PTL

-----------------------------------------------------------------------------
(* The numbers of the instructions *)

Kept == UNION {InstructionsOf(blocks[m]) : m \in DOMAIN blocks}
AllDecoded == Kept \cup InstructionsOf(bb)

Before(S, p) == {y \in S : y.address < p}

\* Every instruction has the number of those before it, and the next one will
\* get the number of all.
NumbersCount ==
    /\ IsFiniteSet(AllDecoded)
    /\ Cardinality(AllDecoded) = inst_global_index + Len(bb.instructions)
    /\ \A x \in AllDecoded : x.global_idx = Cardinality(Before(AllDecoded, x.address))
    /\ \A x \in Kept, y \in InstructionsOf(bb) : x.address < y.address

NumberInv == ScanInv /\ NumbersCount

\* Decoded are the addresses of these instructions, all of them below pc.
LEMMA AllAreBelow ==
    ASSUME ScanInv, NEW x \in AllDecoded
    PROVE  x.address \in Nat /\ x.address < pc
<1>1. TypeOK /\ Frontier BY DEF ScanInv
<1>2. x.address \in Decoded
    BY DEF AllDecoded, Kept, Decoded, Parsed, Addresses
<1>3. x.address \in Positions /\ NextPc(x.address) <= pc BY <1>1, <1>2 DEF Frontier
<1>4. /\ x.address \in Nat /\ NextPc(x.address) \in Nat
      /\ NextPc(x.address) > x.address /\ pc \in Nat
    BY <1>1, <1>3, PositionsType, NextPcType DEF TypeOK
<1> QED BY <1>3, <1>4

LEMMA NumberParse == ASSUME NumberInv, ParseInstruction PROVE NumbersCount'
<1>1. TypeOK /\ ScanInv /\ NumbersCount BY DEF NumberInv, ScanInv
<1> DEFINE n == Len(bb.instructions)
           d == Decode(pc)
           A == AllDecoded
<1>2. bb.instructions \in Seq(IInstruction) /\ n \in Nat /\ inst_global_index \in Nat
      /\ pc \in Nat
    BY <1>1 DEF TypeOK, BasicBlock
<1>3. /\ blocks' = blocks /\ inst_global_index' = inst_global_index
      /\ bb'.instructions = Append(bb.instructions, d)
    BY <1>1 DEF ParseInstruction, TypeOK, BasicBlock
<1>4. d.address = pc /\ d.global_idx = inst_global_index + n BY DEF Decode
<1>5. InstructionsOf(bb)' = InstructionsOf(bb) \cup {d} /\ Len(bb'.instructions) = n + 1
    <2> HIDE DEF d
    <2>1. /\ \A k \in 1..n : bb'.instructions[k] = bb.instructions[k]
          /\ bb'.instructions[n + 1] = d
          /\ DOMAIN bb'.instructions = (1..n) \cup {n + 1} /\ DOMAIN bb.instructions = 1..n
          /\ Len(bb'.instructions) = n + 1
        BY <1>2, <1>3
    <2> HIDE DEF n
    <2> QED BY <2>1 DEF InstructionsOf
<1>6. Kept' = Kept BY <1>3 DEF Kept, InstructionsOf
<1>7. AllDecoded' = A \cup {d} BY <1>5, <1>6 DEF AllDecoded
<1> HIDE DEF n, d
<1>8. \A x \in A : x.address \in Nat /\ x.address < pc BY <1>1, AllAreBelow
<1>9. d \notin A BY <1>2, <1>4, <1>8
<1>10. IsFiniteSet(A) /\ Cardinality(A) = inst_global_index + n BY <1>1 DEF NumbersCount, n
<1>11. IsFiniteSet(AllDecoded') /\ Cardinality(AllDecoded') = inst_global_index + n + 1
    <2>1. IsFiniteSet(A \cup {d}) /\ Cardinality(A \cup {d}) = Cardinality(A) + 1
        BY <1>9, <1>10, FS_AddElement
    <2> QED BY <1>7, <1>10, <2>1
<1>12. ASSUME NEW p \in Nat, p <= pc PROVE Before(AllDecoded', p) = Before(A, p)
    <2>1. ~(d.address < p) BY <1>2, <1>4, <1>12
    <2> QED BY <1>7, <2>1 DEF Before
<1>13. Before(A, pc) = A BY <1>8 DEF Before
<1>14. ASSUME NEW x \in AllDecoded'
       PROVE  x.global_idx = Cardinality(Before(AllDecoded', x.address))
    <2>1. CASE x \in A
        <3>1. x.address \in Nat /\ x.address <= pc BY <1>2, <1>8, <2>1
        <3>2. x.global_idx = Cardinality(Before(A, x.address))
            BY <1>1, <2>1 DEF NumbersCount
        <3> QED BY <1>12, <3>1, <3>2
    <2>2. CASE x = d
        <3>1. pc <= pc BY <1>2
        <3>2. Before(AllDecoded', pc) = A BY <1>2, <1>12, <1>13, <3>1
        <3> QED BY <1>4, <1>10, <2>2, <3>2
    <2> QED BY <1>7, <2>1, <2>2
<1>15. ASSUME NEW x \in Kept, NEW y \in InstructionsOf(bb)' PROVE x.address < y.address
    <2>1. CASE y = d
        <3>1. x \in A BY DEF AllDecoded
        <3> QED BY <1>4, <1>8, <2>1, <3>1
    <2>2. CASE y \in InstructionsOf(bb) BY <1>1, <2>2 DEF NumbersCount
    <2> QED BY <1>5, <2>1, <2>2
<1>16. Cardinality(AllDecoded') = inst_global_index' + Len(bb'.instructions)
    BY <1>2, <1>3, <1>5, <1>11
<1> QED BY <1>6, <1>11, <1>14, <1>15, <1>16 DEF NumbersCount, Before

LEMMA NumberPush == ASSUME NumberInv, PushBlock PROVE NumbersCount'
<1>1. TypeOK /\ ScanInv /\ NumbersCount BY DEF NumberInv, ScanInv
<1>2. /\ blocks' = Append(blocks, bb) /\ bb'.instructions = <<>>
      /\ inst_global_index' = inst_global_index + Len(bb.instructions)
    BY DEF PushBlock, EmptyBlock
<1>3. /\ \A j \in DOMAIN blocks : blocks'[j] = blocks[j]
      /\ blocks'[Len(blocks) + 1] = bb
      /\ DOMAIN blocks' = (DOMAIN blocks) \cup {Len(blocks) + 1}
    BY <1>1, <1>2 DEF TypeOK
<1>4. Kept' = Kept \cup InstructionsOf(bb)
    <2>1. Kept' = UNION {InstructionsOf(blocks'[m]) : m \in DOMAIN blocks'}
        BY DEF Kept, InstructionsOf
    <2> QED BY <1>3, <2>1 DEF Kept
<1>5. InstructionsOf(bb)' = {} BY <1>2 DEF InstructionsOf
<1>6. AllDecoded' = AllDecoded BY <1>4, <1>5 DEF AllDecoded
<1>7. Len(bb'.instructions) = 0 BY <1>2
<1>8. inst_global_index + Len(bb.instructions) \in Nat BY <1>1 DEF TypeOK, BasicBlock
<1>9. Cardinality(AllDecoded') = inst_global_index' + Len(bb'.instructions)
    BY <1>1, <1>2, <1>6, <1>7, <1>8 DEF NumbersCount
<1> QED BY <1>1, <1>5, <1>6, <1>9 DEF NumbersCount, Before

LEMMA NumberStep == NumberInv /\ [Next]_vars => NumberInv'
<1> SUFFICES ASSUME NumberInv, [Next]_vars PROVE NumberInv' OBVIOUS
<1>0. ScanInv' BY ScanStep DEF NumberInv
<1>1. CASE ParseInstruction BY <1>0, <1>1, NumberParse DEF NumberInv
<1>2. CASE PushBlock BY <1>0, <1>2, NumberPush DEF NumberInv
<1>3. CASE MarkJumpdest \/ MarkPush \/ MarkOther \/ Finish \/ UNCHANGED vars
    <2>1. blocks' = blocks /\ bb' = bb /\ inst_global_index' = inst_global_index
        BY <1>3 DEF MarkJumpdest, MarkPush, MarkOther, Finish, parseVars, vars
    <2>2. Kept' = Kept /\ InstructionsOf(bb)' = InstructionsOf(bb)
        BY <2>1 DEF Kept, InstructionsOf
    <2>3. AllDecoded' = AllDecoded BY <2>2 DEF AllDecoded
    <2>4. NumbersCount' BY <2>1, <2>2, <2>3 DEF NumberInv, NumbersCount, Before
    <2> QED BY <1>0, <2>4 DEF NumberInv
<1> QED BY <1>1, <1>2, <1>3 DEF Next

LEMMA NumberInit == Init => NumberInv
<1> SUFFICES ASSUME Init PROVE NumberInv OBVIOUS
<1>1. AllDecoded = {} /\ Kept = {} /\ bb.instructions = <<>> /\ inst_global_index = 0
    BY DEF Init, AllDecoded, Kept, InstructionsOf, EmptyBlock
<1>2. IsFiniteSet(AllDecoded) /\ Cardinality(AllDecoded) = 0 BY <1>1, FS_EmptySet
<1>3. Len(bb.instructions) = 0 BY <1>1
<1> QED BY <1>1, <1>2, <1>3, ScanInit DEF NumberInv, NumbersCount

LEMMA NumberCorrect == Spec => []NumberInv
<1>1. Init => NumberInv BY NumberInit
<1>2. NumberInv /\ [Next]_vars => NumberInv' BY NumberStep
<1> QED BY <1>1, <1>2, PTL DEF Spec

\* The key into the source map is the ordinal of the instruction in the program.
THEOREM GlobalIndexStaysOrdinal == Spec => []GlobalIndexIsOrdinal
<1>1. NumberInv => GlobalIndexIsOrdinal
    <2> SUFFICES ASSUME NumberInv, NEW j \in DOMAIN blocks,
                        NEW x \in InstructionsOf(blocks[j])
                 PROVE  x.global_idx = Cardinality(Before(Kept, x.address))
        BY DEF GlobalIndexIsOrdinal, Before, Kept
    <2>1. ScanInv /\ NumbersCount BY DEF NumberInv
    <2>2. x \in Kept /\ x \in AllDecoded BY DEF Kept, AllDecoded
    <2>3. \A y \in AllDecoded : y.address \in Nat BY <2>1, AllAreBelow
    <2>4. ASSUME NEW y \in InstructionsOf(bb) PROVE ~(y.address < x.address)
        <3>1. x.address < y.address BY <2>1, <2>2 DEF NumbersCount
        <3>2. y \in AllDecoded BY DEF AllDecoded
        <3> QED BY <2>2, <2>3, <3>1, <3>2
    <2>5. Before(AllDecoded, x.address) = Before(Kept, x.address)
        BY <2>4 DEF Before, AllDecoded
    <2> QED BY <2>1, <2>2, <2>5 DEF NumbersCount
<1> QED BY <1>1, NumberCorrect, PTL

-----------------------------------------------------------------------------
(* The jump table and the jumps *)

LengthIsBounded == Len(code) <= MaxCode

\* Control is at an instruction only when both scans have ended.
ControlInv ==
    /\ JumpTypeOK
    /\ status # "unlinked"
    /\ status # "translating" => phase = "done"

JumpInv == DestInv /\ ShapeInv /\ LengthIsBounded /\ ControlInv

-----------------------------------------------------------------------------
(* The blocks when both scans have ended *)

LEMMA BlockTypes ==
    ASSUME ShapeInv
    PROVE  /\ TypeOK /\ Len(blocks) \in Nat /\ DOMAIN blocks = 1..Len(blocks)
           /\ \A j \in DOMAIN blocks :
                 /\ WellBuilt(blocks[j])
                 /\ Len(blocks[j].instructions) \in Nat \ {0}
                 /\ DOMAIN blocks[j].instructions = 1..Len(blocks[j].instructions)
<1>1. TypeOK BY DEF ShapeInv, ScanInv
<1>2. Len(blocks) \in Nat /\ DOMAIN blocks = 1..Len(blocks) BY <1>1 DEF TypeOK
<1>3. ASSUME NEW j \in DOMAIN blocks
      PROVE  /\ WellBuilt(blocks[j])
             /\ Len(blocks[j].instructions) \in Nat \ {0}
             /\ DOMAIN blocks[j].instructions = 1..Len(blocks[j].instructions)
    <2>1. WellBuilt(blocks[j]) BY DEF ShapeInv, BlocksBuilt
    <2>2. blocks[j] \in BasicBlock BY <1>1 DEF TypeOK
    <2>3. blocks[j].instructions \in Seq(IInstruction) BY <2>2 DEF BasicBlock
    <2>4. blocks[j].instructions # <<>> BY <2>1 DEF WellBuilt
    <2> QED BY <2>1, <2>3, <2>4
<1> QED BY <1>1, <1>2, <1>3

\* The jump destinations are heads of blocks, and the EVM's.
LEMMA DestinationsLinked ==
    ASSUME DestInv, phase = "done"
    PROVE  /\ jumpdests \subseteq Heads
           /\ jumpdests = EvmJumpdests(code)
           /\ \A p : is_valid_jumpdest(p) <=> p \in jumpdests
<1>1. TypeOK /\ ScanInv /\ ScansInOrder /\ MetaFollowsParse /\ MarksAreDecoded /\ Frontier
    BY DEF DestInv, ScanInv
<1>2. jumpdests \subseteq Heads BY <1>1 DEF MetaFollowsParse
<1>3. jumpdests = EvmJumpdests(code)
    <2>1. i \in Nat /\ i >= Len(code) BY <1>1 DEF ScansInOrder, TypeOK
    <2>2. \A p \in Positions : p < i BY <1>1, <2>1, PositionsType
    <2>3. jumpdests = {p \in Decoded : ByteAt(p) = JUMPDEST}
        BY <1>1, <2>2 DEF MarksAreDecoded, TypeOK, Frontier
    <2>4. EvmBoundaries(code) = Decoded BY DecodedAreBoundaries
    <2> QED BY <2>3, <2>4 DEF EvmJumpdests, ByteAt
<1>4. \A p : is_valid_jumpdest(p) <=> p \in jumpdests
    BY <1>1, PositionsType DEF is_valid_jumpdest, TypeOK
<1> QED BY <1>2, <1>3, <1>4

\* Entering a block leads to its address.
LEMMA EntersBlock ==
    ASSUME ShapeInv, blocks' = blocks, NEW j \in Nat \ {0}, EnterBlock(j)
    PROVE  IF j \in DOMAIN blocks
           THEN /\ status' = "running" /\ at'[1] \in DOMAIN blocks
                /\ at'[2] \in DOMAIN blocks[at'[1]].instructions
                /\ Here' = blocks[j].instructions[1]
                /\ Here'.address = blocks[j].address
           ELSE j > Len(blocks) /\ status' = "exited" /\ at' = at
<1>1. /\ Len(blocks) \in Nat /\ DOMAIN blocks = 1..Len(blocks) BY BlockTypes
<1>2. CASE j \in DOMAIN blocks
    <2>1. at' = <<j, 1>> /\ status' = "running" BY <1>1, <1>2 DEF EnterBlock
    <2>2. 1 \in DOMAIN blocks[j].instructions BY <1>2, BlockTypes
    <2>3. Here' = blocks[j].instructions[1] BY <2>1 DEF Here
    <2>4. blocks[j].instructions[1].address = blocks[j].address
        BY <1>2, BlockTypes DEF WellBuilt
    <2> QED BY <1>2, <2>1, <2>2, <2>3, <2>4
<1>3. CASE j \notin DOMAIN blocks
    <2>1. ~(j <= Len(blocks)) BY <1>1, <1>3
    <2> QED BY <1>1, <1>3, <2>1 DEF EnterBlock
<1> QED BY <1>2, <1>3

\* Where a goto leads: to the block of the label, which is printed.
LEMMA GoesToLabel ==
    ASSUME JumpInv, phase = "done", blocks' = blocks, NEW label, Goto(label),
           label \in jumpdests \/ label = Invld \/ (label = EvmStart /\ blocks # <<>>)
    PROVE  IF label = Invld THEN status' = "threw" /\ at' = at
           ELSE /\ status' = "running" /\ at'[1] \in DOMAIN blocks
                /\ at'[2] \in DOMAIN blocks[at'[1]].instructions
                /\ Here'.address = IF label = EvmStart THEN 0 ELSE label
<1>1. DestInv /\ ShapeInv BY DEF JumpInv
<1>2. label \in jumpdests => label \in Nat
    <2>1. TypeOK BY DEF DestInv, ScanInv, JumpInv
    <2> QED BY <2>1, PositionsType DEF TypeOK
<1>3. label \in jumpdests => label \in Heads BY <1>1, DestinationsLinked
<1>4. EvmStart \notin Nat /\ Invld \notin Nat /\ EvmStart # Invld BY DEF EvmStart, Invld
<1>5. CASE label = Invld
    <2>1. \A j \in DOMAIN blocks : blocks[j].address # label
        <3>1. \A j \in DOMAIN blocks : blocks[j] \in BasicBlock
            BY <1>1, BlockTypes DEF TypeOK
        <3> QED BY <1>4, <1>5, <3>1 DEF BasicBlock
    <2> QED BY <1>4, <1>5, <2>1 DEF Goto
<1>6. CASE label = EvmStart /\ blocks # <<>>
    <2>1. \A j \in DOMAIN blocks : blocks[j].address # label
        <3>1. \A j \in DOMAIN blocks : blocks[j] \in BasicBlock
            BY <1>1, BlockTypes DEF TypeOK
        <3> QED BY <1>4, <1>6, <3>1 DEF BasicBlock
    <2>2. EnterBlock(1) BY <1>4, <1>6, <2>1 DEF Goto
    <2>3. 1 \in DOMAIN blocks BY <1>1, <1>6, BlockTypes DEF TypeOK
    <2>4. blocks[1].address = 0 BY <1>1, <1>6 DEF ShapeInv, StartIsFirst
    <2> QED BY <1>1, <1>4, <1>6, <2>2, <2>3, <2>4, EntersBlock
<1>7. CASE label \in jumpdests
    <2>1. label # Invld /\ label # EvmStart BY <1>2, <1>4, <1>7
    <2>2. PICK j \in DOMAIN blocks : blocks[j].address = label /\ EnterBlock(j)
        BY <1>3, <1>7, <2>1 DEF Goto
    <2>3. j \in Nat \ {0} BY <1>1, BlockTypes
    <2> QED BY <1>1, <2>1, <2>2, <2>3, EntersBlock
<1> QED BY <1>5, <1>6, <1>7

\* What runs is an instruction of the bytecode.
LEMMA HereIsDecoded ==
    ASSUME JumpInv, status = "running"
    PROVE  /\ phase = "done" /\ blocks # <<>>
           /\ at[1] \in DOMAIN blocks /\ at[2] \in DOMAIN blocks[at[1]].instructions
           /\ Here.address \in Positions
           /\ Here.opcode = ByteAt(Here.address)
           /\ Here.valid = (Here.opcode \in Instruction)
<1>1. ShapeInv BY DEF JumpInv
<1>2. /\ phase = "done" /\ at[1] \in DOMAIN blocks
      /\ at[2] \in DOMAIN blocks[at[1]].instructions
    BY DEF JumpInv, ControlInv, JumpTypeOK
<1>3. blocks # <<>> BY <1>2
<1>4. WellBuilt(blocks[at[1]]) BY <1>1, <1>2, BlockTypes
<1>5. IsDecoded(Here) BY <1>2, <1>4 DEF WellBuilt, Here
<1> QED BY <1>2, <1>3, <1>5 DEF IsDecoded

\* Control passes on to the next instruction of the bytecode, or past its end.
LEMMA ContinuesToNext ==
    ASSUME JumpInv, status = "running", blocks' = blocks, Continue
    PROVE  IF NextPc(Here.address) \in Positions
           THEN /\ status' = "running" /\ at'[1] \in DOMAIN blocks
                /\ at'[2] \in DOMAIN blocks[at'[1]].instructions
                /\ Here'.address = NextPc(Here.address)
           ELSE status' = "exited" /\ at' = at
<1>1. ShapeInv /\ TypeOK BY DEF JumpInv, ShapeInv, ScanInv
<1> DEFINE j == at[1]
           k == at[2]
           b == blocks[j]
<1>2. /\ phase = "done" /\ j \in DOMAIN blocks /\ k \in DOMAIN b.instructions
      /\ Here = b.instructions[k]
    BY HereIsDecoded DEF Here
<1>3. /\ Len(blocks) \in Nat /\ DOMAIN blocks = 1..Len(blocks)
      /\ WellBuilt(b) /\ Len(b.instructions) \in Nat \ {0}
      /\ DOMAIN b.instructions = 1..Len(b.instructions)
    BY <1>1, <1>2, BlockTypes
<1> HIDE DEF j, k, b
<1>4. CASE k < Len(b.instructions)
    <2>1. at' = <<j, k + 1>> /\ status' = "running"
        BY <1>4 DEF Continue, j, k, b
    <2>2. k + 1 \in DOMAIN b.instructions BY <1>2, <1>3, <1>4
    <2>3. b.instructions[k + 1].address = NextPc(b.instructions[k].address)
        BY <1>2, <1>3, <1>4 DEF WellBuilt
    <2>4. b.instructions[k + 1].address \in Positions
        BY <1>3, <2>2 DEF WellBuilt, IsDecoded
    <2>5. Here' = b.instructions[k + 1] BY <2>1 DEF Here, b
    <2>6. at'[1] = j /\ at'[2] = k + 1 BY <2>1
    <2>7. at'[1] \in DOMAIN blocks /\ at'[2] \in DOMAIN blocks[at'[1]].instructions
        BY <1>2, <2>2, <2>6 DEF b
    <2> QED BY <1>2, <2>1, <2>3, <2>4, <2>5, <2>7
<1>5. CASE ~(k < Len(b.instructions))
    <2>1. k = Len(b.instructions) BY <1>2, <1>3, <1>5
    <2>2. EnterBlock(j + 1) BY <1>5 DEF Continue, j, k, b
    <2>3. EndOf(b) = NextPc(Here.address) BY <1>2, <2>1 DEF EndOf, LastOf
    <2>4. j \in 1..Len(blocks) /\ j + 1 \in Nat \ {0} BY <1>2, <1>3
    <2>5. EndOf(b) = IF j < Len(blocks) THEN blocks[j + 1].address ELSE bb.address
        BY <1>1, <1>2 DEF ShapeInv, BlocksFollow, b
    <2>6. CASE j < Len(blocks)
        <3>1. j + 1 \in DOMAIN blocks BY <1>3, <2>4, <2>6
        <3>2. WellBuilt(blocks[j + 1]) /\ 1 \in DOMAIN blocks[j + 1].instructions
            BY <1>1, <3>1, BlockTypes
        <3>3. blocks[j + 1].address \in Positions BY <3>2 DEF WellBuilt, IsDecoded
        <3>4. /\ status' = "running" /\ at'[1] \in DOMAIN blocks
              /\ at'[2] \in DOMAIN blocks[at'[1]].instructions
              /\ Here'.address = blocks[j + 1].address
            BY <1>1, <2>2, <2>4, <3>1, EntersBlock
        <3> QED BY <2>3, <2>5, <2>6, <3>3, <3>4
    <2>7. CASE ~(j < Len(blocks))
        <3>1. j + 1 \notin DOMAIN blocks BY <1>3, <2>4, <2>7
        <3>2. status' = "exited" /\ at' = at BY <1>1, <2>2, <2>4, <3>1, EntersBlock
        <3>3. bb.address = pc /\ pc \in Nat /\ pc >= Len(code)
            BY <1>1, <1>2 DEF ShapeInv, ScanInv, ScansInOrder, BlockGoesOn, TypeOK
        <3>4. pc \notin Positions BY <1>1, <3>3, PositionsType
        <3> QED BY <2>3, <2>5, <2>7, <3>2, <3>3, <3>4
    <2> QED BY <2>6, <2>7
<1> QED BY <1>4, <1>5

\* The table has a label for every address of the code, and one if there is none.
LEMMA TableEntries ==
    ASSUME JumpInv, phase = "done", NEW t \in DOMAIN JumpTable
    PROVE  /\ t \in Nat
           /\ JumpTable[t] = IF t = 0 THEN EvmStart
                             ELSE IF t \in jumpdests THEN t ELSE Invld
<1>1. TypeOK /\ DestInv BY DEF JumpInv, DestInv, ScanInv
<1>2. Len(code) \in Nat BY <1>1, PositionsType
<1>3. t \in Nat BY <1>2 DEF JumpTable, NatMax
<1>4. JumpTable[t] = IF t = 0 THEN EvmStart ELSE IF is_valid_jumpdest(t) THEN t ELSE Invld
    BY DEF JumpTable
<1> QED BY <1>1, <1>3, <1>4, DestinationsLinked

\* A jump whose word is known goes to a destination or throws.
LEMMA ConstantJumps ==
    ASSUME JumpInv, status = "running", NEW w \in Targets, JumpConstant(w)
    PROVE  IF w \in jumpdests
           THEN /\ status' = "running" /\ at'[1] \in DOMAIN blocks
                /\ at'[2] \in DOMAIN blocks[at'[1]].instructions
                /\ Here'.address = w
           ELSE status' = "threw" /\ at' = at
<1>1. phase = "done" /\ blocks # <<>> BY HereIsDecoded
<1>2. blocks' = blocks BY DEF JumpConstant, Jumps, Running, vars
<1>3. DestInv /\ TypeOK BY DEF JumpInv, DestInv, ScanInv
<1>4. w \in jumpdests => w < U32Size
    <2>1. Len(code) \in Nat /\ (w \in jumpdests => w \in Nat /\ w < Len(code))
        BY <1>3, PositionsType DEF TypeOK
    <2>2. U32Size \in Nat /\ MaxCode < U32Size /\ Len(code) <= MaxCode
        BY SizesAssumption DEF JumpInv, LengthIsBounded
    <2> QED BY <2>1, <2>2, MaxCodeAssumption
<1>5. Goto(IF w \in jumpdests THEN w ELSE Invld)
    BY <1>1, <1>3, <1>4, DestinationsLinked DEF JumpConstant
<1>6. w # Invld /\ w # EvmStart BY TargetsAssumption DEF Invld, EvmStart
<1> QED BY <1>1, <1>2, <1>5, <1>6, GoesToLabel

\* A computed jump goes to what the table has for its low 64 bits.
LEMMA ComputedJumps ==
    ASSUME JumpInv, status = "running", NEW w \in Targets, JumpComputed(w)
    PROVE  LET t == w % U64Size
           IN  IF t \in jumpdests \cup {0} /\ t \in DOMAIN JumpTable
               THEN /\ status' = "running" /\ at'[1] \in DOMAIN blocks
                    /\ at'[2] \in DOMAIN blocks[at'[1]].instructions
                    /\ Here'.address = t
               ELSE status' = "threw" /\ at' = at
<1> DEFINE t == w % U64Size
           label == IF t \in DOMAIN JumpTable THEN JumpTable[t] ELSE Invld
<1>1. phase = "done" /\ blocks # <<>> BY HereIsDecoded
<1>2. blocks' = blocks BY DEF JumpComputed, Jumps, Running, vars
<1>3. Goto(label) BY DEF JumpComputed
<1>4. t \in Nat BY TargetsAssumption, SizesAssumption
<1> HIDE DEF t
<1>5. EvmStart \notin Nat /\ Invld \notin Nat /\ EvmStart # Invld BY DEF EvmStart, Invld
<1>6. CASE t \in DOMAIN JumpTable
    <2>1. JumpTable[t] = IF t = 0 THEN EvmStart ELSE IF t \in jumpdests THEN t ELSE Invld
        BY <1>1, <1>6, TableEntries
    <2> QED BY <1>1, <1>2, <1>3, <1>4, <1>5, <1>6, <2>1, GoesToLabel DEF t
<1>7. CASE t \notin DOMAIN JumpTable
    BY <1>1, <1>2, <1>3, <1>7, GoesToLabel DEF t
<1> QED BY <1>6, <1>7

-----------------------------------------------------------------------------
(* Control stays in the printed program *)

LEMMA ControlInit == JumpInit => JumpInv
<1> SUFFICES ASSUME JumpInit PROVE JumpInv OBVIOUS
<1>1. DestInv /\ ShapeInv BY DestInit, ShapeInit DEF JumpInit
<1>2. LengthIsBounded
    <2>1. PICK n \in 0..MaxCode : code \in [1..n -> Alphabet] BY DEF JumpInit, Init
    <2>2. Len(code) = n BY <2>1, MaxCodeAssumption
    <2> QED BY <2>1, <2>2 DEF LengthIsBounded
<1>3. ControlInv BY DEF JumpInit, ControlInv, JumpTypeOK
<1> QED BY <1>1, <1>2, <1>3 DEF JumpInv

LEMMA ControlStep == JumpInv /\ [JumpNext]_allVars => JumpInv'
<1> SUFFICES ASSUME JumpInv, [JumpNext]_allVars PROVE JumpInv' OBVIOUS
<1>1. [Next]_vars
    BY DEF JumpNext, StraightNext, Translate, Start, Throw, Stop, Pass, JumpConstant,
           JumpComputed, Jumps, Running, allVars
<1>2. DestInv' /\ ShapeInv' BY <1>1, DestStep, ShapeStep DEF JumpInv
<1>3. code' = code
    BY <1>1 DEF Next, ParseInstruction, PushBlock, MarkJumpdest, MarkPush, MarkOther, Finish, vars
<1>4. LengthIsBounded' BY <1>3 DEF JumpInv, LengthIsBounded
<1>5. ControlInv BY DEF JumpInv
<1>6. CASE Translate
    <2>1. phase # "done"
        BY <1>6 DEF Translate, Next, ParseInstruction, PushBlock, MarkJumpdest, MarkPush,
                    MarkOther, Finish
    <2>2. status = "translating" BY <1>5, <2>1 DEF ControlInv
    <2>3. status' = status /\ target' = target BY <1>6 DEF Translate, runVars
    <2>4. ControlInv' BY <1>5, <2>2, <2>3 DEF ControlInv, JumpTypeOK
    <2> QED BY <1>2, <1>4, <2>4 DEF JumpInv
<1>7. CASE ~Translate
    <2> DEFINE Stays == /\ status' = "running" /\ at'[1] \in DOMAIN blocks
                        /\ at'[2] \in DOMAIN blocks[at'[1]].instructions
           Moves == /\ vars' = vars
                    /\ target' \in {0} \cup Targets
                    /\ \/ status' = status /\ at' = at
                       \/ phase = "done" /\ status' \in {"exited", "threw"}
                       \/ phase = "done" /\ Stays
    <2>1. Moves
        <3>1. CASE Start
            <4>1. phase = "done" /\ EnterBlock(1) /\ vars' = vars /\ target' = target
                BY <3>1 DEF Start
            <4>2. blocks' = blocks BY <4>1 DEF vars
            <4> QED BY <1>5, <4>1, <4>2, EntersBlock DEF ControlInv, JumpTypeOK, JumpInv
        <3>2. CASE Throw \/ Stop
            BY <1>5, <3>2 DEF Throw, Stop, Running, ControlInv, JumpTypeOK
        <3>3. CASE Pass
            <4>1. status = "running" /\ vars' = vars /\ target' = target /\ Continue
                BY <3>3 DEF Pass, Running
            <4>2. blocks' = blocks BY <4>1 DEF vars
            <4> QED BY <1>5, <4>1, <4>2, ContinuesToNext, HereIsDecoded
                    DEF ControlInv, JumpTypeOK
        <3>4. ASSUME NEW w \in Targets, JumpConstant(w) PROVE Moves
            <4>1. status = "running" /\ vars' = vars /\ target' = w
                BY <3>4 DEF JumpConstant, Jumps, Running
            <4> QED BY <3>4, <4>1, ConstantJumps, HereIsDecoded
        <3>5. ASSUME NEW w \in Targets, JumpComputed(w) PROVE Moves
            <4>1. status = "running" /\ vars' = vars /\ target' = w
                BY <3>5 DEF JumpComputed, Jumps, Running
            <4> QED BY <3>5, <4>1, ComputedJumps, HereIsDecoded
        <3>6. CASE UNCHANGED allVars
            BY <1>5, <3>6 DEF allVars, runVars, ControlInv, JumpTypeOK
        <3> QED BY <1>7, <3>1, <3>2, <3>3, <3>4, <3>5, <3>6 DEF JumpNext, StraightNext
    <2>2. blocks' = blocks /\ phase' = phase BY <2>1 DEF vars
    <2>3. ControlInv' BY <1>5, <2>1, <2>2 DEF ControlInv, JumpTypeOK
    <2> QED BY <1>2, <1>4, <2>3 DEF JumpInv
<1> QED BY <1>6, <1>7

LEMMA ControlCorrect == JumpSpec => []JumpInv
<1>1. JumpInit => JumpInv BY ControlInit
<1>2. JumpInv /\ [JumpNext]_allVars => JumpInv' BY ControlStep
<1> QED BY <1>1, <1>2, PTL DEF JumpSpec

\* The labels of the jump table are printed, and so is every label that control
\* goes to, whatever word a jump finds.
THEOREM StaysLinked == JumpSpec => []AlwaysLinked
<1>1. JumpInv => AlwaysLinked
    <2> SUFFICES ASSUME JumpInv PROVE AlwaysLinked OBVIOUS
    <2>1. status # "unlinked" BY DEF JumpInv, ControlInv
    <2>2. ASSUME phase = "done", NEW t \in DOMAIN JumpTable
          PROVE  JumpTable[t] \in Heads \cup {EvmStart, Invld}
        <3>1. jumpdests \subseteq Heads BY <2>2, DestinationsLinked DEF JumpInv
        <3> QED BY <2>2, <3>1, TableEntries
    <2> QED BY <2>1, <2>2 DEF AlwaysLinked
<1> QED BY <1>1, ControlCorrect, PTL

-----------------------------------------------------------------------------
(* Control goes where the EVM goes *)

\* The EVM's tables are the translator's.
LEMMA SameEvm ==
    /\ Evm!Byte = Byte /\ Evm!Instruction = Instruction /\ Evm!JUMP = JUMP
    /\ \A op : Evm!stops(op) = stops(op) /\ Evm!is_jump(op) = is_jump(op)
    /\ \A c : /\ Evm!EvmPositions(c) = EvmPositions(c)
              /\ Evm!EvmJumpdests(c) = EvmJumpdests(c)
              /\ \A p : Evm!EvmNext(c, p) = EvmNext(c, p)
<1>1. Evm!Byte = Byte /\ Evm!Instruction = Instruction /\ Evm!JUMP = JUMP
    BY DEF Evm!Byte, Byte, Evm!Instruction, Instruction, Evm!JUMP, JUMP
<1>2. \A op : Evm!stops(op) = stops(op) /\ Evm!is_jump(op) = is_jump(op)
    BY DEF Evm!stops, stops, Evm!SELFDESTRUCT, SELFDESTRUCT, Evm!STOP, STOP, Evm!REVERT, REVERT,
           Evm!RETURN, RETURN, Evm!INVALID, INVALID, Evm!is_jump, is_jump, Evm!JUMP, JUMP,
           Evm!JUMPI, JUMPI
<1>3. \A c, p : Evm!EvmNext(c, p) = EvmNext(c, p)
    BY DEF Evm!EvmNext, EvmNext, Evm!push_bytes, push_bytes, Evm!is_push, is_push,
           Evm!PUSH1, PUSH1, Evm!PUSH32, PUSH32
<1>4. \A c : Evm!EvmPositions(c) = EvmPositions(c) BY DEF Evm!EvmPositions, EvmPositions
<1>5. \A c, S : Evm!ClosedUnderNext(c, S) = ClosedUnderNext(c, S)
    BY <1>3, <1>4 DEF Evm!ClosedUnderNext, ClosedUnderNext
<1>6. \A c : Evm!EvmBoundaries(c) = EvmBoundaries(c)
    BY <1>4, <1>5 DEF Evm!EvmBoundaries, EvmBoundaries
<1>7. \A c : Evm!EvmJumpdests(c) = EvmJumpdests(c)
    BY <1>6 DEF Evm!EvmJumpdests, EvmJumpdests, Evm!JUMPDEST, JUMPDEST
<1> QED BY <1>1, <1>2, <1>3, <1>4, <1>7

PcOf == IF status = "translating" \/ blocks = <<>> THEN 0 ELSE Here.address
StatusOf == IF status = "translating" THEN "running" ELSE status

\* While the program runs the EVM is at the instruction whose code runs.
LEMMA RunsAtPc ==
    ASSUME JumpInv, status = "running"
    PROVE  /\ PcOf = Here.address /\ StatusOf = "running"
           /\ PcOf \in EvmPositions(code)
           /\ code[PcOf + 1] = Here.opcode
           /\ Here.valid = (Here.opcode \in Instruction)
           /\ EvmNext(code, PcOf) = NextPc(Here.address)
           /\ phase = "done"
<1>1. /\ blocks # <<>> /\ Here.address \in Positions /\ phase = "done"
      /\ Here.opcode = ByteAt(Here.address) /\ Here.valid = (Here.opcode \in Instruction)
    BY HereIsDecoded
<1>2. PcOf = Here.address /\ StatusOf = "running" BY <1>1 DEF PcOf, StatusOf
<1> QED BY <1>1, <1>2, EvmNextIsNextPc, EvmPositionsArePositions DEF ByteAt

\* What the EVM sees when control gets somewhere, or stays where it is.
LEMMA PcAfter ==
    ASSUME JumpInv, status = "running", blocks' = blocks
    PROVE  /\ status' = "running" => PcOf' = Here'.address /\ StatusOf' = StatusOf
           /\ at' = at /\ status' # "translating" => PcOf' = PcOf /\ StatusOf' = status'
<1>1. blocks # <<>> BY HereIsDecoded
<1>2. at' = at => Here' = Here BY DEF Here
<1>3. PcOf = Here.address /\ StatusOf = "running" BY RunsAtPc
<1>4. PcOf' = IF status' = "translating" \/ blocks' = <<>> THEN 0 ELSE Here'.address
    BY DEF PcOf
<1>5. StatusOf' = IF status' = "translating" THEN "running" ELSE status'
    BY DEF StatusOf
<1> QED BY <1>1, <1>2, <1>3, <1>4, <1>5

LEMMA JumpRefines ==
    ASSUME JumpInv, status = "running", vars' = vars, NEW w \in Targets, target' = w,
           is_jump(Here.opcode),
           IF w \in jumpdests THEN status' = "running" /\ Here'.address = w
                              ELSE status' = "threw" /\ at' = at
    PROVE  Evm!Jump
<1>1. /\ PcOf \in EvmPositions(code) /\ code[PcOf + 1] = Here.opcode
      /\ StatusOf = "running" /\ phase = "done"
    BY RunsAtPc
<1>2. jumpdests = EvmJumpdests(code) BY <1>1, DestinationsLinked DEF JumpInv
<1>3. code' = code /\ blocks' = blocks BY DEF vars
<1>4. IF w \in EvmJumpdests(code) THEN PcOf' = w /\ StatusOf' = StatusOf
      ELSE StatusOf' = "threw" /\ PcOf' = PcOf
    BY <1>2, <1>3, PcAfter
<1>5. Evm!JumpTo(w) BY <1>4, SameEvm DEF Evm!JumpTo, PcOf, StatusOf
<1> QED BY <1>1, <1>3, <1>5, SameEvm
        DEF Evm!Jump, Evm!Running, Evm!InCode, Evm!Op, PcOf, StatusOf

LEMMA StepRefines ==
    ASSUME JumpInv, StraightNext \/ (\E w \in Targets : JumpInTable(w)) \/ UNCHANGED allVars
    PROVE  [Evm!Next]_(Evm!vars)
<1>1. CASE Translate
    <2>1. phase # "done" /\ [Next]_vars
        BY <1>1 DEF Translate, Next, ParseInstruction, PushBlock, MarkJumpdest, MarkPush,
                    MarkOther, Finish
    <2>2. status = "translating" BY <2>1 DEF JumpInv, ControlInv
    <2>3. code' = code /\ status' = status /\ target' = target
        BY <1>1 DEF Translate, runVars, Next, ParseInstruction, PushBlock, MarkJumpdest,
                    MarkPush, MarkOther, Finish
    <2> QED BY <2>2, <2>3 DEF Evm!vars
<1>2. CASE Start
    <2>1. /\ phase = "done" /\ status = "translating" /\ EnterBlock(1)
          /\ vars' = vars /\ target' = target
        BY <1>2 DEF Start
    <2>2. code' = code /\ blocks' = blocks BY <2>1 DEF vars
    <2>3. ShapeInv /\ DestInv BY DEF JumpInv
    <2>4. CASE blocks # <<>>
        <3>1. 1 \in DOMAIN blocks BY <2>3, <2>4, BlockTypes DEF TypeOK
        <3>2. status' = "running" /\ Here'.address = blocks[1].address
            BY <2>1, <2>2, <2>3, <3>1, EntersBlock
        <3>3. blocks[1].address = 0 BY <2>3, <2>4 DEF ShapeInv, StartIsFirst
        <3> QED BY <2>1, <2>2, <2>4, <3>2, <3>3 DEF Evm!vars
    <2>5. CASE blocks = <<>>
        <3>1. status' = "exited"
            <4>1. 1 \notin DOMAIN blocks BY <2>5
            <4> QED BY <2>1, <2>2, <2>3, <4>1, EntersBlock
        <3>2. 0 \notin EvmPositions(code)
            <4>1. /\ TypeOK /\ Frontier /\ ScansInOrder BY <2>3 DEF ShapeInv, ScanInv
            <4>2. Decoded = {}
                BY <2>1, <2>5, <4>1
                DEF ScansInOrder, Decoded, Parsed, Addresses, InstructionsOf
            <4>3. pc = 0 /\ pc >= Len(code) BY <2>1, <4>1, <4>2 DEF Frontier, ScansInOrder
            <4>4. 0 \notin Positions BY <4>1, <4>3, PositionsType
            <4> QED BY <4>4, EvmPositionsArePositions
        <3>3. Evm!RunsOff
            BY <2>1, <2>2, <2>5, <3>1, <3>2, SameEvm DEF Evm!RunsOff, Evm!Running, Evm!InCode
        <3> QED BY <3>3 DEF Evm!Next
    <2> QED BY <2>4, <2>5
<1>3. CASE Throw
    <2>1. /\ status = "running" /\ vars' = vars /\ ~Here.valid /\ status' = "threw"
          /\ at' = at /\ target' = target
        BY <1>3 DEF Throw, Running
    <2>2. code' = code /\ blocks' = blocks BY <2>1 DEF vars
    <2>3. PcOf' = PcOf /\ StatusOf' = "threw" BY <2>1, <2>2, PcAfter
    <2>4. /\ PcOf \in EvmPositions(code) /\ code[PcOf + 1] \notin Instruction
          /\ StatusOf = "running"
        BY <2>1, RunsAtPc
    <2>5. Evm!Throw
        BY <2>1, <2>2, <2>3, <2>4, SameEvm
        DEF Evm!Throw, Evm!Running, Evm!InCode, Evm!Op, PcOf, StatusOf
    <2> QED BY <2>5 DEF Evm!Next
<1>4. CASE Stop
    <2>1. /\ status = "running" /\ vars' = vars /\ stops(Here.opcode) /\ status' = "exited"
          /\ at' = at /\ target' = target
        BY <1>4 DEF Stop, Running
    <2>2. code' = code /\ blocks' = blocks BY <2>1 DEF vars
    <2>3. PcOf' = PcOf /\ StatusOf' = "exited" BY <2>1, <2>2, PcAfter
    <2>4. /\ PcOf \in EvmPositions(code) /\ stops(code[PcOf + 1]) /\ StatusOf = "running"
        BY <2>1, RunsAtPc
    <2>5. Evm!Stop
        BY <2>1, <2>2, <2>3, <2>4, SameEvm
        DEF Evm!Stop, Evm!Running, Evm!InCode, Evm!Op, PcOf, StatusOf
    <2> QED BY <2>5 DEF Evm!Next
<1>5. CASE Pass
    <2>1. /\ status = "running" /\ vars' = vars /\ Here.valid /\ ~stops(Here.opcode)
          /\ Here.opcode # JUMP /\ Continue /\ target' = target
        BY <1>5 DEF Pass, Running
    <2>2. code' = code /\ blocks' = blocks BY <2>1 DEF vars
    <2>3. /\ PcOf \in EvmPositions(code) /\ StatusOf = "running"
          /\ code[PcOf + 1] \in Instruction /\ ~stops(code[PcOf + 1])
          /\ code[PcOf + 1] # JUMP
          /\ EvmNext(code, PcOf) = NextPc(Here.address)
        BY <2>1, RunsAtPc
    <2>4. IF EvmNext(code, PcOf) \in EvmPositions(code)
          THEN PcOf' = EvmNext(code, PcOf) /\ StatusOf' = StatusOf
          ELSE StatusOf' = "exited" /\ PcOf' = PcOf
        BY <2>1, <2>2, <2>3, ContinuesToNext, PcAfter, EvmPositionsArePositions
    <2>5. Evm!Advance BY <2>4, SameEvm DEF Evm!Advance, PcOf, StatusOf
    <2>6. Evm!Pass
        BY <2>1, <2>2, <2>3, <2>5, SameEvm
        DEF Evm!Pass, Evm!Running, Evm!InCode, Evm!Op, PcOf, StatusOf
    <2> QED BY <2>6 DEF Evm!Next
<1>6. ASSUME NEW w \in Targets, JumpConstant(w) PROVE Evm!Next
    <2>1. status = "running" /\ vars' = vars /\ is_jump(Here.opcode) /\ target' = w
        BY <1>6 DEF JumpConstant, Jumps, Running
    <2> QED BY <1>6, <2>1, ConstantJumps, JumpRefines DEF Evm!Next
<1>7. ASSUME NEW w \in Targets, JumpInTable(w) PROVE Evm!Next
    <2>1. /\ status = "running" /\ vars' = vars /\ is_jump(Here.opcode) /\ target' = w
          /\ JumpComputed(w) /\ w < U64Size /\ (w = 0 => is_valid_jumpdest(0))
        BY <1>7 DEF JumpInTable, InTable, JumpComputed, Jumps, Running
    <2>2. w % U64Size = w BY <2>1, TargetsAssumption, SizesAssumption
    <2>3. phase = "done" /\ DestInv /\ TypeOK
        BY <2>1, HereIsDecoded DEF JumpInv, DestInv, ScanInv
    <2>4. w \in jumpdests => w \in DOMAIN JumpTable
        <3>1. \A p \in jumpdests : p \in Nat /\ p < Len(code)
            BY <2>3, PositionsType DEF TypeOK
        <3>2. Len(code) \in Nat BY <2>3, PositionsType
        <3> QED BY <3>1, <3>2 DEF JumpTable, NatMax
    <2>5. w = 0 => w \in jumpdests BY <2>1, <2>3, DestinationsLinked
    <2>6. IF w \in jumpdests THEN status' = "running" /\ Here'.address = w
          ELSE status' = "threw" /\ at' = at
        BY <2>1, <2>2, <2>4, <2>5, ComputedJumps
    <2> QED BY <2>1, <2>6, JumpRefines DEF Evm!Next
<1>8. CASE UNCHANGED allVars
    BY <1>8 DEF allVars, runVars, vars, Evm!vars, Here
<1> QED BY <1>1, <1>2, <1>3, <1>4, <1>5, <1>6, <1>7, <1>8 DEF StraightNext

\* As long as the word of a computed jump is below 2^64, and is not a 0 where
\* there is no destination, the translated program goes through the bytecode as
\* the EVM does: every jump lands on its destination or throws, and control falls
\* from instruction to instruction and stops where the EVM stops.
THEOREM GoesAsEvm == InTableSpec => GoesWhereEvmGoes
<1>1. JumpInit => Evm!Init
    <2> SUFFICES ASSUME JumpInit PROVE Evm!Init OBVIOUS
    <2>1. TypeOK BY ControlInit DEF JumpInv, DestInv, ScanInv
    <2> QED BY <2>1, SameEvm DEF JumpInit, Evm!Init, TypeOK
<1>2. [StraightNext \/ \E w \in Targets : JumpInTable(w)]_allVars => [JumpNext]_allVars
    BY DEF JumpNext, JumpInTable
<1>3. JumpInit => JumpInv BY ControlInit
<1>4. JumpInv /\ [JumpNext]_allVars => JumpInv' BY ControlStep
<1>5. JumpInv /\ [StraightNext \/ \E w \in Targets : JumpInTable(w)]_allVars
        => [Evm!Next]_(Evm!vars)
    BY StepRefines
<1> QED BY <1>1, <1>2, <1>3, <1>4, <1>5, PTL DEF InTableSpec, GoesWhereEvmGoes, Evm!Spec
=============================================================================
