---------------------------- MODULE JumpDispatch ----------------------------
(***************************************************************************)
(* Control flow in the translated program: the bytecode is scanned by both *)
(* scans of Bytecode, then the printed program runs, instruction by        *)
(* instruction.  codegen.rs prints the blocks one after the other, each    *)
(* under the label of its address, so control falls from one into the      *)
(* next and from the last one to exit_label.  Jumps to a word that folding *)
(* found are decided by the translator (emit_jump), all others at run time *)
(* by the table &&pc_x that emit_jumptable prints (macro JUMP).  The       *)
(* promise is EvmControl.                                                  *)
(*                                                                         *)
(* Whether the target of a jump is known to the translator depends on what *)
(* the block computed; here any target of any jump may be.                 *)
(***************************************************************************)
EXTENDS Bytecode

CONSTANTS
    Targets,   \* the words a jump finds on the stack
    U32Size,   \* 2^32: what val.bits() <= 32 bounds
    U64Size    \* 2^64: what the JUMP macro truncates to

ASSUME TargetsAssumption == Targets \subseteq Nat
ASSUME SizesAssumption == {U32Size, U64Size} \subseteq Nat \ {0} /\ MaxCode < U32Size

VARIABLES
    status,   \* "translating", "running", "exited", "threw", "unlinked"
    at,       \* <<j, k>>: control is at instruction k of block j
    target    \* the word last jumped to

runVars == <<status, at, target>>
allVars == <<vars, runVars>>

NatMax(a, b) == IF a > b THEN a ELSE b

is_valid_jumpdest(p) == p < Len(code) /\ p \in jumpdests

\* A label is the address it is named for, or one of these two.
EvmStart == -1   \* _evm_start
Invld    == -2   \* __invld

\* Mutant of JumpTable: the entries are shifted by the one of the start.
JumpTable_Shifted ==
    [p \in 0..Len(code) |->
        IF p = 0 THEN EvmStart ELSE IF is_valid_jumpdest(p - 1) THEN p - 1 ELSE Invld]

\* emit_jumptable
JumpTable ==
    [p \in 0..(NatMax(Len(code), 1) - 1) |->
        IF p = 0 THEN EvmStart ELSE IF is_valid_jumpdest(p) THEN p ELSE Invld]

\* Block j, or exit_label behind the last one.
EnterBlock(j) ==
    IF j <= Len(blocks) THEN at' = <<j, 1>> /\ status' = "running"
                        ELSE status' = "exited" /\ UNCHANGED at

\* goto label; a label that no block prints does not compile.
Goto(label) ==
    \/ label = Invld /\ status' = "threw" /\ UNCHANGED at
    \/ label = EvmStart /\ EnterBlock(1)
    \/ \E j \in DOMAIN blocks : blocks[j].address = label /\ EnterBlock(j)
    \/ label \notin Heads \cup {Invld, EvmStart} /\ status' = "unlinked" /\ UNCHANGED at

Here == blocks[at[1]].instructions[at[2]]

Running == status = "running" /\ UNCHANGED vars

\* Control passes the instruction.
Continue ==
    IF at[2] < Len(blocks[at[1]].instructions)
    THEN at' = <<at[1], at[2] + 1>> /\ UNCHANGED status
    ELSE EnterBlock(at[1] + 1)

\* JUMP, and a JUMPI whose if is taken.
Jumps == Running /\ Here.valid /\ is_jump(Here.opcode)

\* Mutant of JumpConstant: every address is taken for a label.
JumpConstant_Unchecked(w) ==
    /\ Jumps
    /\ target' = w
    /\ Goto(IF w < Len(code) THEN w ELSE Invld)

\* emit_jump with an operand that is known.
JumpConstant(w) ==
    /\ Jumps
    /\ target' = w
    /\ Goto(IF w < U32Size /\ is_valid_jumpdest(w) THEN w ELSE Invld)

\* JUMP(target): static_cast<uint64_t>, then the table.
JumpComputed(w) ==
    /\ Jumps
    /\ target' = w
    /\ LET t == w % U64Size
       IN  Goto(IF t \in DOMAIN JumpTable THEN JumpTable[t] ELSE Invld)

\* The program is entered through _evm_start.
Start ==
    /\ phase = "done" /\ status = "translating"
    /\ EnterBlock(1)
    /\ UNCHANGED <<vars, target>>

Translate == Next /\ UNCHANGED runVars

Throw == Running /\ ~Here.valid /\ status' = "threw" /\ UNCHANGED <<at, target>>

\* goto exit_label
Stop ==
    /\ Running /\ Here.valid /\ stops(Here.opcode)
    /\ status' = "exited"
    /\ UNCHANGED <<at, target>>

\* Anything else, and a JUMPI whose if is not taken.
Pass ==
    /\ Running /\ Here.valid /\ ~stops(Here.opcode) /\ Here.opcode # JUMP
    /\ Continue
    /\ UNCHANGED target

JumpInit == Init /\ status = "translating" /\ at = <<1, 1>> /\ target = 0

StraightNext == Translate \/ Start \/ Throw \/ Stop \/ Pass \/ \E w \in Targets : JumpConstant(w)

JumpNext == StraightNext \/ \E w \in Targets : JumpComputed(w)

JumpSpec == JumpInit /\ [][JumpNext]_allVars

\* The computed jumps that the table decides as the EVM does: to a word of 64
\* bits that is not 0, or 0 is a destination.
InTable(w) == w < U64Size /\ (w = 0 => is_valid_jumpdest(0))
JumpInTable(w) == InTable(w) /\ JumpComputed(w)

InTableSpec == JumpInit /\ [][StraightNext \/ \E w \in Targets : JumpInTable(w)]_allVars

\* The scans are sequential code that nothing blocks, as in FairSpec.
FairInTableSpec == InTableSpec /\ WF_allVars(Translate)

-----------------------------------------------------------------------------
(* Properties *)

\* Control stays at an instruction that was printed.
JumpTypeOK ==
    /\ status \in {"translating", "running", "exited", "threw", "unlinked"}
    /\ target \in {0} \cup Targets
    /\ status = "running" =>
          /\ phase = "done"
          /\ at[1] \in DOMAIN blocks
          /\ at[2] \in DOMAIN blocks[at[1]].instructions

\* Every label that the jump table or a goto names is printed.
AlwaysLinked ==
    /\ status # "unlinked"
    /\ phase = "done" =>
          {JumpTable[p] : p \in DOMAIN JumpTable} \subseteq Heads \cup {EvmStart, Invld}

Evm == INSTANCE EvmControl WITH
    pc     <- IF status = "translating" \/ blocks = <<>> THEN 0 ELSE Here.address,
    status <- IF status = "translating" THEN "running" ELSE status

\* The translated program goes where the EVM goes: through the same instructions
\* in the same order, and a jump lands on its destination or throws.
GoesWhereEvmGoes == Evm!Spec
=============================================================================
