------------------------------- MODULE Branch --------------------------------
(***************************************************************************)
(* Going on after a trap: skip_victim and branch_target of                 *)
(* arch/mips/traps.c.  After a system call, or a breakpoint with code 0,   *)
(* the instruction that trapped is skipped; if it is in the delay slot of  *)
(* a branch, the branch is carried out on the saved registers.             *)
(*                                                                         *)
(* Registers and addresses have W bits, the offset of a branch ImmBits     *)
(* bits and the index of a jump IndexBits bits (64, 16 and 26 in the       *)
(* code); an instruction is a record of its fields.                        *)
(***************************************************************************)
EXTENDS Integers

CONSTANTS W, ImmBits, IndexBits,
          Values,     \* register contents tried
          Pcs         \* addresses of branches tried

J_SIZE == 2^(IndexBits + 2)

(* The region of a jump is taken from the jump, by the processor from its  *)
(* delay slot: a jump in the last word of a region is left out.            *)
ASSUME BranchAssumption ==
  /\ {W, ImmBits, IndexBits} \subseteq Nat \ {0}
  /\ IndexBits + 2 < W /\ ImmBits + 2 < W
  /\ {2^W, 2^(W - 1), J_SIZE} \subseteq Nat \ {0}
  /\ Values \subseteq 0..(2^W - 1)
  /\ Pcs \subseteq 0..(2^W - 5)
  /\ \A pc \in Pcs : (pc + 4) \div J_SIZE = pc \div J_SIZE

RA == 31
Reg == {1, 2, RA}       \* registers that occur in the instructions
Mod(x) == x % 2^W

Links == {"JAL", "JALR", "BLTZAL", "BLTZALL", "BGEZAL", "BGEZALL"}
Jumps == {"J", "JAL", "JR", "JALR"}
Branches == {"BLTZ", "BLTZL", "BLTZAL", "BLTZALL", "BGEZ", "BGEZL", "BGEZAL", "BGEZALL",
             "BLEZ", "BLEZL", "BGTZ", "BGTZL", "BEQ", "BEQL", "BNE", "BNEL"}

VARIABLES insn,     \* the instruction at EPC
          bd,       \* Cause.BD: the victim is in its delay slot
          epc, gpr, \* the trap frame
          old,      \* history: epc and gpr at the trap
          trap      \* "sys", "bp" or "bp_code"; then "done" or "panic"

branchVars == <<insn, bd, epc, gpr, old, trap>>

-----------------------------------------------------------------------------
(* I_IOFFSET: sign-extended, in instructions *)
I_IOFFSET(i) == 4 * (IF i.imm < 2^(ImmBits - 1) THEN i.imm ELSE i.imm - 2^ImmBits)

(* Mutant: the offset counts from the branch itself *)
branch_pc_self(i, pc) == Mod(pc + I_IOFFSET(i))

branch_pc(i, pc) == Mod(pc + I_IOFFSET(i) + 4)
cont_pc(pc) == Mod(pc + 8)

(* The conditions of branch_target; registers are unsigned long *)
Taken(i, g) ==
  CASE i.op \in {"BLTZ", "BLTZL", "BLTZAL", "BLTZALL"} -> g[i.rs] < 0
    [] i.op \in {"BGEZ", "BGEZL", "BGEZAL", "BGEZALL"} -> g[i.rs] >= 0
    [] i.op \in {"BLEZ", "BLEZL"} -> g[i.rs] <= 0
    [] i.op \in {"BGTZ", "BGTZL"} -> g[i.rs] > 0
    [] i.op \in {"BEQ", "BEQL"} -> g[i.rs] = g[i.rt]
    [] i.op \in {"BNE", "BNEL"} -> g[i.rs] # g[i.rt]

(* The registers after the link, if there is one.  A branch that is not    *)
(* taken does not link.                                                    *)
Linked(i, pc, g) ==
  IF i.op = "JALR" THEN [g EXCEPT ![i.rd] = cont_pc(pc)]
  ELSE IF i.op \in Links /\ (i.op \in Jumps \/ Taken(i, g)) THEN [g EXCEPT ![RA] = cont_pc(pc)]
  ELSE g

(* JR and JALR read rs after the link *)
branch_target(i, pc, g) ==
  CASE i.op \in {"JR", "JALR"} -> Linked(i, pc, g)[i.rs]
    [] i.op \in {"J", "JAL"} -> (pc \div J_SIZE) * J_SIZE + 4 * i.index
    [] i.op \in Branches -> IF Taken(i, Linked(i, pc, g)) THEN branch_pc(i, pc) ELSE cont_pc(pc)

-----------------------------------------------------------------------------
Insns == [op : Jumps \cup Branches \cup {"ADD"}, rs : {1, RA}, rt : {2}, rd : {RA},
          imm : 0..(2^ImmBits - 1), index : {0, 2^IndexBits - 1}]

BranchInit ==
  /\ insn \in Insns /\ bd \in BOOLEAN
  /\ epc \in Pcs
  /\ gpr \in [Reg -> Values]
  /\ old = [epc |-> epc, gpr |-> gpr]
  /\ trap \in {"sys", "bp", "bp_code"}
  (* The operands that do not matter are the same; ISA: rs of a link is not *)
  (* the register it writes                                                *)
  /\ insn.op \in Branches => insn.index = 0
  /\ insn.op \notin Branches => insn.imm = 0
  /\ insn.op \in {"BEQ", "BNE"} \/ gpr[2] = 0
  /\ insn.rs = RA => insn.op = "JR"
  /\ insn.rs # RA => gpr[RA] = 0
  /\ ~bd => insn.op = "ADD"
  /\ trap = "bp_code" => insn.op = "BEQ"

(* handle_sys and handle_bp, once they are done; a breakpoint with another *)
(* code, or what is no branch before a delay slot, ends in panic.          *)
skip_victim ==
  /\ trap \in {"sys", "bp"}
  /\ IF ~bd
     THEN epc' = Mod(epc + 4) /\ trap' = "done" /\ UNCHANGED gpr
     ELSE IF insn.op \notin Jumps \cup Branches
     THEN trap' = "panic" /\ UNCHANGED <<epc, gpr>>
     ELSE /\ epc' = branch_target(insn, epc, gpr)
          /\ gpr' = Linked(insn, epc, gpr)
          /\ trap' = "done"
  /\ UNCHANGED <<insn, bd, old>>

handle_bp_code ==
  /\ trap = "bp_code" /\ trap' = "panic"
  /\ UNCHANGED <<insn, bd, epc, gpr, old>>

BranchNext == skip_victim \/ handle_bp_code

BranchSpec == BranchInit /\ [][BranchNext]_branchVars

-----------------------------------------------------------------------------
(* What the processor does, by the architecture: registers are signed, and *)
(* the region of a jump is that of its delay slot.                         *)
Signed(x) == IF x < 2^(W - 1) THEN x ELSE x - 2^W

Goes(i, g) ==
  CASE i.op \in Jumps -> TRUE
    [] i.op \in {"BLTZ", "BLTZL", "BLTZAL", "BLTZALL"} -> Signed(g[i.rs]) < 0
    [] i.op \in {"BGEZ", "BGEZL", "BGEZAL", "BGEZALL"} -> ~(Signed(g[i.rs]) < 0)
    [] i.op \in {"BLEZ", "BLEZL"} -> ~(0 < Signed(g[i.rs]))
    [] i.op \in {"BGTZ", "BGTZL"} -> 0 < Signed(g[i.rs])
    [] i.op \in {"BEQ", "BEQL"} -> g[i.rs] = g[i.rt]
    [] i.op \in {"BNE", "BNEL"} -> ~(g[i.rs] = g[i.rt])

Target(i, pc, g) ==
  LET slot == Mod(pc + 4)
  IN CASE i.op \in {"JR", "JALR"} -> g[i.rs]
       [] i.op \in {"J", "JAL"} -> slot - (slot % J_SIZE) + 4 * i.index
       [] i.op \in Branches -> IF Goes(i, g) THEN Mod(slot + I_IOFFSET(i)) ELSE Mod(slot + 4)

(* A branch that links does so whether it is taken or not. *)
LinkReg(i) == IF i.op = "JALR" THEN i.rd ELSE RA
ProcessorLink(i, pc, g) == IF i.op \in Links THEN [g EXCEPT ![LinkReg(i)] = Mod(pc + 8)] ELSE g

(* The branches that compare a negative register with 0 *)
SignTests == Branches \ {"BEQ", "BEQL", "BNE", "BNEL"}
Misjudged(i, g) == i.op \in SignTests /\ Signed(g[i.rs]) < 0

Emulated == trap = "done" /\ bd

(* A program that traps in a delay slot goes on where the processor would  *)
(* have gone and with the registers the processor would have left, unless  *)
(* the branch asks for the sign of a negative register (SignedBranches).   *)
(* Of a branch that is not taken the link may be missing: a comment of     *)
(* branch_target leaves that open.                                         *)
BranchExact ==
  Emulated /\ ~Misjudged(insn, old.gpr) =>
    /\ epc = Target(insn, old.epc, old.gpr)
    /\ \/ gpr = ProcessorLink(insn, old.epc, old.gpr)
       \/ gpr = old.gpr /\ ~Goes(insn, old.gpr)

(* test_skip: "Branch if >= 0 And Link (Fail)" with -2 in the register:    *)
(* whether a branch is taken depends on the signed value.                  *)
SignedBranches == Emulated => epc = Target(insn, old.epc, old.gpr)
=============================================================================
