------------------------------ MODULE LibProofs ------------------------------
(***************************************************************************)
(* Proofs about the sequential parts: the clock interrupt, for any width   *)
(* of Count, emulated branches, for any width of registers, the loops that *)
(* fill a buffer, for any strings and words, and the process tree, for any *)
(* processes.                                                              *)
(***************************************************************************)
EXTENDS Clock, Branch, Buffers, TaskList, SequenceTheorems, FiniteSetTheorems, TLAPS

(* Unsigned arithmetic: a number less than a round away is brought back by *)
(* adding or subtracting one round.                                        *)
LEMMA Wrap ==
  ASSUME NEW N \in Nat, N > 0
  PROVE  /\ \A x \in 0..(N - 1) : x % N = x
         /\ \A x \in N..(2 * N - 1) : x % N = x - N
         /\ \A x \in (1 - N)..(-1) : x % N = x + N
<1>1. ASSUME NEW x \in 0..(N - 1) PROVE x % N = x
  BY SMT
<1>2. ASSUME NEW x \in N..(2 * N - 1) PROVE x % N = x - N
  BY SMT
<1>3. ASSUME NEW x \in (1 - N)..(-1) PROVE x % N = x + N
  BY SMT
<1>4. QED
  BY <1>1, <1>2, <1>3

(* One sixteenth of a round is at least one tick and less than a round. *)
LEMMA PeriodBounds ==
  /\ CountSize \in Nat /\ CountSize > 0
  /\ Period \in Nat /\ Period >= 1 /\ Period < CountSize
<1>1. CountSize \in Nat /\ CountSize >= 16
  BY ClockAssumption
<1>2. QED
  BY <1>1 DEF Period

(* A register of CountBits bits *)
Register == 0..(CountSize - 1)

(* How far Compare is ahead of Count, without the modulo *)
LEMMA Distance ==
  ASSUME NEW a \in Register, NEW b \in Register
  PROVE  (a - b) % CountSize = IF a >= b THEN a - b ELSE a - b + CountSize
<1> DEFINE N == CountSize
<1>1. N \in Nat /\ N > 0
  BY PeriodBounds
<1>2. a \in 0..(N - 1) /\ b \in 0..(N - 1)
  BY DEF Register
<1> HIDE DEF N
<1>3. (a - b) % N = IF a >= b THEN a - b ELSE a - b + N
  <2>1. CASE a >= b
    BY <1>1, <1>2, <2>1, Wrap, a - b \in 0..(N - 1)
  <2>2. CASE ~(a >= b)
    BY <1>1, <1>2, <2>2, Wrap, a - b \in (1 - N)..(-1)
  <2>3. QED
    BY <2>1, <2>2
<1>4. QED
  BY <1>3 DEF N

(* Adding less than a round to a register *)
LEMMA Advance ==
  ASSUME NEW a \in Register, NEW d \in Register
  PROVE  /\ (a + d) % CountSize = IF a + d < CountSize THEN a + d ELSE a + d - CountSize
         /\ (a + d) % CountSize \in Register
<1> DEFINE N == CountSize
<1>1. N \in Nat /\ N > 0
  BY PeriodBounds
<1>2. a \in 0..(N - 1) /\ d \in 0..(N - 1)
  BY DEF Register
<1> HIDE DEF N
<1>3. /\ (a + d) % N = IF a + d < N THEN a + d ELSE a + d - N
      /\ (a + d) % N \in 0..(N - 1)
  <2>1. CASE a + d < N
    BY <1>1, <1>2, <2>1, Wrap, a + d \in 0..(N - 1)
  <2>2. CASE ~(a + d < N)
    BY <1>1, <1>2, <2>2, Wrap, a + d \in N..(2 * N - 1)
  <2>3. QED
    BY <2>1, <2>2
<1>4. QED
  BY <1>3 DEF N, Register

-----------------------------------------------------------------------------
ClockType ==
  /\ counter \in Register /\ compare \in Register
  /\ ti \in BOOLEAN /\ handling \in {"no", "write", "check"}

(* Count cannot stand on Compare without the interrupt being pending, so   *)
(* the loop never leaves with a distance of zero and nothing pending.      *)
ClockInv ==
  /\ ClockType
  /\ counter = compare => ti
  /\ ClockAlive

(* However late the clock interrupt is taken, and however long the loop of *)
(* handle_clock runs, whenever the handler is done the next interrupt is   *)
(* pending or at most one period away: the clock never falls silent for a  *)
(* round of Count.                                                         *)
THEOREM ClockStaysAlive == ClockSpec => []ClockAlive
<1> USE PeriodBounds
<1>1. ClockInit => ClockInv
  <2> SUFFICES ASSUME ClockInit PROVE ClockInv
    OBVIOUS
  <2>1. counter = 0 /\ compare = Period /\ ti = FALSE /\ handling = "no"
    BY DEF ClockInit
  <2>2. 0 \in Register /\ Period \in Register
    BY DEF Register
  <2>3. (Period - 0) % CountSize = Period
    BY <2>2, Distance DEF Register
  <2>4. counter # compare
    BY <2>1
  <2>5. ClockAlive
    BY <2>1, <2>3 DEF ClockAlive
  <2>6. ClockType
    BY <2>1, <2>2, Zenon DEF ClockType
  <2>7. QED
    BY <2>4, <2>5, <2>6 DEF ClockInv
<1>2. ClockInv /\ [ClockNext]_clockVars => ClockInv'
  <2> SUFFICES ASSUME ClockInv, [ClockNext]_clockVars PROVE ClockInv'
    OBVIOUS
  <2> USE DEF ClockInv
  <2>0. ClockType
    OBVIOUS
  <2>1. CASE CountUp
    <3>1. counter' \in Register /\ counter' = IF counter + 1 < CountSize THEN counter + 1 ELSE counter + 1 - CountSize
      BY <2>0, <2>1, Advance, 1 \in Register DEF ClockType, CountUp, Register
    <3>2. ClockType' /\ (counter' = compare' => ti')
      BY <2>0, <2>1, <3>1 DEF ClockType, CountUp
    <3>3. ASSUME handling' = "no", ~ti' PROVE (compare' - counter') % CountSize \in 1..Period
      <4>1. (compare - counter) % CountSize \in 1..Period /\ counter' # compare /\ compare' = compare
        BY <2>1, <3>3, <2>0 DEF CountUp, ClockAlive, ClockType
      <4>2. (compare - counter) % CountSize = IF compare >= counter THEN compare - counter ELSE compare - counter + CountSize
        BY <2>0, Distance DEF ClockType
      <4>3. (compare - counter') % CountSize = IF compare >= counter' THEN compare - counter' ELSE compare - counter' + CountSize
        BY <2>0, <3>1, Distance DEF ClockType
      <4>4. QED
        BY <2>0, <3>1, <4>1, <4>2, <4>3 DEF ClockType, Register
    <3>4. QED
      BY <3>2, <3>3 DEF ClockAlive
  <2>2. CASE Interrupted
    BY <2>2 DEF Interrupted, ClockType, ClockAlive
  <2>3. CASE write_c0_compare
    <3>1. compare' \in Register
      BY <2>0, <2>3, Advance, Period \in Register DEF ClockType, write_c0_compare, Register
    <3>2. QED
      BY <2>3, <3>1 DEF ClockType, write_c0_compare, ClockAlive
  <2>4. CASE read_c0_count
    <3>1. ASSUME handling' = "no", ~ti' PROVE (compare' - counter') % CountSize \in 1..Period
      <4>1. ~((compare - counter) % CountSize > Period) /\ counter # compare
        BY <2>4, <3>1 DEF read_c0_count, Behind
      <4>2. (compare - counter) % CountSize = IF compare >= counter THEN compare - counter ELSE compare - counter + CountSize
        BY Distance DEF ClockType
      <4>3. (compare - counter) % CountSize \in 1..Period
        BY <4>1, <4>2 DEF ClockType, Register
      <4>4. QED
        BY <2>4, <4>3 DEF read_c0_count
    <3>2. QED
      BY <2>4, <3>1 DEF read_c0_count, ClockType, ClockAlive
  <2>5. CASE UNCHANGED clockVars
    BY <2>5 DEF clockVars, ClockType, ClockAlive
  <2>6. QED
    BY <2>1, <2>2, <2>3, <2>4, <2>5 DEF ClockNext
<1>3. ClockInv => ClockAlive
  BY DEF ClockInv
<1>4. QED
  BY <1>1, <1>2, <1>3, PTL DEF ClockSpec
-----------------------------------------------------------------------------
(* Emulated branches *)
(* Instructions over the registers in R *)
InsnOver(R) == [op : Jumps \cup Branches, rs : R, rt : R, rd : R,
                imm : 0..(2^ImmBits - 1), index : Int]

(* The architecture leaves a branch undefined that reads the register it   *)
(* links.                                                                  *)
Defined(i) == i.op \in Links => i.rs # LinkReg(i)

(* An address of which the delay slot is in the same region *)
Inner == {pc \in 0..(2^W - 5) : (pc + 4) \div J_SIZE = pc \div J_SIZE}

LEMMA RegionOf ==
  ASSUME NEW pc \in Inner
  PROVE  Mod(pc + 4) = pc + 4 /\ (pc + 4) - ((pc + 4) % J_SIZE) = (pc \div J_SIZE) * J_SIZE
<1>1. 2^W \in Nat \ {0} /\ J_SIZE \in Nat \ {0}
  BY BranchAssumption
<1> DEFINE N == 2^W
           J == J_SIZE
<1>2. N \in Nat /\ N > 0 /\ J \in Nat /\ J > 0 /\ pc \in 0..(N - 5) /\ (pc + 4) \div J = pc \div J
  BY <1>1 DEF Inner
<1>3. Mod(pc + 4) = (pc + 4) % N
  BY DEF Mod
<1> HIDE DEF N, J
<1>4. pc + 4 \in 0..(N - 1)
  BY <1>2
<1>5. (pc + 4) % N = pc + 4
  BY <1>2, <1>4, Wrap
<1>6. pc + 4 = J * ((pc + 4) \div J) + ((pc + 4) % J)
  BY <1>2, <1>4
<1>7. J * (pc \div J) = (pc \div J) * J /\ (pc \div J) * J \in Int /\ (pc + 4) % J \in Int
  BY <1>2, <1>4
<1>8. (pc + 4) - ((pc + 4) % J) = (pc \div J) * J
  BY <1>2, <1>4, <1>6, <1>7
<1>9. QED
  BY <1>3, <1>5, <1>8 DEF J

(* Below the sign bit a register is the same number as unsigned long, and  *)
(* a negative one is positive; only BEQ and BNE do not care.               *)
Verdict(i, g) == IF Misjudged(i, g) THEN ~Goes(i, g) ELSE Goes(i, g)

LEMMA TakenIs ==
  ASSUME NEW R, RA \in R, NEW i \in InsnOver(R), i.op \in Branches, NEW g \in [R -> 0..(2^W - 1)]
  PROVE  Taken(i, g) = Verdict(i, g)
<1>1. 2^W \in Nat \ {0} /\ 2^(W - 1) \in Nat \ {0}
  BY BranchAssumption
<1> DEFINE x == g[i.rs]
           s == Signed(x)
<1>2. x \in 0..(2^W - 1) /\ i.rs \in R /\ i.rt \in R
  BY DEF InsnOver
<1>3. \/ x \in Nat /\ s = x /\ ~(s < 0)
      \/ x \in Nat /\ x > 0 /\ s \in Int /\ s < 0
  BY <1>1, <1>2 DEF Signed
<1>4. i.op \in Branches /\ Misjudged(i, g) = (i.op \in SignTests /\ s < 0)
  BY DEF Misjudged
<1> HIDE DEF x, s
<1>5. CASE i.op \in {"BLTZ", "BLTZL", "BLTZAL", "BLTZALL"}
  <2>1. Taken(i, g) = (x < 0) /\ Goes(i, g) = (s < 0) /\ i.op \in SignTests
    BY <1>5 DEF Taken, Goes, Jumps, SignTests, Branches, x, s
  <2>2. IF s < 0 THEN (x < 0) = ~(s < 0) ELSE (x < 0) = (s < 0)
    BY <1>3
  <2>3. QED
    BY <1>4, <2>1, <2>2, Zenon DEF Verdict
<1>6. CASE i.op \in {"BGEZ", "BGEZL", "BGEZAL", "BGEZALL"}
  <2>1. Taken(i, g) = (x >= 0) /\ Goes(i, g) = ~(s < 0) /\ i.op \in SignTests
    BY <1>6 DEF Taken, Goes, Jumps, SignTests, Branches, x, s
  <2>2. IF s < 0 THEN (x >= 0) = ~(~(s < 0)) ELSE (x >= 0) = (~(s < 0))
    BY <1>3
  <2>3. QED
    BY <1>4, <2>1, <2>2, Zenon DEF Verdict
<1>7. CASE i.op \in {"BLEZ", "BLEZL"}
  <2>1. Taken(i, g) = (x <= 0) /\ Goes(i, g) = ~(0 < s) /\ i.op \in SignTests
    BY <1>7 DEF Taken, Goes, Jumps, SignTests, Branches, x, s
  <2>2. IF s < 0 THEN (x <= 0) = ~(~(0 < s)) ELSE (x <= 0) = (~(0 < s))
    BY <1>3
  <2>3. QED
    BY <1>4, <2>1, <2>2, Zenon DEF Verdict
<1>8. CASE i.op \in {"BGTZ", "BGTZL"}
  <2>1. Taken(i, g) = (x > 0) /\ Goes(i, g) = (0 < s) /\ i.op \in SignTests
    BY <1>8 DEF Taken, Goes, Jumps, SignTests, Branches, x, s
  <2>2. IF s < 0 THEN (x > 0) = ~(0 < s) ELSE (x > 0) = (0 < s)
    BY <1>3
  <2>3. QED
    BY <1>4, <2>1, <2>2, Zenon DEF Verdict
<1>9. CASE i.op \in {"BEQ", "BEQL"}
  BY <1>4, <1>9 DEF Taken, Goes, Jumps, Verdict, SignTests
<1>10. CASE i.op \in {"BNE", "BNEL"}
  BY <1>4, <1>10 DEF Taken, Goes, Jumps, Verdict, SignTests
<1>11. QED
  BY <1>4, <1>5, <1>6, <1>7, <1>8, <1>9, <1>10 DEF Branches

(* Writing the link does not change whether a branch is taken. *)
LEMMA LinkApart ==
  ASSUME NEW R, RA \in R, NEW i \in InsnOver(R), Defined(i), NEW g \in [R -> 0..(2^W - 1)], NEW pc
  PROVE  /\ i.op \in {"JR", "JALR"} => Linked(i, pc, g)[i.rs] = g[i.rs]
         /\ i.op \in Branches => Taken(i, Linked(i, pc, g)) = Taken(i, g)
<1>1. i.rs \in R /\ i.rd \in R
  BY DEF InsnOver
<1>2. CASE i.op = "JALR"
  <2>1. Linked(i, pc, g) = [g EXCEPT ![i.rd] = cont_pc(pc)] /\ i.rs # i.rd
    BY <1>2 DEF Linked, Defined, LinkReg, Links
  <2>2. Linked(i, pc, g)[i.rs] = g[i.rs]
    BY <1>1, <2>1
  <2>3. QED
    BY <1>2, <2>2 DEF Branches
<1>3. CASE i.op = "JR"
  <2>1. Linked(i, pc, g) = g
    BY <1>3 DEF Linked, Links
  <2>2. QED
    BY <1>3, <2>1 DEF Branches
<1>4. CASE i.op \in Branches /\ i.op \notin Links
  <2>1. Linked(i, pc, g) = g
    BY <1>4 DEF Linked, Branches
  <2>2. QED
    BY <1>4, <2>1 DEF Branches
<1>5. CASE i.op \in Branches /\ i.op \in Links
  <2>1. i.rs # RA /\ i.op \in {"BLTZAL", "BLTZALL", "BGEZAL", "BGEZALL"}
    BY <1>5 DEF Defined, LinkReg, Branches, Links
  <2>2. PICK h : h = Linked(i, pc, g)
    OBVIOUS
  <2>3. h = g \/ h = [g EXCEPT ![RA] = cont_pc(pc)]
    BY <2>1, <2>2 DEF Linked
  <2>4. h[i.rs] = g[i.rs]
    BY <1>1, <2>1, <2>3
  <2>5. Taken(i, h) = Taken(i, g)
    BY <2>1, <2>4 DEF Taken
  <2>6. QED
    BY <2>1, <2>2, <2>5
<1>6. CASE i.op \in {"J", "JAL"}
  BY <1>6 DEF Branches
<1>7. QED
  BY <1>2, <1>3, <1>4, <1>5, <1>6 DEF InsnOver, Jumps

(* For every width of registers and offsets and all contents of them,      *)
(* branch_target goes where the processor would have gone, except for a    *)
(* sign test of a negative register, which it decides the other way round; *)
(* and the registers are those the processor would have left, except that  *)
(* a linking branch the code does not take leaves them as they were.       *)
THEOREM EmulationExact ==
  ASSUME NEW R, RA \in R, NEW i \in InsnOver(R), Defined(i), NEW g \in [R -> 0..(2^W - 1)],
         NEW pc \in Inner
  PROVE  /\ ~Misjudged(i, g) => branch_target(i, pc, g) = Target(i, pc, g)
         /\ Misjudged(i, g) => branch_target(i, pc, g) = IF Goes(i, g) THEN Mod(pc + 4 + 4)
                                                        ELSE Mod(pc + 4 + I_IOFFSET(i))
         /\ Linked(i, pc, g) = IF Verdict(i, g) THEN ProcessorLink(i, pc, g) ELSE g
<1>1. /\ 2^W \in Nat \ {0} /\ pc \in Nat
      /\ Mod(pc + 4) = pc + 4 /\ (pc + 4) - ((pc + 4) % J_SIZE) = (pc \div J_SIZE) * J_SIZE
  BY BranchAssumption, RegionOf DEF Inner
<1>2. /\ i.op \in {"JR", "JALR"} => Linked(i, pc, g)[i.rs] = g[i.rs]
      /\ i.op \in Branches => Taken(i, Linked(i, pc, g)) = Taken(i, g)
  BY LinkApart
<1>3. i.op \in Branches => Taken(i, g) = Verdict(i, g)
  BY TakenIs
<1>4. CASE i.op \in Jumps
  <2>1. Goes(i, g) /\ ~Misjudged(i, g) /\ i.op \notin Branches
    BY <1>4 DEF Goes, Jumps, Misjudged, SignTests, Branches
  <2>2. branch_target(i, pc, g) = Target(i, pc, g)
    <3>1. CASE i.op \in {"JR", "JALR"}
      <4>1. branch_target(i, pc, g) = Linked(i, pc, g)[i.rs] /\ Target(i, pc, g) = g[i.rs]
        BY <3>1 DEF branch_target, Target, Branches
      <4>2. QED
        BY <1>2, <3>1, <4>1
    <3>2. CASE i.op \in {"J", "JAL"}
      <4>1. branch_target(i, pc, g) = (pc \div J_SIZE) * J_SIZE + 4 * i.index
        BY <3>2 DEF branch_target, Branches
      <4>2. Target(i, pc, g) = Mod(pc + 4) - (Mod(pc + 4) % J_SIZE) + 4 * i.index
        BY <3>2 DEF Target, Branches
      <4>3. QED
        BY <1>1, <4>1, <4>2
    <3>3. QED
      BY <1>4, <3>1, <3>2 DEF Jumps
  <2>3. Linked(i, pc, g) = ProcessorLink(i, pc, g)
    BY <1>4 DEF Linked, ProcessorLink, LinkReg, cont_pc, Links, Jumps
  <2>4. QED
    BY <2>1, <2>2, <2>3 DEF Verdict
<1>5. CASE i.op \in Branches
  <2>1. i.op \notin {"JR", "JALR"} /\ i.op \notin {"J", "JAL"} /\ i.op \notin Jumps
    BY <1>5 DEF Branches, Jumps
  <2>2. branch_target(i, pc, g) = IF Verdict(i, g) THEN branch_pc(i, pc) ELSE cont_pc(pc)
    BY <1>2, <1>3, <1>5, <2>1 DEF branch_target
  <2>3. Target(i, pc, g) = IF Goes(i, g) THEN Mod(pc + 4 + I_IOFFSET(i)) ELSE Mod(pc + 4 + 4)
    BY <1>1, <1>5, <2>1 DEF Target
  <2>4. branch_pc(i, pc) = Mod(pc + 4 + I_IOFFSET(i))
    <3>1. I_IOFFSET(i) \in Int
      BY BranchAssumption DEF I_IOFFSET, InsnOver
    <3>2. pc + I_IOFFSET(i) + 4 = pc + 4 + I_IOFFSET(i)
      BY <1>1, <3>1
    <3>3. QED
      BY <3>2 DEF branch_pc
  <2>5. cont_pc(pc) = Mod(pc + 4 + 4)
    <3>1. pc + 8 = pc + 4 + 4
      BY <1>1
    <3>2. QED
      BY <3>1 DEF cont_pc
  <2>6. Linked(i, pc, g) = IF Verdict(i, g) THEN ProcessorLink(i, pc, g) ELSE g
    BY <1>3, <1>5, <2>1 DEF Linked, ProcessorLink, LinkReg, cont_pc
  <2>7. QED
    BY <2>2, <2>3, <2>4, <2>5, <2>6 DEF Verdict
<1>6. QED
  BY <1>4, <1>5 DEF InsnOver

(* The instruction and what was saved stay the same; after the emulation   *)
(* the frame has the target and the link.                                  *)
BranchInv ==
  /\ insn \in Insns /\ old.epc \in Pcs /\ old.gpr \in [Reg -> Values]
  /\ insn.rs = RA => insn.op = "JR"
  /\ trap \in {"sys", "bp", "bp_code"} => epc = old.epc /\ gpr = old.gpr
  /\ Emulated => /\ insn.op \in Jumps \cup Branches
                 /\ epc = branch_target(insn, old.epc, old.gpr)
                 /\ gpr = Linked(insn, old.epc, old.gpr)

LEMMA BranchInvExact == BranchInv => BranchExact
<1> SUFFICES ASSUME BranchInv, Emulated, ~Misjudged(insn, old.gpr)
             PROVE  /\ epc = Target(insn, old.epc, old.gpr)
                    /\ \/ gpr = ProcessorLink(insn, old.epc, old.gpr)
                       \/ gpr = old.gpr /\ ~Goes(insn, old.gpr)
  BY DEF BranchExact
<1>1. /\ insn \in Insns /\ old.epc \in Pcs /\ old.gpr \in [Reg -> Values]
      /\ insn.rs = RA => insn.op = "JR"
      /\ insn.op \in Jumps \cup Branches
      /\ epc = branch_target(insn, old.epc, old.gpr) /\ gpr = Linked(insn, old.epc, old.gpr)
  BY DEF BranchInv
<1>2. RA \in Reg /\ insn \in InsnOver(Reg) /\ insn.rd = RA
  <2>1. /\ insn = [op |-> insn.op, rs |-> insn.rs, rt |-> insn.rt, rd |-> insn.rd,
                   imm |-> insn.imm, index |-> insn.index]
        /\ insn.rs \in {1, RA} /\ insn.rt = 2 /\ insn.rd = RA /\ insn.imm \in 0..(2^ImmBits - 1)
        /\ insn.index \in {0, 2^IndexBits - 1}
    BY <1>1 DEF Insns
  <2>2. insn.index \in Int
    BY <2>1, BranchAssumption
  <2>3. QED
    BY <1>1, <2>1, <2>2 DEF InsnOver, Reg
<1>3. LinkReg(insn) = RA
  BY <1>2 DEF LinkReg
<1>4. Defined(insn)
  BY <1>1, <1>3 DEF Defined, Links
<1>5. old.gpr \in [Reg -> 0..(2^W - 1)] /\ old.epc \in Inner
  BY <1>1, BranchAssumption DEF Inner
<1>6. PICK R, g, pc : R = Reg /\ g = old.gpr /\ pc = old.epc
  OBVIOUS
<1>7. /\ ~Misjudged(insn, g) => branch_target(insn, pc, g) = Target(insn, pc, g)
      /\ Linked(insn, pc, g) = IF Verdict(insn, g) THEN ProcessorLink(insn, pc, g) ELSE g
  BY <1>2, <1>4, <1>5, <1>6, EmulationExact
<1>8. QED
  BY <1>1, <1>6, <1>7 DEF Verdict

(* A program that traps in a delay slot goes on where the processor would  *)
(* have gone, for every width of registers and any address of the branch   *)
(* but the last word of a region, unless the branch is a sign test of a    *)
(* negative register: skip_victim carries out branch_target on the         *)
(* registers as they were saved.                                           *)
THEOREM BranchesAreExact == BranchSpec => []BranchExact
<1>1. BranchInit => BranchInv
  <2> SUFFICES ASSUME BranchInit PROVE BranchInv
    OBVIOUS
  <2>1. old.epc = epc /\ old.gpr = gpr /\ trap \in {"sys", "bp", "bp_code"}
    BY DEF BranchInit
  <2>2. insn \in Insns /\ epc \in Pcs /\ gpr \in [Reg -> Values] /\ (insn.rs = RA => insn.op = "JR")
    BY DEF BranchInit
  <2>3. QED
    BY <2>1, <2>2 DEF BranchInv, Emulated
<1>2. BranchInv /\ [BranchNext]_branchVars => BranchInv'
  <2> SUFFICES ASSUME BranchInv, [BranchNext]_branchVars PROVE BranchInv'
    OBVIOUS
  <2>1. CASE skip_victim
    <3>1. /\ insn' = insn /\ bd' = bd /\ old' = old /\ trap' \in {"done", "panic"}
          /\ epc = old.epc /\ gpr = old.gpr
      BY <2>1 DEF skip_victim, BranchInv
    <3>2. Emulated' => /\ insn.op \in Jumps \cup Branches
                       /\ epc' = branch_target(insn, epc, gpr) /\ gpr' = Linked(insn, epc, gpr)
      BY <2>1, <3>1 DEF skip_victim, Emulated
    <3>3. PICK pc, g : pc = old.epc /\ g = old.gpr
      OBVIOUS
    <3>4. Emulated' => /\ insn'.op \in Jumps \cup Branches
                       /\ epc' = branch_target(insn', old'.epc, old'.gpr)
                       /\ gpr' = Linked(insn', old'.epc, old'.gpr)
      BY <3>1, <3>2
    <3>5. QED
      BY <3>1, <3>4 DEF BranchInv, Emulated
  <2>2. CASE handle_bp_code
    BY <2>2 DEF handle_bp_code, BranchInv, Emulated
  <2>3. CASE UNCHANGED branchVars
    BY <2>3 DEF branchVars, BranchInv, Emulated
  <2>4. QED
    BY <2>1, <2>2, <2>3 DEF BranchNext
<1>3. QED
  BY <1>1, <1>2, BranchInvExact, PTL DEF BranchSpec

-----------------------------------------------------------------------------
(* Buffers *)

(* A number is a multiple of N and a remainder, in one way. *)
LEMMA DivMod ==
  ASSUME NEW N \in Nat, N > 0
  PROVE  /\ \A x \in Nat : /\ x \div N \in Nat /\ x % N \in 0..(N - 1)
                           /\ x = N * (x \div N) + (x % N)
         /\ \A x \in Nat, q \in Int, r \in 0..(N - 1) : x = N * q + r => x % N = r
<1>1. ASSUME NEW x \in Nat
      PROVE  /\ x \div N \in Nat /\ x % N \in 0..(N - 1)
             /\ x = N * (x \div N) + (x % N)
  OBVIOUS
<1>2. ASSUME NEW x \in Nat, NEW q \in Int, NEW r \in 0..(N - 1), x = N * q + r
      PROVE  x % N = r
  BY <1>2
<1>3. QED
  BY <1>1, <1>2

(* The next multiple of the word after an aligned address, and after any. *)
LEMMA NextWord ==
  ASSUME NEW N \in Nat, N > 0, NEW x \in Nat
  PROVE  /\ (x + N) % N = x % N
         /\ \A k \in Nat : k = N - (x % N) => (x + k) % N = 0
<1>1. PICK q, r : q = x \div N /\ r = x % N
  OBVIOUS
<1>2. q \in Nat /\ r \in 0..(N - 1) /\ x = N * q + r
  BY <1>1, DivMod
<1>3. N * (q + 1) = N * q + N /\ N * q \in Nat
  BY <1>2
<1>4. (x + N) % N = r
  <2>1. x + N = N * (q + 1) + r /\ x + N \in Nat /\ q + 1 \in Int
    BY <1>2, <1>3
  <2>2. QED
    BY <1>2, <2>1, DivMod
<1>5. ASSUME NEW k \in Nat, k = N - r PROVE (x + k) % N = 0
  <2>1. x + k = N * (q + 1) + 0 /\ x + k \in Nat /\ q + 1 \in Int /\ 0 \in 0..(N - 1)
    BY <1>2, <1>3, <1>5
  <2>2. QED
    BY <2>1, DivMod
<1>6. QED
  BY <1>1, <1>4, <1>5

ArgOK ==
  \/ fn = "strlcpy" /\ arg \in [dst : {<< >>}, src : Plain, size : 0..(MaxLen + 1)]
  \/ fn = "strlcat" /\ arg \in [dst : Plain, src : Plain, size : 0..(MaxLen + 1)]
  \/ fn = "memcpy" /\ arg \in [dst : Addrs, src : Addrs, len : Lens]

Aligned(k) == (arg.dst + k) % WS = 0 /\ (arg.src + k) % WS = 0

(* memcpy: what is copied and what the loops have left make up the length, *)
(* and wherever words follow both addresses are aligned                    *)
WordsInv ==
  /\ libpc \in {"call", "head", "words", "tail", "done"}
  /\ dpos \in Nat /\ spos \in Nat /\ left \in Nat
  /\ libpc = "call" => dpos = 0
  /\ libpc = "head" => /\ left >= 1 /\ dpos + left + spos = arg.len
                       /\ spos = 0 \/ Aligned(dpos + left)
  /\ libpc = "words" => /\ dpos + left * WS + (spos % WS) = arg.len
                        /\ left = 0 \/ Aligned(dpos)
  /\ libpc = "tail" => dpos + left = arg.len
  /\ libpc = "done" => dpos <= arg.len /\ (arg.dst # arg.src => dpos = arg.len)

LEMMA MemcpyArg ==
  ASSUME ArgOK, fn = "memcpy"
  PROVE  /\ arg.dst \in Nat /\ arg.src \in Nat /\ arg.len \in Nat /\ WS \in Nat /\ WS > 0
         /\ \A x \in Nat : x % WS \in 0..(WS - 1) /\ x \div WS \in Nat
                           /\ x = WS * (x \div WS) + (x % WS)
<1>1. arg.dst \in Nat /\ arg.src \in Nat /\ arg.len \in Nat /\ WS \in Nat /\ WS > 0
  <2>1. arg \in [dst : Addrs, src : Addrs, len : Lens]
    BY DEF ArgOK
  <2>2. arg.dst \in Addrs /\ arg.src \in Addrs /\ arg.len \in Lens
    BY <2>1
  <2>3. arg.dst \in Nat /\ arg.src \in Nat /\ arg.len \in Nat
    BY <2>2, BuffersAssumption
  <2>4. WS \in Nat /\ WS > 0
    BY BuffersAssumption
  <2>5. QED
    BY <2>3, <2>4
<1>2. QED
  BY <1>1, DivMod

LEMMA WordsStart ==
  ASSUME ArgOK, WordsInv, memcpy
  PROVE  WordsInv'
<1>1. /\ libpc = "call" /\ dpos = 0 /\ dpos' = 0 /\ arg' = arg /\ fn = "memcpy" /\ spos \in Nat /\ left \in Nat
  BY DEF memcpy, WordsInv, SameCall
<1>2. /\ arg.dst \in Nat /\ arg.src \in Nat /\ arg.len \in Nat /\ WS \in Nat /\ WS > 0
      /\ \A x \in Nat : x % WS \in 0..(WS - 1) /\ x \div WS \in Nat
                        /\ x = WS * (x \div WS) + (x % WS)
  BY <1>1, MemcpyArg
<1>3. CASE arg.len = 0 \/ arg.dst = arg.src
  <2>1. libpc' = "done" /\ spos' = spos /\ left' = left
    BY <1>3 DEF memcpy
  <2>2. QED
    BY <1>1, <1>2, <1>3, <2>1 DEF WordsInv
<1>4. CASE ~(arg.len = 0 \/ arg.dst = arg.src) /\ arg.src % WS = 0 /\ arg.dst % WS = 0
  <2>1. libpc' = "words" /\ spos' = arg.len /\ left' = arg.len \div WS
    BY <1>4 DEF memcpy
  <2>2. left' * WS = WS * (arg.len \div WS) /\ left' \in Nat /\ left' * WS \in Nat
    BY <1>2, <2>1
  <2>3. dpos' + left' * WS + (spos' % WS) = arg.len
    <3>1. PICK m, t : m = WS * (arg.len \div WS) /\ t = arg.len % WS
      OBVIOUS
    <3>2. left' * WS = m /\ (spos' % WS) = t /\ m \in Nat
      BY <2>1, <2>2, <3>1
    <3>3. t \in Nat /\ arg.len = m + t
      BY <1>2, <3>1
    <3>4. dpos' + m + t = arg.len
      BY <1>1, <3>2, <3>3
    <3>5. QED
      BY <3>2, <3>4
  <2>4. arg.src + 0 = arg.src /\ arg.dst + 0 = arg.dst
    BY <1>2
  <2>5. Aligned(dpos)'
    BY <1>1, <1>4, <2>4 DEF Aligned
  <2>6. QED
    BY <1>1, <1>2, <2>1, <2>2, <2>3, <2>5 DEF WordsInv
<1>5. CASE ~(arg.len = 0 \/ arg.dst = arg.src) /\ ~(arg.src % WS = 0 /\ arg.dst % WS = 0)
  <2>1. /\ libpc' = "head" /\ left' = HeadBytes(arg.len) /\ spos' = arg.len - HeadBytes(arg.len)
    BY <1>5 DEF memcpy
  <2>2. CASE arg.src % WS # arg.dst % WS \/ arg.len < WS
    <3>1. HeadBytes(arg.len) = arg.len
      BY <2>2 DEF HeadBytes
    <3>2. left' = arg.len /\ spos' = 0 /\ left' >= 1
      BY <1>2, <1>5, <2>1, <3>1
    <3>3. QED
      BY <1>1, <1>2, <2>1, <3>2 DEF WordsInv
  <2>3. CASE ~(arg.src % WS # arg.dst % WS \/ arg.len < WS)
    <3>1. PICK k : k = WS - (arg.src % WS)
      OBVIOUS
    <3>2. HeadBytes(arg.len) = k
      BY <2>3, <3>1 DEF HeadBytes
    <3>3. arg.src % WS \in 0..(WS - 1) /\ k \in Nat /\ k >= 1 /\ k <= WS /\ WS <= arg.len
      BY <1>2, <2>3, <3>1
    <3>4. (arg.src + k) % WS = 0 /\ (arg.dst + k) % WS = 0
      BY <1>2, <2>3, <3>1, <3>3, NextWord
    <3>5. left' = k /\ spos' = arg.len - k /\ spos' \in Nat /\ dpos' + left' + spos' = arg.len /\ dpos' + left' = k
      BY <1>1, <1>2, <2>1, <3>2, <3>3
    <3>6. Aligned(dpos + left)'
      BY <1>1, <3>4, <3>5 DEF Aligned
    <3>7. QED
      BY <1>1, <1>2, <2>1, <3>3, <3>5, <3>6 DEF WordsInv
  <2>4. QED
    BY <2>2, <2>3
<1>6. QED
  BY <1>3, <1>4, <1>5

LEMMA WordsHead ==
  ASSUME ArgOK, fn = "memcpy", WordsInv, CopyHead
  PROVE  WordsInv'
<1>1. /\ libpc = "head" /\ dpos' = dpos + 1 /\ arg' = arg /\ spos' = spos
      /\ spos \in Nat /\ left \in Nat /\ dpos \in Nat /\ left >= 1
      /\ dpos + left + spos = arg.len
      /\ spos = 0 \/ Aligned(dpos + left)
  BY DEF CopyHead, WordsInv, SameCall
<1>2. /\ arg.dst \in Nat /\ arg.src \in Nat /\ arg.len \in Nat /\ WS \in Nat /\ WS > 0
      /\ \A x \in Nat : x % WS \in 0..(WS - 1) /\ x \div WS \in Nat
                        /\ x = WS * (x \div WS) + (x % WS)
  BY MemcpyArg
<1>3. CASE left = 1
  <2>1. libpc' = "words" /\ left' = spos \div WS
    BY <1>3 DEF CopyHead
  <2>2. left' * WS = WS * (spos \div WS) /\ left' \in Nat /\ left' * WS \in Nat
    BY <1>1, <1>2, <2>1
  <2>3. dpos' + left' * WS + (spos' % WS) = arg.len
    <3>1. PICK m, t : m = WS * (spos \div WS) /\ t = (spos % WS)
      OBVIOUS
    <3>2. t \in Nat /\ spos = m + t /\ left' * WS = m /\ (spos' % WS) = t /\ m \in Nat
      BY <1>1, <1>2, <2>1, <2>2, <3>1
    <3>3. dpos' + m + t = arg.len
      BY <1>1, <1>2, <1>3, <3>2
    <3>4. QED
      BY <3>2, <3>3
  <2>4. left' = 0 \/ Aligned(dpos)'
    <3>1. CASE spos = 0
      BY <1>2, <2>1, <3>1
    <3>2. CASE Aligned(dpos + left)
      BY <1>1, <1>3, <3>2 DEF Aligned
    <3>3. QED
      BY <1>1, <3>1, <3>2
  <2>5. QED
    BY <1>1, <1>2, <2>1, <2>2, <2>3, <2>4 DEF WordsInv
<1>4. CASE left # 1
  <2>1. libpc' = libpc /\ left' = left - 1
    BY <1>4 DEF CopyHead
  <2>2. dpos' + left' = dpos + left /\ dpos' + left' + spos' = arg.len /\ left' >= 1 /\ left' \in Nat
    BY <1>1, <1>2, <1>4, <2>1
  <2>3. spos' = 0 \/ Aligned(dpos + left)'
    BY <1>1, <2>2 DEF Aligned
  <2>4. QED
    BY <1>1, <1>2, <2>1, <2>2, <2>3 DEF WordsInv
<1>5. QED
  BY <1>3, <1>4

LEMMA WordsStep ==
  ASSUME ArgOK, fn = "memcpy", WordsInv, CopyWord \/ CopyTail
  PROVE  WordsInv'
<1>1. /\ arg' = arg /\ spos' = spos /\ spos \in Nat /\ left \in Nat /\ dpos \in Nat
  BY DEF CopyWord, CopyTail, WordsInv, SameCall
<1>2. /\ arg.dst \in Nat /\ arg.src \in Nat /\ arg.len \in Nat /\ WS \in Nat /\ WS > 0
      /\ \A x \in Nat : x % WS \in 0..(WS - 1) /\ x \div WS \in Nat
                        /\ x = WS * (x \div WS) + (x % WS)
  BY MemcpyArg
<1>3. CASE CopyWord /\ left = 0
  <2>1. libpc = "words" /\ libpc' = "tail" /\ left' = (spos % WS) /\ dpos' = dpos
    BY <1>3 DEF CopyWord
  <2>2. dpos + left * WS + (spos % WS) = arg.len
    BY <2>1 DEF WordsInv
  <2>3. dpos' + left' = arg.len /\ left' \in Nat
    <3>1. PICK t : t = (spos % WS)
      OBVIOUS
    <3>2. t \in Nat /\ left' = t /\ left * WS = 0
      BY <1>1, <1>2, <1>3, <2>1, <3>1
    <3>3. PICK m : m = left * WS
      OBVIOUS
    <3>4. dpos + m + t = arg.len /\ m = 0
      BY <2>2, <3>1, <3>2, <3>3
    <3>5. QED
      BY <1>1, <2>1, <3>2, <3>4
  <2>4. QED
    BY <1>1, <2>1, <2>3 DEF WordsInv
<1>4. CASE CopyWord /\ left # 0
  <2>1. libpc = "words" /\ libpc' = "words" /\ left' = left - 1 /\ dpos' = dpos + WS
    BY <1>4 DEF CopyWord
  <2>2. dpos + left * WS + (spos % WS) = arg.len /\ Aligned(dpos)
    BY <1>4, <2>1 DEF WordsInv
  <2>3. left' \in Nat /\ left' * WS = left * WS - WS /\ left * WS \in Nat
    BY <1>1, <1>2, <1>4, <2>1
  <2>4. dpos' + left' * WS + (spos' % WS) = arg.len
    BY <1>1, <1>2, <2>1, <2>2, <2>3
  <2>5. (arg.dst + dpos') % WS = 0 /\ (arg.src + dpos') % WS = 0
    <3>1. PICK d, s : d = arg.dst + dpos /\ s = arg.src + dpos
      OBVIOUS
    <3>2. d \in Nat /\ s \in Nat /\ d % WS = 0 /\ s % WS = 0
      BY <1>1, <1>2, <2>2, <3>1 DEF Aligned
    <3>3. (d + WS) % WS = 0 /\ (s + WS) % WS = 0
      BY <1>2, <3>2, NextWord
    <3>4. arg.dst + dpos' = d + WS /\ arg.src + dpos' = s + WS
      BY <1>1, <1>2, <2>1, <3>1
    <3>5. QED
      BY <3>3, <3>4
  <2>6. Aligned(dpos)'
    BY <1>1, <2>5 DEF Aligned
  <2>7. dpos' \in Nat
    BY <1>1, <1>2, <2>1
  <2>8. QED
    BY <1>1, <2>1, <2>3, <2>4, <2>6, <2>7 DEF WordsInv
<1>5. CASE CopyTail
  <2>1. libpc = "tail" /\ dpos + left = arg.len
    BY <1>5 DEF CopyTail, WordsInv
  <2>2. CASE left = 0
    <3>1. libpc' = "done" /\ dpos' = dpos /\ left' = left
      BY <1>5, <2>2 DEF CopyTail
    <3>2. QED
      BY <1>1, <1>2, <2>1, <2>2, <3>1 DEF WordsInv
  <2>3. CASE left # 0
    <3>1. libpc' = "tail" /\ dpos' = dpos + 1 /\ left' = left - 1
      BY <1>5, <2>1, <2>3 DEF CopyTail
    <3>2. dpos' \in Nat /\ left' \in Nat /\ dpos' + left' = arg.len
      BY <1>1, <1>2, <2>1, <2>3, <3>1
    <3>3. QED
      BY <1>1, <3>1, <3>2 DEF WordsInv
  <2>4. QED
    BY <2>2, <2>3
<1>6. QED
  BY <1>3, <1>4, <1>5

(* What the property says of memcpy. *)
LEMMA WordsExact ==
  ASSUME ArgOK, fn = "memcpy", WordsInv
  PROVE  /\ dpos <= arg.len
         /\ libpc = "done" /\ arg.dst # arg.src => dpos = arg.len
         /\ libpc = "words" /\ left > 0 =>
              {(arg.dst + dpos) % WS, (arg.src + dpos) % WS} = {0} /\ dpos + WS <= arg.len
<1>1. /\ arg.dst \in Nat /\ arg.src \in Nat /\ arg.len \in Nat /\ WS \in Nat /\ WS > 0
      /\ \A x \in Nat : x % WS \in 0..(WS - 1) /\ x \div WS \in Nat
                        /\ x = WS * (x \div WS) + (x % WS)
  BY MemcpyArg
<1>2. spos \in Nat /\ left \in Nat /\ dpos \in Nat
  BY DEF WordsInv
<1>3. left * WS \in Nat /\ (left > 0 => left * WS >= WS) /\ (spos % WS) \in Nat
  <2>1. left * WS \in Nat /\ (left > 0 => left * WS >= WS)
    BY <1>1, <1>2
  <2>2. (spos % WS) \in 0..(WS - 1)
    BY <1>1, <1>2
  <2>3. QED
    BY <1>1, <2>1, <2>2
<1>4. libpc = "words" => dpos + left * WS <= arg.len /\ (left = 0 \/ Aligned(dpos))
  <2> SUFFICES ASSUME libpc = "words" PROVE dpos + left * WS <= arg.len /\ (left = 0 \/ Aligned(dpos))
    OBVIOUS
  <2>1. PICK m, t : m = left * WS /\ t = (spos % WS)
    OBVIOUS
  <2>2. dpos + left * WS + (spos % WS) = arg.len /\ (left = 0 \/ Aligned(dpos))
    BY DEF WordsInv
  <2>3. m \in Nat /\ t \in Nat
    BY <1>3, <2>1
  <2>4. dpos + m + t = arg.len
    BY <2>1, <2>2
  <2>5. QED
    BY <1>1, <1>2, <2>1, <2>2, <2>3, <2>4
<1>5. libpc = "words" /\ left > 0 => dpos + WS <= arg.len /\ Aligned(dpos)
  BY <1>1, <1>2, <1>3, <1>4
<1>6. libpc # "words" => dpos <= arg.len
  BY <1>1, <1>2 DEF WordsInv
<1>7. dpos <= arg.len
  BY <1>1, <1>2, <1>3, <1>4, <1>6
<1>8. libpc = "done" /\ arg.dst # arg.src => dpos = arg.len
  BY DEF WordsInv
<1>9. QED
  BY <1>5, <1>7, <1>8 DEF Aligned

(* The character at place j of both strings *)
Character(j) == IF j < Len(arg.dst) THEN arg.dst[j + 1] ELSE arg.src[j - Len(arg.dst) + 1]

Places == 0..(2 * MaxLen + 2)

(* The first d places of b have the characters of both strings, and the    *)
(* rest what was there                                                     *)
Contents(b, d) ==
  /\ b \in [Places -> Nat]
  /\ \A j \in Places : b[j] = IF j < d THEN Character(j) ELSE Memory[j]

(* How much is left, and where, in each loop; then what it left            *)
StringsInv ==
  /\ libpc \in {"call", "copy", "rest", "end", "append", "done"}
  /\ libpc = "call" => dpos = 0 /\ spos = 0 /\ ret = 0
  /\ libpc = "copy" => /\ fn = "strlcpy" /\ Contents(buf, dpos)
                       /\ left \in 1..arg.size /\ dpos = spos /\ dpos + left = arg.size
                       /\ dpos \in 0..Len(arg.src)
  /\ libpc = "rest" => /\ fn = "strlcpy" /\ Contents(buf, dpos)
                       /\ dpos = IF arg.size = 0 THEN 0 ELSE arg.size - 1
                       /\ dpos <= Len(arg.src)
  /\ libpc = "end" => /\ fn = "strlcat" /\ Contents(buf, dpos)
                      /\ left \in Nat /\ dpos + left = arg.size
                      /\ dpos \in 0..Len(arg.dst) /\ spos = 0
  /\ libpc = "append" => /\ fn = "strlcat" /\ Contents(buf, dpos)
                         /\ ret = Len(arg.dst) /\ Len(arg.dst) < arg.size
                         /\ spos \in 0..Len(arg.src)
                         /\ dpos = Len(arg.dst) + (IF spos < arg.size - 1 - Len(arg.dst)
                                                   THEN spos ELSE arg.size - 1 - Len(arg.dst))
                         /\ left \in Nat /\ dpos + left = arg.size - 1
  /\ libpc = "done" => BuffersExact

LEMMA PlainIs ==
  ASSUME NEW q \in Plain
  PROVE  /\ q \in Seq(Nat) /\ Len(q) \in 0..MaxLen
         /\ \A k \in 1..Len(q) : q[k] \in Nat \ {NUL}
<1>1. MaxLen \in Nat /\ Chars \subseteq Nat \ {NUL}
  BY BuffersAssumption
<1>2. PICK k \in 0..MaxLen : q \in [1..k -> Chars]
  BY DEF Plain
<1>3. k \in Nat
  BY <1>1
<1>4. q \in Seq(Chars) /\ Len(q) = k
  BY <1>2, <1>3
<1>5. \A j \in 1..Len(q) : q[j] \in Chars
  BY <1>2, <1>4
<1>6. \A j \in 1..Len(q) : q[j] \in Nat \ {NUL}
  BY <1>1, <1>5
<1>7. q \in [1..k -> Nat]
  BY <1>2, <1>4, <1>6
<1>8. q \in Seq(Nat)
  BY <1>3, <1>7
<1>9. QED
  BY <1>2, <1>4, <1>6, <1>8

(* The two strings, their lengths and the size *)
StringArgs ==
  /\ fn \in {"strlcpy", "strlcat"} /\ MaxLen \in Nat
  /\ arg.dst \in Seq(Nat) /\ Len(arg.dst) \in 0..MaxLen
  /\ arg.src \in Seq(Nat) /\ Len(arg.src) \in 0..MaxLen
  /\ \A k \in 1..Len(arg.dst) : arg.dst[k] \in Nat \ {NUL}
  /\ \A k \in 1..Len(arg.src) : arg.src[k] \in Nat \ {NUL}
  /\ arg.size \in 0..(MaxLen + 1)
  /\ fn = "strlcpy" => Len(arg.dst) = 0

LEMMA StringArgsAre ==
  ASSUME ArgOK, fn \in {"strlcpy", "strlcat"}
  PROVE  StringArgs
<1>1. MaxLen \in Nat
  BY BuffersAssumption
<1>2. CASE fn = "strlcpy"
  <2>1. arg \in [dst : {<< >>}, src : Plain, size : 0..(MaxLen + 1)]
    BY <1>2 DEF ArgOK
  <2>2. arg.dst = << >> /\ arg.src \in Plain /\ arg.size \in 0..(MaxLen + 1)
    BY <2>1
  <2>3. /\ arg.src \in Seq(Nat) /\ Len(arg.src) \in 0..MaxLen
        /\ \A k \in 1..Len(arg.src) : arg.src[k] \in Nat \ {NUL}
    BY <2>2, PlainIs
  <2>4. arg.dst \in Seq(Nat) /\ Len(arg.dst) = 0
    BY <2>2, EmptySeq
  <2>5. QED
    BY <1>1, <1>2, <2>2, <2>3, <2>4 DEF StringArgs
<1>3. CASE fn = "strlcat"
  <2>1. arg \in [dst : Plain, src : Plain, size : 0..(MaxLen + 1)]
    BY <1>3 DEF ArgOK
  <2>2. arg.dst \in Plain /\ arg.src \in Plain /\ arg.size \in 0..(MaxLen + 1)
    BY <2>1
  <2>3. /\ arg.src \in Seq(Nat) /\ Len(arg.src) \in 0..MaxLen
        /\ \A k \in 1..Len(arg.src) : arg.src[k] \in Nat \ {NUL}
    BY <2>2, PlainIs
  <2>4. /\ arg.dst \in Seq(Nat) /\ Len(arg.dst) \in 0..MaxLen
        /\ \A k \in 1..Len(arg.dst) : arg.dst[k] \in Nat \ {NUL}
    BY <2>2, PlainIs
  <2>5. QED
    BY <1>1, <1>3, <2>2, <2>3, <2>4 DEF StringArgs
<1>4. QED
  BY <1>2, <1>3

(* What was in the destination: its string, then NUL. *)
LEMMA MemoryIs ==
  ASSUME StringArgs
  PROVE  /\ Memory \in [Places -> Nat] /\ DOMAIN Memory = Places
         /\ \A j \in Places : Memory[j] = IF j < Len(arg.dst) THEN arg.dst[j + 1] ELSE NUL
<1>1. Len(arg.dst) \in Nat
  BY DEF StringArgs
<1>2. \A j \in Places : CharAt(arg.dst, j + 1) = IF j < Len(arg.dst) THEN arg.dst[j + 1] ELSE NUL
  BY <1>1 DEF CharAt, Places
<1>3. \A j \in Places : CharAt(arg.dst, j + 1) \in Nat
  <2> SUFFICES ASSUME NEW j \in Places PROVE CharAt(arg.dst, j + 1) \in Nat
    OBVIOUS
  <2>1. CASE j < Len(arg.dst)
    <3>1. j + 1 \in 1..Len(arg.dst)
      BY <1>1, <2>1 DEF Places
    <3>2. QED
      BY <1>2, <2>1, <3>1 DEF StringArgs
  <2>2. CASE ~(j < Len(arg.dst))
    BY <1>2, <2>2 DEF NUL
  <2>3. QED
    BY <2>1, <2>2
<1>4. Memory = [j \in Places |-> CharAt(arg.dst, j + 1)]
  BY DEF Memory, Places
<1>5. QED
  BY <1>2, <1>3, <1>4

LEMMA WholeIs ==
  ASSUME StringArgs
  PROVE  /\ Len(Given) = IF Len(arg.dst) < arg.size THEN Len(arg.dst) ELSE arg.size
         /\ Len(Whole) = Len(Given) + Len(arg.src)
         /\ Len(Given) < arg.size =>
              \A j \in 1..Len(Whole) : Whole[j] = Character(j - 1)
<1>1. PICK g : g = IF Len(arg.dst) < arg.size THEN Len(arg.dst) ELSE arg.size
  OBVIOUS
<1>2. g \in 0..Len(arg.dst) /\ Len(arg.dst) \in Nat /\ Len(arg.src) \in Nat /\ arg.size \in Nat
  BY <1>1 DEF StringArgs
<1>3. Given = SubSeq(arg.dst, 1, g)
  BY <1>1 DEF Given
<1>4. \A i \in 1..g : arg.dst[i] \in Nat
  BY <1>2 DEF StringArgs
<1>5. /\ Given \in Seq(Nat)
      /\ Len(Given) = IF 1 <= g THEN g - 1 + 1 ELSE 0
      /\ \A i \in 1..(g - 1 + 1) : Given[i] = arg.dst[1 + i - 1]
  <2>1. g \in Int /\ 1 \in Int
    BY <1>2
  <2>2. QED
    BY <1>3, <1>4, <2>1, SubSeqProperties
<1>6. Len(Given) = g /\ \A i \in 1..g : Given[i] = arg.dst[i]
  BY <1>2, <1>5
<1>7. arg.src \in Seq(Nat)
  BY DEF StringArgs
<1>8. /\ Len(Whole) = g + Len(arg.src)
      /\ \A i \in 1..(g + Len(arg.src)) : Whole[i] = IF i <= g THEN Given[i] ELSE arg.src[i - g]
  BY <1>5, <1>6, <1>7, ConcatProperties DEF Whole
<1>9. ASSUME g < arg.size, NEW j \in 1..(g + Len(arg.src)) PROVE Whole[j] = Character(j - 1)
  <2>1. g = Len(arg.dst)
    BY <1>1, <1>2, <1>9
  <2>2. CASE j <= g
    <3>1. Whole[j] = arg.dst[j]
      BY <1>2, <1>6, <1>8, <2>2
    <3>2. j - 1 < Len(arg.dst) /\ (j - 1) + 1 = j
      BY <1>2, <2>1, <2>2
    <3>3. QED
      BY <3>1, <3>2 DEF Character
  <2>3. CASE ~(j <= g)
    <3>1. Whole[j] = arg.src[j - g]
      BY <1>8, <2>3
    <3>2. ~(j - 1 < g) /\ (j - 1) - g + 1 = j - g
      BY <1>2, <2>3
    <3>3. QED
      BY <2>1, <3>1, <3>2 DEF Character
  <2>4. QED
    BY <2>2, <2>3
<1>10. QED
  BY <1>1, <1>6, <1>8, <1>9

(* One character more is in its place. *)
LEMMA PutNext ==
  ASSUME StringArgs, NEW b, NEW d \in 0..(MaxLen + 1), Contents(b, d), Character(d) \in Nat
  PROVE  Contents([b EXCEPT ![d] = Character(d)], d + 1)
<1>1. PICK c : c = [b EXCEPT ![d] = Character(d)]
  OBVIOUS
<1>2. b \in [Places -> Nat] /\ d \in Places
  BY DEF Contents, Places, StringArgs
<1>3. c \in [Places -> Nat] /\ \A j \in Places : c[j] = IF j = d THEN Character(d) ELSE b[j]
  BY <1>1, <1>2
<1>4. ASSUME NEW j \in Places PROVE c[j] = IF j < d + 1 THEN Character(j) ELSE Memory[j]
  <2>1. j \in Int /\ d \in Int
    BY <1>2 DEF Places
  <2>2. b[j] = IF j < d THEN Character(j) ELSE Memory[j]
    BY DEF Contents
  <2>3. CASE j = d
    BY <1>3, <2>1, <2>3
  <2>4. CASE j # d
    BY <1>3, <2>1, <2>2, <2>4
  <2>5. QED
    BY <2>3, <2>4
<1>5. QED
  BY <1>1, <1>3, <1>4 DEF Contents

(* The NUL comes behind what there is room for.  *)
LEMMA PutEnd ==
  ASSUME StringArgs, NEW d, Contents(buf, d), Len(arg.dst) < arg.size,
         d = IF Len(arg.dst) + Len(arg.src) < arg.size THEN Len(arg.dst) + Len(arg.src) ELSE arg.size - 1,
         buf' = [buf EXCEPT ![d] = NUL], ret' = Len(arg.dst) + Len(arg.src),
         fn' = fn, arg' = arg
  PROVE  BuffersExact'
<1>1. Len(arg.dst) \in 0..MaxLen /\ Len(arg.src) \in 0..MaxLen /\ arg.size \in 0..(MaxLen + 1) /\ MaxLen \in Nat
  BY DEF StringArgs
<1>2. d \in 0..MaxLen /\ d \in Places /\ d < arg.size
  <2>1. PICK s, t, z : s = Len(arg.dst) /\ t = Len(arg.src) /\ z = arg.size
    OBVIOUS
  <2>2. s \in 0..MaxLen /\ t \in 0..MaxLen /\ z \in 0..(MaxLen + 1) /\ MaxLen \in Nat /\ s < z
    BY <1>1, <2>1
  <2>3. d = IF s + t < z THEN s + t ELSE z - 1
    BY <2>1
  <2>4. d \in 0..MaxLen /\ d < z
    BY ONLY <2>2, <2>3
  <2>5. d \in Places
    BY ONLY <2>2, <2>4 DEF Places
  <2>6. QED
    BY ONLY <2>1, <2>4, <2>5
<1>3. /\ buf \in [Places -> Nat]
      /\ \A j \in Places : buf[j] = IF j < d THEN Character(j) ELSE Memory[j]
  BY DEF Contents
<1>4. /\ DOMAIN buf' = Places
      /\ \A j \in Places : buf'[j] = IF j = d THEN NUL ELSE buf[j]
  BY <1>2, <1>3
<1>5. Whole' = Whole /\ Given' = Given /\ Memory' = Memory
  BY DEF Whole, Given, Memory
<1>6. /\ Len(Given) = Len(arg.dst) /\ Len(Whole) = Len(arg.dst) + Len(arg.src)
      /\ \A j \in 1..Len(Whole) : Whole[j] = Character(j - 1)
  BY WholeIs
<1>7. ret' = Len(Whole)'
  BY <1>5, <1>6
<1>8. d = IF Len(Whole') < arg'.size THEN Len(Whole') ELSE arg'.size - 1
  BY <1>5, <1>6
<1>9. buf'[d] = NUL
  BY <1>2, <1>4
<1>10. ASSUME NEW j \in 1..d PROVE buf'[j - 1] = Whole'[j]
  <2>1. j \in Int /\ 1 <= j /\ j <= d /\ d \in 0..MaxLen /\ MaxLen \in Nat
    BY ONLY <1>1, <1>2, j \in 1..d
  <2>2. j - 1 \in Places /\ j - 1 < d /\ j - 1 # d
    BY ONLY <2>1 DEF Places
  <2>3. d <= Len(arg.dst) + Len(arg.src)
    <3>1. PICK s, t, z : s = Len(arg.dst) /\ t = Len(arg.src) /\ z = arg.size
      OBVIOUS
    <3>2. s \in 0..MaxLen /\ t \in 0..MaxLen /\ z \in 0..(MaxLen + 1) /\ MaxLen \in Nat /\ s < z
      BY <1>1, <3>1
    <3>3. d = IF s + t < z THEN s + t ELSE z - 1
      BY <3>1
    <3>4. d <= s + t
      BY ONLY <3>2, <3>3
    <3>5. QED
      BY ONLY <3>1, <3>4
  <2>4. j \in 1..Len(Whole)
    <3>1. PICK w : w = Len(Whole)
      OBVIOUS
    <3>2. PICK s, t : s = Len(arg.dst) /\ t = Len(arg.src)
      OBVIOUS
    <3>3. w = s + t /\ d <= s + t /\ s \in 0..MaxLen /\ t \in 0..MaxLen
      BY ONLY <1>1, <1>6, <2>3, <3>1, <3>2
    <3>4. j \in 1..w
      BY ONLY <2>1, <3>3
    <3>5. QED
      BY ONLY <3>1, <3>4
  <2>5. buf'[j - 1] = Character(j - 1)
    BY <1>3, <1>4, <2>2
  <2>6. QED
    BY <1>5, <1>6, <2>4, <2>5
<1>11. ASSUME NEW j \in DOMAIN buf', j >= arg'.size PROVE buf'[j] = Memory'[j]
  <2>1. j \in Places /\ j # d /\ ~(j < d)
    BY <1>1, <1>2, <1>4, <1>11 DEF Places
  <2>2. QED
    BY <1>3, <1>4, <1>5, <2>1
<1>12. fn' # "memcpy"
  BY DEF StringArgs
<1>13. QED
  BY <1>7, <1>8, <1>9, <1>10, <1>11, <1>12 DEF BuffersExact

(* Nothing was written, since there was no room for a NUL. *)
LEMMA NoRoom ==
  ASSUME StringArgs, Contents(buf, 0), arg.size <= Len(arg.dst),
         buf' = buf, ret' = arg.size + Len(arg.src), fn' = fn, arg' = arg
  PROVE  BuffersExact'
<1>1. Len(arg.dst) \in 0..MaxLen /\ Len(arg.src) \in 0..MaxLen /\ arg.size \in 0..(MaxLen + 1) /\ MaxLen \in Nat
  BY DEF StringArgs
<1>2. Whole' = Whole /\ Given' = Given /\ Memory' = Memory
  BY DEF Whole, Given, Memory
<1>3. Len(Given) = arg.size /\ Len(Whole) = arg.size + Len(arg.src)
  BY <1>1, WholeIs
<1>4. \A j \in DOMAIN buf' : buf'[j] = Memory'[j]
  <2>1. DOMAIN buf = Places
    BY DEF Contents
  <2>2. \A j \in Places : buf[j] = Memory[j]
    BY <1>1 DEF Contents, Places
  <2>3. QED
    BY <1>2, <2>1, <2>2
<1>5. fn' # "memcpy"
  BY DEF StringArgs
<1>6. ret' = Len(Whole)' /\ ~(Len(Given)' < arg'.size)
  BY <1>1, <1>2, <1>3
<1>7. QED
  BY <1>4, <1>5, <1>6 DEF BuffersExact

LEMMA StringsStart ==
  ASSUME StringArgs, StringsInv, StrCall
  PROVE  StringsInv'
<1>1. /\ buf' = Memory /\ left' = arg.size /\ fn' = fn /\ arg' = arg
      /\ dpos' = dpos /\ spos' = spos /\ dpos = 0 /\ spos = 0
      /\ libpc' = IF fn = "strlcat" THEN "end" ELSE IF arg.size = 0 THEN "rest" ELSE "copy"
  BY DEF StrCall, StringsInv, SameCall
<1>2. Memory' = Memory
  BY <1>1 DEF Memory
<1>3. Contents(buf, dpos)'
  <2>1. buf' \in [Places -> Nat]
    BY <1>1, MemoryIs
  <2>2. \A j \in Places : buf'[j] = Memory'[j] /\ ~(j < dpos')
    BY <1>1, <1>2 DEF Places
  <2>3. QED
    BY <2>1, <2>2 DEF Contents
<1>4. /\ fn \in {"strlcpy", "strlcat"} /\ arg.size \in Nat /\ Len(arg.src) \in Nat /\ Len(arg.dst) \in Nat
  BY DEF StringArgs
<1>5. CASE fn = "strlcat"
  BY <1>1, <1>3, <1>4, <1>5 DEF StringsInv
<1>6. CASE fn = "strlcpy" /\ arg.size = 0
  BY <1>1, <1>3, <1>4, <1>6 DEF StringsInv
<1>7. CASE fn = "strlcpy" /\ arg.size # 0
  <2>1. left' \in 1..arg.size /\ dpos' + left' = arg.size /\ dpos' \in 0..Len(arg.src)
    BY <1>1, <1>4, <1>7
  <2>2. QED
    BY <1>1, <1>3, <1>7, <2>1 DEF StringsInv
<1>8. QED
  BY <1>4, <1>5, <1>6, <1>7

LEMMA ContentsKept ==
  ASSUME arg' = arg, NEW b, NEW d, Contents(b, d)
  PROVE  /\ b \in [Places -> Nat]
         /\ \A j \in Places : b[j] = IF j < d THEN Character(j)' ELSE Memory'[j]
<1>1. Memory' = Memory
  BY DEF Memory
<1>2. \A j \in Places : Character(j)' = Character(j)
  BY DEF Character
<1>3. QED
  BY <1>1, <1>2 DEF Contents

LEMMA StrlcpyStep ==
  ASSUME StringArgs, StringsInv, strlcpy
  PROVE  StringsInv'
<1>1. /\ libpc = "copy" /\ fn = "strlcpy" /\ Contents(buf, dpos)
      /\ left \in 1..arg.size /\ dpos = spos /\ dpos + left = arg.size
      /\ dpos \in 0..Len(arg.src) /\ fn' = fn /\ arg' = arg /\ left' = left - 1
  BY DEF strlcpy, StringsInv, SameCall, Room
<1>2. /\ Len(arg.dst) = 0 /\ Len(arg.src) \in 0..MaxLen /\ arg.size \in 0..(MaxLen + 1) /\ MaxLen \in Nat
  BY <1>1 DEF StringArgs
<1>3. left \in Nat /\ left >= 1 /\ dpos \in Nat /\ arg.size \in Nat /\ Len(arg.src) \in Nat
      /\ dpos <= Len(arg.src) /\ arg.size <= MaxLen + 1
  BY <1>1, <1>2
<1>4. CASE left = 1
  <2>1. libpc' = "rest" /\ buf' = buf /\ dpos' = dpos /\ spos' = spos /\ ret' = ret
    BY <1>1, <1>4 DEF strlcpy
  <2>2. dpos' = arg.size - 1 /\ arg.size # 0
    BY <1>1, <1>3, <1>4, <2>1
  <2>3. Contents(buf, dpos)'
    BY <1>1, <2>1, ContentsKept DEF Contents
  <2>4. QED
    BY <1>1, <1>3, <2>1, <2>2, <2>3 DEF StringsInv
<1>5. CASE left # 1
  <2>1. /\ buf' = [buf EXCEPT ![dpos] = CharAt(arg.src, spos + 1)]
        /\ dpos' = dpos + 1 /\ spos' = spos + 1
        /\ IF buf'[dpos] = NUL THEN libpc' = "done" /\ ret' = spos ELSE UNCHANGED <<libpc, ret>>
    BY <1>1, <1>3, <1>5 DEF strlcpy
  <2>2. dpos \in Places /\ dpos \in 0..(MaxLen + 1) /\ dpos + 1 < arg.size
    BY <1>1, <1>2, <1>3, <1>5 DEF Places
  <2>3. buf'[dpos] = CharAt(arg.src, dpos + 1)
    BY <1>1, <2>1, <2>2 DEF Contents
  <2>4. CASE dpos = Len(arg.src)
    <3>1. CharAt(arg.src, dpos + 1) = NUL
      BY <1>3, <2>4 DEF CharAt
    <3>2. libpc' = "done" /\ ret' = dpos
      BY <1>1, <2>1, <2>3, <3>1
    <3>3. BuffersExact'
      <4>1. PICK t, z : t = Len(arg.src) /\ z = arg.size
        OBVIOUS
      <4>2. /\ t \in Nat /\ z \in Nat /\ dpos = t /\ dpos + 1 < z /\ ret' = dpos
        BY <1>3, <2>2, <2>4, <3>2, <4>1
      <4>3. 0 < z /\ ret' = 0 + t /\ dpos = IF 0 + t < z THEN 0 + t ELSE z - 1
        BY ONLY <4>2
      <4>4. buf' = [buf EXCEPT ![dpos] = NUL]
        BY <1>1, <2>1, <3>1
      <4>5. QED
        BY <1>1, <1>2, <4>1, <4>3, <4>4, PutEnd
    <3>4. QED
      BY <3>2, <3>3 DEF StringsInv
  <2>5. CASE dpos # Len(arg.src)
    <3>1. dpos + 1 \in 1..Len(arg.src) /\ dpos' \in 0..Len(arg.src)
      BY <1>3, <2>1, <2>5
    <3>2. CharAt(arg.src, dpos + 1) = arg.src[dpos + 1] /\ arg.src[dpos + 1] \in Nat \ {NUL}
      BY <3>1, <1>3 DEF CharAt, StringArgs
    <3>3. Character(dpos) = arg.src[dpos + 1]
      <4>1. ~(dpos < 0) /\ dpos - 0 + 1 = dpos + 1
        BY <1>3
      <4>2. QED
        BY <1>2, <4>1 DEF Character
    <3>4. buf' = [buf EXCEPT ![dpos] = Character(dpos)]
      BY <1>1, <2>1, <3>2, <3>3
    <3>5. Contents(buf', dpos + 1)
      BY <1>1, <2>2, <3>2, <3>3, <3>4, PutNext
    <3>6. Contents(buf, dpos)'
      <4>1. /\ buf' \in [Places -> Nat]
            /\ \A j \in Places : buf'[j] = IF j < dpos + 1 THEN Character(j)' ELSE Memory'[j]
        BY <1>1, <3>5, ContentsKept
      <4>2. QED
        BY <2>1, <4>1 DEF Contents
    <3>7. libpc' = "copy"
      BY <1>1, <2>1, <2>3, <3>2
    <3>8. left' \in 1..arg.size /\ dpos' + left' = arg.size /\ dpos' = spos'
      BY <1>1, <1>3, <1>5, <2>1
    <3>9. QED
      BY <1>1, <3>1, <3>6, <3>7, <3>8 DEF StringsInv
  <2>6. QED
    BY <2>4, <2>5
<1>6. QED
  BY <1>4, <1>5

LEMMA RestStep ==
  ASSUME StringArgs, StringsInv, strlcpy_rest
  PROVE  StringsInv'
<1>1. /\ libpc = "rest" /\ fn = "strlcpy" /\ Contents(buf, dpos)
      /\ dpos = IF arg.size = 0 THEN 0 ELSE arg.size - 1
      /\ dpos <= Len(arg.src) /\ fn' = fn /\ arg' = arg /\ libpc' = "done"
      /\ buf' = IF arg.size # 0 THEN [buf EXCEPT ![dpos] = NUL] ELSE buf
      /\ ret' = Len(arg.src)
  BY DEF strlcpy_rest, StringsInv, SameCall
<1>2. /\ Len(arg.dst) = 0 /\ Len(arg.src) \in Nat /\ arg.size \in Nat
  BY <1>1 DEF StringArgs
<1>3. CASE arg.size = 0
  <2>1. Contents(buf, 0) /\ buf' = buf /\ ret' = arg.size + Len(arg.src) /\ arg.size <= Len(arg.dst)
    BY <1>1, <1>2, <1>3
  <2>2. BuffersExact'
    BY <1>1, <2>1, NoRoom
  <2>3. QED
    BY <1>1, <2>2 DEF StringsInv
<1>4. CASE arg.size # 0
  <2>1. /\ Len(arg.dst) < arg.size /\ buf' = [buf EXCEPT ![dpos] = NUL]
        /\ ret' = Len(arg.dst) + Len(arg.src)
        /\ dpos = IF Len(arg.dst) + Len(arg.src) < arg.size THEN Len(arg.dst) + Len(arg.src) ELSE arg.size - 1
    BY <1>1, <1>2, <1>4
  <2>2. BuffersExact'
    BY <1>1, <2>1, PutEnd
  <2>3. QED
    BY <1>1, <2>2 DEF StringsInv
<1>5. QED
  BY <1>3, <1>4

LEMMA EndStep ==
  ASSUME StringArgs, StringsInv, strlcat_end
  PROVE  StringsInv'
<1>1. /\ libpc = "end" /\ fn = "strlcat" /\ Contents(buf, dpos)
      /\ left \in Nat /\ dpos + left = arg.size
      /\ dpos \in 0..Len(arg.dst) /\ spos = 0
      /\ fn' = fn /\ arg' = arg /\ buf' = buf /\ spos' = spos
  BY DEF strlcat_end, StringsInv, SameCall
<1>2. /\ Len(arg.dst) \in 0..MaxLen /\ Len(arg.src) \in Nat /\ arg.size \in 0..(MaxLen + 1) /\ MaxLen \in Nat
  BY <1>1 DEF StringArgs
<1>3. /\ dpos \in Nat /\ dpos <= Len(arg.dst) /\ Len(arg.dst) \in Nat /\ arg.size \in Nat /\ dpos \in Places
  BY <1>1, <1>2 DEF Places
<1>4. buf[dpos] = Memory[dpos]
  <2>1. ~(dpos < dpos)
    BY <1>3
  <2>2. QED
    BY <1>1, <1>3, <2>1 DEF Contents
<1>5. buf[dpos] # NUL <=> dpos < Len(arg.dst)
  <2>1. CASE dpos < Len(arg.dst)
    <3>1. dpos + 1 \in 1..Len(arg.dst)
      BY <1>3, <2>1
    <3>2. QED
      BY <1>3, <1>4, <2>1, <3>1, MemoryIs DEF StringArgs
  <2>2. CASE ~(dpos < Len(arg.dst))
    BY <1>3, <1>4, <2>2, MemoryIs
  <2>3. QED
    BY <2>1, <2>2
(* in the string of the destination its characters are what was there *)
<1>6. ASSUME NEW d \in 0..Len(arg.dst) PROVE Contents(buf, d)'
  <2>1. \A j \in Places : j < Len(arg.dst) => Character(j) = Memory[j]
    BY MemoryIs DEF Character
  <2>2. \A j \in Places : buf[j] = Memory[j]
    <3> SUFFICES ASSUME NEW j \in Places PROVE buf[j] = Memory[j]
      OBVIOUS
    <3>1. j < dpos => j < Len(arg.dst)
      BY <1>3 DEF Places
    <3>2. QED
      BY <1>1, <2>1, <3>1 DEF Contents
  <2>3. \A j \in Places : j < d => j < Len(arg.dst)
    BY <1>3 DEF Places
  <2>4. Contents(buf, d)
    BY <1>1, <2>1, <2>2, <2>3 DEF Contents
  <2>5. QED
    BY <1>1, <2>4, ContentsKept DEF Contents
<1>7. CASE left # 0 /\ dpos < Len(arg.dst)
  <2>1. dpos' = dpos + 1 /\ left' = left - 1 /\ libpc' = "end" /\ ret' = ret
    BY <1>1, <1>5, <1>7 DEF strlcat_end
  <2>2. dpos' \in 0..Len(arg.dst) /\ left' \in Nat /\ dpos' + left' = arg.size
    BY <1>1, <1>3, <1>7, <2>1
  <2>3. Contents(buf, dpos)'
    BY <1>1, <1>6, <2>2 DEF Contents
  <2>4. QED
    BY <1>1, <2>1, <2>2, <2>3 DEF StringsInv
<1>8. CASE ~(left # 0 /\ dpos < Len(arg.dst)) /\ arg.size = dpos
  <2>1. ret' = dpos + Len(arg.src) /\ libpc' = "done"
    BY <1>5, <1>8 DEF strlcat_end
  <2>2. Contents(buf, 0)
    <3>1. 0 \in 0..Len(arg.dst)
      BY <1>3
    <3>2. Contents(buf, 0)'
      BY <1>6, <3>1
    <3>3. Memory' = Memory /\ \A j \in Places : Character(j)' = Character(j)
      BY <1>1 DEF Memory, Character
    <3>4. QED
      BY <1>1, <3>2, <3>3 DEF Contents
  <2>3. arg.size <= Len(arg.dst) /\ ret' = arg.size + Len(arg.src)
    BY <1>3, <1>8, <2>1
  <2>4. BuffersExact'
    BY <1>1, <2>2, <2>3, NoRoom
  <2>5. QED
    BY <2>1, <2>4 DEF StringsInv
<1>9. CASE ~(left # 0 /\ dpos < Len(arg.dst)) /\ arg.size # dpos
  <2>1. left' = arg.size - dpos - 1 /\ ret' = dpos /\ libpc' = "append" /\ dpos' = dpos
    BY <1>5, <1>9 DEF strlcat_end, Room
  <2>2. dpos = Len(arg.dst) /\ dpos < arg.size
    BY <1>1, <1>3, <1>9
  <2>3. /\ left' \in Nat /\ dpos' + left' = arg.size - 1
        /\ dpos' = Len(arg.dst) + (IF spos < arg.size - 1 - Len(arg.dst)
                                   THEN spos ELSE arg.size - 1 - Len(arg.dst))
    <3>1. PICK z : z = arg.size
      OBVIOUS
    <3>2. left' = z - dpos - 1 /\ dpos' = dpos /\ dpos \in Nat /\ z \in Nat /\ dpos < z /\ spos = 0
      BY <1>1, <1>3, <2>1, <2>2, <3>1
    <3>3. /\ left' \in Nat /\ dpos' + left' = z - 1
          /\ dpos' = dpos + (IF spos < z - 1 - dpos THEN spos ELSE z - 1 - dpos)
      BY ONLY <3>2
    <3>4. QED
      BY <2>2, <3>1, <3>3
  <2>4. Contents(buf, dpos)'
    BY <1>1, <1>6, <2>1 DEF Contents
  <2>5. spos \in 0..Len(arg.src)
    BY <1>1, <1>2
  <2>6. QED
    BY <1>1, <2>1, <2>2, <2>3, <2>4, <2>5 DEF StringsInv
<1>10. QED
  BY <1>7, <1>8, <1>9

LEMMA AppendStep ==
  ASSUME StringArgs, StringsInv, strlcat
  PROVE  StringsInv'
<1>1. /\ libpc = "append" /\ fn = "strlcat" /\ Contents(buf, dpos)
      /\ ret = Len(arg.dst) /\ Len(arg.dst) < arg.size
      /\ spos \in 0..Len(arg.src)
      /\ dpos = Len(arg.dst) + (IF spos < arg.size - 1 - Len(arg.dst)
                                THEN spos ELSE arg.size - 1 - Len(arg.dst))
      /\ left \in Nat /\ dpos + left = arg.size - 1
      /\ fn' = fn /\ arg' = arg
  BY DEF strlcat, StringsInv, SameCall
<1>2. PICK s, t, z : s = Len(arg.dst) /\ t = Len(arg.src) /\ z = arg.size
  OBVIOUS
<1>3. /\ s \in 0..MaxLen /\ t \in 0..MaxLen /\ z \in 0..(MaxLen + 1) /\ MaxLen \in Nat
      /\ s < z /\ spos \in 0..t /\ left \in Nat
  BY <1>1, <1>2 DEF StringArgs
<1>4. dpos = s + (IF spos < z - 1 - s THEN spos ELSE z - 1 - s) /\ dpos + left = z - 1
  BY <1>1, <1>2
<1>5. dpos \in 0..(z - 1) /\ dpos \in 0..(MaxLen + 1) /\ dpos >= s /\ spos \in Nat
  BY ONLY <1>3, <1>4
<1>6. CASE spos < t /\ left # 0
  <2>1. /\ spos' = spos + 1 /\ libpc' = "append" /\ ret' = ret
        /\ buf' = [buf EXCEPT ![dpos] = arg.src[spos + 1]] /\ dpos' = dpos + 1 /\ left' = left - 1
    BY <1>1, <1>2, <1>6 DEF strlcat
  <2>2. dpos = s + spos /\ spos < z - 1 - s
    BY ONLY <1>3, <1>4, <1>5, <1>6
  <2>3. /\ dpos' = s + (IF spos' < z - 1 - s THEN spos' ELSE z - 1 - s) /\ dpos' + left' = z - 1
        /\ left' \in Nat /\ spos' \in 0..t /\ ~(dpos < s) /\ dpos - s + 1 = spos + 1 /\ spos + 1 \in 1..t
    BY ONLY <1>3, <1>4, <1>5, <1>6, <2>1, <2>2
  <2>4. Character(dpos) = arg.src[spos + 1] /\ Character(dpos) \in Nat
    BY <1>2, <2>3 DEF Character, StringArgs
  <2>5. Contents(buf', dpos + 1)
    BY <1>1, <1>5, <2>1, <2>4, PutNext
  <2>6. Contents(buf, dpos)'
    <3>1. /\ buf' \in [Places -> Nat]
          /\ \A j \in Places : buf'[j] = IF j < dpos + 1 THEN Character(j)' ELSE Memory'[j]
      BY <1>1, <2>5, ContentsKept
    <3>2. QED
      BY <2>1, <3>1 DEF Contents
  <2>7. QED
    BY <1>1, <1>2, <2>1, <2>3, <2>6 DEF StringsInv
<1>7. CASE spos < t /\ left = 0
  <2>1. spos' = spos + 1 /\ libpc' = "append" /\ ret' = ret /\ buf' = buf /\ dpos' = dpos /\ left' = left
    BY <1>1, <1>2, <1>7 DEF strlcat
  <2>2. /\ dpos' = s + (IF spos' < z - 1 - s THEN spos' ELSE z - 1 - s) /\ dpos' + left' = z - 1
        /\ left' \in Nat /\ spos' \in 0..t
    BY ONLY <1>3, <1>4, <1>5, <1>7, <2>1
  <2>3. Contents(buf, dpos)'
    <3>1. /\ buf \in [Places -> Nat]
          /\ \A j \in Places : buf[j] = IF j < dpos THEN Character(j)' ELSE Memory'[j]
      BY <1>1, ContentsKept
    <3>2. QED
      BY <2>1, <3>1 DEF Contents
  <2>4. QED
    BY <1>1, <1>2, <2>1, <2>2, <2>3 DEF StringsInv
<1>8. CASE ~(spos < t)
  <2>1. buf' = [buf EXCEPT ![dpos] = NUL] /\ libpc' = "done" /\ ret' = ret + spos
    BY <1>2, <1>8 DEF strlcat
  <2>2. spos = t /\ dpos = IF s + t < z THEN s + t ELSE z - 1
    BY ONLY <1>3, <1>4, <1>8
  <2>3. /\ ret' = Len(arg.dst) + Len(arg.src)
        /\ dpos = IF Len(arg.dst) + Len(arg.src) < arg.size THEN Len(arg.dst) + Len(arg.src) ELSE arg.size - 1
    BY <1>1, <1>2, <2>1, <2>2
  <2>4. BuffersExact'
    BY <1>1, <2>1, <2>3, PutEnd
  <2>5. QED
    BY <2>1, <2>4 DEF StringsInv
<1>9. QED
  BY <1>6, <1>7, <1>8

-----------------------------------------------------------------------------
BuffersInv ==
  /\ ArgOK
  /\ fn \in {"strlcpy", "strlcat"} => StringsInv
  /\ fn = "memcpy" => WordsInv

LEMMA BuffersStart == BuffersInit => BuffersInv
<1> SUFFICES ASSUME BuffersInit PROVE BuffersInv
  OBVIOUS
<1>1. ArgOK /\ libpc = "call" /\ ret = 0 /\ dpos = 0 /\ spos = 0 /\ left = 0
  BY DEF BuffersInit, NoneYet, ArgOK
<1>2. StringsInv
  BY <1>1 DEF StringsInv
<1>3. WordsInv
  BY <1>1 DEF WordsInv
<1>4. QED
  BY <1>1, <1>2, <1>3 DEF BuffersInv

LEMMA BuffersStep == BuffersInv /\ [BuffersNext]_libcVars => BuffersInv'
<1> SUFFICES ASSUME BuffersInv, [BuffersNext]_libcVars PROVE BuffersInv'
  OBVIOUS
<1>1. fn' = fn /\ arg' = arg
  BY DEF BuffersNext, libcVars, SameCall, StrCall, strlcpy, strlcpy_rest, strlcat_end, strlcat,
         memcpy, CopyHead, CopyWord, CopyTail
<1>2. ArgOK /\ ArgOK'
  <2>1. ArgOK
    BY DEF BuffersInv
  <2>2. QED
    BY <1>1, <2>1 DEF ArgOK, Plain
<1>3. CASE fn = "memcpy"
  <2>1. WordsInv
    BY <1>3 DEF BuffersInv
  <2>2. libpc \in {"call", "head", "words", "tail", "done"}
    BY <2>1 DEF WordsInv
  <2>3. WordsInv'
    <3>1. CASE memcpy
      BY <1>2, <2>1, <3>1, WordsStart
    <3>2. CASE CopyHead
      BY <1>2, <1>3, <2>1, <3>2, WordsHead
    <3>3. CASE CopyWord \/ CopyTail
      BY <1>2, <1>3, <2>1, <3>3, WordsStep
    <3>4. CASE StrCall \/ strlcpy \/ strlcpy_rest \/ strlcat_end \/ strlcat
      BY <1>3, <2>2, <3>4 DEF StrCall, strlcpy, strlcpy_rest, strlcat_end, strlcat
    <3>5. CASE UNCHANGED libcVars
      BY <2>1, <3>5 DEF libcVars, WordsInv, Aligned
    <3>6. QED
      BY <3>1, <3>2, <3>3, <3>4, <3>5 DEF BuffersNext
  <2>4. QED
    BY <1>1, <1>2, <1>3, <2>3 DEF BuffersInv
<1>4. CASE fn \in {"strlcpy", "strlcat"}
  <2>1. StringsInv /\ StringArgs
    BY <1>2, <1>4, StringArgsAre DEF BuffersInv
  <2>2. libpc \in {"call", "copy", "rest", "end", "append", "done"}
    BY <2>1 DEF StringsInv
  <2>3. StringsInv'
    <3>1. CASE StrCall
      BY <2>1, <3>1, StringsStart
    <3>2. CASE strlcpy
      BY <2>1, <3>2, StrlcpyStep
    <3>3. CASE strlcpy_rest
      BY <2>1, <3>3, RestStep
    <3>4. CASE strlcat_end
      BY <2>1, <3>4, EndStep
    <3>5. CASE strlcat
      BY <2>1, <3>5, AppendStep
    <3>6. CASE memcpy \/ CopyHead \/ CopyWord \/ CopyTail
      BY <1>4, <2>2, <3>6 DEF memcpy, CopyHead, CopyWord, CopyTail
    <3>7. CASE UNCHANGED libcVars
      BY <2>1, <3>7 DEF libcVars, StringsInv, Contents, Character, Memory, CharAt, BuffersExact, Done,
                        Given, Whole
    <3>8. QED
      BY <3>1, <3>2, <3>3, <3>4, <3>5, <3>6, <3>7 DEF BuffersNext
  <2>4. QED
    BY <1>1, <1>2, <1>4, <2>3 DEF BuffersInv
<1>5. QED
  BY <1>2, <1>3, <1>4 DEF ArgOK

LEMMA BuffersInvExact == BuffersInv => BuffersExact
<1> SUFFICES ASSUME BuffersInv PROVE BuffersExact
  OBVIOUS
<1>1. CASE fn = "memcpy"
  <2>1. /\ dpos <= arg.len
        /\ libpc = "done" /\ arg.dst # arg.src => dpos = arg.len
        /\ libpc = "words" /\ left > 0 =>
             {(arg.dst + dpos) % WS, (arg.src + dpos) % WS} = {0} /\ dpos + WS <= arg.len
    BY <1>1, WordsExact DEF BuffersInv
  <2>2. ~Done("strlcpy") /\ ~Done("strlcat")
    BY <1>1 DEF Done
  <2>3. QED
    BY <2>1, <2>2 DEF BuffersExact
<1>2. CASE fn \in {"strlcpy", "strlcat"} /\ libpc = "done"
  BY <1>2 DEF BuffersInv, StringsInv
<1>3. CASE fn \in {"strlcpy", "strlcat"} /\ libpc # "done"
  BY <1>3 DEF BuffersExact, Done
<1>4. QED
  BY <1>1, <1>2, <1>3 DEF BuffersInv, ArgOK

(* strlcpy and strlcat keep to the size, with as much of the string as     *)
(* there is room for and the length it would have, and memcpy to its       *)
(* length and to aligned words, for strings of any length and every size   *)
(* of a word.                                                              *)
THEOREM BuffersAreExact == BuffersSpec => []BuffersExact
<1>1. QED
  BY BuffersStart, BuffersStep, BuffersInvExact, PTL DEF BuffersSpec

-----------------------------------------------------------------------------
(* The task list *)

(* A set of naturals has a least element. *)
LEMMA LeastNat ==
  ASSUME NEW T \in SUBSET Nat, T # {}
  PROVE  \E m \in T : \A k \in T : m <= k
<1>1. PICK U : U = {0..k : k \in T}
  OBVIOUS
<1>2. U # {}
  BY <1>1
<1>3. U \subseteq FiniteSubsetsOf(Nat)
  <2> SUFFICES ASSUME NEW k \in T PROVE 0..k \in FiniteSubsetsOf(Nat)
    BY <1>1
  <2>1. IsFiniteSet(0..k)
    BY FS_Interval
  <2>2. 0..k \in SUBSET Nat
    OBVIOUS
  <2> QED BY <2>1, <2>2 DEF FiniteSubsetsOf
<1>4. IsWellFoundedOn(StrictSubsetOrdering(Nat), FiniteSubsetsOf(Nat))
  BY FS_StrictSubsetOrderingWellFounded
<1>5. \E x \in U : \A y \in U : ~ (<<y, x>> \in StrictSubsetOrdering(Nat))
  BY <1>2, <1>3, <1>4, WFMin
<1>6. PICK m \in T : \A y \in U : ~ (<<y, 0..m>> \in StrictSubsetOrdering(Nat))
  BY <1>1, <1>5
<1>7. ASSUME NEW k \in T, k < m
      PROVE  FALSE
  <2>1. 0..k \in U
    BY <1>1
  <2>2. 0..k \in SUBSET Nat /\ 0..m \in SUBSET Nat /\ 0..k \subseteq 0..m
    BY <1>7
  <2>3. m \in 0..m /\ m \notin 0..k
    BY <1>7
  <2>4. <<0..k, 0..m>> \in StrictSubsetOrdering(Nat)
    BY <2>2, <2>3 DEF StrictSubsetOrdering
  <2> QED BY <1>6, <2>1, <2>4
<1>8. \A k \in T : m <= k
  BY <1>7
<1> QED BY <1>8

(* Walks(f, n, head, m): f starts at head and follows n for m steps. *)
Walks(f, n, head, m) ==
  f = [k \in 0..m |-> IF k = 0 THEN head ELSE n[f[k - 1]]]

(* There is such a walk, of any length. *)
LEMMA WalkExists ==
  ASSUME NEW n, NEW head, NEW m \in Nat
  PROVE  \E f : Walks(f, n, head, m)
<1> DEFINE Bad == {k \in Nat : ~ \E f : Walks(f, n, head, k)}
<1>1. SUFFICES ASSUME Bad # {} PROVE FALSE
  OBVIOUS
<1>2. PICK k \in Bad : \A j \in Bad : k <= j
  <2>1. Bad \in SUBSET Nat
    OBVIOUS
  <2> HIDE DEF Bad
  <2> QED BY <1>1, <2>1, LeastNat
<1>3. k \in Nat /\ ~ \E f : Walks(f, n, head, k)
  BY <1>2
<1>4. CASE k = 0
  <2>1. PICK g : g = [j \in 0..0 |-> head]
    OBVIOUS
  <2>2. g = [j \in 0..0 |-> IF j = 0 THEN head ELSE n[g[j - 1]]]
    BY <2>1
  <2> QED BY <2>2, <1>3, <1>4 DEF Walks
<1>5. CASE k # 0
  <2>1. k - 1 \in Nat /\ k - 1 \notin Bad
    BY <1>2, <1>3, <1>5
  <2>2. PICK f : Walks(f, n, head, k - 1)
    BY <2>1
  <2>3. \A j \in 0..(k - 1) : f[j] = IF j = 0 THEN head ELSE n[f[j - 1]]
    BY <2>2 DEF Walks
  <2>4. PICK g : g = [j \in 0..k |-> IF j = k THEN n[f[k - 1]] ELSE f[j]]
    OBVIOUS
  <2>5. \A j \in 0..k : g[j] = IF j = 0 THEN head ELSE n[g[j - 1]]
    <3> TAKE j \in 0..k
    <3>1. CASE j = k
      <4>1. k - 1 \in 0..k /\ k - 1 # k
        BY <1>3, <1>5
      <4> QED BY <4>1, <3>1, <2>4, <1>5
    <3>2. CASE j # k
      <4>1. j \in 0..(k - 1) /\ (j # 0 => j - 1 \in 0..k /\ j - 1 # k)
        BY <1>3, <3>2
      <4> QED BY <4>1, <3>2, <2>3, <2>4
    <3> QED BY <3>1, <3>2
  <2>6. g = [j \in 0..k |-> g[j]]
    BY <2>4
  <2>7. Walks(g, n, head, k)
    BY <2>5, <2>6 DEF Walks
  <2> QED BY <2>7, <1>3
<1> QED BY <1>4, <1>5

(* A walk stays in a set that its steps do not leave. *)
LEMMA HopStays ==
  ASSUME NEW s, NEW S, \A x \in S : s[x] \in S, NEW t \in S, NEW n \in Nat
  PROVE  Hop(s, t, n) \in S
<1> DEFINE R == CHOOSE f : f = [i \in 0..n |-> IF i = 0 THEN t ELSE s[f[i - 1]]]
<1>1. PICK f : f = R
  OBVIOUS
<1>2. Walks(f, s, t, n)
  <2> DEFINE P(g) == g = [i \in 0..n |-> IF i = 0 THEN t ELSE s[g[i - 1]]]
  <2>1. \E g : Walks(g, s, t, n)
    BY WalkExists
  <2>2. \E g : P(g)
    BY <2>1 DEF Walks
  <2>3. R = CHOOSE g : P(g)
    OBVIOUS
  <2>4. P(R)
    <3> HIDE DEF P, R
    <3> QED BY <2>2, <2>3
  <2>5. P(f)
    <3> HIDE DEF P, R
    <3> QED BY <1>1, <2>4
  <2> HIDE DEF R
  <2> QED BY <2>5 DEF Walks
<1>3. Hop(s, t, n) = f[n]
  BY <1>1 DEF Hop
<1> HIDE DEF R
<1>4. \A i \in 0..n : f[i] = IF i = 0 THEN t ELSE s[f[i - 1]]
  BY <1>2 DEF Walks
<1>5. \A i \in 0..n : f[i] \in S
  <2> DEFINE Bad == {i \in 0..n : f[i] \notin S}
  <2>1. SUFFICES ASSUME Bad # {} PROVE FALSE
    OBVIOUS
  <2>2. PICK i \in Bad : \A j \in Bad : i <= j
    <3>1. Bad \in SUBSET Nat
      OBVIOUS
    <3> HIDE DEF Bad
    <3> QED BY <2>1, <3>1, LeastNat
  <2>3. i \in 0..n /\ f[i] \notin S
    OBVIOUS
  <2>4. i # 0
    BY <1>4, <2>3
  <2>5. i - 1 \in 0..n /\ ~(i <= i - 1)
    BY <2>3, <2>4
  <2>6. f[i - 1] \in S
    BY <2>2, <2>5
  <2> QED BY <1>4, <2>3, <2>4, <2>6
<1>6. n \in 0..n
  OBVIOUS
<1> QED BY <1>3, <1>5, <1>6

Closed(s, S) == \A x \in S : s[x] \in S

(* A loop over the counters changes none outside a set that it stays in. *)
LEMMA CountIs ==
  ASSUME NEW num \in [Proc -> 0..(UintSize - 1)], NEW s, NEW S, Closed(s, S), NEW k \in S, NEW d \in Int
  PROVE  /\ Count(num, s, k, d) \in [Proc -> 0..(UintSize - 1)]
         /\ \A x \in Proc \ S : Count(num, s, k, d)[x] = num[x]
<1> DEFINE Added(x, I) == (num[x] + d * Hits(s, k, x, I)) % UintSize
<1>1. PICK turns : /\ turns = {i \in 0..(2 * MaxCount) : \A j \in 0..i : j < Added(k, 0..(j - 1))}
                   /\ Count(num, s, k, d) = [x \in Proc |-> Added(x, turns)]
  BY DEF Count
<1>2. turns \subseteq Nat /\ IsFiniteSet(turns)
  <2>1. 2 * MaxCount \in Nat
    BY TaskListAssumption
  <2>2. IsFiniteSet(0..(2 * MaxCount))
    BY <2>1, FS_Interval
  <2>3. turns \subseteq 0..(2 * MaxCount)
    BY <1>1
  <2>4. IsFiniteSet(turns)
    BY <2>2, <2>3, FS_Subset
  <2>5. QED
    BY <2>1, <2>3, <2>4
<1>3. UintSize \in Nat /\ UintSize > 1
  BY TaskListAssumption
<1>4. ASSUME NEW x \in Proc
      PROVE  /\ Added(x, turns) \in 0..(UintSize - 1)
             /\ x \notin S => Added(x, turns) = num[x]
  <2>1. PICK H : H = {i \in turns : Hop(s, k, i) = x}
    OBVIOUS
  <2>2. Hits(s, k, x, turns) = Cardinality(H)
    BY <2>1 DEF Hits
  <2>3. IsFiniteSet(H)
    <3>1. H \subseteq turns
      BY <2>1
    <3>2. QED
      BY <1>2, <3>1, FS_Subset
  <2>4. PICK h : h = Hits(s, k, x, turns)
    OBVIOUS
  <2>5. h \in Nat
    BY <2>2, <2>3, <2>4, FS_CardinalityType
  <2>6. num[x] \in 0..(UintSize - 1)
    OBVIOUS
  <2>7. Added(x, turns) = (num[x] + d * h) % UintSize
    BY <2>4
  <2>8. PICK e : e = num[x] + d * h
    OBVIOUS
  <2>9. e \in Int
    <3>1. d * h \in Int
      BY <2>5
    <3>2. QED
      BY <1>3, <2>6, <2>8, <3>1
  <2>10. e % UintSize \in 0..(UintSize - 1)
    BY <1>3, <2>9
  <2>11. ASSUME x \notin S PROVE Added(x, turns) = num[x]
    <3>1. \A i \in turns : Hop(s, k, i) \in S
      BY <1>2, HopStays DEF Closed
    <3>2. H = {}
      BY <2>1, <2>11, <3>1
    <3>3. h = 0
      BY <2>2, <2>4, <3>2, FS_EmptySet
    <3>4. e = num[x]
      BY <1>3, <2>6, <2>8, <3>3
    <3>5. e % UintSize = e
      BY <1>3, <2>6, <3>4, Wrap
    <3>6. QED
      BY <2>7, <2>8, <3>4, <3>5
  <2>12. QED
    BY <2>7, <2>8, <2>10, <2>11
<1> HIDE DEF Added
<1>5. QED
  BY <1>1, <1>4

-----------------------------------------------------------------------------
(* The successor is a permutation. *)
Perm(s) ==
  /\ s \in [Proc -> Proc]
  /\ \A x, y \in Proc : s[x] = s[y] => x = y
  /\ \A y \in Proc : \E x \in Proc : s[x] = y

(* S is one ring. *)
IsRing(s, S) ==
  /\ S \in SUBSET Proc /\ S # {} /\ Closed(s, S)
  /\ \A T \in SUBSET S : T # {} /\ Closed(s, T) => T = S

LEMMA PrevIs ==
  ASSUME NEW s, Perm(s), NEW t \in Proc
  PROVE  PrevSib(s, t) \in Proc /\ s[PrevSib(s, t)] = t
BY DEF PrevSib, Perm

LEMMA RingAgrees ==
  ASSUME NEW s, NEW u, NEW S, IsRing(s, S), \A x \in S : u[x] = s[x]
  PROVE  IsRing(u, S)
<1>1. \A T \in SUBSET S : Closed(s, T) <=> Closed(u, T)
  BY DEF Closed
<1>2. QED
  BY <1>1 DEF IsRing

LEMMA Alone ==
  ASSUME NEW s, NEW x \in Proc
  PROVE  s[x] = x <=> IsRing(s, {x})
<1>1. \A T \in SUBSET {x} : T # {} => T = {x}
  OBVIOUS
<1>2. QED
  BY <1>1 DEF IsRing, Closed

LEMMA PermBy ==
  ASSUME NEW u, NEW v, u \in [Proc -> Proc], v \in [Proc -> Proc],
         \A x \in Proc : v[u[x]] = x /\ u[v[x]] = x
  PROVE  Perm(u)
BY DEF Perm

(* The one before a member of a ring is in the ring. *)
LEMMA PrevIn ==
  ASSUME NEW s, Perm(s), NEW S, IsRing(s, S), NEW at \in S
  PROVE  PrevSib(s, at) \in S
<1>1. PICK q : q = PrevSib(s, at)
  OBVIOUS
<1>2. q \in Proc /\ s[q] = at /\ at \in Proc
  BY <1>1, PrevIs DEF IsRing
<1>3. S \in SUBSET Proc /\ S # {} /\ Closed(s, S) /\ \A T \in SUBSET S : T # {} /\ Closed(s, T) => T = S
  BY DEF IsRing
<1>4. SUFFICES ASSUME q \notin S PROVE FALSE
  BY <1>1
(* without at the ring would be closed as well *)
<1>5. S \ {at} # {} => Closed(s, S \ {at})
  BY <1>2, <1>3, <1>4 DEF Closed, Perm
<1>6. S \ {at} \in SUBSET S
  OBVIOUS
<1>7. S \ {at} = {}
  BY <1>3, <1>5, <1>6
<1>8. s[at] = at
  BY <1>3, <1>7 DEF Closed
<1>9. q = at
  BY <1>2, <1>8 DEF Perm
<1>10. QED
  BY <1>4, <1>9

(* x, which was alone, comes into the ring of at. *)
LEMMA AddBeforeIs ==
  ASSUME NEW s, Perm(s), NEW S, IsRing(s, S), NEW at \in S, NEW x \in Proc \ S, s[x] = x
  PROVE  /\ Perm(AddBefore(s, at, x))
         /\ IsRing(AddBefore(s, at, x), S \cup {x})
         /\ \A y \in Proc \ (S \cup {x}) : AddBefore(s, at, x)[y] = s[y]
<1>1. PICK q : q = PrevSib(s, at)
  OBVIOUS
<1>2. q \in Proc /\ s[q] = at /\ at \in Proc
  BY <1>1, PrevIs DEF IsRing
<1>3. S \in SUBSET Proc /\ S # {} /\ Closed(s, S) /\ \A T \in SUBSET S : T # {} /\ Closed(s, T) => T = S
  BY DEF IsRing
<1>4. q \in S
  BY <1>1, PrevIn
<1>5. PICK u : u = AddBefore(s, at, x)
  OBVIOUS
<1>6. /\ u \in [Proc -> Proc] /\ q # x
      /\ \A y \in Proc : u[y] = IF y = x THEN at ELSE IF y = q THEN x ELSE s[y]
  <2>1. s \in [Proc -> Proc] /\ q # x
    BY <1>4 DEF Perm
  <2>2. u = [s EXCEPT ![q] = x, ![x] = at]
    BY <1>1, <1>5 DEF AddBefore
  <2>3. QED
    BY <1>2, <2>1, <2>2
<1>7. Perm(u)
  <2>1. s \in [Proc -> Proc] /\ (\A y, z \in Proc : s[y] = s[z] => y = z) /\ \A y \in Proc : \E z \in Proc : s[z] = y
    BY DEF Perm
  <2>2. ASSUME NEW y \in Proc, NEW z \in Proc, u[y] = u[z] PROVE y = z
    BY <1>2, <1>6, <2>1, <2>2
  <2>3. ASSUME NEW y \in Proc PROVE \E z \in Proc : u[z] = y
    <3>1. CASE y = x
      BY <1>2, <1>6, <3>1
    <3>2. CASE y = at
      BY <1>6, <3>2
    <3>3. CASE y # x /\ y # at
      <4>1. PICK z \in Proc : s[z] = y
        BY <2>1
      <4>2. z # x /\ z # q
        BY <1>2, <3>3, <4>1
      <4>3. QED
        BY <1>6, <4>1, <4>2
    <3>4. QED
      BY <3>1, <3>2, <3>3
  <2>4. QED
    BY <1>6, <2>2, <2>3 DEF Perm
<1>8. IsRing(u, S \cup {x})
  <2>1. S \cup {x} \in SUBSET Proc /\ S \cup {x} # {}
    BY <1>3
  <2>2. Closed(u, S \cup {x})
    BY <1>3, <1>6 DEF Closed
  <2>3. ASSUME NEW T \in SUBSET (S \cup {x}), T # {}, Closed(u, T) PROVE T = S \cup {x}
    <3>1. x \in T => at \in T
      BY <1>6, <2>3 DEF Closed
    <3>2. T \cap S # {} /\ T \cap S \in SUBSET S
      BY <2>3, <3>1
    <3>3. Closed(s, T \cap S)
      <4> SUFFICES ASSUME NEW y \in T \cap S PROVE s[y] \in T \cap S
        BY DEF Closed
      <4>1. s[y] \in S /\ y # x /\ y \in Proc
        BY <1>3 DEF Closed
      <4>2. CASE y = q
        <5>1. x \in T
          BY <1>2, <1>6, <2>3, <4>1, <4>2 DEF Closed
        <5>2. QED
          BY <1>2, <3>1, <4>1, <4>2, <5>1
      <4>3. CASE y # q
        <5>1. u[y] = s[y]
          BY <1>6, <4>1, <4>3
        <5>2. QED
          BY <2>3, <4>1, <5>1 DEF Closed
      <4>4. QED
        BY <4>2, <4>3
    <3>4. T \cap S = S
      BY <1>3, <3>2, <3>3
    <3>5. x \in T
      <4>1. q \in T /\ q \in Proc /\ u[q] = x
        BY <1>2, <1>4, <1>6, <3>4
      <4>2. QED
        BY <2>3, <4>1 DEF Closed
    <3>6. QED
      BY <2>3, <3>4, <3>5
  <2>4. QED
    BY <2>1, <2>2, <2>3 DEF IsRing
<1>9. \A y \in Proc \ (S \cup {x}) : u[y] = s[y]
  BY <1>4, <1>6
<1>10. QED
  BY <1>5, <1>7, <1>8, <1>9

(* x leaves its ring and is alone. *)
LEMMA DelInitIs ==
  ASSUME NEW s, Perm(s), NEW S, IsRing(s, S), NEW x \in S
  PROVE  /\ Perm(DelInit(s, x)) /\ DelInit(s, x)[x] = x
         /\ S # {x} => IsRing(DelInit(s, x), S \ {x})
         /\ \A y \in Proc \ S : DelInit(s, x)[y] = s[y]
         /\ s[x] = x <=> S = {x}
<1>1. PICK q : q = PrevSib(s, x)
  OBVIOUS
<1>2. q \in S /\ q \in Proc /\ s[q] = x /\ x \in Proc
  BY <1>1, PrevIs, PrevIn DEF IsRing
<1>3. S \in SUBSET Proc /\ S # {} /\ Closed(s, S) /\ \A T \in SUBSET S : T # {} /\ Closed(s, T) => T = S
  BY DEF IsRing
<1>4. PICK n : n = s[x]
  OBVIOUS
<1>5. n \in S /\ n \in Proc
  BY <1>3, <1>4 DEF Closed
<1>6. s[x] = x <=> S = {x}
  <2>1. ASSUME s[x] = x PROVE S = {x}
    <3>1. {x} \in SUBSET S /\ {x} # {} /\ Closed(s, {x})
      BY <2>1 DEF Closed
    <3>2. QED
      BY <1>3, <3>1
  <2>2. ASSUME S = {x} PROVE s[x] = x
    BY <1>4, <1>5, <2>2
  <2>3. QED
    BY <2>1, <2>2
<1>7. q = x <=> n = x
  BY <1>2, <1>4 DEF Perm
<1>8. PICK u : u = DelInit(s, x)
  OBVIOUS
<1>9. /\ u \in [Proc -> Proc]
      /\ \A y \in Proc : u[y] = IF y = x THEN x ELSE IF y = q THEN n ELSE s[y]
  <2>1. s \in [Proc -> Proc]
    BY DEF Perm
  <2>2. u = [s EXCEPT ![q] = n, ![x] = x]
    BY <1>1, <1>4, <1>8 DEF DelInit
  <2>3. QED
    BY <1>2, <1>5, <2>1, <2>2
<1>10. Perm(u)
  <2>1. s \in [Proc -> Proc] /\ (\A y, z \in Proc : s[y] = s[z] => y = z) /\ \A y \in Proc : \E z \in Proc : s[z] = y
    BY DEF Perm
  <2>2. ASSUME NEW y \in Proc, NEW z \in Proc, u[y] = u[z] PROVE y = z
    BY <1>2, <1>4, <1>5, <1>7, <1>9, <2>1, <2>2
  <2>3. ASSUME NEW y \in Proc PROVE \E z \in Proc : u[z] = y
    <3>1. CASE y = x
      BY <1>2, <1>9, <3>1
    <3>2. CASE y = n /\ y # x
      BY <1>2, <1>7, <1>9, <3>2
    <3>3. CASE y # x /\ y # n
      <4>1. PICK z \in Proc : s[z] = y
        BY <2>1
      <4>2. z # x /\ z # q
        BY <1>2, <1>4, <3>3, <4>1
      <4>3. QED
        BY <1>9, <4>1, <4>2
    <3>4. QED
      BY <3>1, <3>2, <3>3
  <2>4. QED
    BY <1>9, <2>2, <2>3 DEF Perm
<1>11. ASSUME S # {x} PROVE IsRing(u, S \ {x})
  <2>1. n # x /\ q # x
    BY <1>4, <1>6, <1>7, <1>11
  <2>2. S \ {x} \in SUBSET Proc /\ S \ {x} # {}
    BY <1>3, <1>5, <2>1
  <2>3. Closed(u, S \ {x})
    <3> SUFFICES ASSUME NEW y \in S \ {x} PROVE u[y] \in S \ {x}
      BY DEF Closed
    <3>1. y \in Proc /\ s[y] \in S
      BY <1>3 DEF Closed
    <3>2. CASE y = q
      BY <1>5, <1>9, <2>1, <3>1, <3>2
    <3>3. CASE y # q
      <4>1. s[y] # x
        BY <1>2, <3>1, <3>3 DEF Perm
      <4>2. QED
        BY <1>9, <3>1, <3>3, <4>1
    <3>4. QED
      BY <3>2, <3>3
  <2>4. ASSUME NEW T \in SUBSET (S \ {x}), T # {}, Closed(u, T) PROVE T = S \ {x}
    <3>1. \A y \in T : y \in Proc /\ y # x /\ u[y] \in T
      BY <1>3, <2>4 DEF Closed
    <3>2. CASE q \in T
      <4>1. n \in T
        BY <1>2, <1>9, <2>1, <3>1, <3>2
      <4>2. Closed(s, T \cup {x})
        <5> SUFFICES ASSUME NEW y \in T \cup {x} PROVE s[y] \in T \cup {x}
          BY DEF Closed
        <5>1. CASE y = x
          BY <1>4, <4>1, <5>1
        <5>2. CASE y = q
          BY <1>2, <5>2
        <5>3. CASE y # x /\ y # q
          <6>1. y \in T /\ u[y] = s[y]
            BY <1>9, <3>1, <5>3
          <6>2. QED
            BY <3>1, <6>1
        <5>4. QED
          BY <5>1, <5>2, <5>3
      <4>3. T \cup {x} \in SUBSET S /\ T \cup {x} # {}
        BY <2>4
      <4>4. T \cup {x} = S
        BY <1>3, <4>2, <4>3
      <4>5. QED
        BY <3>1, <4>4
    <3>3. CASE q \notin T
      <4>1. Closed(s, T)
        <5> SUFFICES ASSUME NEW y \in T PROVE s[y] \in T
          BY DEF Closed
        <5>1. u[y] = s[y]
          BY <1>9, <3>1, <3>3
        <5>2. QED
          BY <3>1, <5>1
      <4>2. T \in SUBSET S
        BY <2>4
      <4>3. T = S
        BY <1>3, <2>4, <4>1, <4>2
      <4>4. QED
        BY <1>2, <3>3, <4>3
    <3>4. QED
      BY <3>2, <3>3
  <2>5. QED
    BY <2>2, <2>3, <2>4 DEF IsRing
<1>12. u[x] = x /\ \A y \in Proc \ S : u[y] = s[y]
  BY <1>2, <1>9
<1>13. QED
  BY <1>6, <1>8, <1>10, <1>11, <1>12

(* A closed part of the two rings that touches one has all of it, and with *)
(* it the entry to the other.                                              *)
LEMMA PartOfRing ==
  ASSUME NEW s, Perm(s), NEW S, IsRing(s, S), NEW at \in S, NEW u, NEW T, Closed(u, T),
         T \cap S # {}, \A y \in S : y # PrevSib(s, at) => u[y] = s[y],
         PrevSib(s, at) \in T => at \in T
  PROVE  S \subseteq T
<1>1. PICK q : q = PrevSib(s, at)
  OBVIOUS
<1>2. q \in S /\ s[q] = at
  BY <1>1, PrevIs, PrevIn DEF IsRing
<1>3. S \in SUBSET Proc /\ Closed(s, S) /\ \A V \in SUBSET S : V # {} /\ Closed(s, V) => V = S
  BY DEF IsRing
<1>4. Closed(s, T \cap S)
  <2> SUFFICES ASSUME NEW y \in T \cap S PROVE s[y] \in T \cap S
    BY DEF Closed
  <2>1. s[y] \in S
    BY <1>3 DEF Closed
  <2>2. CASE y = q
    BY <1>1, <1>2, <2>1, <2>2
  <2>3. CASE y # q
    <3>1. u[y] = s[y]
      BY <1>1, <2>3
    <3>2. QED
      BY <2>1, <3>1 DEF Closed
  <2>4. QED
    BY <2>2, <2>3
<1>5. T \cap S \in SUBSET S
  OBVIOUS
<1>6. T \cap S = S
  BY <1>3, <1>4, <1>5
<1>7. QED
  BY <1>6

(* Two rings become one, wherever they are cut. *)
LEMMA ConcatIs ==
  ASSUME NEW s, Perm(s), NEW A, NEW B, IsRing(s, A), IsRing(s, B), A \cap B = {},
         NEW a \in A, NEW b \in B
  PROVE  /\ Perm(Concat(s, a, b))
         /\ IsRing(Concat(s, a, b), A \cup B)
         /\ \A y \in Proc \ (A \cup B) : Concat(s, a, b)[y] = s[y]
<1>1. PICK p, q : p = PrevSib(s, a) /\ q = PrevSib(s, b)
  OBVIOUS
<1>2. /\ p \in A /\ q \in B /\ p \in Proc /\ q \in Proc /\ p # q
      /\ s[p] = a /\ s[q] = b /\ a \in Proc /\ b \in Proc
  BY <1>1, PrevIs, PrevIn DEF IsRing
<1>3. A \in SUBSET Proc /\ Closed(s, A) /\ B \in SUBSET Proc /\ Closed(s, B)
  BY DEF IsRing
<1>4. PICK u : u = Concat(s, a, b)
  OBVIOUS
<1>5. /\ u \in [Proc -> Proc]
      /\ \A y \in Proc : u[y] = IF y = q THEN a ELSE IF y = p THEN b ELSE s[y]
  <2>1. s \in [Proc -> Proc]
    BY DEF Perm
  <2>2. u = [s EXCEPT ![p] = b, ![q] = a]
    BY <1>1, <1>4 DEF Concat
  <2>3. QED
    BY <1>2, <2>1, <2>2
<1>6. Perm(u)
  <2>1. s \in [Proc -> Proc] /\ (\A y, z \in Proc : s[y] = s[z] => y = z) /\ \A y \in Proc : \E z \in Proc : s[z] = y
    BY DEF Perm
  <2>2. ASSUME NEW y \in Proc, NEW z \in Proc, u[y] = u[z] PROVE y = z
    BY <1>2, <1>5, <2>1, <2>2
  <2>3. ASSUME NEW y \in Proc PROVE \E z \in Proc : u[z] = y
    <3>1. CASE y = a
      BY <1>2, <1>5, <3>1
    <3>2. CASE y = b
      BY <1>2, <1>5, <3>2
    <3>3. CASE y # a /\ y # b
      <4>1. PICK z \in Proc : s[z] = y
        BY <2>1
      <4>2. z # p /\ z # q
        BY <1>2, <3>3, <4>1
      <4>3. QED
        BY <1>5, <4>1, <4>2
    <3>4. QED
      BY <3>1, <3>2, <3>3
  <2>4. QED
    BY <1>5, <2>2, <2>3 DEF Perm
<1>7. IsRing(u, A \cup B)
  <2>1. A \cup B \in SUBSET Proc /\ A \cup B # {}
    BY <1>3
  <2>2. Closed(u, A \cup B)
    BY <1>2, <1>3, <1>5 DEF Closed
  <2>3. ASSUME NEW T \in SUBSET (A \cup B), T # {}, Closed(u, T) PROVE T = A \cup B
    <3>1. /\ \A y \in A : y # p => u[y] = s[y]
          /\ \A y \in B : y # q => u[y] = s[y]
      BY <1>2, <1>3, <1>5
    <3>2. (p \in T => b \in T) /\ (q \in T => a \in T)
      BY <1>2, <1>5, <2>3 DEF Closed
    <3>3. ASSUME T \cap A # {} PROVE p \in T /\ b \in T
      <4>1. SUFFICES ASSUME p \notin T PROVE FALSE
        BY <3>2
      <4>2. A \subseteq T
        BY <1>1, <2>3, <3>1, <3>3, <4>1, PartOfRing
      <4>3. QED
        BY <1>2, <4>1, <4>2
    <3>4. ASSUME T \cap B # {} PROVE q \in T /\ a \in T
      <4>1. SUFFICES ASSUME q \notin T PROVE FALSE
        BY <3>2
      <4>2. B \subseteq T
        BY <1>1, <2>3, <3>1, <3>4, <4>1, PartOfRing
      <4>3. QED
        BY <1>2, <4>1, <4>2
    <3>5. T \cap A # {} /\ T \cap B # {}
      BY <2>3, <3>3, <3>4
    <3>6. a \in T /\ b \in T
      BY <3>3, <3>4, <3>5
    <3>7. A \subseteq T
      BY <1>1, <2>3, <3>1, <3>5, <3>6, PartOfRing
    <3>8. B \subseteq T
      BY <1>1, <2>3, <3>1, <3>5, <3>6, PartOfRing
    <3>9. QED
      BY <2>3, <3>7, <3>8
  <2>4. QED
    BY <2>1, <2>2, <2>3 DEF IsRing
<1>8. \A y \in Proc \ (A \cup B) : u[y] = s[y]
  BY <1>2, <1>5
<1>9. QED
  BY <1>4, <1>6, <1>7, <1>8

(* What a member of a ring reaches is the ring. *)
LEMMA RingIs ==
  ASSUME NEW s, NEW S, IsRing(s, S), NEW t \in S
  PROVE  SibRing(s, t) = S
<1>1. S \in SUBSET Proc /\ Closed(s, S) /\ \A T \in SUBSET S : T # {} /\ Closed(s, T) => T = S
  BY DEF IsRing
<1>2. SibRing(s, t) \subseteq S
  BY <1>1 DEF SibRing, Closed
<1>3. ASSUME NEW x \in S, NEW T \in SUBSET Proc, t \in T, \A y \in T : s[y] \in T PROVE x \in T
  <2>1. Closed(s, T \cap S)
    BY <1>1, <1>3 DEF Closed
  <2>2. T \cap S \in SUBSET S /\ T \cap S # {}
    BY <1>3
  <2>3. T \cap S = S
    BY <1>1, <2>1, <2>2
  <2>4. QED
    BY <2>3
<1>4. S \subseteq SibRing(s, t)
  BY <1>1, <1>3 DEF SibRing
<1>5. QED
  BY <1>2, <1>4

-----------------------------------------------------------------------------
(* The children of x among the processes P with the parents par *)
Kids(P, par, x) == {c \in P \ {x} : par[c] = x}

FamilyType(P, par, fc, num, s) ==
  /\ P \in SUBSET Proc /\ par \in [Proc -> Proc] /\ fc \in [Proc -> Proc \cup {NoTask}]
  /\ num \in [Proc -> 0..(UintSize - 1)] /\ Perm(s)

(* Who is a process, and who is alone *)
Tree(P, par, fc, s) ==
  /\ P \subseteq {idleproc} \/ {idleproc, initproc} \subseteq P
  /\ par[idleproc] = idleproc /\ par[initproc] = initproc
  /\ \A x \in P : par[x] \in P
  /\ \A x \in Proc \ P : fc[x] = NoTask
  /\ \A x \in Proc : x \notin P \/ par[x] = x => s[x] = x

(* The ring that x points to is its children, which but for those of       *)
(* initproc is one child, whose counter is 1, by which it is handed over   *)
KidsAre(P, par, fc, num, s, x) ==
  /\ fc[x] = NoTask => Kids(P, par, x) = {}
  /\ fc[x] # NoTask => fc[x] \in Kids(P, par, x) /\ IsRing(s, Kids(P, par, x))
  /\ x # initproc /\ fc[x] # NoTask => Kids(P, par, x) = {fc[x]} /\ num[fc[x]] = 1

Family(P, par, fc, num, s) ==
  /\ FamilyType(P, par, fc, num, s)
  /\ Tree(P, par, fc, s)
  /\ \A x \in P : KidsAre(P, par, fc, num, s, x)

(* What happens to others does not concern x. *)
LEMMA KidsKept ==
  ASSUME NEW P, NEW par, NEW fc, NEW num, NEW s, NEW x, KidsAre(P, par, fc, num, s, x),
         NEW Q, NEW rap, NEW cf, NEW mun, NEW u,
         Kids(Q, rap, x) = Kids(P, par, x), cf[x] = fc[x],
         \A c \in Kids(P, par, x) : u[c] = s[c] /\ mun[c] = num[c]
  PROVE  KidsAre(Q, rap, cf, mun, u, x)
<1>1. fc[x] # NoTask => fc[x] \in Kids(P, par, x) /\ IsRing(s, Kids(P, par, x))
  BY DEF KidsAre
<1>2. fc[x] # NoTask => cf[x] \in Kids(Q, rap, x) /\ IsRing(u, Kids(Q, rap, x))
  BY <1>1, RingAgrees
<1>3. x # initproc /\ fc[x] # NoTask => Kids(Q, rap, x) = {cf[x]} /\ mun[cf[x]] = 1
  BY <1>1 DEF KidsAre
<1>4. QED
  BY <1>2, <1>3 DEF KidsAre

(* A process that is its own parent becomes the first child of q. *)
LEMMA AdoptFirst ==
  ASSUME NEW P, NEW par, NEW fc, NEW num, NEW s, Family(P, par, fc, num, s),
         NEW c \in P \ {idleproc, initproc}, par[c] = c,
         NEW q \in P \ {c}, fc[q] = NoTask,
         NEW mun \in [Proc -> 0..(UintSize - 1)], q # initproc => mun[c] = 1,
         \A x \in Proc \ {c} : mun[x] = num[x]
  PROVE  Family(P, [par EXCEPT ![c] = q], [fc EXCEPT ![q] = c], mun, s)
<1>1. PICK rap, cf : rap = [par EXCEPT ![c] = q] /\ cf = [fc EXCEPT ![q] = c]
  OBVIOUS
<1>2. /\ P \in SUBSET Proc /\ par \in [Proc -> Proc] /\ fc \in [Proc -> Proc \cup {NoTask}]
      /\ Perm(s) /\ NoTask \notin Proc
  BY TaskListAssumption DEF Family, FamilyType
<1>3. c \in Proc /\ q \in Proc /\ c # q
  BY <1>2
<1>4. /\ rap \in [Proc -> Proc] /\ \A x \in Proc : rap[x] = IF x = c THEN q ELSE par[x]
      /\ cf \in [Proc -> Proc \cup {NoTask}] /\ \A x \in Proc : cf[x] = IF x = q THEN c ELSE fc[x]
  BY <1>1, <1>2, <1>3
<1>5. FamilyType(P, rap, cf, mun, s)
  BY <1>2, <1>4 DEF FamilyType
<1>6. /\ P \subseteq {idleproc} \/ {idleproc, initproc} \subseteq P
      /\ par[idleproc] = idleproc /\ par[initproc] = initproc
      /\ \A x \in P : par[x] \in P
      /\ \A x \in Proc \ P : fc[x] = NoTask
      /\ \A x \in Proc : x \notin P \/ par[x] = x => s[x] = x
  BY DEF Family, Tree
<1>7. Tree(P, rap, cf, s)
  <2>1. rap[idleproc] = idleproc /\ rap[initproc] = initproc
    BY <1>4, <1>6, TaskListAssumption
  <2>2. \A x \in P : rap[x] \in P
    BY <1>2, <1>4, <1>6
  <2>3. \A x \in Proc \ P : cf[x] = NoTask
    BY <1>4, <1>6
  <2>4. \A x \in Proc : x \notin P \/ rap[x] = x => s[x] = x
    BY <1>3, <1>4, <1>6
  <2>5. QED
    BY <1>6, <2>1, <2>2, <2>3, <2>4 DEF Tree
<1>8. s[c] = c
  BY <1>3, <1>6
<1>9. ASSUME NEW x \in P \ {q} PROVE KidsAre(P, rap, cf, mun, s, x)
  <2>1. Kids(P, rap, x) = Kids(P, par, x) /\ c \notin Kids(P, par, x)
    BY <1>2, <1>3, <1>4 DEF Kids
  <2>2. cf[x] = fc[x] /\ \A y \in Kids(P, par, x) : s[y] = s[y] /\ mun[y] = num[y]
    BY <1>2, <1>4, <2>1 DEF Kids
  <2>3. KidsAre(P, par, fc, num, s, x)
    BY DEF Family
  <2>4. QED
    BY <2>1, <2>2, <2>3, KidsKept
<1>10. KidsAre(P, rap, cf, mun, s, q)
  <2>1. Kids(P, par, q) = {}
    BY DEF Family, KidsAre
  <2>2. Kids(P, rap, q) = {c}
    BY <1>2, <1>3, <1>4, <2>1 DEF Kids
  <2>3. cf[q] = c /\ c # NoTask
    BY <1>2, <1>3, <1>4
  <2>4. IsRing(s, {c})
    BY <1>3, <1>8, Alone
  <2>5. QED
    BY <2>2, <2>3, <2>4 DEF KidsAre
<1>11. \A x \in P : KidsAre(P, rap, cf, mun, s, x)
  BY <1>9, <1>10
<1>12. QED
  BY <1>1, <1>5, <1>7, <1>11 DEF Family

(* It becomes one more child of initproc. *)
LEMMA AdoptNext ==
  ASSUME NEW P, NEW par, NEW fc, NEW num, NEW s, Family(P, par, fc, num, s),
         NEW c \in P \ {idleproc, initproc}, par[c] = c,
         initproc \in P, fc[initproc] # NoTask,
         NEW mun \in [Proc -> 0..(UintSize - 1)], NEW u, Perm(u),
         IsRing(u, Kids(P, par, initproc) \cup {c}),
         \A x \in Proc \ (Kids(P, par, initproc) \cup {c}) : mun[x] = num[x] /\ u[x] = s[x]
  PROVE  Family(P, [par EXCEPT ![c] = initproc], fc, mun, u)
<1>1. PICK rap : rap = [par EXCEPT ![c] = initproc]
  OBVIOUS
<1>2. /\ P \in SUBSET Proc /\ par \in [Proc -> Proc] /\ fc \in [Proc -> Proc \cup {NoTask}]
      /\ Perm(s) /\ NoTask \notin Proc /\ initproc \in Proc /\ idleproc \in Proc
  BY TaskListAssumption DEF Family, FamilyType
<1>3. c \in Proc /\ c # initproc
  BY <1>2
<1>4. rap \in [Proc -> Proc] /\ \A x \in Proc : rap[x] = IF x = c THEN initproc ELSE par[x]
  BY <1>1, <1>2, <1>3
<1>5. FamilyType(P, rap, fc, mun, u)
  BY <1>2, <1>4 DEF FamilyType
<1>6. /\ P \subseteq {idleproc} \/ {idleproc, initproc} \subseteq P
      /\ par[idleproc] = idleproc /\ par[initproc] = initproc
      /\ \A x \in P : par[x] \in P
      /\ \A x \in Proc \ P : fc[x] = NoTask
      /\ \A x \in Proc : x \notin P \/ par[x] = x => s[x] = x
  BY DEF Family, Tree
<1>7. Tree(P, rap, fc, u)
  <2>1. rap[idleproc] = idleproc /\ rap[initproc] = initproc
    BY <1>2, <1>4, <1>6
  <2>2. \A x \in P : rap[x] \in P
    BY <1>2, <1>4, <1>6
  <2>3. ASSUME NEW x \in Proc, x \notin P \/ rap[x] = x PROVE u[x] = x
    <3>1. x # c /\ (x \notin P \/ par[x] = x)
      BY <1>3, <1>4, <2>3
    <3>2. x \notin Kids(P, par, initproc)
      BY <1>2, <3>1 DEF Kids
    <3>3. QED
      BY <1>6, <3>1, <3>2
  <2>4. QED
    BY <1>6, <2>1, <2>2, <2>3 DEF Tree
<1>8. ASSUME NEW x \in P \ {initproc} PROVE KidsAre(P, rap, fc, mun, u, x)
  <2>1. Kids(P, rap, x) = Kids(P, par, x) /\ c \notin Kids(P, par, x)
    BY <1>2, <1>3, <1>4 DEF Kids
  <2>2. \A y \in Kids(P, par, x) : y \in Proc \ (Kids(P, par, initproc) \cup {c})
    BY <1>2, <2>1 DEF Kids
  <2>3. \A y \in Kids(P, par, x) : u[y] = s[y] /\ mun[y] = num[y]
    BY <2>2
  <2>4. KidsAre(P, par, fc, num, s, x)
    BY DEF Family
  <2>5. QED
    BY <2>1, <2>3, <2>4, KidsKept
<1>9. KidsAre(P, rap, fc, mun, u, initproc)
  <2>1. Kids(P, rap, initproc) = Kids(P, par, initproc) \cup {c}
    BY <1>2, <1>3, <1>4 DEF Kids
  <2>2. fc[initproc] \in Kids(P, par, initproc)
    BY DEF Family, KidsAre
  <2>3. QED
    BY <2>1, <2>2 DEF KidsAre
<1>10. \A x \in P : KidsAre(P, rap, fc, mun, u, x)
  BY <1>8, <1>9
<1>11. QED
  BY <1>1, <1>5, <1>7, <1>10 DEF Family

(* A process that is its own parent comes. *)
LEMMA ComesAlone ==
  ASSUME NEW P, NEW par, NEW fc, NEW num, NEW s, Family(P, par, fc, num, s),
         NEW c \in Proc \ P,
         {idleproc, initproc} \subseteq P \/ c = IF idleproc \in P THEN initproc ELSE idleproc
  PROVE  Family(P \cup {c}, [par EXCEPT ![c] = c], fc, num, s)
<1>1. PICK rap, Q : rap = [par EXCEPT ![c] = c] /\ Q = P \cup {c}
  OBVIOUS
<1>2. /\ P \in SUBSET Proc /\ par \in [Proc -> Proc] /\ fc \in [Proc -> Proc \cup {NoTask}]
      /\ num \in [Proc -> 0..(UintSize - 1)]
      /\ Perm(s) /\ NoTask \notin Proc /\ initproc \in Proc /\ idleproc \in Proc
  BY TaskListAssumption DEF Family, FamilyType
<1>3. rap \in [Proc -> Proc] /\ \A x \in Proc : rap[x] = IF x = c THEN c ELSE par[x]
  BY <1>1, <1>2
<1>4. FamilyType(Q, rap, fc, num, s)
  BY <1>1, <1>2, <1>3 DEF FamilyType
<1>5. /\ P \subseteq {idleproc} \/ {idleproc, initproc} \subseteq P
      /\ par[idleproc] = idleproc /\ par[initproc] = initproc
      /\ \A x \in P : par[x] \in P
      /\ \A x \in Proc \ P : fc[x] = NoTask
      /\ \A x \in Proc : x \notin P \/ par[x] = x => s[x] = x
  BY DEF Family, Tree
<1>6. Tree(Q, rap, fc, s)
  <2>1. Q \subseteq {idleproc} \/ {idleproc, initproc} \subseteq Q
    BY <1>1, <1>5
  <2>2. rap[idleproc] = idleproc /\ rap[initproc] = initproc
    BY <1>2, <1>3, <1>5
  <2>3. \A x \in Q : rap[x] \in Q
    BY <1>1, <1>2, <1>3, <1>5
  <2>4. \A x \in Proc \ Q : fc[x] = NoTask
    BY <1>1, <1>5
  <2>5. \A x \in Proc : x \notin Q \/ rap[x] = x => s[x] = x
    BY <1>1, <1>3, <1>5
  <2>6. QED
    BY <2>1, <2>2, <2>3, <2>4, <2>5 DEF Tree
<1>7. ASSUME NEW x \in P PROVE KidsAre(Q, rap, fc, num, s, x)
  <2>1. Kids(Q, rap, x) = Kids(P, par, x)
    BY <1>1, <1>2, <1>3 DEF Kids
  <2>2. KidsAre(P, par, fc, num, s, x)
    BY DEF Family
  <2>3. \A y \in Kids(P, par, x) : s[y] = s[y] /\ num[y] = num[y]
    OBVIOUS
  <2>4. QED
    BY <2>1, <2>2, <2>3, KidsKept
<1>8. KidsAre(Q, rap, fc, num, s, c)
  <2>1. Kids(Q, rap, c) = {}
    BY <1>1, <1>2, <1>3, <1>5 DEF Kids
  <2>2. fc[c] = NoTask
    BY <1>5
  <2>3. QED
    BY <2>1, <2>2 DEF KidsAre
<1>9. \A x \in Q : KidsAre(Q, rap, fc, num, s, x)
  BY <1>1, <1>7, <1>8
<1>10. QED
  BY <1>1, <1>4, <1>6, <1>9 DEF Family

Fam == Family(procs, parent, first_child, num_sibling, sib)

(* The ring that p is in *)
OwnRing(p) == IF parent[p] = p THEN {p} ELSE Kids(procs, parent, parent[p])

LEMMA FamIs ==
  ASSUME Fam
  PROVE  /\ procs \in SUBSET Proc /\ parent \in [Proc -> Proc] /\ first_child \in [Proc -> Proc \cup {NoTask}]
         /\ num_sibling \in [Proc -> 0..(UintSize - 1)] /\ Perm(sib)
         /\ NoTask \notin Proc /\ initproc \in Proc /\ idleproc \in Proc /\ initproc # idleproc
         /\ procs \subseteq {idleproc} \/ {idleproc, initproc} \subseteq procs
         /\ parent[idleproc] = idleproc /\ parent[initproc] = initproc
         /\ \A x \in procs : parent[x] \in procs
         /\ \A x \in Proc \ procs : first_child[x] = NoTask
         /\ \A x \in Proc : x \notin procs \/ parent[x] = x => sib[x] = x
         /\ \A x \in procs : KidsAre(procs, parent, first_child, num_sibling, sib, x)
BY TaskListAssumption DEF Fam, Family, FamilyType, Tree

LEMMA OwnRingIs ==
  ASSUME Fam, NEW p \in procs
  PROVE  /\ p \in OwnRing(p) /\ IsRing(sib, OwnRing(p))
         /\ \A x \in procs \ {parent[p]} : Kids(procs, parent, x) \cap OwnRing(p) = {}
         /\ \A x \in OwnRing(p) : x \in procs /\ (x = p \/ parent[x] # x)
<1>1. /\ procs \in SUBSET Proc /\ parent \in [Proc -> Proc] /\ parent[p] \in procs
      /\ \A x \in Proc : x \notin procs \/ parent[x] = x => sib[x] = x
      /\ KidsAre(procs, parent, first_child, num_sibling, sib, parent[p])
  BY FamIs
<1>2. CASE parent[p] = p
  <2>1. OwnRing(p) = {p} /\ sib[p] = p
    BY <1>1, <1>2 DEF OwnRing
  <2>2. IsRing(sib, {p})
    BY <1>1, <2>1, Alone
  <2>3. \A x \in procs \ {parent[p]} : p \notin Kids(procs, parent, x)
    BY <1>2 DEF Kids
  <2>4. QED
    BY <2>1, <2>2, <2>3
<1>3. CASE parent[p] # p
  <2>1. OwnRing(p) = Kids(procs, parent, parent[p])
    BY <1>3 DEF OwnRing
  <2>2. p \in Kids(procs, parent, parent[p])
    BY <1>3 DEF Kids
  <2>3. IsRing(sib, Kids(procs, parent, parent[p]))
    BY <1>1, <2>2 DEF KidsAre
  <2>4. \A x \in procs \ {parent[p]} : Kids(procs, parent, x) \cap Kids(procs, parent, parent[p]) = {}
    BY DEF Kids
  <2>5. \A x \in Kids(procs, parent, parent[p]) : x \in procs /\ parent[x] # x
    BY DEF Kids
  <2>6. QED
    BY <2>1, <2>2, <2>3, <2>4, <2>5
<1>4. QED
  BY <1>2, <1>3

(* Without p, whose child is on its own *)
Orphaned(p) == [t \in Proc |-> IF t = p \/ t = first_child[p] THEN t ELSE parent[t]]
Pointers(p) == [first_child EXCEPT ![parent[p]] = FirstLeft(p)]

LEMMA Removed ==
  ASSUME Fam, NEW p \in procs \ {idleproc, initproc},
         NEW mun \in [Proc -> 0..(UintSize - 1)], \A x \in Proc \ OwnRing(p) : mun[x] = num_sibling[x]
  PROVE  Family(procs \ {p}, Orphaned(p), [Pointers(p) EXCEPT ![p] = NoTask], mun, DelInit(sib, p))
<1>1. /\ procs \in SUBSET Proc /\ parent \in [Proc -> Proc] /\ first_child \in [Proc -> Proc \cup {NoTask}]
      /\ num_sibling \in [Proc -> 0..(UintSize - 1)] /\ Perm(sib)
      /\ NoTask \notin Proc /\ initproc \in Proc /\ idleproc \in Proc /\ initproc # idleproc
      /\ procs \subseteq {idleproc} \/ {idleproc, initproc} \subseteq procs
      /\ parent[idleproc] = idleproc /\ parent[initproc] = initproc
      /\ \A x \in procs : parent[x] \in procs
      /\ \A x \in Proc \ procs : first_child[x] = NoTask
      /\ \A x \in Proc : x \notin procs \/ parent[x] = x => sib[x] = x
      /\ \A x \in procs : KidsAre(procs, parent, first_child, num_sibling, sib, x)
  BY FamIs
<1>2. PICK R, h : R = OwnRing(p) /\ h = parent[p]
  OBVIOUS
<1>3. /\ p \in R /\ IsRing(sib, R) /\ p \in Proc /\ h \in procs /\ h \in Proc
      /\ \A x \in procs \ {h} : Kids(procs, parent, x) \cap R = {}
      /\ \A x \in R : x \in procs /\ (x = p \/ parent[x] # x)
  BY <1>1, <1>2, OwnRingIs
<1>4. PICK Q, rap, cf, u : /\ Q = procs \ {p} /\ rap = Orphaned(p)
                           /\ cf = [Pointers(p) EXCEPT ![p] = NoTask] /\ u = DelInit(sib, p)
  OBVIOUS
<1>5. /\ Perm(u) /\ u[p] = p
      /\ R # {p} => IsRing(u, R \ {p})
      /\ \A y \in Proc \ R : u[y] = sib[y]
      /\ sib[p] = p <=> R = {p}
  BY <1>1, <1>3, <1>4, DelInitIs
(* the child of p, if there is one, is on a ring of its own *)
<1>6. ASSUME first_child[p] # NoTask
      PROVE  Kids(procs, parent, p) = {first_child[p]} /\ first_child[p] \in procs /\ parent[first_child[p]] = p
             /\ first_child[p] # p /\ sib[first_child[p]] = first_child[p]
  <2>1. /\ first_child[p] \in Kids(procs, parent, p) /\ Kids(procs, parent, p) = {first_child[p]}
        /\ IsRing(sib, Kids(procs, parent, p))
    BY <1>1, <1>6 DEF KidsAre
  <2>2. first_child[p] \in Proc
    BY <1>1, <2>1 DEF Kids
  <2>3. sib[first_child[p]] = first_child[p]
    BY <2>1, <2>2, Alone
  <2>4. QED
    BY <2>1, <2>3 DEF Kids
<1>7. /\ rap \in [Proc -> Proc]
      /\ \A x \in Proc : rap[x] = IF x = p \/ x = first_child[p] THEN x ELSE parent[x]
  BY <1>1, <1>4 DEF Orphaned
<1>8. /\ FirstLeft(p) \in Proc \cup {NoTask}
      /\ cf \in [Proc -> Proc \cup {NoTask}]
      /\ \A x \in Proc : cf[x] = IF x = p THEN NoTask ELSE IF x = h THEN FirstLeft(p) ELSE first_child[x]
  <2>1. sib[p] \in Proc
    BY <1>1, <1>3 DEF Perm
  <2>2. FirstLeft(p) \in Proc \cup {NoTask}
    BY <1>1, <1>2, <1>3, <2>1 DEF FirstLeft
  <2>3. Pointers(p) \in [Proc -> Proc \cup {NoTask}] /\ \A x \in Proc : Pointers(p)[x] = IF x = h THEN FirstLeft(p) ELSE first_child[x]
    BY <1>1, <1>2, <1>3, <2>2 DEF Pointers
  <2>4. QED
    BY <1>3, <1>4, <2>2, <2>3
<1>9. FamilyType(Q, rap, cf, mun, u)
  BY <1>1, <1>4, <1>5, <1>7, <1>8 DEF FamilyType
<1>10. ASSUME NEW x \in Q PROVE Kids(Q, rap, x) = Kids(procs, parent, x) \ {p}
  <2>1. \A t \in Q \ {x} : rap[t] = x <=> parent[t] = x
    <3> SUFFICES ASSUME NEW t \in Q \ {x} PROVE rap[t] = x <=> parent[t] = x
      OBVIOUS
    <3>1. t \in Proc /\ t # p /\ t # x /\ x # p
      BY <1>1, <1>4
    <3>2. CASE t = first_child[p]
      <4>1. parent[t] = p /\ rap[t] = t
        BY <1>1, <1>6, <1>7, <3>1, <3>2
      <4>2. QED
        BY <3>1, <4>1
    <3>3. CASE t # first_child[p]
      BY <1>7, <3>1, <3>3
    <3>4. QED
      BY <3>2, <3>3
  <2>2. QED
    BY <1>4, <2>1 DEF Kids
<1>11. Tree(Q, rap, cf, u)
  <2>1. Q \subseteq {idleproc} \/ {idleproc, initproc} \subseteq Q
    BY <1>1, <1>4
  <2>2. rap[idleproc] = idleproc /\ rap[initproc] = initproc
    BY <1>1, <1>7
  <2>3. ASSUME NEW x \in Q PROVE rap[x] \in Q
    <3>1. x \in Proc /\ x \in procs /\ x # p
      BY <1>1, <1>4
    <3>2. CASE x = first_child[p]
      BY <1>7, <3>1, <3>2
    <3>3. CASE x # first_child[p]
      <4>1. rap[x] = parent[x] /\ parent[x] \in procs
        BY <1>1, <1>7, <3>1, <3>3
      <4>2. parent[x] # p
        <5>1. SUFFICES ASSUME parent[x] = p PROVE FALSE
          OBVIOUS
        <5>2. x \in Kids(procs, parent, p)
          BY <3>1, <5>1 DEF Kids
        <5>3. first_child[p] # NoTask
          BY <1>1, <5>2 DEF KidsAre
        <5>4. QED
          BY <1>6, <3>3, <5>2, <5>3
      <4>3. QED
        BY <1>4, <4>1, <4>2
    <3>4. QED
      BY <3>2, <3>3
  <2>4. \A x \in Proc \ Q : cf[x] = NoTask
    BY <1>1, <1>3, <1>4, <1>8
  <2>5. ASSUME NEW x \in Proc, x \notin Q \/ rap[x] = x PROVE u[x] = x
    <3>1. CASE x = p
      BY <1>5, <3>1
    <3>2. CASE x = first_child[p] /\ x # p
      <4>1. x \in procs /\ parent[x] = p /\ sib[x] = x /\ Kids(procs, parent, p) = {x}
        BY <1>1, <1>6, <3>2
      <4>2. x \notin R
        <5>1. CASE h = p
          BY <1>2, <3>2, <5>1 DEF OwnRing
        <5>2. CASE h # p
          BY <1>2, <1>3, <4>1, <5>2
        <5>3. QED
          BY <5>1, <5>2
      <4>3. QED
        BY <1>5, <4>1, <4>2
    <3>3. CASE x # first_child[p] /\ x # p
      <4>1. x \notin procs \/ parent[x] = x
        BY <1>4, <1>7, <2>5, <3>3
      <4>2. sib[x] = x /\ x \notin R
        BY <1>1, <1>3, <3>3, <4>1
      <4>3. QED
        BY <1>5, <4>2
    <3>4. QED
      BY <3>1, <3>2, <3>3
  <2>6. QED
    BY <2>1, <2>2, <2>3, <2>4, <2>5 DEF Tree
<1>12. ASSUME NEW x \in Q \ {h} PROVE KidsAre(Q, rap, cf, mun, u, x)
  <2>1. x \in procs /\ x \in Proc /\ x # p /\ x # h
    BY <1>1, <1>4
  <2>2. Kids(procs, parent, x) \cap R = {}
    BY <1>3, <2>1
  <2>3. Kids(Q, rap, x) = Kids(procs, parent, x)
    BY <1>3, <1>10, <2>2
  <2>4. cf[x] = first_child[x]
    BY <1>8, <2>1
  <2>5. \A y \in Kids(procs, parent, x) : y \in Proc \ R
    BY <1>1, <2>2 DEF Kids
  <2>6. \A y \in Kids(procs, parent, x) : u[y] = sib[y] /\ mun[y] = num_sibling[y]
    BY <1>2, <1>5, <2>5
  <2>7. KidsAre(procs, parent, first_child, num_sibling, sib, x)
    BY <1>1, <2>1
  <2>8. QED
    BY <2>3, <2>4, <2>6, <2>7, KidsKept
<1>13. ASSUME h # p PROVE KidsAre(Q, rap, cf, mun, u, h)
  <2>1. R = Kids(procs, parent, h)
    BY <1>2, <1>13 DEF OwnRing
  <2>2. h \in Q
    BY <1>3, <1>4, <1>13
  <2>3. Kids(Q, rap, h) = R \ {p}
    BY <1>10, <2>1, <2>2
  <2>4. cf[h] = FirstLeft(p)
    BY <1>3, <1>8, <1>13
  <2>5. KidsAre(procs, parent, first_child, num_sibling, sib, h)
    BY <1>1, <1>3
  <2>6. first_child[h] \in R
    BY <1>3, <2>1, <2>5 DEF KidsAre
  <2>7. FirstLeft(p) = IF first_child[h] # p THEN first_child[h] ELSE IF sib[p] = p THEN NoTask ELSE sib[p]
    BY <1>2 DEF FirstLeft
  <2>8. first_child[h] # NoTask
    BY <1>1, <1>3, <2>6
  <2>9. h # initproc => R = {p}
    <3>1. h # initproc => R = {first_child[h]}
      BY <2>1, <2>5, <2>8 DEF KidsAre
    <3>2. QED
      BY <1>3, <3>1
  <2>10. CASE R = {p}
    <3>1. FirstLeft(p) = NoTask
      BY <1>5, <2>6, <2>7, <2>10
    <3>2. QED
      BY <2>3, <2>4, <2>10, <3>1 DEF KidsAre
  <2>11. CASE R # {p}
    <3>1. IsRing(u, R \ {p}) /\ sib[p] # p /\ h = initproc
      BY <1>5, <2>9, <2>11
    <3>2. sib[p] \in R
      BY <1>3 DEF IsRing, Closed
    <3>3. FirstLeft(p) \in R \ {p}
      BY <2>6, <2>7, <3>1, <3>2
    <3>4. QED
      BY <1>1, <1>3, <2>3, <2>4, <3>1, <3>3 DEF KidsAre
  <2>12. QED
    BY <2>10, <2>11
<1>14. \A x \in Q : KidsAre(Q, rap, cf, mun, u, x)
  <2> SUFFICES ASSUME NEW x \in Q PROVE KidsAre(Q, rap, cf, mun, u, x)
    OBVIOUS
  <2>1. CASE x = h
    BY <1>4, <1>13, <2>1
  <2>2. CASE x # h
    BY <1>12, <2>2
  <2>3. QED
    BY <2>1, <2>2
<1>15. QED
  BY <1>4, <1>9, <1>11, <1>14 DEF Family

LEMMA AddStep ==
  ASSUME Fam, NEW p \in Proc, NEW par \in Proc, add_process(p, par), listState' = "run"
  PROVE  Fam'
<1>1. /\ procs \in SUBSET Proc /\ parent \in [Proc -> Proc] /\ first_child \in [Proc -> Proc \cup {NoTask}]
      /\ num_sibling \in [Proc -> 0..(UintSize - 1)] /\ Perm(sib)
      /\ NoTask \notin Proc /\ initproc \in Proc /\ idleproc \in Proc /\ initproc # idleproc
      /\ \A x \in Proc \ procs : first_child[x] = NoTask
      /\ \A x \in Proc : x \notin procs \/ parent[x] = x => sib[x] = x
      /\ \A x \in procs : KidsAre(procs, parent, first_child, num_sibling, sib, x)
  BY FamIs
<1>2. /\ p \in Proc \ procs /\ procs' = procs \cup {p} /\ parent' = [parent EXCEPT ![p] = par]
      /\ par = p \/ NewChild(p, par, first_child[par])
      /\ par = p => UNCHANGED <<first_child, num_sibling, sib>>
      /\ {idleproc, initproc} \subseteq procs => par \in procs \cup {p}
      /\ ~({idleproc, initproc} \subseteq procs) => par = p /\ p = IF idleproc \in procs THEN initproc ELSE idleproc
  BY DEF add_process
<1>3. PICK P, rap : P = procs \cup {p} /\ rap = [parent EXCEPT ![p] = p]
  OBVIOUS
<1>4. Family(P, rap, first_child, num_sibling, sib)
  BY <1>2, <1>3, ComesAlone DEF Fam
<1>5. CASE par = p
  BY <1>2, <1>3, <1>4, <1>5 DEF Fam
<1>6. CASE par # p
  <2>1. /\ NewChild(p, par, first_child[par]) /\ {idleproc, initproc} \subseteq procs /\ par \in procs
        /\ p \in P \ {idleproc, initproc} /\ par \in P \ {p} /\ initproc \in P
    BY <1>2, <1>3, <1>6
  <2>2. rap[p] = p /\ parent' = [rap EXCEPT ![p] = par] /\ procs' = P
    BY <1>1, <1>2, <1>3
  <2>3. UintSize \in Nat /\ UintSize > 1
    BY TaskListAssumption
  <2>4. CASE first_child[par] = NoTask
    <3>1. /\ first_child' = [first_child EXCEPT ![par] = p]
          /\ num_sibling' = [num_sibling EXCEPT ![p] = 1] /\ sib' = sib
      BY <2>1, <2>4 DEF NewChild
    <3>2. 1 \in 0..(UintSize - 1)
      BY <2>3
    <3>3. /\ num_sibling' \in [Proc -> 0..(UintSize - 1)] /\ num_sibling'[p] = 1
          /\ \A x \in Proc \ {p} : num_sibling'[x] = num_sibling[x]
      BY <1>1, <3>1, <3>2
    <3>4. Family(P, [rap EXCEPT ![p] = par], [first_child EXCEPT ![par] = p], num_sibling', sib)
      BY <1>4, <2>1, <2>2, <2>4, <3>3, AdoptFirst
    <3>5. QED
      BY <2>2, <3>1, <3>4 DEF Fam
  <2>5. CASE first_child[par] # NoTask
    <3>1. PICK f, num : f = first_child[par] /\ num = Count(num_sibling, sib, f, 1)
      OBVIOUS
    <3>2. /\ ~(sib[f] = f /\ num_sibling[f] > 0) /\ num_sibling' = [num EXCEPT ![p] = num[f]]
          /\ sib' = AddBefore(sib, f, p) /\ first_child' = first_child
      <4>1. ~(sib[f] = f /\ num_sibling[f] > 0)
        BY <2>1, <2>5, <3>1 DEF NewChild
      <4>2. QED
        BY <2>1, <2>5, <3>1, <4>1 DEF NewChild
    <3>3. PICK S : S = Kids(procs, parent, par)
      OBVIOUS
    <3>4. KidsAre(procs, parent, first_child, num_sibling, sib, par)
      BY <1>1, <2>1
    <3>5. f \in S /\ IsRing(sib, S) /\ S \in SUBSET procs
      BY <2>5, <3>1, <3>3, <3>4 DEF KidsAre, Kids
    <3>6. f \in Proc /\ Closed(sib, S)
      BY <1>1, <3>5 DEF IsRing
(* only initproc has a child with siblings *)
    <3>7. par = initproc
      <4>1. SUFFICES ASSUME par # initproc PROVE FALSE
        OBVIOUS
      <4>2. S = {f} /\ num_sibling[f] = 1
        BY <2>5, <3>1, <3>3, <3>4, <4>1 DEF KidsAre
      <4>3. sib[f] = f
        BY <3>6, <4>2 DEF Closed
      <4>4. num_sibling[f] > 0
        BY <4>2
      <4>5. QED
        BY <3>2, <4>3, <4>4
    <3>8. num \in [Proc -> 0..(UintSize - 1)] /\ \A x \in Proc \ S : num[x] = num_sibling[x]
      <4>1. 1 \in Int /\ num_sibling \in [Proc -> 0..(UintSize - 1)] /\ Closed(sib, S) /\ f \in S
        BY <1>1, <3>5, <3>6
      <4>2. /\ Count(num_sibling, sib, f, 1) \in [Proc -> 0..(UintSize - 1)]
            /\ \A x \in Proc \ S : Count(num_sibling, sib, f, 1)[x] = num_sibling[x]
        BY ONLY <4>1, CountIs
      <4>3. QED
        BY <3>1, <4>2
    <3>9. /\ num_sibling' \in [Proc -> 0..(UintSize - 1)]
          /\ \A x \in Proc \ (S \cup {p}) : num_sibling'[x] = num_sibling[x]
      <4>1. num[f] \in 0..(UintSize - 1)
        BY <3>6, <3>8
      <4>2. QED
        BY <1>2, <3>2, <3>8, <4>1
    <3>10. /\ Perm(sib') /\ IsRing(sib', S \cup {p})
           /\ \A y \in Proc \ (S \cup {p}) : sib'[y] = sib[y]
      <4>1. p \in Proc \ S /\ sib[p] = p /\ Perm(sib) /\ IsRing(sib, S) /\ f \in S
        BY <1>1, <1>2, <3>5
      <4>2. /\ Perm(AddBefore(sib, f, p)) /\ IsRing(AddBefore(sib, f, p), S \cup {p})
            /\ \A y \in Proc \ (S \cup {p}) : AddBefore(sib, f, p)[y] = sib[y]
        BY ONLY <4>1, AddBeforeIs
      <4>3. QED
        BY <3>2, <4>2
    <3>11. Kids(P, rap, initproc) = S
      BY <1>1, <1>2, <1>3, <2>1, <3>3, <3>7 DEF Kids
    <3>12. Family(P, [rap EXCEPT ![p] = initproc], first_child, num_sibling', sib')
      <4>1. first_child[initproc] # NoTask
        BY <2>5, <3>7
      <4>2. \A x \in Proc \ (Kids(P, rap, initproc) \cup {p}) :
              num_sibling'[x] = num_sibling[x] /\ sib'[x] = sib[x]
        BY <3>9, <3>10, <3>11
      <4>3. IsRing(sib', Kids(P, rap, initproc) \cup {p})
        BY <3>10, <3>11
      <4>4. PICK mun, u : mun = num_sibling' /\ u = sib'
        OBVIOUS
      <4>5. /\ mun \in [Proc -> 0..(UintSize - 1)] /\ Perm(u) /\ IsRing(u, Kids(P, rap, initproc) \cup {p})
            /\ \A x \in Proc \ (Kids(P, rap, initproc) \cup {p}) : mun[x] = num_sibling[x] /\ u[x] = sib[x]
        BY <3>9, <3>10, <4>2, <4>3, <4>4
      <4>6. PICK fc, num0, s : fc = first_child /\ num0 = num_sibling /\ s = sib
        OBVIOUS
      <4>7. Family(P, rap, fc, num0, s) /\ p \in P \ {idleproc, initproc} /\ rap[p] = p
            /\ initproc \in P /\ fc[initproc] # NoTask
        BY <1>4, <2>1, <2>2, <4>1, <4>6
      <4>8. /\ mun \in [Proc -> 0..(UintSize - 1)] /\ Perm(u) /\ IsRing(u, Kids(P, rap, initproc) \cup {p})
            /\ \A x \in Proc \ (Kids(P, rap, initproc) \cup {p}) : mun[x] = num0[x] /\ u[x] = s[x]
        BY <4>5, <4>6
      <4>9. Family(P, [rap EXCEPT ![p] = initproc], fc, mun, u)
        BY ONLY <4>7, <4>8, AdoptNext
      <4>10. QED
        BY <4>4, <4>6, <4>9
    <3>13. QED
      BY <2>2, <3>2, <3>7, <3>12 DEF Fam
  <2>6. QED
    BY <2>4, <2>5
<1>7. QED
  BY <1>5, <1>6

LEMMA RemoveStep ==
  ASSUME Fam, NEW p \in Proc, remove_process(p)
  PROVE  Fam'
<1>1. /\ procs \in SUBSET Proc /\ parent \in [Proc -> Proc] /\ first_child \in [Proc -> Proc \cup {NoTask}]
      /\ num_sibling \in [Proc -> 0..(UintSize - 1)] /\ Perm(sib)
      /\ NoTask \notin Proc /\ initproc \in Proc /\ idleproc \in Proc /\ initproc # idleproc
      /\ procs \subseteq {idleproc} \/ {idleproc, initproc} \subseteq procs
      /\ parent[idleproc] = idleproc /\ parent[initproc] = initproc
      /\ \A x \in procs : parent[x] \in procs
      /\ \A x \in Proc \ procs : first_child[x] = NoTask
      /\ \A x \in Proc : x \notin procs \/ parent[x] = x => sib[x] = x
      /\ \A x \in procs : KidsAre(procs, parent, first_child, num_sibling, sib, x)
  BY FamIs
<1>2. PICK fc, num, s : fc = Pointers(p) /\ num = Count(num_sibling, sib, p, -1) /\ s = DelInit(sib, p)
  OBVIOUS
<1>3. PICK child, ichild, n, m : /\ child = fc[p] /\ ichild = fc[initproc]
                                 /\ n = NumSiblings(num, child) /\ m = NumSiblings(num, ichild)
  OBVIOUS
<1>4. PICK kids, ikids : kids = Visited(s, child, n) /\ ikids = Visited(s, ichild, m)
  OBVIOUS
<1>5. /\ p \in procs \ {idleproc, initproc}
      /\ procs' = procs \ {p}
      /\ parent' = [t \in Proc |-> IF t = p THEN p ELSE IF t \in kids THEN initproc ELSE parent[t]]
      /\ num_sibling' = [t \in Proc |-> IF t = p THEN 0
                                       ELSE IF child # NoTask /\ t \in kids \cup ikids THEN (n + m) % UintSize
                                       ELSE num[t]]
      /\ first_child' = [t \in Proc |->
           IF t = p THEN NoTask
           ELSE IF t = initproc /\ child # NoTask /\ ichild = NoTask THEN Hop(s, child, n)
           ELSE fc[t]]
      /\ sib' = IF child # NoTask /\ ichild # NoTask
                THEN Concat(s, Hop(s, child, n), Hop(s, ichild, m)) ELSE s
  BY <1>2, <1>3, <1>4 DEF remove_process, Pointers
<1>6. UintSize \in Nat /\ UintSize > 1
  BY TaskListAssumption
<1>7. PICK R : R = OwnRing(p)
  OBVIOUS
<1>8. /\ p \in R /\ IsRing(sib, R) /\ Closed(sib, R)
      /\ \A x \in R : x \in procs /\ (x = p \/ parent[x] # x)
      /\ \A x \in procs \ {parent[p]} : Kids(procs, parent, x) \cap R = {}
  BY <1>5, <1>7, OwnRingIs DEF IsRing
<1>9. num \in [Proc -> 0..(UintSize - 1)] /\ \A x \in Proc \ R : num[x] = num_sibling[x]
  <2>1. PICK d : d = -1 /\ d \in Int
    OBVIOUS
  <2>2. num = Count(num_sibling, sib, p, d)
    BY <1>2, <2>1
  <2>3. num_sibling \in [Proc -> 0..(UintSize - 1)] /\ Closed(sib, R) /\ p \in R
    BY <1>1, <1>8
  <2>4. QED
    BY ONLY <2>1, <2>2, <2>3, CountIs
<1>10. Family(procs \ {p}, Orphaned(p), [fc EXCEPT ![p] = NoTask], num, s)
  BY <1>2, <1>5, <1>7, <1>9, Removed
<1>11. PICK Q, rap, cf : Q = procs \ {p} /\ rap = Orphaned(p) /\ cf = [fc EXCEPT ![p] = NoTask]
  OBVIOUS
<1>12. Family(Q, rap, cf, num, s)
  BY <1>10, <1>11
<1>13. /\ Perm(s) /\ cf \in [Proc -> Proc \cup {NoTask}] /\ rap \in [Proc -> Proc]
       /\ \A x \in Q : KidsAre(Q, rap, cf, num, s, x)
       /\ \A x \in Proc : x \notin Q \/ rap[x] = x => s[x] = x
  BY <1>12 DEF Family, FamilyType, Tree
<1>14. /\ \A x \in Proc : rap[x] = IF x = p \/ x = first_child[p] THEN x ELSE parent[x]
       /\ Pointers(p)[p] = first_child[p]
       /\ \A x \in Proc : x # p => cf[x] = fc[x]
       /\ cf[p] = NoTask
  <2>1. \A x \in Proc : rap[x] = IF x = p \/ x = first_child[p] THEN x ELSE parent[x]
    BY <1>11 DEF Orphaned
  <2>2. Pointers(p)[p] = first_child[p]
    <3>1. CASE parent[p] = p
      <4>1. first_child[p] # p
        <5>1. SUFFICES ASSUME first_child[p] = p PROVE FALSE
          OBVIOUS
        <5>2. p \in Kids(procs, parent, p)
          BY <1>1, <1>5, <5>1 DEF KidsAre
        <5>3. QED
          BY <5>2 DEF Kids
      <4>2. FirstLeft(p) = first_child[p]
        BY <3>1, <4>1 DEF FirstLeft
      <4>3. QED
        BY <1>1, <3>1, <4>2 DEF Pointers
    <3>2. CASE parent[p] # p
      BY <1>1, <3>2 DEF Pointers
    <3>3. QED
      BY <3>1, <3>2
  <2>3. DOMAIN fc = Proc
    BY <1>1, <1>2 DEF Pointers
  <2>4. QED
    BY <1>11, <2>1, <2>2, <2>3
<1>15. child = first_child[p] /\ ichild = cf[initproc]
  BY <1>1, <1>2, <1>3, <1>5, <1>14
<1>16. CASE child = NoTask
  <2>1. kids = {}
    <3>1. n = 0
      BY <1>3, <1>16 DEF NumSiblings
    <3>2. 0..(n - 1) = {}
      BY <3>1
    <3>3. QED
      BY <1>4, <3>2 DEF Visited
  <2>2. parent' = rap
    <3>1. rap = [x \in Proc |-> rap[x]]
      BY <1>13
    <3>2. \A x \in Proc : rap[x] = IF x = p THEN p ELSE parent[x]
      BY <1>1, <1>14, <1>15, <1>16
    <3>3. parent' = [x \in Proc |-> IF x = p THEN p ELSE parent[x]]
      BY <1>5, <2>1
    <3>4. QED
      BY <3>1, <3>2, <3>3
  <2>3. first_child' = cf
    <3>1. cf = [x \in Proc |-> cf[x]]
      BY <1>13
    <3>2. first_child' = [t \in Proc |-> IF t = p THEN NoTask ELSE fc[t]]
      BY <1>5, <1>16
    <3>3. QED
      BY <1>14, <3>1, <3>2
  <2>4. sib' = s
    BY <1>5, <1>16
  <2>5. num_sibling' = [t \in Proc |-> IF t = p THEN 0 ELSE num[t]]
    BY <1>5, <1>16
  <2>6. num_sibling' \in [Proc -> 0..(UintSize - 1)] /\ \A x \in Proc \ {p} : num_sibling'[x] = num[x]
    BY <1>6, <1>9, <2>5
  <2>7. \A x \in Q : KidsAre(Q, rap, cf, num_sibling', s, x)
    <3> SUFFICES ASSUME NEW x \in Q PROVE KidsAre(Q, rap, cf, num_sibling', s, x)
      OBVIOUS
    <3>1. \A y \in Kids(Q, rap, x) : y \in Proc \ {p}
      BY <1>1, <1>11 DEF Kids
    <3>2. \A y \in Kids(Q, rap, x) : s[y] = s[y] /\ num_sibling'[y] = num[y]
      BY <2>6, <3>1
    <3>3. KidsAre(Q, rap, cf, num, s, x)
      BY <1>13
    <3>4. QED
      BY <3>2, <3>3, KidsKept
  <2>8. Family(Q, rap, cf, num_sibling', s)
    BY <1>12, <2>6, <2>7 DEF Family, FamilyType
  <2>9. QED
    BY <1>5, <1>11, <2>2, <2>3, <2>4, <2>8 DEF Fam
<1>17. CASE child # NoTask
  <2>1. /\ Kids(procs, parent, p) = {child} /\ child \in procs /\ parent[child] = p /\ child # p
        /\ num_sibling[child] = 1 /\ child \in Proc
    <3>1. KidsAre(procs, parent, first_child, num_sibling, sib, p)
      BY <1>1, <1>5
    <3>2. /\ Kids(procs, parent, p) = {child} /\ num_sibling[child] = 1
      BY <1>5, <1>15, <1>17, <3>1 DEF KidsAre
    <3>3. child \in Kids(procs, parent, p)
      BY <3>2
    <3>4. QED
      BY <1>1, <3>2, <3>3 DEF Kids
  <2>2. child \in Q \ {idleproc, initproc} /\ rap[child] = child /\ s[child] = child
    <3>1. child \in Q /\ rap[child] = child
      BY <1>11, <1>14, <1>15, <2>1
    <3>2. child # idleproc /\ child # initproc
      BY <1>1, <1>5, <2>1
    <3>3. QED
      BY <1>13, <2>1, <3>1, <3>2
  <2>3. child \notin R
    <3>1. CASE parent[p] = p
      BY <1>7, <2>1, <3>1 DEF OwnRing
    <3>2. CASE parent[p] # p
      BY <1>5, <1>8, <2>1, <3>2
    <3>3. QED
      BY <3>1, <3>2
  <2>4. n = 1
    BY <1>3, <1>9, <1>17, <2>1, <2>3 DEF NumSiblings
  <2>5. \A i \in Nat : Hop(s, child, i) = child
    <3>1. \A x \in {child} : s[x] \in {child}
      BY <2>2
    <3>2. \A i \in Nat : Hop(s, child, i) \in {child}
      BY <3>1, HopStays
    <3>3. QED
      BY <3>2
  <2>6. kids = {child} /\ Hop(s, child, n) = child
    <3>1. kids = {Hop(s, child, i) : i \in 0..(n - 1)}
      BY <1>4 DEF Visited
    <3>2. 0..(n - 1) = {0} /\ 0 \in Nat /\ n \in Nat
      BY <2>4
    <3>3. QED
      BY <2>5, <3>1, <3>2
  <2>7. parent' = [rap EXCEPT ![child] = initproc]
    <3>1. PICK r : r = [rap EXCEPT ![child] = initproc]
      OBVIOUS
    <3>2. r \in [Proc -> Proc] /\ \A x \in Proc : r[x] = IF x = child THEN initproc ELSE rap[x]
      BY <1>1, <1>13, <2>1, <3>1
    <3>3. \A x \in Proc : r[x] = IF x = p THEN p ELSE IF x \in kids THEN initproc ELSE parent[x]
      BY <1>14, <1>15, <2>1, <2>6, <3>2
    <3>4. r = [x \in Proc |-> r[x]]
      BY <3>2
    <3>5. QED
      BY <1>5, <3>1, <3>3, <3>4
  <2>8. initproc \in Q
    BY <1>1, <1>5, <1>11
  <2>9. PICK S : S = Kids(Q, rap, initproc)
    OBVIOUS
  <2>10. /\ S \in SUBSET Q /\ S \in SUBSET Proc /\ child \notin S /\ p \notin S
         /\ KidsAre(Q, rap, cf, num, s, initproc)
    BY <1>1, <1>11, <1>13, <2>2, <2>8, <2>9 DEF Kids
  <2>11. CASE ichild = NoTask
    <3>1. ikids = {}
      <4>1. m = 0
        BY <1>3, <2>11 DEF NumSiblings
      <4>2. 0..(m - 1) = {}
        BY <4>1
      <4>3. QED
        BY <1>4, <4>2 DEF Visited
    <3>2. m = 0
      BY <1>3, <2>11 DEF NumSiblings
    <3>3. (n + m) % UintSize = 1
      <4>1. n + m = 1 /\ 1 \in 0..(UintSize - 1)
        BY <1>6, <2>4, <3>2
      <4>2. QED
        BY <1>6, <4>1, Wrap
    <3>4. num_sibling' = [t \in Proc |-> IF t = p THEN 0 ELSE IF t = child THEN 1 ELSE num[t]]
      BY <1>5, <1>17, <2>6, <3>1, <3>3
    <3>5. PICK mun : mun = [num EXCEPT ![child] = 1]
      OBVIOUS
    <3>6. /\ mun \in [Proc -> 0..(UintSize - 1)] /\ mun[child] = 1
          /\ \A x \in Proc \ {child} : mun[x] = num[x]
      <4>1. 1 \in 0..(UintSize - 1)
        BY <1>6
      <4>2. QED
        BY <1>9, <2>1, <3>5, <4>1
    <3>7. Family(Q, [rap EXCEPT ![child] = initproc], [cf EXCEPT ![initproc] = child], mun, s)
      <4>1. initproc \in Q \ {child} /\ cf[initproc] = NoTask
        BY <1>15, <2>2, <2>8, <2>11
      <4>2. QED
        BY <1>12, <2>2, <3>6, <4>1, AdoptFirst
    <3>8. first_child' = [cf EXCEPT ![initproc] = child]
      <4>1. PICK r : r = [cf EXCEPT ![initproc] = child]
        OBVIOUS
      <4>2. DOMAIN r = Proc /\ \A x \in Proc : r[x] = IF x = initproc THEN child ELSE cf[x]
        BY <1>1, <1>13, <4>1
      <4>3. r = [x \in Proc |-> r[x]]
        BY <1>13, <4>1
      <4>4. first_child' = [t \in Proc |-> IF t = p THEN NoTask ELSE IF t = initproc THEN child ELSE fc[t]]
        BY <1>5, <1>17, <2>6, <2>11
      <4>5. \A x \in Proc : r[x] = IF x = p THEN NoTask ELSE IF x = initproc THEN child ELSE fc[x]
        BY <1>5, <1>14, <4>2
      <4>6. QED
        BY <4>1, <4>3, <4>4, <4>5
    <3>9. sib' = s
      BY <1>5, <2>11
    <3>10. Family(Q, parent', first_child', mun, sib')
      BY <2>7, <3>7, <3>8, <3>9
    <3>11. /\ num_sibling' \in [Proc -> 0..(UintSize - 1)]
           /\ \A x \in Proc \ {p} : num_sibling'[x] = mun[x]
      <4>1. 0 \in 0..(UintSize - 1) /\ 1 \in 0..(UintSize - 1)
        BY <1>6
      <4>2. QED
        BY <1>9, <3>4, <3>6, <4>1
    <3>12. \A x \in Q : KidsAre(Q, parent', first_child', num_sibling', sib', x)
      <4> SUFFICES ASSUME NEW x \in Q PROVE KidsAre(Q, parent', first_child', num_sibling', sib', x)
        OBVIOUS
      <4>1. \A y \in Kids(Q, parent', x) : y \in Proc \ {p}
        BY <1>1, <1>11 DEF Kids
      <4>2. \A y \in Kids(Q, parent', x) : sib'[y] = sib'[y] /\ num_sibling'[y] = mun[y]
        BY <3>11, <4>1
      <4>3. KidsAre(Q, parent', first_child', mun, sib', x)
        BY <3>10 DEF Family
      <4>4. QED
        BY <4>2, <4>3, KidsKept
    <3>13. Family(Q, parent', first_child', num_sibling', sib')
      BY <3>10, <3>11, <3>12 DEF Family, FamilyType
    <3>14. QED
      BY <1>5, <1>11, <3>13 DEF Fam
  <2>12. CASE ichild # NoTask
    <3>1. ichild \in S /\ IsRing(s, S) /\ Closed(s, S) /\ ichild \in Proc
      BY <1>1, <1>15, <2>9, <2>10, <2>12 DEF KidsAre, IsRing
    <3>2. m \in Nat
      <4>1. m = num[ichild]
        BY <1>3, <2>12 DEF NumSiblings
      <4>2. num[ichild] \in 0..(UintSize - 1)
        BY <1>9, <3>1
      <4>3. QED
        BY <1>6, <4>1, <4>2
    <3>3. PICK h : h = Hop(s, ichild, m)
      OBVIOUS
    <3>4. h \in S
      BY <3>1, <3>2, <3>3, HopStays DEF Closed
    <3>5. ikids \in SUBSET S
      <4>1. ikids = {Hop(s, ichild, i) : i \in 0..(m - 1)}
        BY <1>4 DEF Visited
      <4>2. \A i \in 0..(m - 1) : i \in Nat
        BY <3>2
      <4>3. \A i \in 0..(m - 1) : Hop(s, ichild, i) \in S
        BY <3>1, <4>2, HopStays DEF Closed
      <4>4. QED
        BY <4>1, <4>3
    <3>6. sib' = Concat(s, child, h)
      BY <1>5, <1>17, <2>6, <2>12, <3>3
    <3>7. /\ Perm(sib') /\ IsRing(sib', {child} \cup S)
          /\ \A y \in Proc \ ({child} \cup S) : sib'[y] = s[y]
      <4>1. IsRing(s, {child})
        BY <2>1, <2>2, Alone
      <4>2. {child} \cap S = {}
        BY <2>10
      <4>3. child \in {child} /\ Perm(s) /\ IsRing(s, S) /\ h \in S
        BY <1>13, <3>1, <3>4
      <4>4. /\ Perm(Concat(s, child, h)) /\ IsRing(Concat(s, child, h), {child} \cup S)
            /\ \A y \in Proc \ ({child} \cup S) : Concat(s, child, h)[y] = s[y]
        BY ONLY <4>1, <4>2, <4>3, ConcatIs
      <4>5. QED
        BY <3>6, <4>4
    <3>8. (n + m) % UintSize \in 0..(UintSize - 1)
      BY <1>6, <2>4, <3>2
    <3>9. /\ num_sibling' \in [Proc -> 0..(UintSize - 1)]
          /\ \A x \in Proc \ ({child, p} \cup S) : num_sibling'[x] = num[x]
      <4>1. 0 \in 0..(UintSize - 1)
        BY <1>6
      <4>2. ASSUME NEW x \in Proc PROVE num_sibling'[x] \in 0..(UintSize - 1)
        BY <1>5, <1>9, <3>8, <4>1
      <4>3. num_sibling' = [x \in Proc |-> num_sibling'[x]]
        BY <1>5
      <4>4. \A x \in Proc \ ({child, p} \cup S) : num_sibling'[x] = num[x]
        BY <1>5, <2>6, <3>5
      <4>5. QED
        BY <4>2, <4>3, <4>4
    <3>10. PICK mun : mun = [x \in Proc |-> IF x = p THEN num[x] ELSE num_sibling'[x]]
      OBVIOUS
    <3>11. /\ mun \in [Proc -> 0..(UintSize - 1)]
           /\ \A x \in Proc \ (S \cup {child}) : mun[x] = num[x]
           /\ \A x \in Proc \ {p} : num_sibling'[x] = mun[x]
      <4>1. \A x \in Proc : num[x] \in 0..(UintSize - 1) /\ num_sibling'[x] \in 0..(UintSize - 1)
        BY <1>9, <3>9
      <4>2. QED
        BY <3>9, <3>10, <4>1
    <3>12. Family(Q, [rap EXCEPT ![child] = initproc], cf, mun, sib')
      <4>1. cf[initproc] # NoTask
        BY <1>15, <2>12
      <4>2. {child} \cup S = Kids(Q, rap, initproc) \cup {child}
        BY <2>9
      <4>3. IsRing(sib', Kids(Q, rap, initproc) \cup {child})
        BY <3>7, <4>2
      <4>4. \A x \in Proc \ (Kids(Q, rap, initproc) \cup {child}) : mun[x] = num[x] /\ sib'[x] = s[x]
        BY <2>9, <3>7, <3>11
      <4>5. PICK u : u = sib'
        OBVIOUS
      <4>6. /\ mun \in [Proc -> 0..(UintSize - 1)] /\ Perm(u) /\ IsRing(u, Kids(Q, rap, initproc) \cup {child})
            /\ \A x \in Proc \ (Kids(Q, rap, initproc) \cup {child}) : mun[x] = num[x] /\ u[x] = s[x]
        BY <3>7, <3>11, <4>3, <4>4, <4>5
      <4>7. Family(Q, [rap EXCEPT ![child] = initproc], cf, mun, u)
        BY ONLY <1>12, <2>2, <2>8, <4>1, <4>6, AdoptNext
      <4>8. QED
        BY <4>5, <4>7
    <3>13. first_child' = cf
      <4>1. cf = [x \in Proc |-> cf[x]]
        BY <1>13
      <4>2. first_child' = [t \in Proc |-> IF t = p THEN NoTask ELSE fc[t]]
        BY <1>5, <2>12
      <4>3. QED
        BY <1>14, <4>1, <4>2
    <3>14. Family(Q, parent', first_child', mun, sib')
      BY <2>7, <3>12, <3>13
    <3>15. \A x \in Q : KidsAre(Q, parent', first_child', num_sibling', sib', x)
      <4> SUFFICES ASSUME NEW x \in Q PROVE KidsAre(Q, parent', first_child', num_sibling', sib', x)
        OBVIOUS
      <4>1. \A y \in Kids(Q, parent', x) : y \in Proc \ {p}
        BY <1>1, <1>11 DEF Kids
      <4>2. \A y \in Kids(Q, parent', x) : sib'[y] = sib'[y] /\ num_sibling'[y] = mun[y]
        BY <3>11, <4>1
      <4>3. KidsAre(Q, parent', first_child', mun, sib', x)
        BY <3>14 DEF Family
      <4>4. QED
        BY <4>2, <4>3, KidsKept
    <3>16. Family(Q, parent', first_child', num_sibling', sib')
      BY <3>9, <3>14, <3>15 DEF Family, FamilyType
    <3>17. QED
      BY <1>5, <1>11, <3>16 DEF Fam
  <2>13. QED
    BY <2>11, <2>12
<1>18. QED
  BY <1>16, <1>17

TaskListInv == listState = "run" => Fam

LEMMA TaskListStart == TaskListInit => TaskListInv
<1> SUFFICES ASSUME TaskListInit PROVE Fam
  BY DEF TaskListInv
<1>1. /\ procs = {} /\ parent = [t \in Proc |-> t] /\ first_child = [t \in Proc |-> NoTask]
      /\ num_sibling = [t \in Proc |-> 0] /\ sib = [t \in Proc |-> t]
  BY DEF TaskListInit
<1>2. 0 \in 0..(UintSize - 1) /\ initproc \in Proc /\ idleproc \in Proc
  BY TaskListAssumption
<1>3. Perm(sib)
  BY <1>1 DEF Perm
<1>4. FamilyType(procs, parent, first_child, num_sibling, sib)
  BY <1>1, <1>2, <1>3 DEF FamilyType
<1>5. Tree(procs, parent, first_child, sib)
  BY <1>1, <1>2 DEF Tree
<1>6. QED
  BY <1>1, <1>4, <1>5 DEF Fam, Family

LEMMA TaskListStep == TaskListInv /\ [TaskListNext]_listVars => TaskListInv'
<1> SUFFICES ASSUME TaskListInv, [TaskListNext]_listVars, listState' = "run" PROVE Fam'
  BY DEF TaskListInv
<1>1. CASE UNCHANGED listVars
  <2>1. Fam
    BY <1>1 DEF TaskListInv, listVars
  <2>2. QED
    BY <1>1, <2>1 DEF listVars, Fam
<1>2. CASE \E p, par \in Proc : add_process(p, par)
  <2>1. PICK p \in Proc, par \in Proc : add_process(p, par)
    BY <1>2
  <2>2. Fam
    BY <2>1 DEF add_process, TaskListInv
  <2>3. QED
    BY <2>1, <2>2, AddStep
<1>3. CASE \E p \in Proc : remove_process(p)
  <2>1. PICK p \in Proc : remove_process(p)
    BY <1>3
  <2>2. listState = "run"
    BY <2>1 DEF remove_process
  <2>3. Fam
    BY <2>2 DEF TaskListInv
  <2>4. QED
    BY <2>1, <2>3, RemoveStep
<1>4. QED
  BY <1>1, <1>2, <1>3 DEF TaskListNext

LEMMA TaskListInvExact == TaskListInv => KinExact
<1> SUFFICES ASSUME Fam
             PROVE  /\ \A p \in procs :
                         /\ parent[p] \in procs
                         /\ IF first_child[p] = NoTask THEN Children(p) = {}
                            ELSE SibRing(sib, first_child[p]) = Children(p)
                    /\ \A p \in Proc : Cardinality({x \in Proc : sib[x] = p}) = 1
  BY DEF TaskListInv, KinExact
<1>1. /\ Perm(sib) /\ \A x \in procs : parent[x] \in procs
      /\ \A x \in procs : KidsAre(procs, parent, first_child, num_sibling, sib, x)
  BY FamIs
<1>2. ASSUME NEW p \in procs
      PROVE  IF first_child[p] = NoTask THEN Children(p) = {}
             ELSE SibRing(sib, first_child[p]) = Children(p)
  <2>1. Children(p) = Kids(procs, parent, p)
    BY DEF Children, Kids
  <2>2. KidsAre(procs, parent, first_child, num_sibling, sib, p)
    BY <1>1
  <2>3. QED
    BY <2>1, <2>2, RingIs DEF KidsAre
<1>3. ASSUME NEW p \in Proc PROVE Cardinality({x \in Proc : sib[x] = p}) = 1
  <2>1. PICK q : q = PrevSib(sib, p)
    OBVIOUS
  <2>2. q \in Proc /\ sib[q] = p
    BY <1>1, <2>1, PrevIs
  <2>3. {x \in Proc : sib[x] = p} = {q}
    BY <1>1, <2>2 DEF Perm
  <2>4. QED
    BY <2>3, FS_Singleton
<1>4. QED
  BY <1>1, <1>2, <1>3

(* The ring a process points to is its children, all of them, and the      *)
(* structure of rings is never broken, for any number of processes in any  *)
(* order of add_process and remove_process, and for whatever num_sibling   *)
(* says of a ring of initproc, as long as add_process returns.             *)
THEOREM KinIsExact == TaskListSpec => []KinExact
<1>1. QED
  BY TaskListStart, TaskListStep, TaskListInvExact, PTL DEF TaskListSpec
=============================================================================
