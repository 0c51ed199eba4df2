----------------------------- MODULE TrapProofs ------------------------------
(***************************************************************************)
(* Proofs about traps, kernel stacks, ASIDs and the TLB, for any set of    *)
(* user tasks, any mappings and any size of the TLB.                       *)
(***************************************************************************)
EXTENDS Trap, FiniteSetTheorems, TLAPS

Task == User \cup {Idle}
Asid == 0..ASID_INVALID
Page == (Task \X Nat) \cup {NoPage}
Entry == [vpn : Int, asid : Asid, lo : [{0, 1} -> Page]]
RegFile == {Regs(x) : x \in (Task \X (0..(Steps - 1))) \cup {<<"kernel", 0>>, <<"zero", 0>>}}
Cpu == [regs : RegFile, sp : Task \X Nat, asid : Asid, user : BOOLEAN, exl : BOOLEAN]

TypeOK ==
  /\ pos \in 1..24
  /\ mode \in {"boot", "run", "kernel", "panic"} /\ why \in {"int", "other"}
  /\ cur \in Task /\ cpu \in Cpu /\ kernelsp \in Task \X Nat
  /\ \A a \in DOMAIN mem : mem[a] \in Cpu
  /\ seen \in [Task -> 0..(Steps - 1)]
  /\ kmap \subseteq 0..(NV - 1) /\ tlb \in [Index -> Entry] /\ lo \in [{0, 1} -> Page]
  /\ online \in [Asid -> Task \cup {None}] /\ next_asid \in 1..ASID_INVALID

(* f is where task t goes on: what it had in its registers and on its      *)
(* stack when it trapped, and the status it may return to.                 *)
GoodFrame(f, t) ==
  /\ f.regs = Regs(<<t, seen[t]>>)
  /\ f.user <=> t \in User
  /\ f.sp = IF t \in User THEN UserStack(t) ELSE <<Idle, 1>>

(* The frame of every task that is in the kernel or switched out is at     *)
(* task->tf, and the context of every other task leads to its frame.       *)
StackInv ==
  /\ mode = "boot" => cur = Idle /\ GoodFrame(cpu, Idle) /\ \A t \in Task : seen[t] = 0
  /\ mode = "run" => GoodFrame(cpu, cur)
  /\ mode = "kernel" => cpu.sp = tf(cur)
  /\ mode \in {"run", "kernel"} =>
       /\ cur \in User => kernelsp = kstacktop(cur)
       /\ \A t \in Task : t # cur => context(t) \in DOMAIN mem /\ mem[context(t)].sp = tf(t)
       /\ \A t \in Task : t # cur \/ mode = "kernel" =>
            tf(t) \in DOMAIN mem /\ GoodFrame(mem[tf(t)], t) /\ mem[tf(t)].exl

(* A cleared entry of the TLB is at the index its address is made from. *)
TlbInv ==
  /\ \A i \in Index : tlb[i].vpn < 0 => tlb[i].vpn = -i /\ tlb[i].asid = 0
  /\ NoDuplicates

-----------------------------------------------------------------------------
(* Places on the kernel stacks of two tasks, or of one, do not overlap, and *)
(* a trap from either mode finds the place for its frame.                  *)
LEMMA Places ==
  ASSUME NEW t \in Task, NEW u \in Task
  PROVE  /\ tf(t) = tf(u) <=> t = u
         /\ context(t) = context(u) <=> t = u
         /\ context(t) # tf(u)
         /\ tf(t) \in Task \X Nat /\ kstacktop(t) \in Task \X Nat
         /\ UserStack(t) \in Task \X Nat
         /\ Below(kstacktop(t)) = tf(t) /\ Below(<<Idle, 1>>) = tf(Idle)
         /\ <<Idle, 1>> \in Task \X Nat /\ <<Idle, 0>> \in Task \X Nat
  BY DEF tf, context, kstacktop, UserStack, Below, Task

LEMMA RegFiles ==
  /\ \A t \in Task, n \in 0..(Steps - 1) : Regs(<<t, n>>) \in RegFile
  /\ Regs(<<"kernel", 0>>) \in RegFile /\ Regs(<<"zero", 0>>) \in RegFile
  BY DEF RegFile

(* The values a program steps through stay in range. *)
LEMMA StepRange ==
  ASSUME NEW n \in Nat PROVE (n + 1) % Steps \in 0..(Steps - 1) /\ 0 \in 0..(Steps - 1)
<1>1. Steps \in Nat \ {0}
  BY TrapAssumption
<1>2. QED
  BY <1>1

(* A trap of the running task puts its frame where task->tf is. *)
LEMMA FramePlace ==
  ASSUME TypeOK, StackInv, mode = "run"
  PROVE  FrameAddr = tf(cur)
<1>1. cur \in Task /\ cpu.user \in BOOLEAN
  BY DEF TypeOK, Cpu
<1>2. CASE cur \in User
  BY <1>1, <1>2, Places DEF StackInv, GoodFrame, FrameAddr
<1>3. CASE cur \notin User
  BY <1>1, <1>3, Places DEF StackInv, GoodFrame, FrameAddr, Task
<1>4. QED
  BY <1>2, <1>3

(* A dummy entry, the entries of a pair and a flushed TLB are well typed. *)
LEMMA TlbTypes ==
  /\ NTlb \in Nat \ {0} /\ NV \in Nat /\ ASID_INVALID \in Nat /\ ASID_INVALID > 1
  /\ NoPage \in Page /\ 0 \in Asid /\ ASID_INVALID \in Asid
  /\ \A i \in Index : DUMMY(i) \in Entry /\ DUMMY(i).asid = 0 /\ DUMMY(i).vpn = -i
  /\ tlb_flush_all \in [Index -> Entry] /\ Flushed \in [Asid -> Task \cup {None}]
  /\ [h \in {0, 1} |-> NoPage] \in [{0, 1} -> Page]
  /\ \A v \in 0..(NV - 1) : Pair(v) \in Nat /\ Half(v) \in {0, 1} /\ v = 2 * Pair(v) + Half(v)
<1>1. NTlb \in Nat \ {0} /\ NV \in Nat /\ ASID_INVALID \in Nat /\ ASID_INVALID > 1
  BY TrapAssumption
<1>2. NoPage \in Page /\ 0 \in Asid /\ ASID_INVALID \in Asid
  BY <1>1 DEF Page, Asid
<1>3. [h \in {0, 1} |-> NoPage] \in [{0, 1} -> Page]
  BY <1>2
<1>4. \A i \in Index : DUMMY(i) \in Entry /\ DUMMY(i).asid = 0 /\ DUMMY(i).vpn = -i
  BY <1>1, <1>2, <1>3 DEF Index, DUMMY, Entry
<1>5. tlb_flush_all \in [Index -> Entry]
  BY <1>4 DEF tlb_flush_all
<1>6. Flushed \in [Asid -> Task \cup {None}]
  BY <1>2 DEF Flushed, Asid, Task
<1>7. \A v \in 0..(NV - 1) : Pair(v) \in Nat /\ Half(v) \in {0, 1} /\ v = 2 * Pair(v) + Half(v)
  BY <1>1 DEF Pair, Half
<1>8. QED
  BY <1>1, <1>2, <1>3, <1>4, <1>5, <1>6, <1>7

LEMMA EntriesType ==
  ASSUME TypeOK, NEW v \in 0..(NV - 1)
  PROVE  /\ Entries(v) \in [{0, 1} -> Page]
         /\ \A h \in {0, 1} : 2 * Pair(v) + h \in Mapped(cpu.asid) => online[cpu.asid] \in Task
<1>1. Pair(v) \in Nat /\ NoPage \in Page
  BY TlbTypes
<1>2. cpu.asid \in Asid /\ online[cpu.asid] \in Task \cup {None}
  BY DEF TypeOK, Cpu
<1>3. ASSUME NEW h \in {0, 1}, 2 * Pair(v) + h \in Mapped(cpu.asid)
      PROVE  <<online[cpu.asid], 2 * Pair(v) + h>> \in Page /\ online[cpu.asid] \in Task
  <2>1. online[cpu.asid] \in Task
    BY <1>2, <1>3 DEF Mapped
  <2>2. 2 * Pair(v) + h \in Nat
    BY <1>1
  <2>3. QED
    BY <2>1, <2>2 DEF Page
<1>4. QED
  BY <1>1, <1>3 DEF Entries

(* What a refill and a removal leave in the TLB is well typed. *)
LEMMA RefillType ==
  ASSUME TypeOK, NEW v \in 0..(NV - 1), xtlb_refill(v)
  PROVE  tlb' \in [Index -> Entry] /\ lo' \in [{0, 1} -> Page]
<1>1. Entries(v) \in [{0, 1} -> Page] /\ Pair(v) \in Int /\ cpu.asid \in Asid
  BY EntriesType, TlbTypes DEF TypeOK, Cpu
<1>2. [vpn |-> Pair(v), asid |-> cpu.asid, lo |-> Entries(v)] \in Entry
  BY <1>1 DEF Entry
<1>3. QED
  BY <1>1, <1>2 DEF xtlb_refill, TypeOK

LEMMA RemoveType ==
  ASSUME TypeOK, NEW v \in 0..(NV - 1), tlb_remove(v)
  PROVE  /\ tlb' \in [Index -> Entry] /\ lo' \in [{0, 1} -> Page]
         /\ cpu' \in Cpu /\ cpu'.sp = cpu.sp /\ cpu'.regs = cpu.regs /\ cpu'.user = cpu.user
         /\ cpu'.exl = cpu.exl
<1>1. PICK i \in Index :
        LET left == [tlb[i].lo EXCEPT ![Half(v)] = NoPage]
        IN /\ lo' = left
           /\ IF lo[1 - Half(v)] = NoPage
              THEN /\ tlb' = [tlb EXCEPT ![i] = [DUMMY(i) EXCEPT !.lo = left]]
                   /\ cpu' = [cpu EXCEPT !.asid = DUMMY(i).asid]
              ELSE /\ tlb' = [tlb EXCEPT ![i].lo = left]
                   /\ cpu' = [cpu EXCEPT !.asid = tlb[i].asid]
  BY DEF tlb_remove, Match
<1> DEFINE left == [tlb[i].lo EXCEPT ![Half(v)] = NoPage]
<1>2. tlb[i] \in Entry /\ left \in [{0, 1} -> Page] /\ DUMMY(i) \in Entry
  BY TlbTypes DEF TypeOK, Entry
<1> HIDE DEF left
<1>3. [DUMMY(i) EXCEPT !.lo = left] \in Entry /\ [tlb[i] EXCEPT !.lo = left] \in Entry
      /\ DUMMY(i).asid \in Asid /\ tlb[i].asid \in Asid
  BY <1>2 DEF Entry
<1>4. lo' \in [{0, 1} -> Page] /\ tlb' \in [Index -> Entry]
  BY <1>1, <1>2, <1>3 DEF TypeOK, left
<1>5. \E a \in Asid : cpu' = [cpu EXCEPT !.asid = a]
  BY <1>1, <1>3
<1>6. QED
  BY <1>4, <1>5 DEF TypeOK, Cpu

(* Entering the kernel stores one frame, at task->tf. *)
LEMMA EnterEffect ==
  ASSUME TypeOK, StackInv, mode = "run", NEW f \in Cpu, Enter(f)
  PROVE  /\ mode' = "kernel" /\ cpu' \in Cpu /\ cpu'.sp = tf(cur)
         /\ \A a \in DOMAIN mem' : mem'[a] \in Cpu
         /\ tf(cur) \in DOMAIN mem' /\ mem'[tf(cur)] = f
         /\ \A b \in DOMAIN mem : b # tf(cur) => b \in DOMAIN mem' /\ mem'[b] = mem[b]
<1>1. FrameAddr = tf(cur)
  BY FramePlace
<1>2. cur \in Task /\ cpu \in Cpu /\ tf(cur) \in Task \X Nat
  BY Places DEF TypeOK
<1>3. mem' = Store(mem, tf(cur), f) /\ mode' = "kernel"
      /\ cpu' = [cpu EXCEPT !.regs = Regs(<<"kernel", 0>>), !.sp = tf(cur), !.user = FALSE]
  BY <1>1 DEF Enter
<1>4. cpu' \in Cpu /\ cpu'.sp = tf(cur)
  BY <1>2, <1>3, RegFiles DEF Cpu
<1>5. /\ DOMAIN mem' = DOMAIN mem \cup {tf(cur)} /\ mem'[tf(cur)] = f
      /\ \A b \in DOMAIN mem : b # tf(cur) => mem'[b] = mem[b]
  BY <1>3, Zenon DEF Store
<1>6. QED
  BY <1>3, <1>4, <1>5 DEF TypeOK

(* The frame a handler leaves: that of the trap, with other registers or   *)
(* another ASID.                                                           *)
LEMMA FrameTypes ==
  ASSUME TypeOK
  PROVE  /\ Frame \in Cpu
         /\ \A t \in Task, n \in 0..(Steps - 1) :
              [Frame EXCEPT !.regs = Regs(<<t, n>>)] \in Cpu
         /\ \A a \in Asid : [Frame EXCEPT !.asid = a] \in Cpu
         /\ Frame.regs = cpu.regs /\ Frame.sp = cpu.sp /\ Frame.user = cpu.user /\ Frame.exl
         /\ Frame.asid = cpu.asid
  BY RegFiles DEF TypeOK, Frame, Cpu

(* The ASID that a page fault gives away, and the one after it *)
LEMMA NewAsid ==
  ASSUME TypeOK
  PROVE  LET a == IF next_asid = ASID_INVALID THEN ASID_MIN ELSE next_asid
         IN a \in 1..(ASID_INVALID - 1) /\ a \in Asid /\ Successor(a) \in 1..ASID_INVALID
  BY TlbTypes DEF TypeOK, Asid, ASID_MIN, Successor

(* switch_task leaves the context of the old task and takes that of the new one. *)
LEMMA SwitchEffect ==
  ASSUME TypeOK, StackInv, NEW t \in Task, switch_task(t)
  PROVE  /\ cpu' \in Cpu /\ cpu'.sp = tf(t)
         /\ \A a \in DOMAIN mem' : mem'[a] \in Cpu
         /\ context(cur) \in DOMAIN mem' /\ mem'[context(cur)].sp = tf(cur)
         /\ \A b \in DOMAIN mem : b # context(cur) => b \in DOMAIN mem' /\ mem'[b] = mem[b]
<1>1. mem' = Store(mem, context(cur), cpu) /\ cpu' = mem'[context(t)]
      /\ mode = "kernel" /\ cur \in Task /\ cpu \in Cpu
  BY DEF switch_task, TypeOK
<1>2. /\ DOMAIN mem' = DOMAIN mem \cup {context(cur)} /\ mem'[context(cur)] = cpu
      /\ \A b \in DOMAIN mem : b # context(cur) => mem'[b] = mem[b]
  BY <1>1, Zenon DEF Store
<1>3. \A a \in DOMAIN mem' : mem'[a] \in Cpu
  BY <1>1, <1>2 DEF TypeOK
<1>4. cpu.sp = tf(cur)
  BY <1>1 DEF StackInv
<1>5. cpu'.sp = tf(t) /\ context(t) \in DOMAIN mem'
  <2>1. CASE t = cur
    BY <1>1, <1>2, <1>4, <2>1
  <2>2. CASE t # cur
    BY <1>1, <1>2, <2>2, Places DEF StackInv
  <2>3. QED
    BY <2>1, <2>2
<1>6. QED
  BY <1>1, <1>2, <1>3, <1>4, <1>5

(* The traps that handle_exception reports and does not return from *)
Stops ==
  \/ \E v \in 0..(NV - 1) : handle_tlbm(v)
  \/ \E ec \in Raised : handle_exception(ec)
  \/ handle_int_other

LEMMA StopEffect ==
  ASSUME Stops
  PROVE  /\ mode = "run" /\ mode' = "panic"
         /\ UNCHANGED <<pos, why, cur, cpu, kernelsp, mem, seen, kmap, tlb, lo, online, next_asid>>
  BY DEF Stops, handle_tlbm, handle_exception, handle_int_other, panic, taskvars, mmvars

LEMMA TypeStep == TypeOK /\ StackInv /\ [TrapNext]_trapVars => TypeOK'
<1> SUFFICES ASSUME TypeOK, StackInv, [TrapNext]_trapVars PROVE TypeOK'
  OBVIOUS
<1> USE DEF taskvars, mmvars
<1>1. ASSUME NEW v \in 0..(NV - 1), pgtable_insert(v) PROVE TypeOK'
  BY <1>1 DEF TypeOK, pgtable_insert, Testing, Tests
<1>2. ASSUME NEW v \in 0..(NV - 1), pgtable_remove(v) PROVE TypeOK'
  <2>1. tlb_remove(v)
    BY <1>2 DEF pgtable_remove
  <2>2. tlb' \in [Index -> Entry] /\ lo' \in [{0, 1} -> Page] /\ cpu' \in Cpu
    BY <2>1, RemoveType
  <2>3. QED
    BY <1>2, <2>2 DEF TypeOK, pgtable_remove, Testing, Tests
<1>3. ASSUME NEW v \in 0..(NV - 1), test_probe(v) PROVE TypeOK'
  <2>1. PICK i \in Index : lo' = tlb[i].lo /\ cpu' = [cpu EXCEPT !.asid = tlb[i].asid]
    BY <1>3 DEF test_probe, Match
  <2>2. tlb[i] \in Entry /\ cpu \in Cpu
    BY DEF TypeOK
  <2>3. lo' \in [{0, 1} -> Page] /\ cpu' \in Cpu
    BY <2>1, <2>2 DEF Entry, Cpu
  <2>4. QED
    BY <1>3, <2>3 DEF TypeOK, test_probe, Testing, Tests
<1>4. ASSUME NEW v \in 0..(NV - 1), test_read(v) PROVE TypeOK'
  <2>1. tlb' \in [Index -> Entry] /\ lo' \in [{0, 1} -> Page]
    BY <1>4, RefillType DEF test_read, TypeOK
  <2>2. pos' \in 1..24 /\ mode' \in {"boot", "run", "kernel", "panic"}
    BY <1>4 DEF test_read, TypeOK, Testing, Tests
  <2>3. QED
    BY <1>4, <2>1, <2>2 DEF TypeOK, test_read
<1>5. ASSUME NEW v \in 0..(NV - 1), UserMiss(v) PROVE TypeOK'
  <2>1. tlb' \in [Index -> Entry] /\ lo' \in [{0, 1} -> Page]
    BY <1>5, RefillType DEF UserMiss
  <2>2. QED
    BY <1>5, <2>1 DEF TypeOK, UserMiss
<1>6. ASSUME NEW v \in 0..(NV - 1), handle_pgfault(v) PROVE TypeOK'
  <2> DEFINE full == next_asid = ASID_INVALID
             a == IF full THEN ASID_MIN ELSE next_asid
  <2>1. a \in Asid /\ Successor(a) \in 1..ASID_INVALID
    BY NewAsid
  <2>2. CASE cpu.asid = ASID_INVALID
    <3>1. mode = "run" /\ Enter([Frame EXCEPT !.asid = a]) /\ [Frame EXCEPT !.asid = a] \in Cpu
      BY <1>6, <2>1, <2>2, FrameTypes DEF handle_pgfault
    <3>2. cpu' \in Cpu /\ mode' = "kernel" /\ \A b \in DOMAIN mem' : mem'[b] \in Cpu
      BY <3>1, EnterEffect
    <3>3. /\ tlb' = IF full THEN tlb_flush_all ELSE tlb
          /\ online' = [(IF full THEN Flushed ELSE online) EXCEPT ![a] = cur]
          /\ next_asid' = Successor(a)
          /\ lo' = IF full THEN [h \in {0, 1} |-> NoPage] ELSE lo
          /\ why' = "other" /\ UNCHANGED <<pos, cur, kernelsp, seen, kmap>>
      BY <1>6, <2>2 DEF handle_pgfault
    <3>4. tlb' \in [Index -> Entry] /\ lo' \in [{0, 1} -> Page]
      BY <3>3, TlbTypes DEF TypeOK
    <3>5. online' \in [Asid -> Task \cup {None}]
      BY <2>1, <3>3, TlbTypes DEF TypeOK
    <3>6. QED
      BY <2>1, <3>2, <3>3, <3>4, <3>5 DEF TypeOK
  <2>3. CASE cpu.asid # ASID_INVALID
    BY <1>6, <2>3 DEF TypeOK, handle_pgfault
  <2>4. QED
    BY <2>2, <2>3
<1>7. CASE task_init
  <2>1. mem' = [a \in {context(t) : t \in User} \cup {tf(t) : t \in User} |->
                  IF a = tf(a[1]) THEN FirstFrame(a[1]) ELSE FirstContext(a[1])]
    BY <1>7 DEF task_init
  <2>2. ASSUME NEW t \in User
        PROVE  FirstFrame(t) \in Cpu /\ FirstContext(t) \in Cpu
               /\ context(t)[1] = t /\ tf(t)[1] = t
    <3>1. t \in Task /\ Regs(<<t, 0>>) \in RegFile
      BY RegFiles, StepRange, 0 \in Nat DEF Task
    <3>2. QED
      BY <3>1, Places, RegFiles, TlbTypes, TrapAssumption
         DEF FirstFrame, set_task_user, FirstContext, Cpu, context, tf
  <2>3. \A a \in DOMAIN mem' : mem'[a] \in Cpu
    BY <2>1, <2>2
  <2>4. QED
    BY <1>7, <2>3 DEF task_init, TypeOK
<1>8. CASE handle_int
  <2>1. mode = "run" /\ Enter(Frame) /\ Frame \in Cpu
    BY <1>8, FrameTypes DEF handle_int
  <2>2. cpu' \in Cpu /\ mode' = "kernel" /\ \A b \in DOMAIN mem' : mem'[b] \in Cpu
    BY <2>1, EnterEffect
  <2>3. QED
    BY <1>8, <2>2 DEF handle_int, TypeOK
<1>9. CASE handle_sys
  <2> DEFINE n == (seen[cur] + 1) % Steps
  <2>1. n \in 0..(Steps - 1) /\ cur \in Task
    BY StepRange, TrapAssumption DEF TypeOK
  <2> HIDE DEF n
  <2>2. /\ mode = "run" /\ Enter([Frame EXCEPT !.regs = Regs(<<cur, n>>)])
        /\ seen' = [seen EXCEPT ![cur] = n]
    BY <1>9 DEF handle_sys, n
  <2>3. [Frame EXCEPT !.regs = Regs(<<cur, n>>)] \in Cpu
    BY <2>1, FrameTypes
  <2>4. cpu' \in Cpu /\ mode' = "kernel" /\ \A b \in DOMAIN mem' : mem'[b] \in Cpu
    BY <2>2, <2>3, EnterEffect
  <2>5. QED
    BY <1>9, <2>1, <2>2, <2>4 DEF handle_sys, TypeOK
<1>10. CASE UserStep
  <2> DEFINE n == (seen[cur] + 1) % Steps
  <2>1. n \in 0..(Steps - 1) /\ cur \in Task
    BY StepRange, TrapAssumption DEF TypeOK
  <2> HIDE DEF n
  <2>2. /\ cpu' = [cpu EXCEPT !.regs = Regs(<<cur, n>>)] /\ seen' = [seen EXCEPT ![cur] = n]
        /\ UNCHANGED <<pos, mode, why, cur, kernelsp, mem, mmvars>>
    BY <1>10 DEF UserStep, n
  <2>3. cpu' \in Cpu
    BY <2>1, <2>2, RegFiles DEF TypeOK, Cpu
  <2>4. QED
    BY <2>1, <2>2, <2>3 DEF TypeOK
<1>11. CASE RESTORE_ALL_AND_RET
  <2>1. cpu.sp \in DOMAIN mem
    BY <1>11 DEF RESTORE_ALL_AND_RET, StackInv, TypeOK
  <2>2. cpu' \in Cpu
    BY <1>11, <2>1, ZenonT(30) DEF RESTORE_ALL_AND_RET, TypeOK, Cpu
  <2>3. QED
    BY <1>11, <2>2 DEF RESTORE_ALL_AND_RET, TypeOK
<1>12. ASSUME NEW t \in Task, switch_task(t) PROVE TypeOK'
  BY <1>12, SwitchEffect, Places DEF TypeOK, switch_task
<1>13. CASE UNCHANGED trapVars
  BY <1>13 DEF TypeOK, trapVars
<1>14. CASE Stops
  BY <1>14, StopEffect DEF TypeOK
<1>15. QED
  BY <1>1, <1>2, <1>3, <1>4, <1>5, <1>6, <1>7, <1>8, <1>9, <1>10, <1>11, <1>12, <1>13, <1>14
     DEF TrapNext, Halted, Task, Stops

(* A trap of the running task keeps the frames and contexts of all tasks:  *)
(* f is the frame the handler leaves.                                      *)
LEMMA EnterStack ==
  ASSUME TypeOK, StackInv, mode = "run", NEW f \in Cpu, Enter(f), UNCHANGED <<cur, kernelsp>>,
         f.regs = Regs(<<cur, seen'[cur]>>), f.sp = cpu.sp, f.user = cpu.user, f.exl,
         \A t \in Task : t # cur => seen'[t] = seen[t]
  PROVE  StackInv'
<1>1. cur \in Task /\ cur' = cur /\ kernelsp' = kernelsp
  BY DEF TypeOK
<1>2. /\ mode' = "kernel" /\ cpu'.sp = tf(cur)
      /\ tf(cur) \in DOMAIN mem' /\ mem'[tf(cur)] = f
      /\ \A b \in DOMAIN mem : b # tf(cur) => b \in DOMAIN mem' /\ mem'[b] = mem[b]
  BY EnterEffect
<1>3. ASSUME NEW t \in Task, t # cur
      PROVE  context(t) \in DOMAIN mem' /\ mem'[context(t)].sp = tf(t)
  BY <1>1, <1>2, <1>3, Places DEF StackInv
<1>4. ASSUME NEW t \in Task
      PROVE  tf(t) \in DOMAIN mem' /\ GoodFrame(mem[tf(t)], t)' /\ mem'[tf(t)].exl
  <2>1. CASE t = cur
    BY <1>1, <1>2, <2>1 DEF GoodFrame, StackInv
  <2>2. CASE t # cur
    <3>1. tf(t) \in DOMAIN mem /\ GoodFrame(mem[tf(t)], t) /\ mem[tf(t)].exl
      BY <2>2 DEF StackInv
    <3>2. tf(t) \in DOMAIN mem' /\ mem'[tf(t)] = mem[tf(t)]
      BY <1>1, <1>2, <2>2, <3>1, Places
    <3>3. seen'[t] = seen[t]
      BY <2>2
    <3>4. QED
      BY <3>1, <3>2, <3>3 DEF GoodFrame
  <2>3. QED
    BY <2>1, <2>2
<1>5. QED
  BY <1>1, <1>2, <1>3, <1>4 DEF StackInv

LEMMA StackStep == TypeOK /\ StackInv /\ [TrapNext]_trapVars => StackInv'
<1> SUFFICES ASSUME TypeOK, StackInv, [TrapNext]_trapVars PROVE StackInv'
  OBVIOUS
<1> USE DEF taskvars, mmvars
<1>0. cur \in Task /\ Idle \in Task /\ Idle \notin User /\ cpu \in Cpu
  BY TrapAssumption DEF TypeOK, Task
<1>1. ASSUME NEW v \in 0..(NV - 1), pgtable_insert(v) \/ UserMiss(v) PROVE StackInv'
  BY <1>1 DEF StackInv, GoodFrame, pgtable_insert, UserMiss
<1>2. ASSUME NEW v \in 0..(NV - 1), pgtable_remove(v) PROVE StackInv'
  <2>1. mode = "boot" /\ UNCHANGED <<mode, cur, seen>> /\ tlb_remove(v)
    BY <1>2 DEF pgtable_remove, Testing
  <2>2. cpu'.sp = cpu.sp /\ cpu'.regs = cpu.regs /\ cpu'.user = cpu.user
    BY <2>1, RemoveType
  <2>3. QED
    BY <2>1, <2>2 DEF StackInv, GoodFrame
<1>3. ASSUME NEW v \in 0..(NV - 1), test_probe(v) PROVE StackInv'
  <2>1. PICK a : cpu' = [cpu EXCEPT !.asid = a]
    BY <1>3 DEF test_probe
  <2>2. cpu'.sp = cpu.sp /\ cpu'.regs = cpu.regs /\ cpu'.user = cpu.user
    BY <1>0, <2>1 DEF Cpu
  <2>3. QED
    BY <1>3, <2>2 DEF StackInv, GoodFrame, test_probe, Testing
<1>4. ASSUME NEW v \in 0..(NV - 1), test_read(v) PROVE StackInv'
  <2>1. mode = "boot" /\ mode' \in {"boot", "panic"} /\ UNCHANGED <<cur, cpu, seen>>
    BY <1>4 DEF test_read, Testing
  <2>2. QED
    BY <2>1 DEF StackInv, GoodFrame
<1>5. ASSUME NEW v \in 0..(NV - 1), handle_pgfault(v) PROVE StackInv'
  <2> DEFINE a == IF next_asid = ASID_INVALID THEN ASID_MIN ELSE next_asid
             f == [Frame EXCEPT !.asid = a]
  <2>1. CASE cpu.asid = ASID_INVALID
    <3>1. mode = "run" /\ Enter(f) /\ UNCHANGED <<cur, kernelsp, seen>>
      BY <1>5, <2>1 DEF handle_pgfault
    <3>2. f \in Cpu /\ f.regs = cpu.regs /\ f.sp = cpu.sp /\ f.user = cpu.user /\ f.exl
      BY FrameTypes, NewAsid DEF Frame
    <3> HIDE DEF f
    <3>3. f.regs = Regs(<<cur, seen'[cur]>>)
      BY <3>1, <3>2 DEF StackInv, GoodFrame
    <3>4. QED
      BY <3>1, <3>2, <3>3, EnterStack
  <2>2. CASE cpu.asid # ASID_INVALID
    BY <1>5, <2>2 DEF handle_pgfault, StackInv
  <2>3. QED
    BY <2>1, <2>2
<1>6. CASE task_init
  <2>1. /\ mode = "boot" /\ mode' = "run" /\ UNCHANGED <<cur, cpu, seen>>
        /\ mem' = [a \in {context(t) : t \in User} \cup {tf(t) : t \in User} |->
                     IF a = tf(a[1]) THEN FirstFrame(a[1]) ELSE FirstContext(a[1])]
    BY <1>6 DEF task_init
  <2>2. cur = Idle /\ GoodFrame(cpu, Idle) /\ \A t \in Task : seen[t] = 0
    BY <2>1 DEF StackInv
  <2>3. ASSUME NEW t \in Task, t # cur
        PROVE  /\ context(t) \in DOMAIN mem' /\ mem'[context(t)] = FirstContext(t)
               /\ tf(t) \in DOMAIN mem' /\ mem'[tf(t)] = FirstFrame(t)
    <3>1. t \in User
      BY <2>2, <2>3 DEF Task
    <3>2. context(t)[1] = t /\ tf(t)[1] = t /\ context(t) # tf(t)
      BY <1>0, <3>1, Places DEF context, tf
    <3>3. QED
      BY <2>1, <3>1, <3>2
  <2>4. ASSUME NEW t \in Task, t # cur
        PROVE  FirstContext(t).sp = tf(t) /\ FirstFrame(t).exl /\ GoodFrame(FirstFrame(t), t)'
    <3>1. t \in User /\ seen'[t] = 0
      BY <2>1, <2>2, <2>4 DEF Task
    <3>2. QED
      BY <3>1 DEF FirstContext, FirstFrame, set_task_user, GoodFrame
  <2>5. GoodFrame(cpu, cur)'
    BY <2>1, <2>2 DEF GoodFrame
  <2>6. ASSUME NEW t \in Task, t # cur PROVE GoodFrame(mem[tf(t)], t)'
    BY <2>3, <2>4, <2>6 DEF GoodFrame
  <2>7. cur' = cur /\ mode' = "run" /\ cur \notin User
    BY <1>0, <2>1, <2>2
  <2>8. QED
    BY <2>3, <2>4, <2>5, <2>6, <2>7 DEF StackInv
<1>7. CASE handle_int
  <2>1. mode = "run" /\ Enter(Frame) /\ UNCHANGED <<cur, kernelsp, seen>>
    BY <1>7 DEF handle_int
  <2>2. /\ Frame \in Cpu /\ Frame.regs = cpu.regs /\ Frame.sp = cpu.sp
        /\ Frame.user = cpu.user /\ Frame.exl
    BY FrameTypes
  <2>3. Frame.regs = Regs(<<cur, seen'[cur]>>)
    BY <2>1, <2>2 DEF StackInv, GoodFrame
  <2>4. QED
    BY <2>1, <2>2, <2>3, EnterStack
<1>8. CASE handle_sys
  <2> DEFINE n == (seen[cur] + 1) % Steps
             f == [Frame EXCEPT !.regs = Regs(<<cur, n>>)]
  <2>1. n \in 0..(Steps - 1)
    BY <1>0, StepRange, TrapAssumption DEF TypeOK
  <2>2. mode = "run" /\ Enter(f) /\ UNCHANGED <<cur, kernelsp>> /\ seen' = [seen EXCEPT ![cur] = n]
    BY <1>8 DEF handle_sys
  <2> HIDE DEF n
  <2>3. /\ f \in Cpu /\ f.regs = Regs(<<cur, n>>) /\ f.sp = cpu.sp
        /\ f.user = cpu.user /\ f.exl
    BY <1>0, <2>1, FrameTypes DEF Frame
  <2> HIDE DEF f
  <2>4. seen'[cur] = n /\ \A t \in Task : t # cur => seen'[t] = seen[t]
    BY <1>0, <2>2 DEF TypeOK
  <2>5. QED
    BY <2>2, <2>3, <2>4, EnterStack
<1>9. CASE UserStep
  <2> DEFINE n == (seen[cur] + 1) % Steps
  <2>1. /\ cpu' = [cpu EXCEPT !.regs = Regs(<<cur, n>>)] /\ seen' = [seen EXCEPT ![cur] = n]
        /\ mode = "run" /\ UNCHANGED <<mode, cur, kernelsp, mem>>
    BY <1>9 DEF UserStep
  <2> HIDE DEF n
  <2>2. /\ cpu'.regs = Regs(<<cur, n>>) /\ cpu'.sp = cpu.sp /\ cpu'.user = cpu.user
        /\ seen'[cur] = n /\ \A t \in Task : t # cur => seen'[t] = seen[t]
    BY <1>0, <2>1 DEF Cpu, TypeOK
  <2>3. QED
    BY <2>1, <2>2 DEF StackInv, GoodFrame
<1>10. CASE RESTORE_ALL_AND_RET
  <2>1. mode = "kernel" /\ UNCHANGED <<cur, kernelsp, mem, seen>> /\ mode' \in {"run", "panic"}
    BY <1>10 DEF RESTORE_ALL_AND_RET
  <2>2. cpu.sp = tf(cur) /\ tf(cur) \in DOMAIN mem /\ mem[tf(cur)] \in Cpu
        /\ GoodFrame(mem[tf(cur)], cur)
    BY <1>0, <2>1 DEF StackInv, TypeOK
  <2>3. ASSUME mode' = "run" PROVE GoodFrame(cpu, cur)'
    <3>1. cpu' = [mem[tf(cur)] EXCEPT !.exl = FALSE]
      BY <1>10, <2>2, <2>3 DEF RESTORE_ALL_AND_RET
    <3>2. cpu'.regs = mem[tf(cur)].regs /\ cpu'.sp = mem[tf(cur)].sp
          /\ cpu'.user = mem[tf(cur)].user
      BY <2>2, <3>1 DEF Cpu
    <3>3. QED
      BY <2>1, <2>2, <3>2 DEF GoodFrame
  <2>4. QED
    BY <2>1, <2>3 DEF StackInv, GoodFrame
<1>11. ASSUME NEW t \in Task, switch_task(t) PROVE StackInv'
  <2>1. /\ cpu'.sp = tf(t) /\ context(cur) \in DOMAIN mem' /\ mem'[context(cur)].sp = tf(cur)
        /\ \A b \in DOMAIN mem : b # context(cur) => b \in DOMAIN mem' /\ mem'[b] = mem[b]
    BY <1>11, SwitchEffect
  <2>2. /\ mode = "kernel" /\ mode' = "kernel" /\ cur' = t /\ kernelsp' = kstacktop(t)
        /\ seen' = seen
    BY <1>11 DEF switch_task
  <2>3. ASSUME NEW u \in Task, u # t
        PROVE  context(u) \in DOMAIN mem' /\ mem'[context(u)].sp = tf(u)
    <3>1. CASE u = cur
      BY <2>1, <3>1
    <3>2. CASE u # cur
      <4>1. context(u) \in DOMAIN mem /\ mem[context(u)].sp = tf(u)
        BY <1>0, <2>2, <3>2 DEF StackInv
      <4>2. context(u) # context(cur)
        BY <1>0, <3>2, Places DEF TypeOK
      <4>3. QED
        BY <2>1, <4>1, <4>2
    <3>3. QED
      BY <3>1, <3>2
  <2>4. ASSUME NEW u \in Task
        PROVE  tf(u) \in DOMAIN mem' /\ GoodFrame(mem[tf(u)], u)' /\ mem'[tf(u)].exl
    <3>1. tf(u) \in DOMAIN mem /\ GoodFrame(mem[tf(u)], u) /\ mem[tf(u)].exl
      BY <2>2 DEF StackInv
    <3>2. tf(u) \in DOMAIN mem' /\ mem'[tf(u)] = mem[tf(u)]
      BY <1>0, <2>1, <3>1, Places
    <3>3. QED
      BY <2>2, <3>1, <3>2 DEF GoodFrame
  <2>5. QED
    BY <2>1, <2>2, <2>3, <2>4 DEF StackInv
<1>12. CASE UNCHANGED trapVars
  BY <1>12 DEF StackInv, GoodFrame, trapVars
<1>13. CASE Stops
  BY <1>13, StopEffect DEF StackInv, GoodFrame
<1>14. QED
  BY <1>1, <1>2, <1>3, <1>4, <1>5, <1>6, <1>7, <1>8, <1>9, <1>10, <1>11, <1>12, <1>13
     DEF TrapNext, Halted, Task, Stops

-----------------------------------------------------------------------------
(* A refill, and a removal, keep the entries of the TLB apart. *)
LEMMA RefillApart ==
  ASSUME TypeOK, TlbInv, NEW v \in 0..(NV - 1), xtlb_refill(v)
  PROVE  TlbInv'
<1>1. PICK i \in Index :
        tlb' = [tlb EXCEPT ![i] = [vpn |-> Pair(v), asid |-> cpu.asid, lo |-> Entries(v)]]
  BY DEF xtlb_refill
<1>2. Pair(v) \in Nat /\ \A j \in Index : tlb[j].vpn # Pair(v) \/ tlb[j].asid # cpu.asid
  BY TlbTypes DEF xtlb_refill, Match
<1>3. /\ tlb'[i].vpn = Pair(v) /\ tlb'[i].asid = cpu.asid
      /\ \A j \in Index : j # i => tlb'[j] = tlb[j]
  BY <1>1 DEF TypeOK
<1>4. \A j \in Index : tlb'[j].vpn < 0 => tlb'[j].vpn = -j /\ tlb'[j].asid = 0
  BY <1>2, <1>3 DEF TlbInv
<1>5. NoDuplicates'
  <2> SUFFICES ASSUME NEW j \in Index, NEW k \in Index, j # k
               PROVE  <<tlb'[j].vpn, tlb'[j].asid>> # <<tlb'[k].vpn, tlb'[k].asid>>
    BY DEF NoDuplicates
  <2>1. CASE j # i /\ k # i
    BY <1>3, <2>1 DEF TlbInv, NoDuplicates
  <2>2. CASE j = i \/ k = i
    BY <1>2, <1>3, <2>2
  <2>3. QED
    BY <2>1, <2>2
<1>6. QED
  BY <1>4, <1>5 DEF TlbInv

LEMMA RemoveApart ==
  ASSUME TypeOK, TlbInv, NEW v \in 0..(NV - 1), tlb_remove(v)
  PROVE  TlbInv'
<1>1. PICK i \in Index :
        LET left == [tlb[i].lo EXCEPT ![Half(v)] = NoPage]
        IN IF lo[1 - Half(v)] = NoPage
           THEN tlb' = [tlb EXCEPT ![i] = [DUMMY(i) EXCEPT !.lo = left]]
           ELSE tlb' = [tlb EXCEPT ![i].lo = left]
  BY DEF tlb_remove, Match
<1>2. /\ DUMMY(i) \in Entry /\ DUMMY(i).asid = 0 /\ DUMMY(i).vpn = -i
      /\ i \in Nat \ {0} /\ Index \subseteq Nat \ {0}
  BY TlbTypes DEF Index
<1>3. \A j \in Index : j # i => tlb'[j] = tlb[j]
  BY <1>1 DEF TypeOK
<1>4. \/ tlb'[i].vpn = tlb[i].vpn /\ tlb'[i].asid = tlb[i].asid
      \/ tlb'[i].vpn = -i /\ tlb'[i].asid = 0
  BY <1>1, <1>2 DEF TypeOK, Entry
<1>5. \A j \in Index : tlb'[j].vpn < 0 => tlb'[j].vpn = -j /\ tlb'[j].asid = 0
  BY <1>3, <1>4 DEF TlbInv
<1>6. \A j \in Index : tlb[j].vpn \in Int
  BY DEF TypeOK, Entry
<1>7. NoDuplicates'
  <2> SUFFICES ASSUME NEW j \in Index, NEW k \in Index, j # k,
                      tlb'[j].vpn = tlb'[k].vpn, tlb'[j].asid = tlb'[k].asid
               PROVE  FALSE
    BY DEF NoDuplicates
  <2>1. CASE j # i /\ k # i
    BY <1>3, <2>1 DEF TlbInv, NoDuplicates
  <2>2. CASE tlb'[i].vpn = tlb[i].vpn /\ tlb'[i].asid = tlb[i].asid
    <3>1. \A m \in Index : tlb'[m].vpn = tlb[m].vpn /\ tlb'[m].asid = tlb[m].asid
      BY <1>3, <2>2
    <3>2. QED
      BY <3>1 DEF TlbInv, NoDuplicates
  <2>3. CASE tlb'[i].vpn = -i /\ (j = i \/ k = i)
    BY <1>2, <1>5, <2>3
  <2>4. QED
    BY <1>4, <2>1, <2>2, <2>3
<1>8. QED
  BY <1>5, <1>7 DEF TlbInv

LEMMA FlushApart ==
  ASSUME TypeOK, TlbInv, tlb' = tlb_flush_all
  PROVE  TlbInv'
<1>1. \A i \in Index : tlb'[i].vpn = -i /\ tlb'[i].asid = 0 /\ i \in Nat
  BY TlbTypes DEF tlb_flush_all, Index
<1>2. QED
  BY <1>1 DEF TlbInv, NoDuplicates

LEMMA TlbStep == TypeOK /\ TlbInv /\ [TrapNext]_trapVars => TlbInv'
<1> SUFFICES ASSUME TypeOK, TlbInv, [TrapNext]_trapVars PROVE TlbInv'
  OBVIOUS
<1>1. ASSUME UNCHANGED tlb PROVE TlbInv'
  BY <1>1 DEF TlbInv, NoDuplicates
<1>2. ASSUME NEW v \in 0..(NV - 1), pgtable_remove(v) PROVE TlbInv'
  BY <1>2, RemoveApart DEF pgtable_remove
<1>3. ASSUME NEW v \in 0..(NV - 1), test_read(v) \/ UserMiss(v) PROVE TlbInv'
  BY <1>1, <1>3, RefillApart DEF test_read, UserMiss
<1>4. ASSUME NEW v \in 0..(NV - 1), handle_pgfault(v) PROVE TlbInv'
  BY <1>1, <1>4, FlushApart DEF handle_pgfault
<1>5. ASSUME NEW v \in 0..(NV - 1), pgtable_insert(v) \/ test_probe(v) PROVE TlbInv'
  BY <1>1, <1>5 DEF pgtable_insert, test_probe
<1>6. CASE task_init \/ handle_int \/ handle_sys \/ UserStep \/ RESTORE_ALL_AND_RET
  BY <1>1, <1>6 DEF task_init, handle_int, handle_sys, UserStep, RESTORE_ALL_AND_RET, mmvars
<1>7. ASSUME NEW t \in Task, switch_task(t) PROVE TlbInv'
  BY <1>1, <1>7 DEF switch_task, mmvars
<1>8. CASE UNCHANGED trapVars
  BY <1>1, <1>8 DEF trapVars
<1>9. CASE Stops
  BY <1>1, <1>9, StopEffect
<1>10. QED
  BY <1>2, <1>3, <1>4, <1>5, <1>6, <1>7, <1>8, <1>9 DEF TrapNext, Halted, Task, Stops

-----------------------------------------------------------------------------
LEMMA InitInv == TrapInit => TypeOK /\ StackInv /\ TlbInv
<1> SUFFICES ASSUME TrapInit PROVE TypeOK /\ StackInv /\ TlbInv
  OBVIOUS
<1>1. Idle \in Task /\ Idle \notin User /\ 0 \in 0..(Steps - 1) /\ 0 \in Nat
  BY StepRange, TrapAssumption DEF Task
<1>2. cpu \in Cpu /\ GoodFrame(cpu, Idle)
  <2>1. Regs(<<Idle, 0>>) \in RegFile /\ <<Idle, 1>> \in Task \X Nat /\ 0 \in Asid
    BY <1>1, RegFiles, Places, TlbTypes
  <2>2. /\ cpu = [regs |-> Regs(<<Idle, 0>>), sp |-> <<Idle, 1>>, asid |-> 0,
                  user |-> FALSE, exl |-> FALSE]
        /\ seen[Idle] = 0
    BY <1>1 DEF TrapInit, ASID_KERNEL, Task
  <2>3. QED
    BY <1>1, <2>1, <2>2 DEF Cpu, GoodFrame
<1>3. TypeOK
  <2>1. next_asid \in 1..ASID_INVALID /\ kernelsp \in Task \X Nat
    BY <1>1, TlbTypes, Places DEF TrapInit, ASID_MIN
  <2>2. DOMAIN mem = {} /\ seen \in [Task -> 0..(Steps - 1)]
    BY <1>1 DEF TrapInit, Task
  <2>3. QED
    BY <1>1, <1>2, <2>1, <2>2, TlbTypes DEF TrapInit, TypeOK
<1>4. StackInv
  BY <1>1, <1>2 DEF TrapInit, StackInv, Task
<1>5. TlbInv
  <2>1. \A i \in Index : tlb[i].vpn = -i /\ tlb[i].asid = 0 /\ i \in Nat
    BY TlbTypes DEF TrapInit, tlb_flush_all, Index
  <2>2. QED
    BY <2>1 DEF TlbInv, NoDuplicates
<1>6. QED
  BY <1>3, <1>4, <1>5

LEMMA Invariance == TrapSpec => [](TypeOK /\ StackInv /\ TlbInv)
<1>1. (TypeOK /\ StackInv /\ TlbInv) /\ [TrapNext]_trapVars => (TypeOK /\ StackInv /\ TlbInv)'
  BY TypeStep, StackStep, TlbStep
<1>2. QED
  BY InitInv, <1>1, PTL DEF TrapSpec

(* Whatever the interrupts, switches, system calls and page faults, and in *)
(* whatever order tasks are chosen, a task that runs finds its registers,  *)
(* its stack and its mode as it left them, and the next trap from user     *)
(* mode puts its frame where task->tf is.                                  *)
THEOREM TasksResumeExactly == TrapSpec => []ResumeExact
<1>1. TypeOK /\ StackInv => ResumeExact
  <2> SUFFICES ASSUME TypeOK, StackInv, mode = "run" PROVE ResumeExact
    BY DEF ResumeExact
  <2>1. GoodFrame(cpu, cur) /\ cpu.user \in BOOLEAN
    BY DEF StackInv, TypeOK, Cpu
  <2>2. FrameAddr = tf(cur)
    BY FramePlace
  <2>3. QED
    BY <2>1, <2>2 DEF ResumeExact, GoodFrame
<1>2. QED
  BY Invariance, <1>1, PTL

(* No refill, removal or flush ever leaves two entries of the TLB for the  *)
(* same pair of pages under the same ASID.                                 *)
THEOREM TlbHasNoDuplicates == TrapSpec => []NoDuplicates
<1>1. TlbInv => NoDuplicates
  BY DEF TlbInv
<1>2. QED
  BY Invariance, <1>1, PTL

-----------------------------------------------------------------------------
(* The page-table tests of the kernel.  Inserting a page does not touch    *)
(* the TLB, and tlb_remove goes by the EntryLo registers of the operation  *)
(* before; what keeps the entries true is the order of the tests: where a  *)
(* page is inserted the TLB is empty, and where one is removed EntryLo is  *)
(* that of its pair.                                                       *)
Ent(p, S) == [h \in {0, 1} |-> IF 2 * p + h \in S THEN <<Idle, 2 * p + h>> ELSE NoPage]

Coherent ==
  \A i \in Index : tlb[i].lo = IF tlb[i].vpn < 0 THEN [h \in {0, 1} |-> NoPage]
                               ELSE Ent(tlb[i].vpn, kmap)

AtInsert == (1..6) \cup {11, 14, 15}

BootInv ==
  mode = "boot" =>
    /\ cpu.asid = 0 /\ online = Flushed /\ next_asid = ASID_MIN
    /\ \A i \in Index : tlb[i].asid = 0
    /\ 0 \in kmap <=> pos \in {2, 3} \cup (6..9) \cup {12, 13} \cup (15..22)
    /\ 1 \in kmap <=> pos \in 7..10
    /\ 2 \in kmap <=> pos \in {3, 4} \cup (16..23)
    /\ pos <= 22 => Coherent
    /\ pos \in AtInsert => \A i \in Index : tlb[i].vpn < 0
    /\ pos \in 7..13 => \A i \in Index : tlb[i].vpn <= 0
    /\ pos \in {8, 9, 10, 13} => \E i \in Index : tlb[i].vpn = 0
    /\ pos \in 7..9 /\ (\E i \in Index : tlb[i].vpn = 0) => lo[1] # NoPage
    /\ pos = 10 => lo[0] = NoPage
    /\ pos \in 11..13 => lo[1] = NoPage

(* The ASID of a user task: in the processor while it runs, else in its frame *)
AsidOf(t) == IF mode = "run" /\ t = cur THEN cpu.asid ELSE mem[tf(t)].asid

MapsOf(t, p) == [h \in {0, 1} |-> IF 2 * p + h \in Maps[t] THEN <<t, 2 * p + h>> ELSE NoPage]

(* The ASIDs given away are below next_asid, each to one task, which has   *)
(* it or is told so by its frame; and what the TLB holds under an ASID is  *)
(* what its task has mapped.                                               *)
AsidInv ==
  mode \in {"run", "kernel"} =>
    /\ online[0] = Idle
    /\ \A a \in Asid : a >= next_asid => online[a] = None
    /\ \A a \in 1..(next_asid - 1) : online[a] \in User
    /\ \A t \in User, a \in Asid : online[a] = t <=> AsidOf(t) = a /\ a # ASID_INVALID
    /\ \A i \in Index : tlb[i].asid # 0 =>
         /\ tlb[i].vpn \in Nat /\ online[tlb[i].asid] \in User
         /\ tlb[i].lo = MapsOf(online[tlb[i].asid], tlb[i].vpn)

(* The tests by their operations *)
LEMMA TestPositions ==
  ASSUME TypeOK, NEW op, NEW v, Testing(op, v)
  PROVE  /\ mode = "boot" /\ pos \in 1..23
         /\ op = "insert" => \/ pos \in {1, 5, 11, 14} /\ v = 0
                             \/ pos \in {2, 15} /\ v = 2
                             \/ pos = 6 /\ v = 1
         /\ op = "remove" => \/ pos \in {3, 9, 13, 22} /\ v = 0
                             \/ pos \in {4, 23} /\ v = 2
                             \/ pos = 10 /\ v = 1
         /\ op = "read" => \/ pos \in {7, 12, 16, 20} /\ v = 0
                           \/ pos \in {17, 21} /\ v = 2
                           \/ pos = 8 /\ v = 1
         /\ op = "probe" => pos \in {18, 19}
<1>1. mode = "boot" /\ pos \in 1..23 /\ Tests[pos] = <<op, v>>
  BY DEF Testing, TypeOK, Tests
<1>2. pos \in {1, 2, 5, 6, 11, 14, 15} \cup {3, 4, 9, 10, 13, 22, 23}
             \cup {7, 8, 12, 16, 17, 20, 21} \cup {18, 19}
  BY <1>1
<1>3. CASE pos \in {1, 2, 5, 6, 11, 14, 15}
  <2>1. op = "insert" /\ v = IF pos \in {2, 15} THEN 2 ELSE IF pos = 6 THEN 1 ELSE 0
    BY <1>1, <1>3 DEF Tests
  <2>2. QED
    BY <1>1, <1>3, <2>1
<1>4. CASE pos \in {3, 4, 9, 10, 13, 22, 23}
  <2>1. op = "remove" /\ v = IF pos \in {4, 23} THEN 2 ELSE IF pos = 10 THEN 1 ELSE 0
    BY <1>1, <1>4 DEF Tests
  <2>2. QED
    BY <1>1, <1>4, <2>1
<1>5. CASE pos \in {7, 8, 12, 16, 17, 20, 21}
  <2>1. op = "read" /\ v = IF pos \in {17, 21} THEN 2 ELSE IF pos = 8 THEN 1 ELSE 0
    BY <1>1, <1>5 DEF Tests
  <2>2. QED
    BY <1>1, <1>5, <2>1
<1>6. CASE pos \in {18, 19}
  <2>1. op = "probe"
    BY <1>1, <1>6 DEF Tests
  <2>2. QED
    BY <1>1, <1>6, <2>1
<1>7. QED
  BY <1>2, <1>3, <1>4, <1>5, <1>6

(* What the kernel reads in the tests is mapped, and the TLB has it or can *)
(* be given it.                                                            *)
LEMMA BootEntries ==
  ASSUME TypeOK, BootInv, mode = "boot", NEW v \in 0..(NV - 1)
  PROVE  /\ Mapped(cpu.asid) = kmap /\ Entries(v) = Ent(Pair(v), kmap)
         /\ \A i \in Index : i \in Match(v) <=> tlb[i].vpn = Pair(v)
         /\ v \in kmap => Ent(Pair(v), kmap)[Half(v)] # NoPage
         /\ v \in kmap => Refillable(v)
<1>1. cpu.asid = 0 /\ online[0] = Idle /\ Idle # None /\ \A i \in Index : tlb[i].asid = 0
  BY TrapAssumption, TlbTypes DEF BootInv, Flushed, ASID_KERNEL, Asid
<1>2. Mapped(cpu.asid) = kmap
  BY <1>1 DEF Mapped
<1>3. Entries(v) = Ent(Pair(v), kmap)
  BY <1>1, <1>2 DEF Entries, Ent
<1>4. \A i \in Index : i \in Match(v) <=> tlb[i].vpn = Pair(v)
  BY <1>1 DEF Match
<1>5. Pair(v) \in Nat /\ Half(v) \in {0, 1} /\ v = 2 * Pair(v) + Half(v)
  BY TlbTypes
<1>6. ASSUME v \in kmap PROVE Ent(Pair(v), kmap)[Half(v)] # NoPage
  <2>1. Ent(Pair(v), kmap)[Half(v)] = <<Idle, v>>
    BY <1>5, <1>6 DEF Ent
  <2>2. QED
    BY <1>1, <2>1 DEF NoPage
<1>7. ASSUME v \in kmap PROVE Refillable(v)
  BY <1>3, <1>5, <1>6, <1>7 DEF Refillable
<1>8. QED
  BY <1>2, <1>3, <1>4, <1>6, <1>7

LEMMA ReadsMapped ==
  ASSUME TypeOK, BootInv, NEW v \in 0..(NV - 1), Testing("read", v)
  PROVE  v \in kmap /\ Refillable(v) /\ (Match(v) # {} => Hit(v)) /\ pos <= 22
<1>1. mode = "boot" /\ v \in kmap /\ pos <= 22
  BY TestPositions DEF BootInv
<1>2. Pair(v) \in Nat
  BY TlbTypes
<1>3. ASSUME NEW i \in Match(v) PROVE Hit(v)
  <2>1. i \in Index /\ tlb[i].vpn = Pair(v) /\ tlb[i].lo = Ent(Pair(v), kmap)
    BY <1>1, <1>2, <1>3, BootEntries DEF Match, BootInv, Coherent
  <2>2. QED
    BY <1>1, <2>1, BootEntries DEF Hit
<1>4. QED
  BY <1>1, <1>3, BootEntries

(* One removal, as a change of one entry *)
LEMMA RemoveEffect ==
  ASSUME TypeOK, BootInv, mode = "boot", NEW v \in 0..(NV - 1), tlb_remove(v)
  PROVE  \E i \in Index :
           /\ Match(v) # {} => tlb[i].vpn = Pair(v)
           /\ lo' = [tlb[i].lo EXCEPT ![Half(v)] = NoPage]
           /\ tlb'[i].lo = lo' /\ tlb'[i].asid = 0 /\ cpu'.asid = 0
           /\ tlb'[i].vpn = IF lo[1 - Half(v)] = NoPage THEN -i ELSE tlb[i].vpn
           /\ \A j \in Index : j # i => tlb'[j] = tlb[j]
<1>1. PICK i \in Index :
        /\ Match(v) # {} => i \in Match(v)
        /\ LET left == [tlb[i].lo EXCEPT ![Half(v)] = NoPage]
           IN /\ lo' = left
              /\ IF lo[1 - Half(v)] = NoPage
                 THEN /\ tlb' = [tlb EXCEPT ![i] = [DUMMY(i) EXCEPT !.lo = left]]
                      /\ cpu' = [cpu EXCEPT !.asid = DUMMY(i).asid]
                 ELSE /\ tlb' = [tlb EXCEPT ![i].lo = left]
                      /\ cpu' = [cpu EXCEPT !.asid = tlb[i].asid]
  BY DEF tlb_remove, Match
<1>2. DUMMY(i) \in Entry /\ DUMMY(i).asid = 0 /\ DUMMY(i).vpn = -i /\ tlb[i] \in Entry
  BY TlbTypes DEF TypeOK
<1>3. tlb[i].asid = 0 /\ cpu \in Cpu /\ tlb \in [Index -> Entry]
  BY DEF BootInv, TypeOK
<1>4. cpu'.asid = 0
  BY <1>1, <1>2, <1>3 DEF Cpu
<1>5. \A j \in Index : j # i => tlb'[j] = tlb[j]
  BY <1>1, <1>3
<1>6. CASE lo[1 - Half(v)] = NoPage
  <2>1. tlb'[i] = [DUMMY(i) EXCEPT !.lo = lo']
    BY <1>1, <1>3, <1>6
  <2>2. tlb'[i].lo = lo' /\ tlb'[i].asid = 0 /\ tlb'[i].vpn = -i
    BY <1>2, <2>1 DEF Entry
  <2>3. QED
    BY <1>1, <1>4, <1>5, <1>6, <2>2 DEF Match
<1>7. CASE lo[1 - Half(v)] # NoPage
  <2>1. tlb'[i] = [tlb[i] EXCEPT !.lo = lo']
    BY <1>1, <1>3, <1>7
  <2>2. tlb'[i].lo = lo' /\ tlb'[i].asid = 0 /\ tlb'[i].vpn = tlb[i].vpn
    BY <1>2, <1>3, <2>1 DEF Entry
  <2>3. QED
    BY <1>1, <1>4, <1>5, <1>7, <2>2 DEF Match
<1>8. QED
  BY <1>6, <1>7

LEMMA LowPair ==
  \A S : Ent(0, S) = [h \in {0, 1} |-> IF h \in S THEN <<Idle, h>> ELSE NoPage]
  BY DEF Ent

LEMMA BootInsert ==
  ASSUME TypeOK, BootInv, NEW v \in 0..(NV - 1), pgtable_insert(v)
  PROVE  BootInv'
<1>1. Testing("insert", v) /\ pos' = pos + 1 /\ kmap' = kmap \cup {v} /\ mode' = mode
      /\ UNCHANGED <<cpu, online, next_asid, tlb, lo>>
  BY DEF pgtable_insert, taskvars
<1>2. /\ mode = "boot" /\ pos \in 1..23 /\ pos \in AtInsert
      /\ \/ pos \in {1, 5, 11, 14} /\ v = 0
         \/ pos \in {2, 15} /\ v = 2
         \/ pos = 6 /\ v = 1
  BY <1>1, TestPositions DEF AtInsert
<1>3. \A i \in Index : tlb[i].vpn < 0 /\ tlb[i].vpn \in Int
  BY <1>2 DEF BootInv, TypeOK, Entry
<1>4. Coherent'
  BY <1>1, <1>2, <1>3 DEF BootInv, Coherent
<1>5. /\ 0 \in kmap' <=> pos' \in {2, 3} \cup (6..9) \cup {12, 13} \cup (15..22)
      /\ 1 \in kmap' <=> pos' \in 7..10
      /\ 2 \in kmap' <=> pos' \in {3, 4} \cup (16..23)
  BY <1>1, <1>2 DEF BootInv
<1>6. pos' \in 11..13 => lo'[1] = NoPage
  BY <1>1, <1>2 DEF BootInv
<1>7. pos' \notin {8, 9, 10, 13} /\ pos' # 10
  BY <1>1, <1>2
<1>8. QED
  BY <1>1, <1>2, <1>3, <1>4, <1>5, <1>6, <1>7 DEF BootInv

LEMMA BootRemove ==
  ASSUME TypeOK, TlbInv, BootInv, NEW v \in 0..(NV - 1), pgtable_remove(v)
  PROVE  BootInv'
<1>1. Testing("remove", v) /\ pos' = pos + 1 /\ kmap' = kmap \ {v} /\ mode' = mode
      /\ tlb_remove(v) /\ UNCHANGED <<online, next_asid>>
  BY DEF pgtable_remove
<1>2. /\ mode = "boot" /\ pos \in 1..23
      /\ \/ pos \in {3, 9, 13, 22} /\ v = 0
         \/ pos \in {4, 23} /\ v = 2
         \/ pos = 10 /\ v = 1
  BY <1>1, TestPositions
<1>3. PICK i \in Index :
        /\ Match(v) # {} => tlb[i].vpn = Pair(v)
        /\ lo' = [tlb[i].lo EXCEPT ![Half(v)] = NoPage]
        /\ tlb'[i].lo = lo' /\ tlb'[i].asid = 0 /\ cpu'.asid = 0
        /\ tlb'[i].vpn = IF lo[1 - Half(v)] = NoPage THEN -i ELSE tlb[i].vpn
        /\ \A j \in Index : j # i => tlb'[j] = tlb[j]
  BY <1>1, <1>2, RemoveEffect
<1>4. /\ 0 \in kmap' <=> pos' \in {2, 3} \cup (6..9) \cup {12, 13} \cup (15..22)
      /\ 1 \in kmap' <=> pos' \in 7..10
      /\ 2 \in kmap' <=> pos' \in {3, 4} \cup (16..23)
  BY <1>1, <1>2 DEF BootInv
<1>5. /\ cpu'.asid = 0 /\ online' = Flushed /\ next_asid' = ASID_MIN
      /\ \A j \in Index : tlb'[j].asid = 0
  BY <1>1, <1>2, <1>3 DEF BootInv
<1>6. /\ i \in Nat \ {0} /\ \A j \in Index : tlb[j].vpn \in Int
      /\ tlb[i].lo \in [{0, 1} -> Page]
  <2>1. tlb[i] \in Entry /\ \A j \in Index : tlb[j] \in Entry
    BY DEF TypeOK
  <2>2. i \in Nat \ {0}
    BY TlbTypes DEF Index
  <2>3. QED
    BY <2>1, <2>2 DEF Entry
<1>7. CASE pos \in {3, 4}
  <2>1. \A j \in Index : tlb[j].vpn < 0 /\ tlb[j].lo = [h \in {0, 1} |-> NoPage]
    BY <1>2, <1>7 DEF BootInv, AtInsert, Coherent
  <2>2. \A j \in Index : tlb'[j].vpn < 0 /\ tlb'[j].lo = [h \in {0, 1} |-> NoPage]
    <3>1. lo' = [h \in {0, 1} |-> NoPage]
      BY <1>3, <2>1
    <3>2. QED
      BY <1>3, <1>6, <2>1, <3>1
  <2>3. pos' \in {4, 5}
    BY <1>1, <1>7
  <2>4. QED
    BY <1>4, <1>5, <2>2, <2>3 DEF BootInv, Coherent
<1>8. CASE pos = 9
  <2>1. v = 0 /\ Half(v) = 0 /\ Pair(v) = 0 /\ pos' = 10
    BY <1>1, <1>2, <1>8 DEF Half, Pair
  <2>2. tlb[i].vpn = 0 /\ lo[1] # NoPage
    BY <1>2, <1>3, <1>8, <2>1, BootEntries DEF BootInv
  <2>3. tlb[i].lo = Ent(0, kmap) /\ tlb'[i].vpn = 0
    BY <1>2, <1>3, <1>8, <2>1, <2>2 DEF BootInv, Coherent
  <2>4. lo' = Ent(0, kmap') /\ lo'[0] = NoPage
    <3>1. /\ Ent(0, kmap) = [h \in {0, 1} |-> IF h \in kmap THEN <<Idle, h>> ELSE NoPage]
          /\ Ent(0, kmap') = [h \in {0, 1} |-> IF h \in kmap' THEN <<Idle, h>> ELSE NoPage]
      BY LowPair
    <3>2. 1 \in kmap' <=> 1 \in kmap
      BY <1>1, <2>1
    <3>3. 0 \notin kmap'
      BY <1>1, <2>1
    <3>4. QED
      BY <1>3, <2>1, <2>3, <3>1, <3>2, <3>3
  <2>5. ASSUME NEW j \in Index, j # i PROVE tlb[j].vpn < 0
    BY <1>2, <1>6, <1>8, <2>2, <2>5 DEF BootInv, TlbInv, NoDuplicates
  <2>6. Coherent'
    <3>1. \A j \in Index : j # i => tlb'[j].lo = [h \in {0, 1} |-> NoPage] /\ tlb'[j].vpn < 0
      BY <1>2, <1>3, <1>8, <2>5 DEF BootInv, Coherent
    <3>2. QED
      BY <1>3, <2>3, <2>4, <3>1 DEF Coherent
  <2>7. \A j \in Index : tlb'[j].vpn <= 0
    BY <1>3, <1>6, <2>3, <2>5
  <2>8. QED
    BY <1>4, <1>5, <2>1, <2>3, <2>4, <2>6, <2>7 DEF BootInv, AtInsert
<1>9. CASE pos \in {10, 13}
  <2>1. /\ Half(v) = (IF pos = 10 THEN 1 ELSE 0) /\ Pair(v) = 0 /\ pos' \in {11, 14}
        /\ v = (IF pos = 10 THEN 1 ELSE 0)
    BY <1>1, <1>2, <1>9 DEF Half, Pair
  <2>2. tlb[i].vpn = 0 /\ lo[1 - Half(v)] = NoPage
    <3>1. CASE pos = 10
      BY <1>2, <1>3, <2>1, <3>1, BootEntries DEF BootInv
    <3>2. CASE pos = 13
      BY <1>2, <1>3, <2>1, <3>2, BootEntries DEF BootInv
    <3>3. QED
      BY <1>9, <3>1, <3>2
  <2>3. tlb[i].lo = Ent(0, kmap) /\ tlb'[i].vpn = -i
    BY <1>2, <1>3, <1>9, <2>2 DEF BootInv, Coherent
  <2>4. lo' = [h \in {0, 1} |-> NoPage]
    <3>1. \A h \in {0, 1} : h # Half(v) => h \notin kmap
      BY <1>2, <1>9, <2>1 DEF BootInv
    <3>2. Ent(0, kmap) = [h \in {0, 1} |-> IF h \in kmap THEN <<Idle, h>> ELSE NoPage]
      BY LowPair
    <3>3. QED
      BY <1>3, <2>1, <2>3, <3>1, <3>2
  <2>5. ASSUME NEW j \in Index, j # i PROVE tlb[j].vpn < 0
    BY <1>2, <1>6, <1>9, <2>2, <2>5 DEF BootInv, TlbInv, NoDuplicates
  <2>6. \A j \in Index : tlb'[j].vpn < 0 /\ tlb'[j].lo = [h \in {0, 1} |-> NoPage]
    BY <1>2, <1>3, <1>6, <1>9, <2>3, <2>4, <2>5 DEF BootInv, Coherent
  <2>7. lo'[1] = NoPage
    BY <2>4
  <2>8. ASSUME NEW j \in Index PROVE tlb'[j].vpn <= 0
    <3>1. CASE j = i
      BY <1>6, <2>3, <3>1
    <3>2. CASE j # i
      <4>1. tlb'[j].vpn = tlb[j].vpn
        BY <1>3, <3>2
      <4>2. tlb[j].vpn < 0 /\ tlb[j].vpn \in Int
        BY <1>6, <2>5, <3>2
      <4>3. QED
        BY <4>1, <4>2
    <3>3. QED
      BY <3>1, <3>2
  <2>9. QED
    BY <1>4, <1>5, <2>1, <2>6, <2>7, <2>8 DEF BootInv, Coherent
<1>10. CASE pos \in {22, 23}
  <2>1. pos' \in {23, 24}
    BY <1>1, <1>10
  <2>2. QED
    BY <1>4, <1>5, <2>1 DEF BootInv, AtInsert
<1>11. QED
  BY <1>2, <1>7, <1>8, <1>9, <1>10

LEMMA BootRead ==
  ASSUME TypeOK, BootInv, NEW v \in 0..(NV - 1), test_read(v)
  PROVE  BootInv' /\ mode' = "boot"
<1>1. /\ Testing("read", v) /\ UNCHANGED <<cpu, kmap, online, next_asid>>
      /\ \/ Hit(v) /\ pos' = pos + 1 /\ UNCHANGED <<mode, tlb, lo>>
         \/ xtlb_refill(v) /\ UNCHANGED <<pos, mode>>
         \/ ~Hit(v) /\ (Match(v) # {} \/ ~Refillable(v))
  BY DEF test_read, taskvars
<1>2. /\ mode = "boot" /\ pos \in 1..23
      /\ \/ pos \in {7, 12, 16, 20} /\ v = 0
         \/ pos \in {17, 21} /\ v = 2
         \/ pos = 8 /\ v = 1
  BY <1>1, TestPositions
<1>3. v \in kmap /\ Refillable(v) /\ (Match(v) # {} => Hit(v))
  BY <1>1, ReadsMapped
<1>4. /\ cpu.asid = 0 /\ online = Flushed /\ next_asid = ASID_MIN
      /\ \A i \in Index : tlb[i].asid = 0
      /\ 0 \in kmap <=> pos \in {2, 3} \cup (6..9) \cup {12, 13} \cup (15..22)
      /\ 1 \in kmap <=> pos \in 7..10
      /\ 2 \in kmap <=> pos \in {3, 4} \cup (16..23)
      /\ Coherent
  BY <1>2 DEF BootInv
<1>5. Pair(v) = (IF v = 2 THEN 1 ELSE 0)
  BY <1>2 DEF Pair
<1>6. CASE Hit(v) /\ pos' = pos + 1 /\ UNCHANGED <<mode, tlb, lo>>
  <2>1. pos \in {7, 8, 12} => \E i \in Index : tlb[i].vpn = 0
    <3>1. PICK i \in Match(v) : TRUE
      BY <1>6 DEF Hit
    <3>2. i \in Index /\ tlb[i].vpn = Pair(v)
      BY <3>1 DEF Match
    <3>3. QED
      BY <1>2, <1>5, <3>2
  <2>2. pos' \in {8, 9, 13, 17, 18, 21, 22}
    BY <1>2, <1>6
  <2>3. Coherent'
    BY <1>1, <1>4, <1>6 DEF Coherent
  <2>4. /\ 0 \in kmap' <=> pos' \in {2, 3} \cup (6..9) \cup {12, 13} \cup (15..22)
        /\ 1 \in kmap' <=> pos' \in 7..10
        /\ 2 \in kmap' <=> pos' \in {3, 4} \cup (16..23)
    BY <1>1, <1>2, <1>4, <1>6
  <2>5. pos' \in 7..13 => pos \in 7..13 /\ \A i \in Index : tlb'[i].vpn <= 0
    BY <1>2, <1>6 DEF BootInv
  <2>6. pos' \in {8, 9, 10, 13} => \E i \in Index : tlb'[i].vpn = 0
    BY <1>2, <1>6, <2>1
  <2>7. /\ pos' \in 7..9 /\ (\E i \in Index : tlb'[i].vpn = 0) => lo'[1] # NoPage
        /\ pos' \in 11..13 => lo'[1] = NoPage
    BY <1>2, <1>6 DEF BootInv
  <2>8. QED
    BY <1>1, <1>2, <1>4, <1>6, <2>2, <2>3, <2>4, <2>5, <2>6, <2>7 DEF BootInv, AtInsert
<1>7. CASE xtlb_refill(v) /\ UNCHANGED <<pos, mode>>
  <2>1. PICK i \in Index :
          tlb' = [tlb EXCEPT ![i] = [vpn |-> Pair(v), asid |-> cpu.asid, lo |-> Entries(v)]]
    BY <1>7 DEF xtlb_refill
  <2>2. Entries(v) = Ent(Pair(v), kmap) /\ lo' = Entries(v)
    BY <1>2, <1>7, BootEntries DEF xtlb_refill
  <2>3. /\ tlb'[i].vpn = Pair(v) /\ tlb'[i].asid = 0 /\ tlb'[i].lo = Ent(Pair(v), kmap)
        /\ \A j \in Index : j # i => tlb'[j] = tlb[j]
    BY <1>4, <2>1, <2>2 DEF TypeOK
  <2>4. Coherent'
    BY <1>1, <1>4, <1>5, <2>3 DEF Coherent
  <2>5. pos' \in 7..13 => \A j \in Index : tlb'[j].vpn <= 0
    BY <1>2, <1>5, <1>7, <2>3 DEF BootInv
  <2>6. ~(Match(v) # {})
    BY <1>7 DEF xtlb_refill
  <2>7. pos # 8
    BY <1>2, <1>5, <2>6, BootEntries DEF BootInv
  <2>8. pos' \in {7, 12, 16, 20, 17, 21}
    BY <1>2, <1>7, <2>7
  <2>9. pos = 7 => lo'[1] # NoPage
    <3>1. pos = 7 => lo'[1] = <<Idle, 1>>
      BY <1>2, <1>4, <1>5, <2>2, LowPair
    <3>2. QED
      BY <3>1, TrapAssumption DEF NoPage
  <2>10. pos = 12 => lo'[1] = NoPage
    BY <1>2, <1>4, <1>5, <2>2, LowPair
  <2>11. QED
    BY <1>1, <1>2, <1>4, <1>7, <2>3, <2>4, <2>5, <2>8, <2>9, <2>10 DEF BootInv, AtInsert
<1>8. QED
  BY <1>1, <1>2, <1>3, <1>6, <1>7

LEMMA BootProbe ==
  ASSUME TypeOK, BootInv, NEW v \in 0..(NV - 1), test_probe(v)
  PROVE  BootInv'
<1>1. /\ Testing("probe", v) /\ pos' = pos + 1 /\ UNCHANGED <<mode, kmap, tlb, online, next_asid>>
      /\ \E i \in Index : cpu' = [cpu EXCEPT !.asid = tlb[i].asid]
  BY DEF test_probe, Match
<1>2. mode = "boot" /\ pos \in {18, 19} /\ pos' \in {19, 20}
  BY <1>1, TestPositions
<1>3. cpu'.asid = 0
  BY <1>1, <1>2 DEF BootInv, TypeOK, Cpu
<1>4. Coherent'
  BY <1>1, <1>2 DEF BootInv, Coherent
<1>5. QED
  BY <1>1, <1>2, <1>3, <1>4 DEF BootInv, AtInsert

LEMMA BootStep == TypeOK /\ TlbInv /\ BootInv /\ [TrapNext]_trapVars => BootInv'
<1> SUFFICES ASSUME TypeOK, TlbInv, BootInv, [TrapNext]_trapVars PROVE BootInv'
  OBVIOUS
<1>1. ASSUME mode' # "boot" PROVE BootInv'
  BY <1>1 DEF BootInv
<1>2. ASSUME NEW v \in 0..(NV - 1),
             pgtable_insert(v) \/ pgtable_remove(v) \/ test_probe(v) \/ test_read(v)
      PROVE  BootInv'
  BY <1>2, BootInsert, BootRemove, BootProbe, BootRead
<1>3. ASSUME NEW v \in 0..(NV - 1), UserMiss(v) \/ handle_pgfault(v) PROVE BootInv'
  BY <1>1, <1>3 DEF UserMiss, handle_pgfault, Enter
<1>4. CASE task_init \/ handle_int \/ handle_sys \/ UserStep \/ RESTORE_ALL_AND_RET
  BY <1>1, <1>4 DEF task_init, handle_int, handle_sys, UserStep, RESTORE_ALL_AND_RET, Enter
<1>5. ASSUME NEW t \in Task, switch_task(t) PROVE BootInv'
  BY <1>1, <1>5 DEF switch_task
<1>6. CASE UNCHANGED trapVars
  BY <1>6 DEF trapVars, BootInv, Coherent
<1>7. CASE Stops
  BY <1>1, <1>7, StopEffect
<1>8. QED
  BY <1>2, <1>3, <1>4, <1>5, <1>6, <1>7 DEF TrapNext, Halted, Task, Stops

-----------------------------------------------------------------------------
(* There is an ASID for every user task.  Without it asid_flush takes the  *)
(* ASIDs back, but not from the trap frames of the tasks (AsidsReverted),  *)
(* and what follows does not hold.                                         *)
EnoughAsids == IsFiniteSet(User) /\ Cardinality(User) < ASID_INVALID

(* The ASID of a user task that runs *)
LEMMA RunningAsid ==
  ASSUME TypeOK, StackInv, AsidInv, mode = "run", cpu.user
  PROVE  /\ cur \in User /\ cur # Idle /\ cur # None /\ AsidOf(cur) = cpu.asid
         /\ cpu.asid \in Asid /\ cpu.asid # 0 /\ online[ASID_INVALID] = None
         /\ cpu.asid # ASID_INVALID =>
              online[cpu.asid] = cur /\ \A v : Entries(v) = MapsOf(cur, Pair(v))
         /\ cpu.asid = ASID_INVALID => \A v : ~Refillable(v)
<1>1. cur \in User /\ cur # Idle /\ cur # None /\ cpu.asid \in Asid
  BY TrapAssumption DEF StackInv, GoodFrame, TypeOK, Cpu
<1>2. AsidOf(cur) = cpu.asid
  BY DEF AsidOf
<1>3. online[0] = Idle /\ 0 # ASID_INVALID /\ online[ASID_INVALID] = None
  BY TlbTypes DEF AsidInv, TypeOK
<1>4. \A a \in Asid : online[a] = cur <=> cpu.asid = a /\ a # ASID_INVALID
  BY <1>1, <1>2 DEF AsidInv
<1>5. cpu.asid # 0
  BY <1>1, <1>3, <1>4, TlbTypes
<1>6. ASSUME cpu.asid # ASID_INVALID
      PROVE  online[cpu.asid] = cur /\ \A v : Entries(v) = MapsOf(cur, Pair(v))
  <2>1. online[cpu.asid] = cur
    BY <1>1, <1>4, <1>6
  <2>2. Mapped(cpu.asid) = Maps[cur]
    BY <1>1, <2>1 DEF Mapped
  <2>3. QED
    BY <2>1, <2>2 DEF Entries, MapsOf
<1>7. ASSUME cpu.asid = ASID_INVALID PROVE \A v : ~Refillable(v)
  <2>1. Mapped(cpu.asid) = {}
    BY <1>3, <1>7 DEF Mapped
  <2>2. QED
    BY <2>1 DEF Refillable, Entries
<1>8. QED
  BY <1>1, <1>2, <1>3, <1>5, <1>6, <1>7

(* As every ASID given away belongs to another task, a task without one    *)
(* finds one left.                                                         *)
LEMMA AsidLeft ==
  ASSUME EnoughAsids, TypeOK, StackInv, AsidInv, mode = "run", cpu.user, cpu.asid = ASID_INVALID
  PROVE  next_asid # ASID_INVALID
<1> SUFFICES ASSUME next_asid = ASID_INVALID PROVE FALSE
  OBVIOUS
<1> DEFINE n == ASID_INVALID - 1
           Others == User \ {cur}
           f == [a \in 1..n |-> online[a]]
<1>1. n \in Nat /\ 1..n \subseteq Asid /\ \A a \in 1..n : a # ASID_INVALID
  BY TlbTypes DEF Asid
<1>2. IsFiniteSet(1..n) /\ Cardinality(1..n) = n
  BY <1>1, FS_Interval
<1>3. IsFiniteSet(Others) /\ Cardinality(Others) = Cardinality(User) - 1
      /\ Cardinality(User) \in Nat
  BY RunningAsid, FS_RemoveElement, FS_CardinalityType DEF EnoughAsids
<1>4. \A a \in 1..n : online[a] \in User
  BY DEF AsidInv
<1>5. \A a \in 1..n : AsidOf(online[a]) = a
  BY <1>1, <1>4 DEF AsidInv
<1>6. f \in Injection(1..n, Others)
  <2>1. ASSUME NEW a \in 1..n PROVE online[a] \in Others
    BY <1>1, <1>4, <1>5, RunningAsid
  <2>2. ASSUME NEW a \in 1..n, NEW b \in 1..n, f[a] = f[b] PROVE a = b
    BY <1>5, <2>2
  <2>3. QED
    BY <2>1, <2>2 DEF Injection, IsInjective
<1>7. Cardinality(1..n) <= Cardinality(Others)
  BY <1>2, <1>3, <1>6, FS_Injection
<1>8. QED
  BY <1>1, <1>2, <1>3, <1>7, TlbTypes DEF EnoughAsids

(* A step that changes neither ASIDs nor the TLB *)
LEMMA AsidsKept ==
  ASSUME AsidInv, mode \in {"run", "kernel"}, UNCHANGED <<online, next_asid, tlb>>,
         \A t \in User : AsidOf(t)' = AsidOf(t)
  PROVE  AsidInv'
  BY DEF AsidInv

(* A trap that does not change the ASID of the task *)
LEMMA EnterKeeps ==
  ASSUME TypeOK, StackInv, AsidInv, mode = "run", NEW f \in Cpu, Enter(f), f.asid = cpu.asid,
         UNCHANGED <<cur, online, next_asid, tlb>>
  PROVE  AsidInv'
<1>1. /\ mode' = "kernel" /\ tf(cur) \in DOMAIN mem' /\ mem'[tf(cur)] = f
      /\ \A b \in DOMAIN mem : b # tf(cur) => b \in DOMAIN mem' /\ mem'[b] = mem[b]
  BY EnterEffect
<1>2. ASSUME NEW t \in User PROVE AsidOf(t)' = AsidOf(t)
  <2>1. t \in Task /\ cur \in Task
    BY DEF Task, TypeOK
  <2>2. CASE t = cur
    BY <1>1, <2>2 DEF AsidOf
  <2>3. CASE t # cur
    BY <1>1, <2>1, <2>3, Places DEF AsidOf, StackInv
  <2>4. QED
    BY <2>2, <2>3
<1>3. QED
  BY <1>2, AsidsKept

LEMMA AsidFault ==
  ASSUME EnoughAsids, TypeOK, StackInv, AsidInv, NEW v \in 0..(NV - 1), handle_pgfault(v),
         mode' # "panic"
  PROVE  AsidInv'
<1>1. mode = "run" /\ cpu.user /\ cpu.asid = ASID_INVALID /\ UNCHANGED cur
  BY DEF handle_pgfault
<1>2. next_asid # ASID_INVALID
  BY <1>1, AsidLeft
<1> DEFINE a == next_asid
           f == [Frame EXCEPT !.asid = a]
<1>3. /\ Enter(f) /\ tlb' = tlb /\ online' = [online EXCEPT ![a] = cur] /\ next_asid' = a + 1
  BY <1>1, <1>2 DEF handle_pgfault, Successor
<1>4. a \in Asid /\ a \in 1..(ASID_INVALID - 1) /\ ASID_INVALID \in Nat
  BY <1>2, TlbTypes DEF TypeOK, Asid
<1>5. f \in Cpu /\ f.asid = a
  BY <1>4, FrameTypes DEF Frame
<1> HIDE DEF f
<1>6. /\ mode' = "kernel" /\ tf(cur) \in DOMAIN mem' /\ mem'[tf(cur)] = f
      /\ \A b \in DOMAIN mem : b # tf(cur) => b \in DOMAIN mem' /\ mem'[b] = mem[b]
  BY <1>1, <1>3, <1>5, EnterEffect
<1>7. AsidOf(cur)' = a /\ AsidOf(cur) = ASID_INVALID /\ cur \in User /\ cur' = cur
  BY <1>1, <1>5, <1>6, RunningAsid DEF AsidOf
<1>8. ASSUME NEW t \in User, t # cur PROVE AsidOf(t)' = AsidOf(t)
  <2>1. t \in Task /\ cur \in Task
    BY DEF Task, TypeOK
  <2>2. QED
    BY <1>1, <1>6, <1>8, <2>1, Places DEF AsidOf, StackInv
<1>9. /\ online'[a] = cur /\ online[a] = None
      /\ \A b \in Asid : b # a => online'[b] = online[b]
  BY <1>1, <1>3, <1>4 DEF TypeOK, AsidInv
<1>10. online'[0] = Idle /\ \A b \in Asid : b >= next_asid' => online'[b] = None
  BY <1>1, <1>3, <1>4, <1>9, TlbTypes DEF AsidInv, Asid
<1>11. \A b \in 1..(next_asid' - 1) : online'[b] \in User
  BY <1>1, <1>3, <1>4, <1>7, <1>9 DEF AsidInv, Asid
<1>12. ASSUME NEW t \in User, NEW b \in Asid
       PROVE  online'[b] = t <=> AsidOf(t)' = b /\ b # ASID_INVALID
  <2>1. online[b] = t <=> AsidOf(t) = b /\ b # ASID_INVALID
    BY <1>1 DEF AsidInv
  <2>2. t # None
    BY TrapAssumption
  <2>3. CASE t = cur
    BY <1>4, <1>7, <1>9, <2>1, <2>3
  <2>4. CASE t # cur
    BY <1>4, <1>8, <1>9, <2>1, <2>2, <2>4
  <2>5. QED
    BY <2>3, <2>4
<1>13. ASSUME NEW i \in Index, tlb'[i].asid # 0
       PROVE  /\ tlb'[i].vpn \in Nat /\ online'[tlb'[i].asid] \in User
              /\ tlb'[i].lo = MapsOf(online'[tlb'[i].asid], tlb'[i].vpn)
  <2>1. /\ tlb[i].vpn \in Nat /\ online[tlb[i].asid] \in User
        /\ tlb[i].lo = MapsOf(online[tlb[i].asid], tlb[i].vpn)
    BY <1>1, <1>3, <1>13 DEF AsidInv
  <2>2. tlb[i].asid # a /\ tlb[i].asid \in Asid
    BY <1>9, <2>1, TrapAssumption DEF TypeOK, Entry
  <2>3. QED
    BY <1>3, <1>9, <2>1, <2>2
<1>14. QED
  BY <1>6, <1>10, <1>11, <1>12, <1>13 DEF AsidInv

LEMMA AsidMiss ==
  ASSUME TypeOK, StackInv, AsidInv, NEW v \in 0..(NV - 1), UserMiss(v)
  PROVE  AsidInv'
<1>1. /\ mode = "run" /\ cpu.user /\ xtlb_refill(v)
      /\ UNCHANGED <<mode, cur, cpu, mem, online, next_asid>>
  BY DEF UserMiss, taskvars
<1>2. cur \in User /\ cpu.asid # ASID_INVALID /\ online[cpu.asid] = cur
      /\ Entries(v) = MapsOf(cur, Pair(v))
  BY <1>1, RunningAsid DEF xtlb_refill
<1>3. PICK i \in Index :
        tlb' = [tlb EXCEPT ![i] = [vpn |-> Pair(v), asid |-> cpu.asid, lo |-> Entries(v)]]
  BY <1>1 DEF xtlb_refill
<1>4. /\ tlb'[i].vpn = Pair(v) /\ tlb'[i].asid = cpu.asid /\ tlb'[i].lo = Entries(v)
      /\ \A j \in Index : j # i => tlb'[j] = tlb[j]
  BY <1>3 DEF TypeOK
<1>5. ASSUME NEW j \in Index, tlb'[j].asid # 0
      PROVE  /\ tlb'[j].vpn \in Nat /\ online'[tlb'[j].asid] \in User
             /\ tlb'[j].lo = MapsOf(online'[tlb'[j].asid], tlb'[j].vpn)
  <2>1. CASE j = i
    BY <1>1, <1>2, <1>4, <2>1, TlbTypes
  <2>2. CASE j # i
    BY <1>1, <1>4, <1>5, <2>2 DEF AsidInv
  <2>3. QED
    BY <2>1, <2>2
<1>6. \A t \in User : AsidOf(t)' = AsidOf(t)
  BY <1>1 DEF AsidOf
<1>7. QED
  BY <1>1, <1>5, <1>6 DEF AsidInv

LEMMA AsidStep ==
  EnoughAsids /\ TypeOK /\ StackInv /\ BootInv /\ AsidInv /\ [TrapNext]_trapVars => AsidInv'
<1> SUFFICES ASSUME EnoughAsids, TypeOK, StackInv, BootInv, AsidInv, [TrapNext]_trapVars PROVE AsidInv'
  OBVIOUS
<1> USE DEF taskvars, mmvars
<1>1. ASSUME mode' \notin {"run", "kernel"} PROVE AsidInv'
  BY <1>1 DEF AsidInv
<1>2. ASSUME NEW v \in 0..(NV - 1),
             pgtable_insert(v) \/ pgtable_remove(v) \/ test_probe(v) \/ test_read(v)
      PROVE  AsidInv'
  BY <1>1, <1>2 DEF pgtable_insert, pgtable_remove, test_probe, test_read, Testing
<1>3. ASSUME NEW v \in 0..(NV - 1), UserMiss(v) PROVE AsidInv'
  BY <1>3, AsidMiss
<1>4. ASSUME NEW v \in 0..(NV - 1), handle_pgfault(v) PROVE AsidInv'
  BY <1>1, <1>4, AsidFault
<1>5. CASE task_init
  <2>1. /\ mode = "boot" /\ mode' = "run" /\ UNCHANGED <<cur, cpu, tlb, online, next_asid>>
        /\ mem' = [a \in {context(t) : t \in User} \cup {tf(t) : t \in User} |->
                     IF a = tf(a[1]) THEN FirstFrame(a[1]) ELSE FirstContext(a[1])]
    BY <1>5 DEF task_init
  <2>2. /\ cur = Idle /\ online = Flushed /\ next_asid = 1 /\ Idle \notin User
        /\ \A i \in Index : tlb[i].asid = 0
    BY <2>1, TrapAssumption DEF StackInv, BootInv, ASID_MIN
  <2>3. ASSUME NEW t \in User PROVE AsidOf(t)' = ASID_INVALID
    <3>1. t # cur /\ tf(t)[1] = t
      BY <2>2 DEF tf
    <3>2. mem'[tf(t)] = FirstFrame(t)
      BY <2>1, <3>1
    <3>3. QED
      BY <2>1, <3>1, <3>2 DEF AsidOf, FirstFrame, set_task_user
  <2>4. ASSUME NEW a \in Asid PROVE Flushed[a] = IF a = 0 THEN Idle ELSE None
    BY <2>4 DEF Flushed, Asid, ASID_KERNEL
  <2>5. \A t \in User, a \in Asid : online'[a] = t <=> AsidOf(t)' = a /\ a # ASID_INVALID
    BY <2>1, <2>2, <2>3, <2>4, TrapAssumption
  <2>6. online'[0] = Idle /\ \A a \in Asid : a >= next_asid' => online'[a] = None
    BY <2>1, <2>2, <2>4, TlbTypes DEF Asid
  <2>7. 1..(next_asid' - 1) = {}
    BY <2>1, <2>2
  <2>8. QED
    BY <2>1, <2>2, <2>5, <2>6, <2>7 DEF AsidInv
<1>6. CASE handle_int
  BY <1>6, FrameTypes, EnterKeeps DEF handle_int
<1>7. CASE handle_sys
  <2> DEFINE n == (seen[cur] + 1) % Steps
             f == [Frame EXCEPT !.regs = Regs(<<cur, n>>)]
  <2>1. n \in 0..(Steps - 1) /\ cur \in Task
    BY StepRange, TrapAssumption DEF TypeOK
  <2>2. mode = "run" /\ Enter(f) /\ UNCHANGED <<cur, online, next_asid, tlb>>
    BY <1>7 DEF handle_sys
  <2> HIDE DEF n
  <2>3. f \in Cpu /\ f.asid = cpu.asid
    BY <2>1, FrameTypes DEF Frame
  <2> HIDE DEF f
  <2>4. QED
    BY <2>2, <2>3, EnterKeeps
<1>8. CASE UserStep
  <2>1. /\ mode = "run" /\ UNCHANGED <<mode, cur, mem, online, next_asid, tlb>>
        /\ cpu'.asid = cpu.asid
    BY <1>8 DEF UserStep, TypeOK, Cpu
  <2>2. QED
    BY <2>1, AsidsKept DEF AsidOf
<1>9. CASE RESTORE_ALL_AND_RET
  <2>1. mode = "kernel" /\ UNCHANGED <<cur, mem, online, next_asid, tlb>>
    BY <1>9 DEF RESTORE_ALL_AND_RET
  <2>2. CASE mode' = "run"
    <3>1. cpu.sp = tf(cur) /\ tf(cur) \in DOMAIN mem /\ mem[tf(cur)] \in Cpu
      BY <2>1 DEF StackInv, TypeOK
    <3>2. cpu' = [mem[tf(cur)] EXCEPT !.exl = FALSE]
      BY <1>9, <2>2, <3>1 DEF RESTORE_ALL_AND_RET
    <3>3. cpu'.asid = mem[tf(cur)].asid
      BY <3>1, <3>2 DEF Cpu
    <3>4. \A t \in User : AsidOf(t)' = AsidOf(t)
      BY <2>1, <2>2, <3>3 DEF AsidOf
    <3>5. QED
      BY <2>1, <3>4, AsidsKept
  <2>3. CASE mode' = "panic"
    BY <1>1, <2>3
  <2>4. QED
    BY <1>9, <2>2, <2>3 DEF RESTORE_ALL_AND_RET
<1>10. ASSUME NEW t \in Task, switch_task(t) PROVE AsidInv'
  <2>1. mode = "kernel" /\ mode' = "kernel" /\ UNCHANGED <<online, next_asid, tlb>>
    BY <1>10 DEF switch_task
  <2>2. \A b \in DOMAIN mem : b # context(cur) => mem'[b] = mem[b]
    BY <1>10, SwitchEffect
  <2>3. ASSUME NEW u \in User PROVE AsidOf(u)' = AsidOf(u)
    <3>1. u \in Task /\ cur \in Task
      BY DEF Task, TypeOK
    <3>2. tf(u) \in DOMAIN mem /\ tf(u) # context(cur)
      BY <2>1, <3>1, Places DEF StackInv
    <3>3. QED
      BY <2>1, <2>2, <3>2 DEF AsidOf
  <2>4. QED
    BY <2>1, <2>3, AsidsKept
<1>11. CASE UNCHANGED trapVars
  BY <1>11 DEF trapVars, AsidInv, AsidOf
<1>12. CASE Stops
  BY <1>1, <1>12, StopEffect
<1>13. QED
  BY <1>2, <1>3, <1>4, <1>5, <1>6, <1>7, <1>8, <1>9, <1>10, <1>11, <1>12
     DEF TrapNext, Halted, Task, Stops

(* A fault of a user task that has an ASID is one at a page it has not mapped. *)
LEMMA FaultUnmapped ==
  ASSUME TypeOK, StackInv, AsidInv, NEW v \in 0..(NV - 1), mode = "run", cpu.user,
         cpu.asid # ASID_INVALID, ~Hit(v), Match(v) # {} \/ ~Refillable(v)
  PROVE  v \notin Maps[cur]
<1> SUFFICES ASSUME v \in Maps[cur] PROVE FALSE
  OBVIOUS
<1>1. /\ cur # None /\ online[cpu.asid] = cur /\ cpu.asid # 0
      /\ Entries(v) = MapsOf(cur, Pair(v))
  BY RunningAsid
<1>2. Pair(v) \in Nat /\ Half(v) \in {0, 1} /\ v = 2 * Pair(v) + Half(v)
  BY TlbTypes
<1>3. MapsOf(cur, Pair(v))[Half(v)] = <<cur, v>> /\ <<cur, v>> # NoPage
  BY <1>1, <1>2 DEF MapsOf, NoPage
<1>4. Refillable(v)
  BY <1>1, <1>2, <1>3 DEF Refillable
<1>5. PICK i \in Match(v) : TRUE
  BY <1>4
<1>6. tlb[i].lo = MapsOf(cur, Pair(v))
  BY <1>1, <1>5 DEF Match, AsidInv
<1>7. QED
  BY <1>3, <1>5, <1>6 DEF Hit

(* What the TLB gives a user task is a page it has mapped. *)
LEMMA HitsOwnPage ==
  ASSUME TypeOK, StackInv, AsidInv, mode = "run", cpu.user, NEW v \in 0..(NV - 1),
         NEW i \in Match(v), tlb[i].lo[Half(v)] # NoPage
  PROVE  v \in Maps[cur] /\ tlb[i].lo[Half(v)] = <<cur, v>>
<1>1. i \in Index /\ tlb[i].vpn = Pair(v) /\ tlb[i].asid = cpu.asid
  BY DEF Match
<1>2. cpu.asid # 0 /\ online[ASID_INVALID] = None /\ cur \in User
      /\ (cpu.asid # ASID_INVALID => online[cpu.asid] = cur)
  BY RunningAsid
<1>3. online[cpu.asid] = cur /\ tlb[i].lo = MapsOf(cur, Pair(v))
  BY <1>1, <1>2, TrapAssumption DEF AsidInv
<1>4. Pair(v) \in Nat /\ Half(v) \in {0, 1} /\ v = 2 * Pair(v) + Half(v)
  BY TlbTypes
<1>5. QED
  BY <1>3, <1>4 DEF MapsOf

LEMMA PanicStep ==
  TypeOK /\ StackInv /\ BootInv /\ AsidInv /\ PanicOnlyOnFault /\ [TrapNext]_trapVars => PanicOnlyOnFault'
<1> SUFFICES ASSUME TypeOK, StackInv, BootInv, AsidInv, PanicOnlyOnFault, [TrapNext]_trapVars
             PROVE  PanicOnlyOnFault'
  OBVIOUS
<1>1. ASSUME mode' # "panic" PROVE PanicOnlyOnFault'
  BY <1>1 DEF PanicOnlyOnFault
<1>2. ASSUME NEW v \in 0..(NV - 1), pgtable_insert(v) \/ pgtable_remove(v) \/ test_probe(v)
      PROVE  PanicOnlyOnFault'
  BY <1>1, <1>2 DEF pgtable_insert, pgtable_remove, test_probe, Testing
<1>3. ASSUME NEW v \in 0..(NV - 1), test_read(v) PROVE PanicOnlyOnFault'
  BY <1>1, <1>3, BootRead
<1>4. ASSUME NEW v \in 0..(NV - 1), handle_pgfault(v), mode' = "panic" PROVE PanicOnlyOnFault'
  <2>1. /\ mode = "run" /\ cpu.user /\ cpu.asid # ASID_INVALID /\ bad' = Fault(cur, v, "tlb")
        /\ ~Hit(v) /\ (Match(v) # {} \/ ~Refillable(v))
    BY <1>4 DEF handle_pgfault, Enter
  <2>2. cur \in User /\ v \notin Maps[cur]
    BY <2>1, RunningAsid, FaultUnmapped
  <2>3. QED
    BY <2>1, <2>2 DEF PanicOnlyOnFault, Fault
<1>5. ASSUME NEW v \in 0..(NV - 1), UserMiss(v) PROVE PanicOnlyOnFault'
  BY <1>1, <1>5 DEF UserMiss
<1>6. CASE task_init \/ handle_int \/ handle_sys \/ UserStep
  BY <1>1, <1>6 DEF task_init, handle_int, handle_sys, UserStep, Enter
<1>7. CASE RESTORE_ALL_AND_RET
  <2>1. mode = "kernel" /\ mem[cpu.sp].exl
    BY <1>7 DEF RESTORE_ALL_AND_RET, StackInv, TypeOK
  <2>2. mode' = "run"
    BY <1>7, <2>1 DEF RESTORE_ALL_AND_RET
  <2>3. QED
    BY <1>1, <2>2
<1>8. ASSUME NEW t \in Task, switch_task(t) PROVE PanicOnlyOnFault'
  BY <1>1, <1>8 DEF switch_task
<1>9. CASE UNCHANGED trapVars
  BY <1>9 DEF trapVars, PanicOnlyOnFault
<1>10. ASSUME NEW v \in 0..(NV - 1), handle_tlbm(v) PROVE PanicOnlyOnFault'
  <2>1. /\ mode = "run" /\ cpu.user /\ bad' = Fault(cur, v, "tlbm")
        /\ \E i \in Match(v) : tlb[i].lo[Half(v)] # NoPage /\ ~PTE_DIRTY(tlb[i].lo[Half(v)])
    BY <1>10 DEF handle_tlbm, panic
  <2>2. PICK i \in Match(v) : tlb[i].lo[Half(v)] # NoPage /\ ~PTE_DIRTY(tlb[i].lo[Half(v)])
    BY <2>1
  <2>3. cur \in User /\ v \in Maps[cur] /\ tlb[i].lo[Half(v)] = <<cur, v>>
    BY <2>1, <2>2, RunningAsid, HitsOwnPage
  <2>4. v \notin Writable[cur]
    BY <2>2, <2>3 DEF PTE_DIRTY
  <2>5. QED
    BY <2>1, <2>3, <2>4 DEF PanicOnlyOnFault, Fault
<1>11. ASSUME NEW ec \in Raised, handle_exception(ec) PROVE PanicOnlyOnFault'
  <2>1. mode = "run" /\ cpu.user /\ bad' = Fault(cur, 0, ec)
    BY <1>11 DEF handle_exception, panic
  <2>2. cur \in User
    BY <2>1, RunningAsid
  <2>3. QED
    BY <2>1, <2>2 DEF PanicOnlyOnFault, Fault
<1>12. CASE handle_int_other
  BY <1>12 DEF handle_int_other, panic, PanicOnlyOnFault, Fault
<1>13. QED
  BY <1>1, <1>2, <1>3, <1>4, <1>5, <1>6, <1>7, <1>8, <1>9, <1>10, <1>11, <1>12
     DEF TrapNext, Halted, Task

MachineInv == TypeOK /\ StackInv /\ TlbInv /\ BootInv /\ AsidInv /\ PanicOnlyOnFault

LEMMA MachineInvariance ==
  ASSUME EnoughAsids PROVE TrapSpec => []MachineInv
<1>1. TrapInit => MachineInv
  <2> SUFFICES ASSUME TrapInit PROVE MachineInv
    OBVIOUS
  <2>1. TypeOK /\ StackInv /\ TlbInv
    BY InitInv
  <2>2. AsidInv /\ PanicOnlyOnFault
    BY DEF TrapInit, AsidInv, PanicOnlyOnFault
  <2>3. BootInv
    <3>1. ASSUME NEW i \in Index
          PROVE  tlb[i].vpn < 0 /\ tlb[i].asid = 0 /\ tlb[i].lo = [h \in {0, 1} |-> NoPage]
      <4>1. tlb[i] = DUMMY(i) /\ i \in Nat \ {0}
        BY TlbTypes DEF TrapInit, tlb_flush_all, Index
      <4>2. QED
        BY <4>1 DEF DUMMY
    <3>2. cpu.asid = 0 /\ online = Flushed /\ next_asid = ASID_MIN /\ pos = 1 /\ kmap = {}
      BY DEF TrapInit, ASID_KERNEL
    <3>3. QED
      BY <3>1, <3>2 DEF BootInv, Coherent
  <2>4. QED
    BY <2>1, <2>2, <2>3 DEF MachineInv
<1>2. MachineInv /\ [TrapNext]_trapVars => MachineInv'
  BY TypeStep, StackStep, TlbStep, BootStep, AsidStep, PanicStep DEF MachineInv
<1>3. QED
  BY <1>1, <1>2, PTL DEF TrapSpec

(* As long as there is an ASID for every user task, what the TLB gives a   *)
(* user program is its own page: refills, ASIDs handed out at page faults  *)
(* and what the kernel's tests left behind never mix two address spaces.   *)
THEOREM TasksSeeOwnPages ==
  ASSUME EnoughAsids PROVE TrapSpec => []OwnPages
<1>1. MachineInv => OwnPages
  <2> SUFFICES ASSUME MachineInv, mode = "run", cpu.user, NEW v \in 0..(NV - 1),
                      NEW i \in Match(v), tlb[i].lo[Half(v)] # NoPage
               PROVE  v \in Maps[cur] /\ tlb[i].lo[Half(v)] = <<cur, v>>
    BY DEF OwnPages
  <2> USE DEF MachineInv
  <2>1. QED
    BY HitsOwnPage
<1>2. QED
  BY <1>1, MachineInvariance, PTL

(* As long as there is an ASID for every user task, a program makes        *)
(* handle_exception panic only by an access to a page it has not mapped, a *)
(* write to a mapped page that it may not write, or an instruction that    *)
(* traps without a handler; apart from these only an interrupt of an       *)
(* unknown source does.  None of the reads of kern/mm/test.c faults, no    *)
(* return from a handler finds EXL cleared, no fault at a mapped page is   *)
(* left unserved, and no program is stopped by the permissions of a page   *)
(* that is not its own.                                                    *)
THEOREM PanicsAreFaults ==
  ASSUME EnoughAsids PROVE TrapSpec => []PanicOnlyOnFault
<1>1. MachineInv => PanicOnlyOnFault
  BY DEF MachineInv
<1>2. QED
  BY <1>1, MachineInvariance, PTL

(* As long as there is an ASID for every user task, the ASID in the trap   *)
(* frame of a task is the invalid one or one registered for it, as         *)
(* asid_flush means to ensure.                                             *)
THEOREM FramesNameOwnAsid ==
  ASSUME EnoughAsids PROVE TrapSpec => []AsidsReverted
<1>1. MachineInv => AsidsReverted
  <2> SUFFICES ASSUME MachineInv, mode \in {"run", "kernel"}, NEW t \in User, t # cur
               PROVE  mem[tf(t)].asid = ASID_INVALID \/ online[mem[tf(t)].asid] = t
    BY DEF AsidsReverted
  <2> USE DEF MachineInv
  <2>1. AsidOf(t) = mem[tf(t)].asid
    BY DEF AsidOf
  <2>2. mem[tf(t)].asid \in Asid
    BY DEF StackInv, TypeOK, Task, Cpu
  <2>3. QED
    BY <2>1, <2>2 DEF AsidInv
<1>2. QED
  BY <1>1, MachineInvariance, PTL
=============================================================================
