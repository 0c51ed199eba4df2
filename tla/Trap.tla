-------------------------------- MODULE Trap ---------------------------------
(***************************************************************************)
(* The processor as the kernel drives it: traps and trap frames            *)
(* (asm/stackframe.h, except.S), the switch from one kernel stack to       *)
(* another (sched/switch.S, forkret.S, kern/sched/task.c), address space   *)
(* identifiers and the TLB (mm/tlbops.c, mm/hier/pgfault.c, tlbex.S).      *)
(*                                                                         *)
(* Until the tasks are created the machine runs the page-table tests of    *)
(* kern/mm/test.c on the kernel's own page table, under ASID_KERNEL; from  *)
(* then on page tables do not change, as no system call maps or unmaps.    *)
(* Handlers run with interrupts disabled, so entering the kernel with the  *)
(* handler is one step, and leaving it is another one, before which the    *)
(* clock interrupt may have switched to another task.  Which task that is  *)
(* is any (module Sched tells which).                                      *)
(*                                                                         *)
(* Addresses on a kernel stack count frames of TF_SIZE down from its top:  *)
(* <<t, k>> is kstack + KSTACK_SIZE - k * TF_SIZE.  The page of task t at  *)
(* virtual page v is <<t, v>>; pages of two addresses do not differ in     *)
(* what this module asks of them.  task->asid is written only, never read, *)
(* and is left out.                                                        *)
(***************************************************************************)
EXTENDS Integers, Sequences, FiniteSets

CONSTANTS User,        \* tasks that run in user mode
          Idle,        \* the boot thread, which becomes IDLE
          Maps,        \* the pages each user task has mapped
          Writable,    \* the pages among them that it may write
          NV,          \* virtual pages are 0 .. NV - 1
          NTlb,        \* entries (pairs) of the TLB
          ASID_INVALID,
          Steps        \* values that a user program steps through

None == "none"

ASSUME TrapAssumption ==
  /\ Idle \notin User /\ None \notin User \cup {Idle}
  /\ NV \in Nat /\ NTlb \in Nat \ {0} /\ Steps \in Nat \ {0}
  /\ Maps \in [User -> SUBSET (0..(NV - 1))]
  /\ Writable \in [User -> SUBSET (0..(NV - 1))]
  /\ ASID_INVALID \in Nat /\ ASID_INVALID > 1

ASID_KERNEL == 0
ASID_MIN == 1
NoPage == <<None, 0>>

(* A trap that handle_exception gives up on: who ran, BadVAddr, the cause *)
Fault(t, v, c) == [task |-> t, addr |-> v, cause |-> c]

VARIABLES pos,        \* the next step of the tests
          mode,       \* "boot", "run", "kernel" (in a handler), "panic"
          why,        \* in a handler: "int" or "other"
          cur,        \* current_task
          cpu,        \* registers, sp, ASID in EntryHi, KSU, EXL
          kernelsp,   \* the stack for the next trap from user mode
          mem,        \* the frames on kernel stacks
          seen,       \* history: what the program of a task has in registers
          kmap,       \* pages mapped in the kernel's page table
          tlb, lo,    \* the TLB; the EntryLo registers
          online,     \* online_hpt and online_tasks
          next_asid,
          bad         \* the trap that ended in panic

trapVars == <<pos, mode, why, cur, cpu, kernelsp, mem, seen, kmap, tlb, lo, online, next_asid, bad>>
taskvars == <<why, cur, cpu, kernelsp, mem, seen>>
mmvars == <<kmap, tlb, lo, online, next_asid>>

-----------------------------------------------------------------------------
(* Registers, by the macro that saves them *)
Class == {"gp", "some", "at", "temp", "static"}
Regs(x) == [c \in Class |-> IF c = "gp" THEN "thread_info" ELSE x]

(* Mutant: nothing is left for the context *)
kstacktop_bare(t) == <<t, 0>>

(* The context is at the top of the kernel stack, and a trap from user     *)
(* mode puts its frame below it, where task->tf is.                        *)
kstacktop(t) == <<t, 1>>
context(t) == IF t = Idle THEN <<Idle, 0>> ELSE <<t, 1>>
tf(t) == <<t, 2>>
Below(a) == <<a[1], a[2] + 1>>

UserStack(t) == <<t, 9>>

(* Mutant: EXL is cleared with ST_EXCM and not set again *)
set_task_user_noexl(f) == [f EXCEPT !.user = TRUE]

set_task_user(f) == [f EXCEPT !.user = TRUE, !.exl = TRUE]

(* task_early_init: the trap frame a new task returns through *)
FirstFrame(t) ==
  set_task_user([regs |-> Regs(<<t, 0>>), sp |-> UserStack(t), asid |-> ASID_INVALID,
                 user |-> FALSE, exl |-> FALSE])

(* task_bootstrap_context: as if forkret had been interrupted *)
FirstContext(t) == [regs |-> Regs(<<"zero", 0>>), sp |-> tf(t), asid |-> 0,
                    user |-> FALSE, exl |-> FALSE]

-----------------------------------------------------------------------------
(* The TLB *)
Index == 1..NTlb
Pair(v) == v \div 2
Half(v) == v % 2

(* Mutant: the same page for every index *)
DUMMY_same(i) == [vpn |-> -1, asid |-> 0, lo |-> [h \in {0, 1} |-> NoPage]]

(* ENTRYHI_DUMMY: in CKSEG0, where no address is mapped *)
DUMMY(i) == [vpn |-> -i, asid |-> 0, lo |-> [h \in {0, 1} |-> NoPage]]

tlb_flush_all == [i \in Index |-> DUMMY(i)]

Match(v) == {i \in Index : tlb[i].vpn = Pair(v) /\ tlb[i].asid = cpu.asid}
Hit(v) == \E i \in Match(v) : tlb[i].lo[Half(v)] # NoPage

(* What is mapped in the page table registered under ASID a *)
Mapped(a) == IF online[a] = None THEN {}
             ELSE IF online[a] = Idle THEN kmap ELSE Maps[online[a]]

(* The page-table entries of the pair of v under the current ASID *)
Entries(v) ==
  [h \in {0, 1} |-> LET w == 2 * Pair(v) + h
                    IN IF w \in Mapped(cpu.asid) THEN <<online[cpu.asid], w>> ELSE NoPage]

Refillable(v) == Entries(v) # [h \in {0, 1} |-> NoPage]

(* A miss that the walk from online_hpt[ASID] can serve: both entries of   *)
(* the pair go to a random index; the access is then tried again.          *)
xtlb_refill(v) ==
  /\ Match(v) = {} /\ Refillable(v)
  /\ \E i \in Index :
       tlb' = [tlb EXCEPT ![i] = [vpn |-> Pair(v), asid |-> cpu.asid, lo |-> Entries(v)]]
  /\ lo' = Entries(v)

(* The probe index is unsigned, so a miss goes on with whatever index the  *)
(* processor left.  EntryLo is read before tlbr: if the other half of the  *)
(* pair read last is empty, the entry is given up.                         *)
tlb_remove(v) ==
  \E i \in IF Match(v) = {} THEN Index ELSE Match(v) :
    LET left == [tlb[i].lo EXCEPT ![Half(v)] = NoPage]
    IN /\ lo' = left
       /\ IF lo[1 - Half(v)] = NoPage
          THEN /\ tlb' = [tlb EXCEPT ![i] = [DUMMY(i) EXCEPT !.lo = left]]
               /\ cpu' = [cpu EXCEPT !.asid = DUMMY(i).asid]
          ELSE /\ tlb' = [tlb EXCEPT ![i].lo = left]
               /\ cpu' = [cpu EXCEPT !.asid = tlb[i].asid]

(* asid_flush *)
Flushed == [a \in 0..ASID_INVALID |-> IF a = ASID_KERNEL THEN Idle ELSE None]

-----------------------------------------------------------------------------
(* arch_mm_init: pgtable_bootstrap, asid_flush, init_tlb *)
TrapInit ==
  /\ pos = 1 /\ mode = "boot" /\ why = "other" /\ cur = Idle
  /\ cpu = [regs |-> Regs(<<Idle, 0>>), sp |-> <<Idle, 1>>, asid |-> ASID_KERNEL,
            user |-> FALSE, exl |-> FALSE]
  /\ kernelsp = <<Idle, 0>> /\ mem = << >>
  /\ seen = [t \in User \cup {Idle} |-> 0]
  /\ kmap = {} /\ tlb = tlb_flush_all /\ lo = [h \in {0, 1} |-> NoPage]
  /\ online = Flushed /\ next_asid = ASID_MIN
  /\ bad = Fault(None, 0, None)

(* test_pgtable, test_tlb and test_shm: what they insert into the kernel's *)
(* page table, read through it and remove.  They use two pages far apart,  *)
(* the two pages of a pair, and one page under two addresses; here pages   *)
(* 0 and 2, 0 and 1, and 0 and 2.                                          *)
Tests ==
  << <<"insert", 0>>, <<"insert", 2>>, <<"remove", 0>>, <<"remove", 2>>,
     <<"insert", 0>>, <<"insert", 1>>, <<"read", 0>>, <<"read", 1>>, <<"remove", 0>>,
     <<"remove", 1>>, <<"insert", 0>>, <<"read", 0>>, <<"remove", 0>>,
     <<"insert", 0>>, <<"insert", 2>>, <<"read", 0>>, <<"read", 2>>,
     <<"probe", 0>>, <<"probe", 2>>, <<"read", 0>>, <<"read", 2>>,
     <<"remove", 0>>, <<"remove", 2>> >>

Testing(op, v) == mode = "boot" /\ pos <= Len(Tests) /\ Tests[pos] = <<op, v>>

pgtable_insert(v) ==
  /\ Testing("insert", v) /\ pos' = pos + 1
  /\ kmap' = kmap \cup {v}
  /\ UNCHANGED <<taskvars, mode, tlb, lo, online, next_asid, bad>>

pgtable_remove(v) ==
  /\ Testing("remove", v) /\ pos' = pos + 1
  /\ kmap' = kmap \ {v}
  /\ tlb_remove(v)
  /\ UNCHANGED <<mode, why, cur, kernelsp, mem, seen, online, next_asid, bad>>

(* The entry of v is read into EntryHi and EntryLo; after a miss it is any *)
(* entry.                                                                  *)
test_probe(v) ==
  /\ Testing("probe", v) /\ pos' = pos + 1
  /\ \E i \in IF Match(v) = {} THEN Index ELSE Match(v) :
       lo' = tlb[i].lo /\ cpu' = [cpu EXCEPT !.asid = tlb[i].asid]
  /\ UNCHANGED <<mode, why, cur, kernelsp, mem, seen, kmap, tlb, online, next_asid, bad>>

(* A read of the kernel; a miss that cannot be refilled, or an entry that  *)
(* is not valid, is a page fault that handle_pgfault does not know.        *)
test_read(v) ==
  /\ Testing("read", v)
  /\ \/ Hit(v) /\ pos' = pos + 1 /\ UNCHANGED <<mode, tlb, lo, bad>>
     \/ xtlb_refill(v) /\ UNCHANGED <<pos, mode, bad>>
     \/ /\ ~Hit(v) /\ (Match(v) # {} \/ ~Refillable(v))
        /\ mode' = "panic" /\ bad' = Fault(Idle, v, "tlb")
        /\ UNCHANGED <<pos, tlb, lo>>
  /\ UNCHANGED <<taskvars, kmap, online, next_asid>>

(* task_init and local_irq_enable: every user task gets its kernel stack *)
task_init ==
  /\ mode = "boot" /\ pos > Len(Tests)
  /\ mode' = "run"
  /\ mem' = [a \in {context(t) : t \in User} \cup {tf(t) : t \in User} |->
               IF a = tf(a[1]) THEN FirstFrame(a[1]) ELSE FirstContext(a[1])]
  /\ UNCHANGED <<pos, why, cur, cpu, kernelsp, seen, mmvars, bad>>

-----------------------------------------------------------------------------
(* Traps.  FrameAddr is where SAVE_SOME puts the trap frame.               *)
FrameAddr == Below(IF cpu.user THEN kernelsp ELSE cpu.sp)
Frame == [regs |-> cpu.regs, sp |-> cpu.sp, asid |-> cpu.asid, user |-> cpu.user, exl |-> TRUE]

Store(m, a, f) == [b \in DOMAIN m \cup {a} |-> IF b = a THEN f ELSE m[b]]

(* SAVE_ALL, with the frame f as the handler leaves it.  The handler uses  *)
(* all registers but gp.                                                   *)
Enter(f) ==
  /\ mem' = Store(mem, FrameAddr, f)
  /\ cpu' = [cpu EXCEPT !.regs = Regs(<<"kernel", 0>>), !.sp = FrameAddr, !.user = FALSE]
  /\ mode' = "kernel"

(* handle_int, with the clock interrupt; it is enabled in user mode and in *)
(* the loop of IDLE.                                                       *)
handle_int ==
  /\ mode = "run" /\ Enter(Frame) /\ why' = "int"
  /\ UNCHANGED <<pos, cur, kernelsp, seen, mmvars, bad>>

(* handle_sys and handle_bp with skip_victim: they change saved registers *)
handle_sys ==
  LET n == (seen[cur] + 1) % Steps
  IN /\ mode = "run" /\ cpu.user
     /\ Enter([Frame EXCEPT !.regs = Regs(<<cur, n>>)]) /\ why' = "other"
     /\ seen' = [seen EXCEPT ![cur] = n]
     /\ UNCHANGED <<pos, cur, kernelsp, mmvars, bad>>

(* Mutant: the ASID stays the next one *)
Successor_same(a) == a

(* next_asid once ASID a has been given away *)
Successor(a) == a + 1

(* A page fault of a user task at v that the refill could not serve: only  *)
(* an invalid ASID can be helped.  If none is left, tlb_flush_all and      *)
(* asid_flush come first.                                                  *)
handle_pgfault(v) ==
  LET full == next_asid = ASID_INVALID
      a == IF full THEN ASID_MIN ELSE next_asid
  IN /\ mode = "run" /\ cpu.user /\ v \in 0..(NV - 1)
     /\ ~Hit(v) /\ (Match(v) # {} \/ ~Refillable(v))
     /\ IF cpu.asid = ASID_INVALID
        THEN /\ Enter([Frame EXCEPT !.asid = a]) /\ why' = "other"
             /\ tlb' = IF full THEN tlb_flush_all ELSE tlb
             /\ online' = [(IF full THEN Flushed ELSE online) EXCEPT ![a] = cur]
             /\ next_asid' = Successor(a)
             /\ lo' = IF full THEN [h \in {0, 1} |-> NoPage] ELSE lo
             /\ UNCHANGED bad
        ELSE /\ mode' = "panic" /\ bad' = Fault(cur, v, "tlb")
             /\ UNCHANGED <<why, cpu, mem, tlb, lo, online, next_asid>>
     /\ UNCHANGED <<pos, cur, kernelsp, seen, kmap>>

(* The traps that handle_exception only reports.  Nothing returns to the   *)
(* program, so that the frame SAVE_ALL puts on the stack is left out.      *)
panic(f) ==
  /\ mode' = "panic" /\ bad' = f
  /\ UNCHANGED <<pos, taskvars, mmvars>>

(* page_perm sets the dirty bit of a page that may be written *)
PTE_DIRTY(p) == p[1] \in User => p[2] \in Writable[p[1]]

(* EC_tlbm: a write through a valid entry that is not dirty *)
handle_tlbm(v) ==
  /\ mode = "run" /\ cpu.user
  /\ \E i \in Match(v) : tlb[i].lo[Half(v)] # NoPage /\ ~PTE_DIRTY(tlb[i].lo[Half(v)])
  /\ panic(Fault(cur, v, "tlbm"))

(* A break whose code is not 0, for which handle_bp returns -1, and the    *)
(* exceptions without a case (address error, reserved instruction, ...)    *)
Raised == {"bp", "default"}
handle_exception(ec) ==
  /\ mode = "run" /\ cpu.user /\ ec \in Raised
  /\ panic(Fault(cur, 0, ec))

(* handle_int returns -1 for an interrupt that is not the clock's *)
handle_int_other ==
  /\ mode = "run" /\ panic(Fault(cur, 0, "int"))

(* RESTORE_ALL_AND_RET from the frame sp points to.  The status is written *)
(* before eret, so that it must keep EXL set.                              *)
RESTORE_ALL_AND_RET ==
  LET f == mem[cpu.sp]
  IN /\ mode = "kernel"
     /\ IF f.exl
        THEN /\ cpu' = [f EXCEPT !.exl = FALSE]
             /\ mode' = "run" /\ UNCHANGED bad
        ELSE mode' = "panic" /\ bad' = Fault(cur, 0, "eret") /\ UNCHANGED cpu
     /\ UNCHANGED <<pos, why, cur, kernelsp, mem, seen, mmvars>>

(* sched in the clock interrupt: switch_task and switch_context.  A new    *)
(* task goes on in forkret, with sp at its trap frame.                     *)
switch_task(t) ==
  LET m == Store(mem, context(cur), cpu)
  IN /\ mode = "kernel" /\ why = "int"
     /\ mem' = m /\ cpu' = m[context(t)]
     /\ kernelsp' = kstacktop(t)
     /\ cur' = t /\ why' = "other"
     /\ UNCHANGED <<pos, mode, seen, mmvars, bad>>

-----------------------------------------------------------------------------
(* The program of a user task computes, leaving gp alone, ...              *)
UserStep ==
  LET n == (seen[cur] + 1) % Steps
  IN /\ mode = "run" /\ cpu.user
     /\ cpu' = [cpu EXCEPT !.regs = Regs(<<cur, n>>)]
     /\ seen' = [seen EXCEPT ![cur] = n]
     /\ UNCHANGED <<pos, mode, why, cur, kernelsp, mem, mmvars, bad>>

(* ... and touches page v *)
UserMiss(v) ==
  /\ mode = "run" /\ cpu.user /\ xtlb_refill(v)
  /\ UNCHANGED <<taskvars, pos, mode, kmap, online, next_asid, bad>>

(* panic() loops for ever *)
Halted == mode = "panic" /\ UNCHANGED trapVars

TrapNext ==
  \/ \E v \in 0..(NV - 1) :
       \/ pgtable_insert(v) \/ pgtable_remove(v) \/ test_probe(v) \/ test_read(v)
       \/ UserMiss(v) \/ handle_pgfault(v) \/ handle_tlbm(v)
  \/ task_init \/ handle_int \/ handle_sys \/ UserStep \/ RESTORE_ALL_AND_RET
  \/ \E t \in User \cup {Idle} : switch_task(t)
  \/ \E ec \in Raised : handle_exception(ec)
  \/ handle_int_other \/ Halted

TrapSpec == TrapInit /\ [][TrapNext]_trapVars

-----------------------------------------------------------------------------
(* A task that runs finds in its registers what it, or a system call, left *)
(* there, however often it was interrupted and switched out: no trap frame *)
(* or context of SAVE_ALL and switch_context is lost or overwritten, and   *)
(* gp points to the thread_info, which the kernel relies on.               *)
ResumeExact ==
  mode = "run" =>
    /\ cpu.regs = Regs(<<cur, seen[cur]>>)
    /\ cpu.user = (cur \in User)
    /\ cpu.sp = IF cur \in User THEN UserStack(cur) ELSE <<Idle, 1>>
    /\ cur \in User => FrameAddr = tf(cur)

(* An address that the TLB translates for a user program is translated to  *)
(* the page that program has mapped there, never to that of another task   *)
(* or of the kernel's tests, whatever the refills and the ASIDs did.       *)
OwnPages ==
  mode = "run" /\ cpu.user =>
    \A v \in 0..(NV - 1) : \A i \in Match(v) :
      tlb[i].lo[Half(v)] # NoPage => v \in Maps[cur] /\ tlb[i].lo[Half(v)] = <<cur, v>>

(* No two entries of the TLB are for the same pages, which tlb.h says the  *)
(* processor does not allow, cleared entries included.                     *)
NoDuplicates ==
  \A i, j \in Index : i # j => <<tlb[i].vpn, tlb[i].asid>> # <<tlb[j].vpn, tlb[j].asid>>

(* panic() stops the whole system for what a program does, and then only  *)
(* for what it does outside of its mappings: an access to a page it has    *)
(* not mapped, a write to one it may only read, an instruction it must not *)
(* execute; or for an interrupt no driver handles.  No page fault of a     *)
(* program that keeps to its pages (the refill, a new or a recycled ASID), *)
(* no read of kern/mm/test.c and no return from a trap ends there.         *)
PanicOnlyOnFault ==
  mode = "panic" =>
    \/ bad.cause = "int"
    \/ /\ bad.task \in User
       /\ \/ bad.cause \in Raised
          \/ bad.cause = "tlb" /\ bad.addr \in 0..(NV - 1) \ Maps[bad.task]
          \/ bad.cause = "tlbm" /\ bad.addr \in Maps[bad.task] \ Writable[bad.task]

(* asid_flush: "Revert all tasks with valid ASIDs".  A task that is not    *)
(* running has an ASID in its trap frame that is registered for it, or the *)
(* invalid one.                                                            *)
AsidsReverted ==
  mode \in {"run", "kernel"} =>
    \A t \in User \ {cur} :
      LET a == mem[tf(t)].asid IN a = ASID_INVALID \/ online[a] = t
=============================================================================
