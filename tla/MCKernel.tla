------------------------------ MODULE MCKernel -------------------------------
(***************************************************************************)
(* The parts that share no state, each by itself: one of them is chosen at *)
(* the start, and the variables of the others keep the value they have     *)
(* then.                                                                   *)
(***************************************************************************)
EXTENDS MCSched, MCTrap, Slab, RbTree, TaskList, Branch, Clock, Libc

(* For the two largest caches, of four and two chunks per page, and for    *)
(* large chunks of one and of two pages                                    *)
MCRequests == {4000, 8192, 9000, 20000}

MCAddrs == 0..3 \cup 16..19
MCLens == 0..12

VARIABLE part

MCVars == <<schedVars, trapVars, slabVars, rbVars, listVars, branchVars, clockVars, libcVars, part>>

(* Nothing is started, no instruction is emulated and no function called. *)
NoSched ==
  /\ current = IdleP /\ started = {} /\ slice = [t \in Task |-> 0]
  /\ rq = [t \in Task |-> NoRq]
  /\ queue = [c \in CPUs |-> [i \in Side |-> << >>]]
  /\ run = [c \in CPUs |-> 0] /\ payload = [c \in CPUs |-> 0]
NoBranch == insn = 0 /\ bd = FALSE /\ epc = 0 /\ gpr = 0 /\ old = 0 /\ trap = "none"
NoCall == /\ fn = "none" /\ arg = 0 /\ libpc = "none" /\ buf = 0 /\ ret = 0
          /\ dpos = 0 /\ spos = 0 /\ left = 0

MCInit ==
  /\ part \in {"sched", "trap", "slab", "rb", "list", "branch", "clock", "libc"}
  /\ IF part = "sched" THEN SchedInit ELSE NoSched
  /\ TrapInit /\ SlabInit /\ RbInit /\ TaskListInit /\ ClockInit
  /\ IF part = "branch" THEN BranchInit ELSE NoBranch
  /\ IF part = "libc" THEN LibcInit ELSE NoCall

Only(p, own_vars) == IF part = p THEN TRUE ELSE UNCHANGED own_vars

(* What is not part of the chosen one stays. *)
Rest ==
  /\ UNCHANGED part
  /\ Only("sched", schedVars) /\ Only("trap", trapVars) /\ Only("slab", slabVars)
  /\ Only("rb", rbVars) /\ Only("list", listVars) /\ Only("branch", branchVars)
  /\ Only("clock", clockVars) /\ Only("libc", libcVars)

(* A function that has returned, or a process list whose calls are used up *)
(* or do not return, goes no further; the other parts never stop.          *)
Stop == part \in {"list", "branch", "libc"} /\ UNCHANGED MCVars

MCNext ==
  \/ part = "sched" /\ SchedNext /\ Rest
  \/ part = "trap" /\ TrapNext /\ Rest
  \/ part = "slab" /\ SlabNext /\ Rest
  \/ part = "rb" /\ RbNext /\ Rest
  \/ part = "list" /\ TaskListNext /\ Rest
  \/ part = "branch" /\ BranchNext /\ Rest
  \/ part = "clock" /\ ClockNext /\ Rest
  \/ part = "libc" /\ LibcNext /\ Rest
  \/ Stop

(* The fairness of the scheduler's specification *)
MCSpec == MCInit /\ [][MCNext]_MCVars /\ WF_schedVars(part = "sched" /\ Tick /\ Rest)
=============================================================================
