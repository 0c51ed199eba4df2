-------------------------------- MODULE Sched --------------------------------
(***************************************************************************)
(* The scheduler: kern/sched/o1.c, sched() and switch_task() of            *)
(* kern/sched/sched.c, and the clock tick that drives them                 *)
(* (generic_cpu_tick in kern/clock.c).                                     *)
(*                                                                         *)
(* There is a run queue per processor, but only Boot executes: no code     *)
(* starts another core.  The kernel is not preemptible, so the handler of  *)
(* a tick is one step; a tick finds the current task in user mode or IDLE  *)
(* in its loop.  A list of tasks is a sequence, its head node left out.    *)
(***************************************************************************)
EXTENDS Naturals, Sequences, FiniteSets

CONSTANTS Task,    \* all task structures
          IdleP,   \* idleproc of Boot, current when interrupts are enabled
          InitP,   \* initproc, queued by task_init_sched
          CPUs,    \* 0 .. NR_CPUS - 1
          Boot,    \* current_thread_info->cpu_number
          NoRq     \* NULL in se.rq

ASSUME SchedAssumption ==
  /\ IdleP \in Task /\ InitP \in Task /\ IdleP # InitP
  /\ CPUs \subseteq Nat /\ 0 \in CPUs /\ Boot \in CPUs /\ NoRq \notin CPUs

Side == {0, 1}

VARIABLES queue,     \* cpu_rq[c].head[0..1]
          run,       \* cpu_rq[c].run; exhaust is the other index
          payload,   \* cpu_rq[c].payload
          rq,        \* task->se.rq
          slice,     \* task->se.slice
          current,   \* current_task
          started    \* tasks handed to the scheduler

schedVars == <<queue, run, payload, rq, slice, current, started>>

(* task_new clears the structure and nothing sets se.priority later *)
priority == 0

sched_exhaust(t, sl) == priority >= sl[t]

exhaust(c) == 1 - run[c]

(* sched_enqueue(cpu_rq[c], t) puts t at the end of this list, the slices  *)
(* being sl.                                                               *)
QueueFor(c, t, sl) == IF sched_exhaust(t, sl) THEN exhaust(c) ELSE run[c]

(* Mutant: what the name and the comment in sched.h say *)
minload_least(c) ==
  /\ \A d \in CPUs : payload[c] <= payload[d]
  /\ \A d \in CPUs : d < c => payload[c] < payload[d]

(* The processor sched_enqueue_minload chooses: its loop keeps the first   *)
(* one with the greatest payload.                                          *)
minload(c) ==
  /\ \A d \in CPUs : payload[d] <= payload[c]
  /\ \A d \in CPUs : d < c => payload[d] < payload[c]

(* The queues before a call; each function below gives them after it *)
Queues == [queue |-> queue, payload |-> payload, rq |-> rq]

sched_enqueue(R, c, t, sl) ==
  [queue |-> [R.queue EXCEPT ![c][QueueFor(c, t, sl)] = Append(@, t)],
   payload |-> [R.payload EXCEPT ![c] = @ + 1],
   rq |-> [R.rq EXCEPT ![t] = c]]

(* Mutants: the payload or the list is left as it was *)
sched_dequeue_nocount(R, t, l) ==
  [queue |-> [R.queue EXCEPT ![R.rq[t]][l] = Tail(@)],
   payload |-> R.payload, rq |-> [R.rq EXCEPT ![t] = NoRq]]
sched_dequeue_keep(R, t, l) ==
  [queue |-> R.queue,
   payload |-> [R.payload EXCEPT ![R.rq[t]] = @ - 1],
   rq |-> [R.rq EXCEPT ![t] = NoRq]]

(* sched_dequeue(t), t being the first task of list l of its processor *)
sched_dequeue(R, t, l) ==
  [queue |-> [R.queue EXCEPT ![R.rq[t]][l] = Tail(@)],
   payload |-> [R.payload EXCEPT ![R.rq[t]] = @ - 1],
   rq |-> [R.rq EXCEPT ![t] = NoRq]]

(* The list sched_pick makes the running one; it returns that one's first task *)
sched_pick(R) ==
  IF R.queue[Boot][run[Boot]] = << >> THEN exhaust(Boot) ELSE run[Boot]

-----------------------------------------------------------------------------
(* sched_init, idle_init, initproc_init and task_init_sched *)
SchedInit ==
  /\ run = [c \in CPUs |-> 0]
  /\ slice = [t \in Task |-> 0]
  /\ current = IdleP
  /\ started = {IdleP, InitP}
  /\ rq = [t \in Task |-> IF t = InitP THEN Boot ELSE NoRq]
  /\ queue = [c \in CPUs |-> [i \in Side |->
                IF c = Boot /\ i = 1 THEN <<InitP>> ELSE << >>]]
  /\ payload = [c \in CPUs |-> IF c = Boot THEN 1 ELSE 0]

(* A further task is handed to the scheduler the way task_init_sched does  *)
(* it for init, with sched_enqueue(&current_rq, t).                        *)
Start(t) ==
  /\ t \notin started
  /\ rq[t] = NoRq
  /\ started' = started \cup {t}
  /\ LET R == sched_enqueue(Queues, Boot, t, slice)
     IN queue' = R.queue /\ payload' = R.payload /\ rq' = R.rq
  /\ UNCHANGED <<run, slice, current>>

(* sched() and switch_task(), for the slices sl that sched_tick has left.  *)
(* The asserts of sched_enqueue and sched_dequeue are guards: were one     *)
(* false, the kernel would stop, which TLC reports as a deadlock.          *)
sched(sl) ==
  \E c \in CPUs :
    /\ minload(c)
    /\ rq[current] = NoRq
    /\ LET R == sched_enqueue(Queues, c, current, sl)
           l == sched_pick(R)
       IN IF R.queue[Boot][l] = << >>
          THEN /\ current' = IdleP
               /\ queue' = R.queue /\ payload' = R.payload /\ rq' = R.rq
               /\ UNCHANGED run
          ELSE LET new == Head(R.queue[Boot][l])
                   D == sched_dequeue(R, new, l)
               IN /\ R.rq[new] # NoRq
                  /\ run' = [run EXCEPT ![Boot] = l]
                  /\ queue' = D.queue /\ payload' = D.payload /\ rq' = D.rq
                  /\ current' = new

(* generic_cpu_tick: sched_tick, which always gives up the CPU, then sched *)
Tick ==
  /\ LET sl == IF sched_exhaust(current, slice) THEN slice
               ELSE [slice EXCEPT ![current] = @ + 1]
     IN slice' = sl /\ sched(sl)
  /\ UNCHANGED started

SchedNext == Tick \/ \E t \in Task : Start(t)

(* handle_clock re-arms the timer at every interrupt, so ticks never stop  *)
SchedSpec == SchedInit /\ [][SchedNext]_schedVars /\ WF_schedVars(Tick)

-----------------------------------------------------------------------------
Has(s, t) == \E k \in 1..Len(s) : s[k] = t
Distinct(s) == \A j, k \in 1..Len(s) : s[j] = s[k] => j = k

(* The types of the state. *)
TypeOK ==
  /\ queue \in [CPUs -> [Side -> Seq(Task)]]
  /\ run \in [CPUs -> Side]
  /\ payload \in [CPUs -> Nat]
  /\ rq \in [Task -> CPUs \cup {NoRq}]
  /\ slice \in [Task -> Nat]
  /\ current \in started /\ started \subseteq Task

(* A started task is either the current one or in exactly one list, once,  *)
(* and se.rq says whose list it is (NULL for the current one): sched()     *)
(* loses no task and never queues one twice.                               *)
OnePlace ==
  /\ \A t \in Task : rq[t] # NoRq <=> t \in started \ {current}
  /\ \A t \in Task, c \in CPUs : rq[t] = c <=> \E i \in Side : Has(queue[c][i], t)
  /\ \A t \in Task, c \in CPUs : ~(Has(queue[c][0], t) /\ Has(queue[c][1], t))
  /\ \A c \in CPUs, i \in Side : Distinct(queue[c][i])

(* payload counts the tasks of both lists of a processor, which            *)
(* sched_enqueue_minload compares.                                         *)
PayloadExact ==
  \A c \in CPUs : payload[c] = Len(queue[c][0]) + Len(queue[c][1])

(* No task is ever queued on a processor that does not execute, where      *)
(* nothing would pick it.  This hangs on the comparison of                 *)
(* sched_enqueue_minload, which is the other way round than documented     *)
(* (EnqueuesOnMinimum).                                                    *)
OnlyBootQueues == \A c \in CPUs \ {Boot}, i \in Side : queue[c][i] = << >>

(* "Enqueue into run queue with minimum payload" (sched.h): the task that  *)
(* gives up the CPU goes to a processor that has no more tasks queued than *)
(* any other.                                                              *)
EnqueuesOnMinimum ==
  [][current' # current => \A d \in CPUs : payload[rq'[current]] <= payload[d]]_schedVars

(* While interrupts are on there is always another task to switch to: the  *)
(* fallback to idleproc in sched() is not taken, so IDLE is never current  *)
(* while it is also in a list.                                             *)
AlwaysAnother == payload[Boot] >= 1

(* Every started task gets the CPU again and again, whatever is started    *)
(* meanwhile: the two lists of a queue are never swapped past a task.      *)
NoStarvation == \A t \in Task : [](t \in started => <>(current = t))
=============================================================================
