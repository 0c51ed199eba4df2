------------------------------ MODULE TaskList -------------------------------
(***************************************************************************)
(* The process list and the process tree: kern/sched/tasklist.c with       *)
(* include/sched/task.h.  The children of a process are a ring through     *)
(* proc_sib without a head; the process points to one of them.             *)
(*                                                                         *)
(* The process list, and with it the hash lists (a process is in the list  *)
(* of its pid as long as it is in the process list), is the set procs.     *)
(* num_child, the totals and the thread lists, which nothing reads, are    *)
(* left out.  A structure that was removed is taken for a new one again.   *)
(***************************************************************************)
EXTENDS Integers, FiniteSets

CONSTANTS Proc,      \* task structures that are, or can become, processes
          initproc, idleproc,
          UintSize,  \* 2^32: an unsigned int wraps around there
          MaxCount   \* bound: num_sibling at a call

NoTask == "null"

ASSUME TaskListAssumption ==
  /\ {initproc, idleproc} \subseteq Proc /\ initproc # idleproc /\ NoTask \notin Proc
  /\ UintSize \in Nat /\ UintSize > 1 /\ MaxCount \in Nat

VARIABLES procs,        \* process_list
          parent, first_child, num_sibling,
          sib,          \* proc_sib.next
          listState     \* "run", or "loops": in a loop that goes on until its
                        \* int index overflows

listVars == <<procs, parent, first_child, num_sibling, sib, listState>>

-----------------------------------------------------------------------------
PrevSib(s, t) == CHOOSE x \in Proc : s[x] = t

(* list_add_before, list_del_init and list_concat on proc_sib *)
AddBefore(s, at, x) == [s EXCEPT ![PrevSib(s, at)] = x, ![x] = at]
DelInit(s, x) == [s EXCEPT ![PrevSib(s, x)] = s[x], ![x] = x]
Concat(s, a, b) == [s EXCEPT ![PrevSib(s, a)] = b, ![PrevSib(s, b)] = a]

(* n times next_sib_task *)
Hop(s, t, n) ==
  LET walk[i \in 0..n] == IF i = 0 THEN t ELSE s[walk[i - 1]] IN walk[n]

(* The turns among those in I in which a walk from t comes to x *)
Hits(s, t, x, I) == Cardinality({i \in I : Hop(s, t, i) = x})

(* for (i = 0; i < k->num_sibling; ++i) { t->num_sibling += d; t = next }  *)
(* from k on: the bound is one of the counters that the loop changes.  On  *)
(* a ring of two or more it takes at most two turns for each it began with *)
Count(num, s, k, d) ==
  LET Added(x, I) == (num[x] + d * Hits(s, k, x, I)) % UintSize
      turns == {i \in 0..(2 * MaxCount) : \A j \in 0..i : j < Added(k, 0..(j - 1))}
  IN [x \in Proc |-> Added(x, turns)]

-----------------------------------------------------------------------------
(* task_new: its own parent, in no list *)
TaskListInit ==
  /\ procs = {}
  /\ parent = [t \in Proc |-> t] /\ first_child = [t \in Proc |-> NoTask]
  /\ num_sibling = [t \in Proc |-> 0]
  /\ sib = [t \in Proc |-> t]
  /\ listState = "run"

(* A new child p of par, which has the first child f *)
NewChild(p, par, f) ==
  IF f = NoTask
  THEN /\ first_child' = [first_child EXCEPT ![par] = p]
       /\ num_sibling' = [num_sibling EXCEPT ![p] = 1]
       /\ UNCHANGED <<sib, listState>>
  ELSE IF sib[f] = f /\ num_sibling[f] > 0
  THEN (* every turn of the loop raises its bound *)
       listState' = "loops" /\ UNCHANGED <<first_child, num_sibling, sib>>
  ELSE LET num == Count(num_sibling, sib, f, 1)
       IN /\ num_sibling' = [num EXCEPT ![p] = num[f]]
          /\ sib' = AddBefore(sib, f, p)
          /\ UNCHANGED <<first_child, listState>>

(* idle_init and initproc_init come first, each as its own parent *)
add_process(p, par) ==
  /\ listState = "run" /\ p \notin procs
  /\ \A t \in Proc : num_sibling[t] <= MaxCount
  /\ IF {idleproc, initproc} \subseteq procs THEN par \in procs \cup {p}
     ELSE par = p /\ p = IF idleproc \in procs THEN initproc ELSE idleproc
  /\ procs' = procs \cup {p}
  /\ parent' = [parent EXCEPT ![p] = par]
  /\ IF par = p THEN UNCHANGED <<first_child, num_sibling, sib, listState>>
     ELSE NewChild(p, par, first_child[par])

(* Mutant: the parent keeps pointing to the process *)
FirstLeft_same(p) == first_child[parent[p]]

(* The first child of the parent of p once p is removed *)
FirstLeft(p) ==
  IF first_child[parent[p]] # p THEN first_child[parent[p]]
  ELSE IF sib[p] = p THEN NoTask ELSE sib[p]

NumSiblings(num, t) == IF t = NoTask THEN 0 ELSE num[t]

(* The structures that a loop of n turns over a ring comes to *)
Visited(s, t, n) == {Hop(s, t, i) : i \in 0..(n - 1)}

(* Children are taken over by init *)
remove_process(p) ==
  LET fc     == [first_child EXCEPT ![parent[p]] = FirstLeft(p)]
      num    == Count(num_sibling, sib, p, -1)
      s      == DelInit(sib, p)
      child  == fc[p]
      ichild == fc[initproc]
      n      == NumSiblings(num, child)
      m      == NumSiblings(num, ichild)
      kids   == Visited(s, child, n)
      ikids  == Visited(s, ichild, m)
  IN /\ listState = "run" /\ p \in procs \ {idleproc, initproc}
     /\ \A t \in Proc : num_sibling[t] <= MaxCount
     /\ procs' = procs \ {p}
     /\ parent' = [t \in Proc |-> IF t = p THEN p ELSE IF t \in kids THEN initproc ELSE parent[t]]
     /\ num_sibling' = [t \in Proc |-> IF t = p THEN 0
                                      ELSE IF child # NoTask /\ t \in kids \cup ikids THEN (n + m) % UintSize
                                      ELSE num[t]]
     /\ first_child' = [t \in Proc |->
          IF t = p THEN NoTask
          ELSE IF t = initproc /\ child # NoTask /\ ichild = NoTask THEN Hop(s, child, n)
          ELSE fc[t]]
     /\ sib' = IF child # NoTask /\ ichild # NoTask
               THEN Concat(s, Hop(s, child, n), Hop(s, ichild, m)) ELSE s
     /\ UNCHANGED listState

TaskListNext ==
  \/ \E p, par \in Proc : add_process(p, par)
  \/ \E p \in Proc : remove_process(p)

TaskListSpec == TaskListInit /\ [][TaskListNext]_listVars

-----------------------------------------------------------------------------
(* The ring that t is in: the least set with t that is closed under s *)
SibRing(s, t) ==
  {x \in Proc : \A T \in SUBSET Proc : t \in T /\ (\A y \in T : s[y] \in T) => x \in T}

Children(p) == {c \in procs \ {p} : parent[c] = p}

(* Whatever processes are added, removed and handed over to init, the ring *)
(* a process points to is made of its children, all of them, also though   *)
(* num_sibling, by which remove_process counts its way around the rings,   *)
(* does not tell how many they are; as long as add_process returns.        *)
KinExact ==
  listState = "run" =>
    /\ \A p \in procs :
         /\ parent[p] \in procs
         /\ IF first_child[p] = NoTask THEN Children(p) = {}
            ELSE SibRing(sib, first_child[p]) = Children(p)
    /\ \A p \in Proc : Cardinality({x \in Proc : sib[x] = p}) = 1
=============================================================================
