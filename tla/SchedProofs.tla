----------------------------- MODULE SchedProofs -----------------------------
(***************************************************************************)
(* Proofs about the scheduler, for any set of tasks and of processors.     *)
(***************************************************************************)
EXTENDS Sched, TLAPS

-----------------------------------------------------------------------------
(* What the run queues and the se.rq of all tasks satisfy, as a predicate  *)
(* of their values, so that it can be stated in the middle of sched() too. *)

QueueType(q, p, r) ==
  /\ q \in [CPUs -> [Side -> Seq(Task)]]
  /\ p \in [CPUs -> Nat]
  /\ r \in [Task -> CPUs \cup {NoRq}]

QueueInv(q, p, r) ==
  /\ QueueType(q, p, r)
  /\ \A t \in Task, c \in CPUs : r[t] = c <=> \E i \in Side : Has(q[c][i], t)
  /\ \A t \in Task, c \in CPUs : ~(Has(q[c][0], t) /\ Has(q[c][1], t))
  /\ \A c \in CPUs, i \in Side : Distinct(q[c][i])
  /\ \A c \in CPUs : p[c] = Len(q[c][0]) + Len(q[c][1])
  /\ \A c \in CPUs \ {Boot}, i \in Side : q[c][i] = << >>

(* Counting a task in or out of one of two lists. *)
LEMMA Counting ==
  ASSUME NEW x \in Nat, NEW y \in Nat
  PROVE  /\ (x + y) + 1 = (x + 1) + y /\ (x + y) + 1 = x + (y + 1)
         /\ x >= 1 => (x + y) - 1 = (x - 1) + y
         /\ y >= 1 => (x + y) - 1 = x + (y - 1)
         /\ x >= 1 \/ y >= 1 => (x + y) - 1 \in Nat
  OBVIOUS

(* list_add_before(head, t): the list has t in addition, once. *)
LEMMA AppendHas ==
  ASSUME NEW s \in Seq(Task), NEW t \in Task
  PROVE  /\ Append(s, t) \in Seq(Task)
         /\ Len(Append(s, t)) = Len(s) + 1
         /\ \A u : Has(Append(s, t), u) <=> Has(s, u) \/ u = t
         /\ Distinct(s) /\ ~Has(s, t) => Distinct(Append(s, t))
<1> DEFINE a == Append(s, t)
<1>1. a \in Seq(Task) /\ Len(s) \in Nat /\ Len(a) = Len(s) + 1
  OBVIOUS
<1>2. a[Len(s) + 1] = t /\ \A k \in 1..Len(s) : a[k] = s[k]
  OBVIOUS
<1>3. \A u : Has(a, u) <=> Has(s, u) \/ u = t
  <2> TAKE u
  <2>1. ASSUME Has(s, u) \/ u = t PROVE Has(a, u)
    BY <1>1, <1>2, <2>1 DEF Has
  <2>2. ASSUME Has(a, u) PROVE Has(s, u) \/ u = t
    BY <1>1, <1>2, <2>2 DEF Has
  <2>3. QED
    BY <2>1, <2>2
<1>4. ASSUME Distinct(s), ~Has(s, t) PROVE Distinct(a)
  BY <1>1, <1>2, <1>4 DEF Has, Distinct
<1>5. QED
  BY <1>1, <1>3, <1>4

(* Taking the first task off a list without duplicates removes it and no other. *)
LEMMA TailHas ==
  ASSUME NEW s \in Seq(Task), s # << >>, Distinct(s)
  PROVE  /\ Tail(s) \in Seq(Task)
         /\ Len(Tail(s)) = Len(s) - 1 /\ Len(s) >= 1
         /\ Head(s) \in Task /\ Has(s, Head(s))
         /\ \A u : Has(Tail(s), u) <=> Has(s, u) /\ u # Head(s)
         /\ Distinct(Tail(s))
<1> DEFINE a == Tail(s)
<1>1. /\ a \in Seq(Task) /\ Len(s) \in Nat /\ Len(s) >= 1 /\ Len(a) = Len(s) - 1
      /\ Head(s) = s[1] /\ s[1] \in Task
  OBVIOUS
<1>2. \A k \in 1..Len(a) : a[k] = s[k + 1]
  OBVIOUS
<1>3. \A u : Has(a, u) <=> Has(s, u) /\ u # Head(s)
  <2> TAKE u
  <2>1. ASSUME Has(a, u) PROVE Has(s, u) /\ u # Head(s)
    <3>1. PICK k \in 1..Len(a) : a[k] = u
      BY <2>1 DEF Has
    <3>2. k + 1 \in 1..Len(s) /\ s[k + 1] = u /\ k + 1 # 1 /\ 1 \in 1..Len(s)
      BY <1>1, <1>2, <3>1
    <3>3. QED
      BY <1>1, <3>2 DEF Has, Distinct
  <2>2. ASSUME Has(s, u), u # Head(s) PROVE Has(a, u)
    <3>1. PICK k \in 1..Len(s) : s[k] = u
      BY <2>2 DEF Has
    <3>2. k - 1 \in 1..Len(a) /\ a[k - 1] = u
      BY <1>1, <1>2, <2>2, <3>1
    <3>3. QED
      BY <3>2 DEF Has
  <2>3. QED
    BY <2>1, <2>2
<1>4. Has(s, Head(s))
  BY <1>1 DEF Has
<1>5. Distinct(a)
  BY <1>1, <1>2 DEF Distinct
<1>6. QED
  BY <1>1, <1>3, <1>4, <1>5

-----------------------------------------------------------------------------
(* What sched_enqueue(&cpu_rq[Boot], t) and sched_dequeue(t) do when t goes *)
(* to, or is the first of, list i of Boot *)
Enqueued(q, p, r, t, i, q1, p1, r1) ==
  /\ q1 = [q EXCEPT ![Boot][i] = Append(@, t)]
  /\ p1 = [p EXCEPT ![Boot] = @ + 1]
  /\ r1 = [r EXCEPT ![t] = Boot]

Dequeued(q, p, r, t, i, q1, p1, r1) ==
  /\ q1 = [q EXCEPT ![Boot][i] = Tail(@)]
  /\ p1 = [p EXCEPT ![Boot] = @ - 1]
  /\ r1 = [r EXCEPT ![t] = NoRq]

(* sched_enqueue on Boot keeps the queues right if the task was in none. *)
LEMMA EnqueueKeeps ==
  ASSUME NEW q, NEW p, NEW r, QueueInv(q, p, r),
         NEW t \in Task, r[t] = NoRq, NEW a \in Side,
         NEW q1, NEW p1, NEW r1,
         Enqueued(q, p, r, t, a, q1, p1, r1)
  PROVE  QueueInv(q1, p1, r1) /\ q1[Boot][a] # << >> /\ p1[Boot] = p[Boot] + 1
<1> USE DEF Side
<1>1. Boot \in CPUs /\ NoRq \notin CPUs /\ q[Boot][a] \in Seq(Task)
  BY SchedAssumption DEF QueueInv, QueueType
<1>2. ~Has(q[Boot][a], t)
  BY <1>1 DEF QueueInv
<1> DEFINE s == Append(q[Boot][a], t)
<1>3. /\ s \in Seq(Task) /\ Len(s) = Len(q[Boot][a]) + 1 /\ Len(q[Boot][a]) \in Nat
      /\ \A u : Has(s, u) <=> Has(q[Boot][a], u) \/ u = t
      /\ Distinct(s)
  BY <1>1, <1>2, AppendHas DEF QueueInv
<1>4. /\ q1 \in [CPUs -> [Side -> Seq(Task)]]
      /\ \A c \in CPUs \ {Boot} : q1[c] = q[c]
      /\ q1[Boot][a] = s
      /\ \A i \in Side \ {a} : q1[Boot][i] = q[Boot][i]
  BY <1>1, <1>3 DEF QueueInv, QueueType, Enqueued
<1>5. r1[t] = Boot /\ (\A u \in Task \ {t} : r1[u] = r[u]) /\ r1 \in [Task -> CPUs \cup {NoRq}]
  BY <1>1 DEF QueueInv, QueueType, Enqueued
<1>6. p1[Boot] = p[Boot] + 1 /\ (\A c \in CPUs \ {Boot} : p1[c] = p[c]) /\ p1 \in [CPUs -> Nat]
  BY <1>1 DEF QueueInv, QueueType, Enqueued
<1>7. QueueType(q1, p1, r1)
  BY <1>4, <1>5, <1>6 DEF QueueType
<1>8. ASSUME NEW u \in Task, NEW c \in CPUs
      PROVE  r1[u] = c <=> \E i \in Side : Has(q1[c][i], u)
  <2>1. r[u] = c <=> \E i \in Side : Has(q[c][i], u)
    BY DEF QueueInv
  <2>2. CASE c # Boot
    BY <1>1, <1>4, <1>5, <2>1, <2>2
  <2>3. CASE c = Boot
    <3>1. \A i \in Side \ {a} : Has(q1[Boot][i], u) <=> Has(q[Boot][i], u)
      BY <1>4, Zenon
    <3>2. Has(q1[Boot][a], u) <=> Has(q[Boot][a], u) \/ u = t
      BY <1>3, <1>4, Zenon
    <3>3. (\E i \in Side : Has(q1[Boot][i], u)) <=>
             (\E i \in Side : Has(q[Boot][i], u)) \/ u = t
      BY <3>1, <3>2
    <3>4. QED
      BY <1>1, <1>5, <2>1, <2>3, <3>3
  <2>4. QED
    BY <2>2, <2>3
<1>9. ASSUME NEW u \in Task, NEW c \in CPUs
      PROVE  ~(Has(q1[c][0], u) /\ Has(q1[c][1], u))
  <2>1. ~(Has(q[c][0], u) /\ Has(q[c][1], u))
    BY DEF QueueInv
  <2>2. ~Has(q[Boot][0], t) /\ ~Has(q[Boot][1], t)
    BY <1>1 DEF QueueInv
  <2>3. CASE c # Boot
    BY <1>4, <2>1, <2>3
  <2>4. CASE c = Boot
    <3>1. \A i \in Side : Has(q1[Boot][i], u) => Has(q[Boot][i], u) \/ (i = a /\ u = t)
      BY <1>3, <1>4
    <3>2. QED
      BY <2>1, <2>2, <2>4, <3>1
  <2>5. QED
    BY <2>3, <2>4
<1>10. \A c \in CPUs, i \in Side : Distinct(q1[c][i])
  BY <1>3, <1>4 DEF QueueInv
<1>11. \A c \in CPUs : p1[c] = Len(q1[c][0]) + Len(q1[c][1])
  <2>1. p[Boot] = Len(q[Boot][0]) + Len(q[Boot][1])
    BY <1>1 DEF QueueInv
  <2>2. Len(q[Boot][0]) \in Nat /\ Len(q[Boot][1]) \in Nat
    BY <1>1 DEF QueueInv, QueueType
  <2>3. p1[Boot] = Len(q1[Boot][0]) + Len(q1[Boot][1])
    <3>1. CASE a = 0
      <4>1. Len(q1[Boot][0]) = Len(q[Boot][0]) + 1 /\ Len(q1[Boot][1]) = Len(q[Boot][1])
        BY <1>3, <1>4, <3>1
      <4>2. (Len(q[Boot][0]) + Len(q[Boot][1])) + 1 = (Len(q[Boot][0]) + 1) + Len(q[Boot][1])
        BY <2>2, <4>1, Counting, Zenon
      <4>3. p1[Boot] = (Len(q[Boot][0]) + Len(q[Boot][1])) + 1
        BY <1>6, <2>1, Zenon
      <4>4. QED
        BY <4>1, <4>2, <4>3, Zenon
    <3>2. CASE a = 1
      <4>1. Len(q1[Boot][1]) = Len(q[Boot][1]) + 1 /\ Len(q1[Boot][0]) = Len(q[Boot][0])
        BY <1>3, <1>4, <3>2
      <4>2. (Len(q[Boot][0]) + Len(q[Boot][1])) + 1 = Len(q[Boot][0]) + (Len(q[Boot][1]) + 1)
        BY <2>2, <4>1, Counting, Zenon
      <4>3. p1[Boot] = (Len(q[Boot][0]) + Len(q[Boot][1])) + 1
        BY <1>6, <2>1, Zenon
      <4>4. QED
        BY <4>1, <4>2, <4>3, Zenon
    <3>3. QED
      BY <3>1, <3>2
  <2>4. \A c \in CPUs \ {Boot} : p1[c] = Len(q1[c][0]) + Len(q1[c][1])
    BY <1>4, <1>6 DEF QueueInv
  <2>5. QED
    BY <2>3, <2>4
<1>12. \A c \in CPUs \ {Boot}, i \in Side : q1[c][i] = << >>
  BY <1>4 DEF QueueInv
<1>13. s # << >>
  BY <1>1
<1>14. QED
  BY <1>4, <1>6, <1>7, <1>8, <1>9, <1>10, <1>11, <1>12, <1>13 DEF QueueInv

(* t is the first task of list i of Boot *)
FirstOf(q, t, i) == q[Boot][i] # << >> /\ t = Head(q[Boot][i])

(* sched_dequeue of the first task of a list keeps the queues right. *)
LEMMA DequeueKeeps ==
  ASSUME NEW q, NEW p, NEW r, QueueInv(q, p, r), NEW l \in Side,
         NEW t, FirstOf(q, t, l), NEW q1, NEW p1, NEW r1,
         Dequeued(q, p, r, t, l, q1, p1, r1)
  PROVE  t \in Task /\ r[t] = Boot /\ QueueInv(q1, p1, r1) /\ p1[Boot] = p[Boot] - 1
<1> USE DEF Side
<1>1. Boot \in CPUs /\ NoRq \notin CPUs /\ q[Boot][l] \in Seq(Task) /\ Distinct(q[Boot][l])
  BY SchedAssumption DEF QueueInv, QueueType
<1> DEFINE s == Tail(q[Boot][l])
<1>2. /\ s \in Seq(Task) /\ Len(s) = Len(q[Boot][l]) - 1 /\ Len(q[Boot][l]) >= 1
      /\ t \in Task /\ Has(q[Boot][l], t)
      /\ \A u : Has(s, u) <=> Has(q[Boot][l], u) /\ u # t
      /\ Distinct(s)
  BY <1>1, TailHas DEF FirstOf
<1>3. r[t] = Boot /\ \A i \in Side \ {l} : ~Has(q[Boot][i], t)
  BY <1>1, <1>2 DEF QueueInv
<1>4. /\ q1 \in [CPUs -> [Side -> Seq(Task)]]
      /\ \A c \in CPUs \ {Boot} : q1[c] = q[c]
      /\ q1[Boot][l] = s
      /\ \A i \in Side \ {l} : q1[Boot][i] = q[Boot][i]
  BY <1>1, <1>2 DEF QueueInv, QueueType, Dequeued
<1>5. r1[t] = NoRq /\ (\A u \in Task \ {t} : r1[u] = r[u]) /\ r1 \in [Task -> CPUs \cup {NoRq}]
  BY <1>2 DEF QueueInv, QueueType, Dequeued
<1>6. /\ p[Boot] = Len(q[Boot][0]) + Len(q[Boot][1])
      /\ Len(q[Boot][0]) \in Nat /\ Len(q[Boot][1]) \in Nat
  <2>1. q[Boot][0] \in Seq(Task) /\ q[Boot][1] \in Seq(Task)
    BY <1>1 DEF QueueInv, QueueType
  <2>2. Len(q[Boot][0]) \in Nat /\ Len(q[Boot][1]) \in Nat
    BY <2>1
  <2>3. QED
    BY <1>1, <2>2 DEF QueueInv
<1>7. p1[Boot] = p[Boot] - 1 /\ p[Boot] - 1 \in Nat
  <2>1. p \in [CPUs -> Nat]
    BY DEF QueueInv, QueueType
  <2>2. p1[Boot] = p[Boot] - 1
    BY <1>1, <2>1 DEF Dequeued
  <2>3. Len(q[Boot][0]) >= 1 \/ Len(q[Boot][1]) >= 1
    BY <1>2
  <2>4. QED
    BY <1>6, <2>2, <2>3, Counting, Zenon
<1>8. (\A c \in CPUs \ {Boot} : p1[c] = p[c]) /\ p1 \in [CPUs -> Nat]
  BY <1>1, <1>7 DEF QueueInv, QueueType, Dequeued
<1>9. QueueType(q1, p1, r1)
  BY <1>4, <1>5, <1>8 DEF QueueType
<1>10. ASSUME NEW u \in Task, NEW c \in CPUs
       PROVE  r1[u] = c <=> \E i \in Side : Has(q1[c][i], u)
  <2>1. r[u] = c <=> \E i \in Side : Has(q[c][i], u)
    BY DEF QueueInv
  <2>2. CASE c # Boot
    BY <1>1, <1>3, <1>4, <1>5, <2>1, <2>2
  <2>3. CASE c = Boot /\ u = t
    BY <1>1, <1>2, <1>3, <1>4, <1>5, <2>3
  <2>4. CASE c = Boot /\ u # t
    BY <1>2, <1>4, <1>5, <2>1, <2>4
  <2>5. QED
    BY <2>2, <2>3, <2>4
<1>11. ASSUME NEW u \in Task, NEW c \in CPUs
       PROVE  ~(Has(q1[c][0], u) /\ Has(q1[c][1], u))
  <2>1. ~(Has(q[c][0], u) /\ Has(q[c][1], u))
    BY DEF QueueInv
  <2>2. QED
    BY <1>2, <1>4, <2>1
<1>12. \A c \in CPUs, i \in Side : Distinct(q1[c][i])
  BY <1>2, <1>4 DEF QueueInv
<1>13. \A c \in CPUs : p1[c] = Len(q1[c][0]) + Len(q1[c][1])
  <2>1. p1[Boot] = Len(q1[Boot][0]) + Len(q1[Boot][1])
    <3>1. CASE l = 0
      <4>1. Len(q1[Boot][0]) = Len(q[Boot][0]) - 1 /\ Len(q1[Boot][1]) = Len(q[Boot][1]) /\ Len(q[Boot][0]) >= 1
        <5>1. q1[Boot][0] = s /\ q1[Boot][1] = q[Boot][1]
          BY <1>4, <3>1
        <5>2. Len(s) = Len(q[Boot][0]) - 1 /\ Len(q[Boot][0]) >= 1
          BY <1>2, <3>1
        <5>3. QED
          BY <5>1, <5>2, Zenon
      <4>2. (Len(q[Boot][0]) + Len(q[Boot][1])) - 1 = (Len(q[Boot][0]) - 1) + Len(q[Boot][1])
        BY <1>6, <4>1, Counting, Zenon
      <4>3. p1[Boot] = (Len(q[Boot][0]) + Len(q[Boot][1])) - 1
        BY <1>6, <1>7, Zenon
      <4>4. QED
        BY <4>1, <4>2, <4>3, Zenon
    <3>2. CASE l = 1
      <4>1. Len(q1[Boot][1]) = Len(q[Boot][1]) - 1 /\ Len(q1[Boot][0]) = Len(q[Boot][0]) /\ Len(q[Boot][1]) >= 1
        <5>1. q1[Boot][1] = s /\ q1[Boot][0] = q[Boot][0]
          BY <1>4, <3>2
        <5>2. Len(s) = Len(q[Boot][1]) - 1 /\ Len(q[Boot][1]) >= 1
          BY <1>2, <3>2
        <5>3. QED
          BY <5>1, <5>2, Zenon
      <4>2. (Len(q[Boot][0]) + Len(q[Boot][1])) - 1 = Len(q[Boot][0]) + (Len(q[Boot][1]) - 1)
        BY <1>6, <4>1, Counting, Zenon
      <4>3. p1[Boot] = (Len(q[Boot][0]) + Len(q[Boot][1])) - 1
        BY <1>6, <1>7, Zenon
      <4>4. QED
        BY <4>1, <4>2, <4>3, Zenon
    <3>3. QED
      BY <3>1, <3>2
  <2>2. \A c \in CPUs \ {Boot} : p1[c] = Len(q1[c][0]) + Len(q1[c][1])
    BY <1>4, <1>8 DEF QueueInv
  <2>3. QED
    BY <2>1, <2>2
<1>14. \A c \in CPUs \ {Boot}, i \in Side : q1[c][i] = << >>
  BY <1>4 DEF QueueInv
<1>15. QED
  BY <1>2, <1>3, <1>7, <1>9, <1>10, <1>11, <1>12, <1>13, <1>14 DEF QueueInv

-----------------------------------------------------------------------------
(* The inductive invariant.  QueueInv says that only Boot has tasks and    *)
(* that payload counts them; with a task always left to run, this makes    *)
(* Boot the one processor sched_enqueue_minload can choose.                *)
SchedInv ==
  /\ TypeOK
  /\ QueueInv(queue, payload, rq)
  /\ \A t \in Task : rq[t] # NoRq <=> t \in started \ {current}
  /\ AlwaysAnother

(* The queues that task_init_sched leaves satisfy the invariant. *)
LEMMA InitSched == SchedInit => SchedInv
<1> SUFFICES ASSUME SchedInit PROVE SchedInv
  OBVIOUS
<1> USE DEF Side
<1>1. /\ IdleP \in Task /\ InitP \in Task /\ IdleP # InitP
      /\ Boot \in CPUs /\ NoRq \notin CPUs
  BY SchedAssumption
<1>2. <<InitP>> \in Seq(Task) /\ Len(<<InitP>>) = 1 /\ <<InitP>>[1] = InitP
  BY <1>1
<1>3. << >> \in Seq(Task) /\ Len(<< >>) = 0
  OBVIOUS
<1>4. \A u : Has(<<InitP>>, u) <=> u = InitP
  BY <1>2 DEF Has
<1>5. \A u : ~Has(<< >>, u)
  BY <1>3 DEF Has
<1>6. Distinct(<<InitP>>) /\ Distinct(<< >>)
  BY <1>2, <1>3 DEF Distinct
<1>7. /\ queue \in [CPUs -> [Side -> Seq(Task)]]
      /\ queue[Boot][0] = << >> /\ queue[Boot][1] = <<InitP>>
      /\ \A c \in CPUs \ {Boot}, i \in Side : queue[c][i] = << >>
  BY <1>1, <1>2, <1>3 DEF SchedInit
<1>8. payload \in [CPUs -> Nat] /\ payload[Boot] = 1 /\ \A c \in CPUs \ {Boot} : payload[c] = 0
  BY <1>1 DEF SchedInit
<1>9. /\ rq \in [Task -> CPUs \cup {NoRq}]
      /\ rq[InitP] = Boot /\ \A t \in Task \ {InitP} : rq[t] = NoRq
  BY <1>1 DEF SchedInit
<1>10. \A t \in Task, c \in CPUs : rq[t] = c <=> \E i \in Side : Has(queue[c][i], t)
  <2> TAKE t \in Task, c \in CPUs
  <2>1. CASE c = Boot
    BY <1>1, <1>4, <1>5, <1>7, <1>9, <2>1
  <2>2. CASE c # Boot
    BY <1>1, <1>5, <1>7, <1>9, <2>2
  <2>3. QED
    BY <2>1, <2>2
<1>11. \A t \in Task, c \in CPUs : ~(Has(queue[c][0], t) /\ Has(queue[c][1], t))
  BY <1>5, <1>7
<1>12. \A c \in CPUs, i \in Side : Distinct(queue[c][i])
  BY <1>6, <1>7
<1>13. \A c \in CPUs : payload[c] = Len(queue[c][0]) + Len(queue[c][1])
  <2>1. 1 = 0 + 1 /\ 0 = 0 + 0
    OBVIOUS
  <2>2. payload[Boot] = Len(queue[Boot][0]) + Len(queue[Boot][1])
    BY <1>2, <1>3, <1>7, <1>8, <2>1, Zenon
  <2>3. ASSUME NEW c \in CPUs \ {Boot} PROVE payload[c] = Len(queue[c][0]) + Len(queue[c][1])
    <3>1. queue[c][0] = << >> /\ queue[c][1] = << >>
      BY <1>7
    <3>2. QED
      BY <1>3, <1>8, <2>1, <3>1, Zenon
  <2>4. QED
    BY <2>2, <2>3, Zenon
<1>14. TypeOK
  BY <1>1, <1>7, <1>8, <1>9 DEF SchedInit, TypeOK
<1>15. \A t \in Task : rq[t] # NoRq <=> t \in started \ {current}
  BY <1>1, <1>9 DEF SchedInit
<1>16. QueueType(queue, payload, rq)
  BY <1>7, <1>8, <1>9 DEF QueueType
<1>17. QueueInv(queue, payload, rq)
  BY <1>7, <1>10, <1>11, <1>12, <1>13, <1>16, Zenon DEF QueueInv
<1>18. AlwaysAnother
  BY <1>8 DEF AlwaysAnother
<1>19. QED
  BY <1>14, <1>15, <1>17, <1>18 DEF SchedInv

(* As long as only Boot has tasks, it is the queue with the greatest load. *)
LEMMA BootChosen ==
  ASSUME SchedInv, NEW c \in CPUs, minload(c)
  PROVE  c = Boot
<1>1. Boot \in CPUs
  BY SchedAssumption
<1>2. payload[Boot] >= 1 /\ payload[Boot] \in Nat /\ payload[c] \in Nat
  BY <1>1 DEF SchedInv, AlwaysAnother, TypeOK
<1>3. payload[Boot] <= payload[c]
  BY <1>1 DEF minload
<1>4. ASSUME c # Boot PROVE payload[c] = 0
  <2>1. queue[c][0] = << >> /\ queue[c][1] = << >>
    BY <1>4 DEF SchedInv, QueueInv, Side
  <2>2. Len(<< >>) = 0 /\ 0 + 0 = 0
    OBVIOUS
  <2>3. payload[c] = Len(queue[c][0]) + Len(queue[c][1])
    BY DEF SchedInv, QueueInv
  <2>4. QED
    BY <2>1, <2>2, <2>3, Zenon
<1>5. QED
  BY <1>2, <1>3, <1>4

(* A task handed to the scheduler keeps the invariant. *)
LEMMA StartStep ==
  ASSUME SchedInv, NEW t \in Task, Start(t)
  PROVE  SchedInv'
<1>1. Boot \in CPUs /\ NoRq \notin CPUs
  BY SchedAssumption
<1>2. QueueFor(Boot, t, slice) \in Side
  BY <1>1 DEF QueueFor, exhaust, Side, SchedInv, TypeOK
<1>3. Enqueued(queue, payload, rq, t, QueueFor(Boot, t, slice), queue', payload', rq')
  BY DEF Start, sched_enqueue, Queues, Enqueued
<1>4. rq[t] = NoRq /\ QueueInv(queue, payload, rq) /\ t \notin started
  BY DEF Start, SchedInv
<1>5. QueueInv(queue', payload', rq') /\ payload'[Boot] = payload[Boot] + 1
  BY <1>2, <1>3, <1>4, EnqueueKeeps
<1>6. rq'[t] = Boot /\ (\A u \in Task \ {t} : rq'[u] = rq[u])
  BY <1>3 DEF Enqueued, SchedInv, TypeOK
<1>7. started' = started \cup {t} /\ current' = current /\ run' = run /\ slice' = slice
  BY DEF Start
<1>8. \A u \in Task : rq'[u] # NoRq <=> u \in started' \ {current'}
  BY <1>1, <1>4, <1>6, <1>7 DEF SchedInv, TypeOK
<1>9. TypeOK'
  BY <1>5, <1>7 DEF QueueInv, QueueType, SchedInv, TypeOK
<1>10. payload[Boot] \in Nat /\ payload[Boot] >= 1
  BY <1>1 DEF SchedInv, TypeOK, AlwaysAnother
<1>11. AlwaysAnother'
  BY <1>5, <1>10 DEF AlwaysAnother
<1>12. QED
  BY <1>5, <1>8, <1>9, <1>11 DEF SchedInv

(* A tick keeps the invariant: the current task is queued on Boot, so      *)
(* there is a task to pick, and it is one of Boot.                         *)
LEMMA TickStep ==
  ASSUME SchedInv, Tick
  PROVE  SchedInv'
<1>1. Boot \in CPUs /\ NoRq \notin CPUs
  BY SchedAssumption
<1>2. PICK sl : slice' = sl /\ sched(sl) /\ sl \in [Task -> Nat]
  <2> DEFINE s0 == IF sched_exhaust(current, slice) THEN slice
                   ELSE [slice EXCEPT ![current] = @ + 1]
  <2>1. slice' = s0 /\ sched(s0)
    BY DEF Tick
  <2>2. s0 \in [Task -> Nat]
    BY DEF SchedInv, TypeOK
  <2>3. QED
    BY <2>1, <2>2, Zenon
<1>3. rq[current] = NoRq /\ minload(Boot)
  BY <1>2, BootChosen DEF sched
<1> DEFINE a == QueueFor(Boot, current, sl)
           R == sched_enqueue(Queues, Boot, current, sl)
           l == sched_pick(R)
<1>4. a \in Side /\ current \in Task /\ current \in started
  BY <1>1 DEF QueueFor, exhaust, Side, SchedInv, TypeOK
<1>5. Enqueued(queue, payload, rq, current, a, R.queue, R.payload, R.rq)
  BY DEF sched_enqueue, Queues, Enqueued
<1>6. /\ QueueInv(R.queue, R.payload, R.rq) /\ R.queue[Boot][a] # << >>
      /\ R.payload[Boot] = payload[Boot] + 1
  BY <1>3, <1>4, <1>5, EnqueueKeeps DEF SchedInv
<1>7. l \in Side /\ R.queue[Boot][l] # << >>
  BY <1>1, <1>4, <1>6 DEF sched_pick, exhaust, Side, SchedInv, TypeOK
<1> DEFINE new == Head(R.queue[Boot][l])
<1> HIDE DEF a, R, l, new
<1>8. R.rq[new] = Boot
  <2> DEFINE q2 == [R.queue EXCEPT ![Boot][l] = Tail(@)]
             p2 == [R.payload EXCEPT ![Boot] = @ - 1]
             r2 == [R.rq EXCEPT ![new] = NoRq]
  <2>1. Dequeued(R.queue, R.payload, R.rq, new, l, q2, p2, r2)
    BY DEF Dequeued
  <2>2. FirstOf(R.queue, new, l)
    BY <1>7 DEF new, FirstOf
  <2> HIDE DEF q2, p2, r2
  <2>3. QED
    BY <1>6, <1>7, <2>1, <2>2, DequeueKeeps
<1>9. /\ run' = [run EXCEPT ![Boot] = l] /\ current' = new
      /\ Dequeued(R.queue, R.payload, R.rq, new, l, queue', payload', rq')
  BY <1>2, <1>7, <1>8, BootChosen, ZenonT(30) DEF sched, sched_dequeue, Dequeued, R, l, new
<1>10. /\ new \in Task /\ QueueInv(queue', payload', rq')
       /\ payload'[Boot] = R.payload[Boot] - 1
  <2>1. FirstOf(R.queue, new, l)
    BY <1>7 DEF new, FirstOf
  <2>2. QED
    BY <1>6, <1>7, <1>9, <2>1, DequeueKeeps
<1>11. R.rq = [rq EXCEPT ![current] = Boot] /\ rq' = [R.rq EXCEPT ![new] = NoRq]
  BY <1>5, <1>9 DEF Enqueued, Dequeued
<1>12. \A u \in Task : R.rq[u] # NoRq <=> u \in started
  BY <1>1, <1>4, <1>11 DEF SchedInv, TypeOK
<1>13. started' = started
  BY DEF Tick
<1>14. new \in started
  BY <1>1, <1>8, <1>10, <1>12
<1>15. \A u \in Task : rq'[u] # NoRq <=> u \in started \ {new}
  <2>1. R.rq \in [Task -> CPUs \cup {NoRq}]
    BY <1>6 DEF QueueInv, QueueType
  <2>2. QED
    BY <1>10, <1>11, <1>12, <2>1
<1>16. TypeOK'
  <2>1. run' \in [CPUs -> Side]
    BY <1>7, <1>9 DEF SchedInv, TypeOK
  <2>2. QED
    BY <1>2, <1>9, <1>10, <1>13, <1>14, <2>1 DEF QueueInv, QueueType, SchedInv, TypeOK
<1>17. AlwaysAnother'
  <2>1. payload[Boot] \in Nat /\ payload[Boot] >= 1
    BY <1>1 DEF SchedInv, TypeOK, AlwaysAnother
  <2>2. (payload[Boot] + 1) - 1 >= 1
    BY <2>1
  <2>3. QED
    BY <1>6, <1>10, <2>2, Zenon DEF AlwaysAnother
<1>18. QED
  BY <1>9, <1>10, <1>13, <1>15, <1>16, <1>17 DEF SchedInv

(* Every step keeps the invariant. *)
LEMMA SchedStep == SchedInv /\ [SchedNext]_schedVars => SchedInv'
<1> SUFFICES ASSUME SchedInv, [SchedNext]_schedVars PROVE SchedInv'
  OBVIOUS
<1>1. CASE Tick
  BY <1>1, TickStep
<1>2. ASSUME NEW t \in Task, Start(t) PROVE SchedInv'
  BY <1>2, StartStep
<1>3. CASE UNCHANGED schedVars
  BY <1>3, ZenonT(30) DEF schedVars, SchedInv, TypeOK, QueueInv, QueueType, AlwaysAnother
<1>4. QED
  BY <1>1, <1>2, <1>3 DEF SchedNext

(* The invariant holds in every reachable state. *)
LEMMA SchedAlways == SchedSpec => []SchedInv
<1>1. QED
  BY InitSched, SchedStep, PTL DEF SchedSpec

-----------------------------------------------------------------------------
(* sched() neither loses nor duplicates a task, for any number of tasks    *)
(* started at any time: a started task runs or is in exactly one list.     *)
THEOREM TasksKept == SchedSpec => []OnePlace
<1>1. SchedInv => OnePlace
  BY Zenon DEF SchedInv, QueueInv, OnePlace
<1>2. QED
  BY <1>1, SchedAlways, PTL

(* payload is always the number of tasks queued, so its unsigned decrement *)
(* in sched_dequeue never wraps.                                           *)
THEOREM PayloadCounts == SchedSpec => [](TypeOK /\ PayloadExact)
<1>1. SchedInv => TypeOK /\ PayloadExact
  BY Zenon DEF SchedInv, QueueInv, PayloadExact
<1>2. QED
  BY <1>1, SchedAlways, PTL

(* However many processors are configured, sched_enqueue_minload puts no   *)
(* task on the queue of one that does not execute, and sched() always has  *)
(* a task to switch to other than through its idleproc fallback.           *)
THEOREM OnlyBootServed == SchedSpec => [](OnlyBootQueues /\ AlwaysAnother)
<1>1. SchedInv => OnlyBootQueues /\ AlwaysAnother
  BY Zenon DEF SchedInv, QueueInv, OnlyBootQueues
<1>2. QED
  BY <1>1, SchedAlways, PTL
=============================================================================
