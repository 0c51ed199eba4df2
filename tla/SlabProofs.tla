----------------------------- MODULE SlabProofs ------------------------------
(***************************************************************************)
(* Proofs about kmalloc and kfree, for any number of pages, any requests   *)
(* and any number of allocations held at once.                             *)
(***************************************************************************)
EXTENDS Slab, FiniteSetTheorems, TLAPS

-----------------------------------------------------------------------------
(* The inductive invariant *)

TypeInv ==
  /\ free \subseteq Page
  /\ type \in [Page -> {"generic", "slab", "tail"}]
  /\ cache \in [Page -> 0..13]
  /\ index = [p \in Page |-> index[p]]
  /\ count \in [Page -> Nat]
  /\ chunk = [p \in Page |-> chunk[p]]
  /\ last_accessed \in 0..13
  /\ own \subseteq [page : Page, index : Nat, bytes : Nat \ {0}]

(* e runs along the chain f from i, through every element of X once, and   *)
(* leaves it at its end.                                                   *)
Runs(e, X, i, f, n) ==
  /\ e[1] = i /\ e[n + 1] = INDEX_INVALID
  /\ \A k \in 1..n : e[k] \in X /\ f[e[k]] = e[k + 1]
  /\ \A x \in X : \E k \in 1..n : e[k] = x
  /\ \A j, k \in 1..n : e[j] = e[k] => j = k

Chained(X, i, f, n) == \E e \in [1..(n + 1) -> X \cup {INDEX_INVALID}] : Runs(e, X, i, f, n)

Unheld(s) == Chunks(s) \ Held(s)

ChainOf(s) ==
  /\ chunk[s] = [k \in Chunks(s) |-> chunk[s][k]]
  /\ Chained(Unheld(s), index[s], chunk[s], count[s])
  /\ count[s] = Cardinality(Unheld(s))
  /\ count[s] < capacity(cache[s])

ChainInv == \A s \in Slabs : ChainOf(s)

(* The queue of head is one ring, and its slabs are S. *)
QueueIs(n, v, head, S) ==
  /\ head = NULL <=> S = {}
  /\ head = NULL \/ head \in S
  /\ \A x \in S : n[x] \in S /\ v[x] \in S
  /\ \A T \in SUBSET S : T # {} /\ (\A x \in T : n[x] \in T /\ v[x] \in T) => T = S

(* Slab p is in queue w[p]: c is the avail queue of cache c, -c its full   *)
(* queue, and 0 no queue.                                                  *)
Key == -13..13
(* Next and previous are inverse. *)
Mutual(n, v) == \A p \in Page : v[n[p]] = p /\ n[v[p]] = p
Rings(n, v, h, w) ==
  /\ n \in [Page -> Page] /\ v \in [Page -> Page] /\ Mutual(n, v)
  /\ \A k \in Key \ {0} : QueueIs(n, v, h[k], {p \in Page : w[p] = k})
  /\ \A p \in Page : w[p] = 0 => n[p] = p

Heads(Q) == [k \in Key |-> IF k > 0 THEN Q.avail[k] ELSE IF k < 0 THEN Q.full[-k] ELSE NULL]
Place == [p \in Page |-> IF cache[p] = NULL THEN 0
                         ELSE IF count[p] > 0 THEN cache[p] ELSE -cache[p]]
QType(Q) == Q \in [n : [Page -> Page], v : [Page -> Page],
                   avail : [Cache -> 0..NPages], full : [Cache -> 0..NPages]]
QueueInv == QType(q) /\ Rings(q.n, q.v, Heads(q), Place)

Large == own \ Small
OwnInv ==
  /\ \A o \in Small : /\ o.page \in Slabs /\ o.index \in Chunks(o.page)
                      /\ size[cache[o.page]] >= o.bytes
                      /\ type[o.page] = "slab"
  /\ \A o \in Large : /\ LargeRun(o) \subseteq Page
                      /\ LargeRun(o) \cap (free \cup Slabs) = {}
                      /\ type[o.page] # "slab"
  /\ \A o, x \in Small : o # x => o.page # x.page \/ o.index # x.index
  /\ \A o, x \in Large : o # x => LargeRun(o) \cap LargeRun(x) = {}
  /\ Slabs \cap free = {}
  /\ \A p \in Page : p \in free \/ p \in Slabs \/ \E o \in Large : p \in LargeRun(o)

SlabInv == TypeInv /\ ChainInv /\ QueueInv /\ OwnInv /\ ~halted

-----------------------------------------------------------------------------
(* Rings *)

(* list_del_init keeps next and previous inverse, and leaves s alone. *)
LEMMA DelInverse ==
  ASSUME NEW n \in [Page -> Page], NEW v \in [Page -> Page], Mutual(n, v), NEW s \in Page
  PROVE  /\ DelNext(n, v, s) \in [Page -> Page] /\ DelPrev(n, v, s) \in [Page -> Page]
         /\ Mutual(DelNext(n, v, s), DelPrev(n, v, s))
         /\ DelNext(n, v, s)[s] = s
         /\ \A p \in Page : n[p] = p => DelNext(n, v, s)[p] = p
  BY DEF Mutual, DelNext, DelPrev

(* list_add_before keeps them inverse too when s was alone. *)
LEMMA AddInverse ==
  ASSUME NEW n \in [Page -> Page], NEW v \in [Page -> Page], Mutual(n, v),
         NEW s \in Page, NEW at \in Page, at # s, n[s] = s
  PROVE  /\ AddNext(n, v, at, s) \in [Page -> Page] /\ AddPrev(n, v, at, s) \in [Page -> Page]
         /\ Mutual(AddNext(n, v, at, s), AddPrev(n, v, at, s))
  BY DEF Mutual, AddNext, AddPrev

(* A queue none of whose slabs has its links changed stays a queue. *)
LEMMA QueueSame ==
  ASSUME NEW n, NEW v, NEW m, NEW u, NEW head, NEW S, QueueIs(n, v, head, S),
         \A x \in S : m[x] = n[x] /\ u[x] = v[x]
  PROVE  QueueIs(m, u, head, S)
  BY DEF QueueIs

(* A slab that leaves its queue leaves the others in it. *)
LEMMA QueueDel ==
  ASSUME NEW n \in [Page -> Page], NEW v \in [Page -> Page], Mutual(n, v),
         NEW S \in SUBSET Page, NEW s \in S, NEW head, QueueIs(n, v, head, S)
  PROVE  QueueIs(DelNext(n, v, s), DelPrev(n, v, s),
                 IF head # s THEN head ELSE IF n[s] = s THEN NULL ELSE n[s], S \ {s})
<1>1. PICK m : m = DelNext(n, v, s)
  OBVIOUS
<1>2. PICK u : u = DelPrev(n, v, s)
  OBVIOUS
<1>3. PICK h : h = IF head # s THEN head ELSE IF n[s] = s THEN NULL ELSE n[s]
  OBVIOUS
<1>4. /\ \A x \in Page : m[x] = IF x = s THEN s ELSE IF x = v[s] THEN n[s] ELSE n[x]
      /\ \A x \in Page : u[x] = IF x = s THEN s ELSE IF x = n[s] THEN v[s] ELSE v[x]
  BY <1>1, <1>2 DEF DelNext, DelPrev
<1>5. s \in Page /\ n[s] \in S /\ v[s] \in S /\ head # NULL /\ head \in S
  BY DEF QueueIs
<1>6. n[s] = s <=> v[s] = s
  BY <1>5 DEF Mutual
<1>7. ASSUME n[s] = s
      PROVE  S = {s}
  <2>1. \A x \in {s} : n[x] \in {s} /\ v[x] \in {s}
    BY <1>6, <1>7
  <2>2. \A T \in SUBSET S : T # {} /\ (\A x \in T : n[x] \in T /\ v[x] \in T) => T = S
    BY DEF QueueIs
  <2>3. {s} \in SUBSET S /\ {s} # {}
    OBVIOUS
  <2> QED BY <2>1, <2>2, <2>3
<1>8. \A x \in S \ {s} : m[x] \in S \ {s} /\ u[x] \in S \ {s}
  <2> TAKE x \in S \ {s}
  <2>1. n[x] \in S /\ v[x] \in S /\ x \in Page
    BY DEF QueueIs
  <2>2. n[x] = s => x = v[s]
    BY <2>1 DEF Mutual
  <2>3. v[x] = s => x = n[s]
    BY <2>1 DEF Mutual
  <2>4. n[s] # s /\ v[s] # s
    BY <1>6, <1>7
  <2> QED BY <1>4, <1>5, <2>1, <2>2, <2>3, <2>4
<1>9. ASSUME NEW T \in SUBSET (S \ {s}), T # {}, \A x \in T : m[x] \in T /\ u[x] \in T
      PROVE  T = S \ {s}
  <2>0. \A U \in SUBSET S : U # {} /\ (\A x \in U : n[x] \in U /\ v[x] \in U) => U = S
    BY DEF QueueIs
  <2>1. CASE n[s] \in T \/ v[s] \in T
    <3>0. n[s] # s /\ v[s] # s
      BY <1>6, <1>9, <2>1
    <3>1. m[v[s]] = n[s] /\ u[n[s]] = v[s]
      BY <1>4, <1>5, <3>0
    <3>2. n[s] \in T /\ v[s] \in T
      BY <1>9, <2>1, <3>1
    <3>3. \A x \in T \cup {s} : n[x] \in T \cup {s} /\ v[x] \in T \cup {s}
      <4> TAKE x \in T \cup {s}
      <4>1. CASE x = s
        BY <3>2, <4>1
      <4>2. CASE x # s
        <5>1. x \in T /\ x \in Page
          BY <4>2
        <5>2. m[x] \in T /\ u[x] \in T
          BY <5>1, <1>9
        <5>3. n[x] = m[x] \/ x = v[s]
          BY <1>4, <5>1, <4>2
        <5>4. v[x] = u[x] \/ x = n[s]
          BY <1>4, <5>1, <4>2
        <5> QED BY <5>2, <5>3, <5>4, <1>5 DEF Mutual
      <4> QED BY <4>1, <4>2
    <3>4. T \cup {s} \in SUBSET S /\ T \cup {s} # {}
      OBVIOUS
    <3>5. T \cup {s} = S
      BY <3>3, <3>4, <2>0
    <3> QED BY <3>5, <1>9
  <2>2. CASE ~(n[s] \in T \/ v[s] \in T)
    <3>1. \A x \in T : n[x] \in T /\ v[x] \in T
      BY <1>4, <1>9, <2>2
    <3>2. T = S
      BY <3>1, <2>0, <1>9
    <3> QED BY <3>2
  <2> QED BY <2>1, <2>2
<1>10. h = NULL <=> S \ {s} = {}
  <2>1. CASE n[s] = s
    BY <1>3, <1>5, <1>7, <2>1
  <2>2. CASE n[s] # s
    BY <1>3, <1>5, <2>2 DEF Page, NULL
  <2> QED BY <2>1, <2>2
<1>11. h = NULL \/ h \in S \ {s}
  BY <1>3, <1>5
<1>12. QueueIs(m, u, h, S \ {s})
  BY <1>8, <1>9, <1>10, <1>11 DEF QueueIs
<1> QED BY <1>1, <1>2, <1>3, <1>12

(* A slab added before the first one becomes part of its queue. *)
LEMMA QueueAdd ==
  ASSUME NEW n \in [Page -> Page], NEW v \in [Page -> Page], Mutual(n, v),
         NEW S \in SUBSET Page, NEW s \in Page \ S, NEW head \in S, QueueIs(n, v, head, S)
  PROVE  QueueIs(AddNext(n, v, head, s), AddPrev(n, v, head, s), head, S \cup {s})
<1>1. PICK m : m = AddNext(n, v, head, s)
  OBVIOUS
<1>2. PICK u : u = AddPrev(n, v, head, s)
  OBVIOUS
<1>3. head \in Page /\ v[head] \in S /\ s # head /\ s # v[head]
  BY DEF QueueIs
<1>4. /\ \A x \in Page : m[x] = IF x = v[head] THEN s ELSE IF x = s THEN head ELSE n[x]
      /\ \A x \in Page : u[x] = IF x = head THEN s ELSE IF x = s THEN v[head] ELSE v[x]
  BY <1>1, <1>2, <1>3 DEF AddNext, AddPrev
<1>5. \A x \in S \cup {s} : m[x] \in S \cup {s} /\ u[x] \in S \cup {s}
  BY <1>3, <1>4 DEF QueueIs
<1>6. ASSUME NEW T \in SUBSET (S \cup {s}), T # {}, \A x \in T : m[x] \in T /\ u[x] \in T
      PROVE  T = S \cup {s}
  <2>1. s \in T => head \in T
    BY <1>3, <1>4, <1>6
  <2>2. \A x \in T \ {s} : n[x] \in T \ {s} /\ v[x] \in T \ {s}
    <3> TAKE x \in T \ {s}
    <3>1. x \in S /\ n[x] \in S /\ v[x] \in S /\ m[x] \in T /\ u[x] \in T
      BY <1>6 DEF QueueIs
    <3>2. n[x] \in T
      <4>1. CASE x = v[head]
        <5>1. m[x] = s /\ n[x] = head
          BY <1>3, <1>4, <4>1 DEF Mutual
        <5> QED BY <5>1, <3>1, <2>1
      <4>2. CASE x # v[head]
        BY <1>4, <3>1, <4>2
      <4> QED BY <4>1, <4>2
    <3>3. v[x] \in T
      <4>1. CASE x = head
        <5>1. u[x] = s /\ u[s] = v[head]
          BY <1>3, <1>4, <4>1
        <5> QED BY <5>1, <3>1, <4>1, <1>6
      <4>2. CASE x # head
        BY <1>4, <3>1, <4>2
      <4> QED BY <4>1, <4>2
    <3> QED BY <3>1, <3>2, <3>3
  <2>3. T \ {s} \in SUBSET S /\ T \ {s} # {}
    BY <2>1, <1>3, <1>6
  <2>4. T \ {s} = S
    BY <2>2, <2>3 DEF QueueIs
  <2>5. head \in T /\ u[head] = s
    BY <2>4, <1>3, <1>4
  <2> QED BY <2>4, <2>5, <1>6
<1>7. head # NULL
  BY <1>3 DEF Page, NULL
<1>8. QueueIs(m, u, head, S \cup {s})
  BY <1>5, <1>6, <1>7 DEF QueueIs
<1> QED BY <1>1, <1>2, <1>8

(* A slab alone is a queue. *)
LEMMA QueueOne ==
  ASSUME NEW n \in [Page -> Page], NEW v \in [Page -> Page], Mutual(n, v),
         NEW s \in Page, n[s] = s
  PROVE  QueueIs(n, v, s, {s})
<1>1. v[s] = s /\ s # NULL
  BY DEF Mutual, Page, NULL
<1>2. \A T \in SUBSET {s} : T # {} => T = {s}
  OBVIOUS
<1>3. \A x \in {s} : n[x] \in {s} /\ v[x] \in {s}
  BY <1>1
<1>4. s \in {s} /\ {s} # {}
  OBVIOUS
<1> QED BY <1>1, <1>2, <1>3, <1>4 DEF QueueIs

(* What the queues become when s leaves its own *)
Departs(n, h, g, w, s) ==
  /\ \A k \in Key \ {0} : k # w[s] => g[k] = h[k]
  /\ w[s] # 0 => g[w[s]] = IF h[w[s]] # s THEN h[w[s]] ELSE IF n[s] = s THEN NULL ELSE n[s]

(* A slab that leaves its queue is in none, and the others stay. *)
LEMMA RingsDel ==
  ASSUME NEW n, NEW v, NEW h, NEW w, NEW g, NEW s \in Page, Rings(n, v, h, w),
         w = [p \in Page |-> w[p]], w[s] \in Key, Departs(n, h, g, w, s)
  PROVE  /\ Rings(DelNext(n, v, s), DelPrev(n, v, s), g, [w EXCEPT ![s] = 0])
         /\ DelNext(n, v, s)[s] = s
<1>1. PICK m : m = DelNext(n, v, s)
  OBVIOUS
<1>2. PICK u : u = DelPrev(n, v, s)
  OBVIOUS
<1>3. PICK z : z = [w EXCEPT ![s] = 0]
  OBVIOUS
<1>4. n \in [Page -> Page] /\ v \in [Page -> Page] /\ Mutual(n, v)
  BY DEF Rings
<1>5. /\ m \in [Page -> Page] /\ u \in [Page -> Page] /\ Mutual(m, u) /\ m[s] = s
      /\ \A p \in Page : n[p] = p => m[p] = p
  BY <1>1, <1>2, <1>4, DelInverse
<1>6. \A p \in Page : z[p] = IF p = s THEN 0 ELSE w[p]
  BY <1>3
<1>7. ASSUME NEW k \in Key \ {0}
      PROVE  QueueIs(m, u, g[k], {p \in Page : z[p] = k})
  <2>1. PICK S : S = {p \in Page : w[p] = k}
    OBVIOUS
  <2>2. QueueIs(n, v, h[k], S) /\ S \in SUBSET Page
    BY <2>1 DEF Rings
  <2>3. CASE k = w[s]
    <3>1. s \in S
      BY <2>1, <2>3
    <3>2. QueueIs(DelNext(n, v, s), DelPrev(n, v, s),
                  IF h[k] # s THEN h[k] ELSE IF n[s] = s THEN NULL ELSE n[s], S \ {s})
      BY <1>4, <2>2, <3>1, QueueDel
    <3>3. {p \in Page : z[p] = k} = S \ {s}
      BY <1>6, <2>1
    <3>4. g[k] = IF h[k] # s THEN h[k] ELSE IF n[s] = s THEN NULL ELSE n[s]
      BY <2>3 DEF Departs
    <3> QED BY <3>2, <3>3, <3>4, <1>1, <1>2
  <2>4. CASE k # w[s]
    <3>1. s \notin S
      BY <2>1, <2>4
    <3>2. \A x \in S : m[x] = n[x] /\ u[x] = v[x]
      <4> TAKE x \in S
      <4>1. x \in Page /\ n[x] \in S /\ v[x] \in S
        BY <2>2 DEF QueueIs
      <4>2. x # s /\ n[x] # s /\ v[x] # s
        BY <3>1, <4>1
      <4>3. x # v[s] /\ x # n[s]
        BY <4>1, <4>2, <1>4 DEF Mutual
      <4> QED BY <4>1, <4>2, <4>3, <1>1, <1>2, <1>4 DEF DelNext, DelPrev
    <3>3. QueueIs(m, u, h[k], S)
      BY <2>2, <3>2, QueueSame
    <3>4. {p \in Page : z[p] = k} = S
      BY <1>6, <2>1, <3>1
    <3>5. g[k] = h[k]
      BY <2>4 DEF Departs
    <3> QED BY <3>3, <3>4, <3>5
  <2> QED BY <2>3, <2>4
<1>8. \A p \in Page : z[p] = 0 => m[p] = p
  BY <1>5, <1>6 DEF Rings
<1>9. Rings(m, u, g, z)
  BY <1>5, <1>7, <1>8 DEF Rings
<1> QED BY <1>1, <1>2, <1>3, <1>5, <1>9

(* A slab in no queue can be added to queue k. *)
LEMMA RingsAdd ==
  ASSUME NEW n, NEW v, NEW h, NEW w, NEW g, NEW s \in Page, Rings(n, v, h, w),
         w = [p \in Page |-> w[p]], w[s] = 0, NEW k \in Key \ {0}, n[s] = s,
         \A j \in Key \ {0} : j # k => g[j] = h[j],
         g[k] = IF h[k] = NULL THEN s ELSE h[k]
  PROVE  Rings(IF h[k] = NULL THEN n ELSE AddNext(n, v, h[k], s),
               IF h[k] = NULL THEN v ELSE AddPrev(n, v, h[k], s), g, [w EXCEPT ![s] = k])
<1>1. PICK m : m = IF h[k] = NULL THEN n ELSE AddNext(n, v, h[k], s)
  OBVIOUS
<1>2. PICK u : u = IF h[k] = NULL THEN v ELSE AddPrev(n, v, h[k], s)
  OBVIOUS
<1>3. PICK z : z = [w EXCEPT ![s] = k]
  OBVIOUS
<1>4. n \in [Page -> Page] /\ v \in [Page -> Page] /\ Mutual(n, v)
  BY DEF Rings
<1>5. \A p \in Page : z[p] = IF p = s THEN k ELSE w[p]
  BY <1>3
<1>6. PICK S : S = {p \in Page : w[p] = k}
  OBVIOUS
<1>7. QueueIs(n, v, h[k], S) /\ S \in SUBSET Page /\ s \in Page \ S
  BY <1>6 DEF Rings
<1>8. h[k] # NULL => h[k] \in S /\ h[k] # s
  BY <1>7 DEF QueueIs
<1>9. m \in [Page -> Page] /\ u \in [Page -> Page] /\ Mutual(m, u)
  <2>1. CASE h[k] = NULL
    BY <2>1, <1>1, <1>2, <1>4
  <2>2. CASE h[k] # NULL
    <3>1. h[k] \in Page /\ h[k] # s
      BY <1>7, <1>8, <2>2
    <3> QED BY <3>1, <2>2, <1>1, <1>2, <1>4, AddInverse
  <2> QED BY <2>1, <2>2
<1>10. QueueIs(m, u, g[k], {p \in Page : z[p] = k})
  <2>1. {p \in Page : z[p] = k} = S \cup {s}
    BY <1>5, <1>6
  <2>2. CASE h[k] = NULL
    <3>1. S = {}
      BY <1>7, <2>2 DEF QueueIs
    <3>2. QueueIs(n, v, s, {s})
      BY <1>4, QueueOne
    <3>3. S \cup {s} = {s}
      BY <3>1
    <3> QED BY <2>1, <3>2, <3>3, <2>2, <1>1, <1>2
  <2>3. CASE h[k] # NULL
    <3>1. QueueIs(AddNext(n, v, h[k], s), AddPrev(n, v, h[k], s), h[k], S \cup {s})
      BY <1>4, <1>7, <1>8, <2>3, QueueAdd
    <3> QED BY <3>1, <2>1, <2>3, <1>1, <1>2
  <2> QED BY <2>2, <2>3
<1>11. ASSUME NEW j \in Key \ {0}, j # k
       PROVE  QueueIs(m, u, g[j], {p \in Page : z[p] = j})
  <2>1. PICK R : R = {p \in Page : w[p] = j}
    OBVIOUS
  <2>2. QueueIs(n, v, h[j], R) /\ R \in SUBSET Page
    BY <2>1 DEF Rings
  <2>3. {p \in Page : z[p] = j} = R
    BY <1>5, <1>11, <2>1
  <2>4. \A x \in R : m[x] = n[x] /\ u[x] = v[x]
    <3> TAKE x \in R
    <3>1. x # s /\ x \notin S /\ x \in Page
      BY <1>6, <1>11, <2>1
    <3>2. CASE h[k] = NULL
      BY <3>2, <1>1, <1>2
    <3>3. CASE h[k] # NULL
      <4>1. h[k] \in S /\ v[h[k]] \in S
        BY <1>7, <1>8, <3>3 DEF QueueIs
      <4> QED BY <4>1, <3>1, <3>3, <1>1, <1>2, <1>4 DEF AddNext, AddPrev
    <3> QED BY <3>2, <3>3
  <2>5. QueueIs(m, u, h[j], R)
    BY <2>2, <2>4, QueueSame
  <2>6. g[j] = h[j]
    BY <1>11
  <2> QED BY <2>3, <2>5, <2>6
<1>12. \A p \in Page : z[p] = 0 => m[p] = p
  <2> TAKE p \in Page
  <2> HAVE z[p] = 0
  <2>1. p # s /\ w[p] = 0 /\ n[p] = p
    BY <1>5 DEF Rings
  <2>2. CASE h[k] = NULL
    BY <2>1, <2>2, <1>1
  <2>3. CASE h[k] # NULL
    <3>1. h[k] \in S /\ v[h[k]] \in S
      BY <1>7, <1>8, <2>3 DEF QueueIs
    <3>2. p \notin S
      BY <1>6, <2>1
    <3> QED BY <2>1, <2>3, <3>1, <3>2, <1>1, <1>4 DEF AddNext
  <2> QED BY <2>2, <2>3
<1>13. \A j \in Key \ {0} : QueueIs(m, u, g[j], {p \in Page : z[p] = j})
  BY <1>10, <1>11
<1>14. Rings(m, u, g, z)
  BY <1>9, <1>12, <1>13 DEF Rings
<1> QED BY <1>1, <1>2, <1>3, <1>14

-----------------------------------------------------------------------------
(* The queue operations of slab.c *)

(* The sizes of the caches, evaluated *)
LEMMA CacheFacts ==
  /\ Cache = 1..13
  /\ \A c \in Cache : /\ size[c] \in Nat /\ size[c] >= 8 /\ size[c] <= 8192
                      /\ capacity(c) \in Nat /\ capacity(c) >= 2
<1>1. Cache = 1..13
  BY DEF Cache, size
<1>2. \A c \in Cache : size[c] \in {8, 16, 32, 64, 96, 128, 192, 256, 512, 1024, 2048, 4096, 8192}
  BY <1>1 DEF Cache, size
<1>3. \A z \in {8, 16, 32, 64, 96, 128, 192, 256, 512, 1024, 2048, 4096, 8192} :
        16384 \div z \in Nat /\ 16384 \div z >= 2
  OBVIOUS
<1> QED BY <1>1, <1>2, <1>3 DEF capacity, PGSIZE

(* A move of s from the queue it is in, if any, to queue k *)
LEMMA RingsMove ==
  ASSUME NEW n, NEW v, NEW h, NEW w, NEW g, NEW s \in Page, Rings(n, v, h, w),
         w = [p \in Page |-> w[p]], w[s] \in Key, NEW k \in Key \ {0}, k # w[s],
         \A j \in Key \ {0} : j # k /\ j # w[s] => g[j] = h[j],
         w[s] # 0 => g[w[s]] = IF h[w[s]] # s THEN h[w[s]] ELSE IF n[s] = s THEN NULL ELSE n[s],
         g[k] = IF h[k] = NULL THEN s ELSE h[k]
  PROVE  Rings(IF h[k] = NULL THEN DelNext(n, v, s) ELSE MoveNext(n, v, h[k], s),
               IF h[k] = NULL THEN DelPrev(n, v, s) ELSE MovePrev(n, v, h[k], s),
               g, [w EXCEPT ![s] = k])
<1>1. PICK m : m = DelNext(n, v, s)
  OBVIOUS
<1>2. PICK u : u = DelPrev(n, v, s)
  OBVIOUS
<1>3. PICK z : z = [w EXCEPT ![s] = 0]
  OBVIOUS
<1>4. PICK f : f = [j \in Key |-> IF j = k THEN h[k] ELSE g[j]]
  OBVIOUS
<1>5. Departs(n, h, f, w, s)
  BY <1>4 DEF Departs
<1>6. Rings(m, u, f, z) /\ m[s] = s
  <2>1. /\ Rings(DelNext(n, v, s), DelPrev(n, v, s), f, [w EXCEPT ![s] = 0])
        /\ DelNext(n, v, s)[s] = s
    BY <1>5, RingsDel
  <2> QED BY <2>1, <1>1, <1>2, <1>3
<1>7. /\ z = [p \in Page |-> z[p]] /\ z[s] = 0
      /\ [z EXCEPT ![s] = k] = [w EXCEPT ![s] = k]
  BY <1>3
<1>8. /\ \A j \in Key \ {0} : j # k => g[j] = f[j]
      /\ f[k] = h[k]
      /\ g[k] = IF f[k] = NULL THEN s ELSE f[k]
  BY <1>4
<1>9. Rings(IF f[k] = NULL THEN m ELSE AddNext(m, u, f[k], s),
            IF f[k] = NULL THEN u ELSE AddPrev(m, u, f[k], s), g, [z EXCEPT ![s] = k])
  BY <1>6, <1>7, <1>8, RingsAdd
<1> QED BY <1>1, <1>2, <1>7, <1>8, <1>9 DEF MoveNext, MovePrev

(* A slab in the full queue, or in none, becomes available. *)
LEMMA SetAvailable ==
  ASSUME NEW Q, NEW w, NEW c \in Cache, NEW s \in Page, QType(Q),
         Rings(Q.n, Q.v, Heads(Q), w), w = [p \in Page |-> w[p]], w[s] = 0 \/ w[s] = -c
  PROVE  /\ QType(set_slab_available(Q, c, s))
         /\ Rings(set_slab_available(Q, c, s).n, set_slab_available(Q, c, s).v,
                  Heads(set_slab_available(Q, c, s)), [w EXCEPT ![s] = c])
<1>1. PICK R : R = set_slab_available(Q, c, s)
  OBVIOUS
<1>2. PICK h : h = Heads(Q)
  OBVIOUS
<1>3. PICK g : g = Heads(R)
  OBVIOUS
<1>4. /\ Q.n \in [Page -> Page] /\ Q.v \in [Page -> Page]
      /\ Q.avail \in [Cache -> 0..NPages] /\ Q.full \in [Cache -> 0..NPages]
  BY DEF QType
<1>5. /\ R.n = IF Q.avail[c] = NULL THEN DelNext(Q.n, Q.v, s) ELSE MoveNext(Q.n, Q.v, Q.avail[c], s)
      /\ R.v = IF Q.avail[c] = NULL THEN DelPrev(Q.n, Q.v, s) ELSE MovePrev(Q.n, Q.v, Q.avail[c], s)
      /\ R.avail = [Q.avail EXCEPT ![c] = IF Q.avail[c] = NULL THEN s ELSE Q.avail[c]]
      /\ R.full = [Q.full EXCEPT ![c] = Leave(Q, Q.full[c], s)]
      /\ R = [n |-> R.n, v |-> R.v, avail |-> R.avail, full |-> R.full]
  BY <1>1 DEF set_slab_available, Hook
<1>6. c \in Key \ {0} /\ -c \in Key \ {0} /\ c > 0 /\ c # -c /\ Cache = 1..13
  BY CacheFacts DEF Key
<1>7. h[c] = Q.avail[c] /\ h[-c] = Q.full[c]
  BY <1>2, <1>6 DEF Heads
<1>8. Rings(Q.n, Q.v, h, w)
  BY <1>2
<1>9. h[-c] = NULL \/ (h[-c] \in Page /\ w[h[-c]] = -c)
  BY <1>6, <1>8 DEF Rings, QueueIs
<1>10. /\ \A j \in Key \ {0} : j # c /\ j # w[s] => g[j] = h[j]
       /\ g[-c] = Leave(Q, h[-c], s)
       /\ g[c] = IF h[c] = NULL THEN s ELSE h[c]
  <2>1. g[-c] = Leave(Q, h[-c], s) /\ g[c] = IF h[c] = NULL THEN s ELSE h[c]
    BY <1>3, <1>4, <1>5, <1>6, <1>7 DEF Heads
  <2>2. ASSUME NEW j \in Key \ {0}, j # c, j # -c
        PROVE  g[j] = h[j]
    BY <1>2, <1>3, <1>4, <1>5, <1>6, <2>2 DEF Heads, Key
  <2>3. w[s] # -c => g[-c] = h[-c]
    <3> HAVE w[s] # -c
    <3>1. h[-c] # s
      BY <1>6, <1>9 DEF Page, NULL
    <3> QED BY <3>1, <2>1 DEF Leave
  <2> QED BY <2>1, <2>2, <2>3
<1>11. w[s] # 0 => g[w[s]] = IF h[w[s]] # s THEN h[w[s]]
                             ELSE IF Q.n[s] = s THEN NULL ELSE Q.n[s]
  BY <1>10 DEF Leave
<1>12. w[s] \in Key /\ c # w[s]
  BY <1>6 DEF Key
<1>13. Rings(IF h[c] = NULL THEN DelNext(Q.n, Q.v, s) ELSE MoveNext(Q.n, Q.v, h[c], s),
             IF h[c] = NULL THEN DelPrev(Q.n, Q.v, s) ELSE MovePrev(Q.n, Q.v, h[c], s),
             g, [w EXCEPT ![s] = c])
  BY <1>6, <1>8, <1>10, <1>11, <1>12, RingsMove
<1>14. Rings(R.n, R.v, g, [w EXCEPT ![s] = c])
  BY <1>5, <1>7, <1>13
<1>15. QType(R)
  <2>1. R.n \in [Page -> Page] /\ R.v \in [Page -> Page]
    BY <1>14 DEF Rings
  <2>2. \A p \in Page : p \in 0..NPages
    BY SlabAssumption DEF Page
  <2>3. R.avail \in [Cache -> 0..NPages]
    BY <1>4, <1>5, <2>2
  <2>4. Leave(Q, Q.full[c], s) \in 0..NPages
    <3>1. Q.n[s] \in 0..NPages /\ Q.full[c] \in 0..NPages /\ NULL \in 0..NPages
      BY <1>4, <2>2, SlabAssumption DEF NULL
    <3> QED BY <3>1 DEF Leave
  <2>5. R.full \in [Cache -> 0..NPages]
    BY <1>4, <1>5, <2>4
  <2> QED BY <1>5, <2>1, <2>3, <2>5 DEF QType
<1> QED BY <1>1, <1>3, <1>14, <1>15

(* A slab in the avail queue becomes full. *)
LEMMA SetFull ==
  ASSUME NEW Q, NEW w, NEW c \in Cache, NEW s \in Page, QType(Q),
         Rings(Q.n, Q.v, Heads(Q), w), w = [p \in Page |-> w[p]], w[s] = c
  PROVE  /\ QType(set_slab_full(Q, c, s))
         /\ Rings(set_slab_full(Q, c, s).n, set_slab_full(Q, c, s).v,
                  Heads(set_slab_full(Q, c, s)), [w EXCEPT ![s] = -c])
<1>1. PICK R : R = set_slab_full(Q, c, s)
  OBVIOUS
<1>2. PICK h : h = Heads(Q)
  OBVIOUS
<1>3. PICK g : g = Heads(R)
  OBVIOUS
<1>4. /\ Q.n \in [Page -> Page] /\ Q.v \in [Page -> Page]
      /\ Q.avail \in [Cache -> 0..NPages] /\ Q.full \in [Cache -> 0..NPages]
  BY DEF QType
<1>5. /\ R.n = IF Q.full[c] = NULL THEN DelNext(Q.n, Q.v, s) ELSE MoveNext(Q.n, Q.v, Q.full[c], s)
      /\ R.v = IF Q.full[c] = NULL THEN DelPrev(Q.n, Q.v, s) ELSE MovePrev(Q.n, Q.v, Q.full[c], s)
      /\ R.avail = [Q.avail EXCEPT ![c] = Leave(Q, Q.avail[c], s)]
      /\ R.full = [Q.full EXCEPT ![c] = IF Q.full[c] = NULL THEN s ELSE Q.full[c]]
      /\ R = [n |-> R.n, v |-> R.v, avail |-> R.avail, full |-> R.full]
  BY <1>1 DEF set_slab_full, Hook
<1>6. c \in Key \ {0} /\ -c \in Key \ {0} /\ c > 0 /\ c # -c /\ Cache = 1..13
  BY CacheFacts DEF Key
<1>7. h[c] = Q.avail[c] /\ h[-c] = Q.full[c]
  BY <1>2, <1>6 DEF Heads
<1>8. Rings(Q.n, Q.v, h, w)
  BY <1>2
<1>9. /\ \A j \in Key \ {0} : j # -c /\ j # w[s] => g[j] = h[j]
      /\ g[c] = Leave(Q, h[c], s)
      /\ g[-c] = IF h[-c] = NULL THEN s ELSE h[-c]
  <2>1. g[c] = Leave(Q, h[c], s) /\ g[-c] = IF h[-c] = NULL THEN s ELSE h[-c]
    BY <1>3, <1>4, <1>5, <1>6, <1>7 DEF Heads
  <2>2. ASSUME NEW j \in Key \ {0}, j # c, j # -c
        PROVE  g[j] = h[j]
    BY <1>2, <1>3, <1>4, <1>5, <1>6, <2>2 DEF Heads, Key
  <2> QED BY <2>1, <2>2
<1>10. w[s] # 0 => g[w[s]] = IF h[w[s]] # s THEN h[w[s]]
                             ELSE IF Q.n[s] = s THEN NULL ELSE Q.n[s]
  BY <1>9 DEF Leave
<1>11. w[s] \in Key /\ -c # w[s]
  BY <1>6
<1>12. Rings(IF h[-c] = NULL THEN DelNext(Q.n, Q.v, s) ELSE MoveNext(Q.n, Q.v, h[-c], s),
             IF h[-c] = NULL THEN DelPrev(Q.n, Q.v, s) ELSE MovePrev(Q.n, Q.v, h[-c], s),
             g, [w EXCEPT ![s] = -c])
  BY <1>6, <1>8, <1>9, <1>10, <1>11, RingsMove
<1>13. Rings(R.n, R.v, g, [w EXCEPT ![s] = -c])
  BY <1>5, <1>7, <1>12
<1>14. QType(R)
  <2>1. R.n \in [Page -> Page] /\ R.v \in [Page -> Page]
    BY <1>13 DEF Rings
  <2>2. \A p \in Page : p \in 0..NPages
    BY SlabAssumption DEF Page
  <2>3. R.full \in [Cache -> 0..NPages]
    BY <1>4, <1>5, <2>2
  <2>4. Leave(Q, Q.avail[c], s) \in 0..NPages
    <3>1. Q.n[s] \in 0..NPages /\ Q.avail[c] \in 0..NPages /\ NULL \in 0..NPages
      BY <1>4, <2>2, SlabAssumption DEF NULL
    <3> QED BY <3>1 DEF Leave
  <2>5. R.avail \in [Cache -> 0..NPages]
    BY <1>4, <1>5, <2>4
  <2> QED BY <1>5, <2>1, <2>3, <2>5 DEF QType
<1> QED BY <1>1, <1>3, <1>13, <1>14

(* A slab in the avail queue leaves it, to be deleted. *)
LEMMA SetEmpty ==
  ASSUME NEW Q, NEW w, NEW c \in Cache, NEW s \in Page, QType(Q),
         Rings(Q.n, Q.v, Heads(Q), w), w = [p \in Page |-> w[p]], w[s] = c
  PROVE  /\ QType(set_slab_empty(Q, c, s))
         /\ Rings(set_slab_empty(Q, c, s).n, set_slab_empty(Q, c, s).v,
                  Heads(set_slab_empty(Q, c, s)), [w EXCEPT ![s] = 0])
<1>1. PICK R : R = set_slab_empty(Q, c, s)
  OBVIOUS
<1>2. PICK h : h = Heads(Q)
  OBVIOUS
<1>3. PICK g : g = Heads(R)
  OBVIOUS
<1>4. /\ Q.n \in [Page -> Page] /\ Q.v \in [Page -> Page]
      /\ Q.avail \in [Cache -> 0..NPages] /\ Q.full \in [Cache -> 0..NPages]
  BY DEF QType
<1>5. /\ R.n = DelNext(Q.n, Q.v, s) /\ R.v = DelPrev(Q.n, Q.v, s)
      /\ R.avail = [Q.avail EXCEPT ![c] = Leave(Q, Q.avail[c], s)]
      /\ R.full = Q.full
      /\ R = [n |-> R.n, v |-> R.v, avail |-> R.avail, full |-> R.full]
  BY <1>1 DEF set_slab_empty
<1>6. c \in Key \ {0} /\ c > 0 /\ Cache = 1..13
  BY CacheFacts DEF Key
<1>7. h[c] = Q.avail[c]
  BY <1>2, <1>6 DEF Heads
<1>8. Rings(Q.n, Q.v, h, w)
  BY <1>2
<1>9. Departs(Q.n, h, g, w, s)
  <2>1. g[c] = Leave(Q, h[c], s)
    BY <1>3, <1>4, <1>5, <1>6, <1>7 DEF Heads
  <2>2. ASSUME NEW j \in Key \ {0}, j # c
        PROVE  g[j] = h[j]
    BY <1>2, <1>3, <1>4, <1>5, <1>6, <2>2 DEF Heads, Key
  <2> QED BY <2>1, <2>2 DEF Leave, Departs
<1>10. Rings(DelNext(Q.n, Q.v, s), DelPrev(Q.n, Q.v, s), g, [w EXCEPT ![s] = 0])
  BY <1>6, <1>8, <1>9, RingsDel
<1>11. Rings(R.n, R.v, g, [w EXCEPT ![s] = 0])
  BY <1>5, <1>10
<1>12. QType(R)
  <2>1. R.n \in [Page -> Page] /\ R.v \in [Page -> Page]
    BY <1>11 DEF Rings
  <2>2. \A p \in Page : p \in 0..NPages
    BY SlabAssumption DEF Page
  <2>3. Leave(Q, Q.avail[c], s) \in 0..NPages
    <3>1. Q.n[s] \in 0..NPages /\ Q.avail[c] \in 0..NPages /\ NULL \in 0..NPages
      BY <1>4, <2>2, SlabAssumption DEF NULL
    <3> QED BY <3>1 DEF Leave
  <2>4. R.avail \in [Cache -> 0..NPages]
    BY <1>4, <1>5, <2>3
  <2> QED BY <1>4, <1>5, <2>1, <2>4 DEF QType
<1> QED BY <1>1, <1>3, <1>11, <1>12

-----------------------------------------------------------------------------
(* Rings and chains as the properties walk them *)

(* A set of naturals has a least element. *)
LEMMA LeastNat ==
  ASSUME NEW T \in SUBSET Nat, T # {}
  PROVE  \E m \in T : \A k \in T : m <= k
<1>1. PICK U : U = {0..k : k \in T}
  OBVIOUS
<1>2. U # {}
  BY <1>1
<1>3. U \subseteq FiniteSubsetsOf(Nat)
  <2> SUFFICES ASSUME NEW k \in T PROVE 0..k \in FiniteSubsetsOf(Nat)
    BY <1>1
  <2>1. IsFiniteSet(0..k)
    BY FS_Interval
  <2>2. 0..k \in SUBSET Nat
    OBVIOUS
  <2> QED BY <2>1, <2>2 DEF FiniteSubsetsOf
<1>4. IsWellFoundedOn(StrictSubsetOrdering(Nat), FiniteSubsetsOf(Nat))
  BY FS_StrictSubsetOrderingWellFounded
<1>5. \E x \in U : \A y \in U : ~ (<<y, x>> \in StrictSubsetOrdering(Nat))
  BY <1>2, <1>3, <1>4, WFMin
<1>6. PICK m \in T : \A y \in U : ~ (<<y, 0..m>> \in StrictSubsetOrdering(Nat))
  BY <1>1, <1>5
<1>7. ASSUME NEW k \in T, k < m
      PROVE  FALSE
  <2>1. 0..k \in U
    BY <1>1
  <2>2. 0..k \in SUBSET Nat /\ 0..m \in SUBSET Nat /\ 0..k \subseteq 0..m
    BY <1>7
  <2>3. m \in 0..m /\ m \notin 0..k
    BY <1>7
  <2>4. <<0..k, 0..m>> \in StrictSubsetOrdering(Nat)
    BY <2>2, <2>3 DEF StrictSubsetOrdering
  <2> QED BY <1>6, <2>1, <2>4
<1>8. \A k \in T : m <= k
  BY <1>7
<1> QED BY <1>8

(* Walks(f, n, head, m): f starts at head and follows n for m steps. *)
Walks(f, n, head, m) ==
  f = [k \in 0..m |-> IF k = 0 THEN head ELSE n[f[k - 1]]]

(* There is such a walk, of any length. *)
LEMMA WalkExists ==
  ASSUME NEW n, NEW head, NEW m \in Nat
  PROVE  \E f : Walks(f, n, head, m)
<1> DEFINE Bad == {k \in Nat : ~ \E f : Walks(f, n, head, k)}
<1>1. SUFFICES ASSUME Bad # {} PROVE FALSE
  OBVIOUS
<1>2. PICK k \in Bad : \A j \in Bad : k <= j
  <2>1. Bad \in SUBSET Nat
    OBVIOUS
  <2> HIDE DEF Bad
  <2> QED BY <1>1, <2>1, LeastNat
<1>3. k \in Nat /\ ~ \E f : Walks(f, n, head, k)
  BY <1>2
<1>4. CASE k = 0
  <2>1. PICK g : g = [j \in 0..0 |-> head]
    OBVIOUS
  <2>2. g = [j \in 0..0 |-> IF j = 0 THEN head ELSE n[g[j - 1]]]
    BY <2>1
  <2> QED BY <2>2, <1>3, <1>4 DEF Walks
<1>5. CASE k # 0
  <2>1. k - 1 \in Nat /\ k - 1 \notin Bad
    BY <1>2, <1>3, <1>5
  <2>2. PICK f : Walks(f, n, head, k - 1)
    BY <2>1
  <2>3. \A j \in 0..(k - 1) : f[j] = IF j = 0 THEN head ELSE n[f[j - 1]]
    BY <2>2 DEF Walks
  <2>4. PICK g : g = [j \in 0..k |-> IF j = k THEN n[f[k - 1]] ELSE f[j]]
    OBVIOUS
  <2>5. \A j \in 0..k : g[j] = IF j = 0 THEN head ELSE n[g[j - 1]]
    <3> TAKE j \in 0..k
    <3>1. CASE j = k
      <4>1. k - 1 \in 0..k /\ k - 1 # k
        BY <1>3, <1>5
      <4> QED BY <4>1, <3>1, <2>4, <1>5
    <3>2. CASE j # k
      <4>1. j \in 0..(k - 1) /\ (j # 0 => j - 1 \in 0..k /\ j - 1 # k)
        BY <1>3, <3>2
      <4> QED BY <4>1, <3>2, <2>3, <2>4
    <3> QED BY <3>1, <3>2
  <2>6. g = [j \in 0..k |-> g[j]]
    BY <2>4
  <2>7. Walks(g, n, head, k)
    BY <2>5, <2>6 DEF Walks
  <2> QED BY <2>7, <1>3
<1> QED BY <1>4, <1>5

(* The ring that starts at the first slab of a queue is the queue. *)
LEMMA RingIs ==
  ASSUME NEW S \in SUBSET Page, NEW head, q.n \in [Page -> Page], q.v \in [Page -> Page],
         Mutual(q.n, q.v), QueueIs(q.n, q.v, head, S)
  PROVE  Ring(head) = S
<1>0. NPages \in Nat
  BY SlabAssumption
<1>1. CASE head = NULL
  BY <1>1 DEF Ring, QueueIs
<1>2. CASE head # NULL
  <2> DEFINE R == CHOOSE f : f = [k \in 0..NPages |-> IF k = 0 THEN head ELSE q.n[f[k - 1]]]
  <2>1. PICK f : f = R
    OBVIOUS
  <2>2. Walks(f, q.n, head, NPages)
    <3> DEFINE P(g) == g = [k \in 0..NPages |-> IF k = 0 THEN head ELSE q.n[g[k - 1]]]
    <3>1. \E g : Walks(g, q.n, head, NPages)
      BY <1>0, WalkExists
    <3>2. \E g : P(g)
      BY <3>1 DEF Walks
    <3>3. R = CHOOSE g : P(g)
      OBVIOUS
    <3>4. P(R)
      <4> HIDE DEF P, R
      <4> QED BY <3>2, <3>3
    <3>5. P(f)
      <4> HIDE DEF P, R
      <4> QED BY <2>1, <3>4
    <3> HIDE DEF R
    <3> QED BY <3>5 DEF Walks
  <2>3. Ring(head) = {f[k] : k \in 0..NPages}
    BY <1>2, <2>1 DEF Ring
  <2> HIDE DEF R
  <2>4. /\ f[0] = head
        /\ \A k \in 1..NPages : f[k] = q.n[f[k - 1]]
    <3>1. \A k \in 0..NPages : f[k] = IF k = 0 THEN head ELSE q.n[f[k - 1]]
      BY <2>2 DEF Walks
    <3> QED BY <3>1, <1>0
  <2>5. \A k \in 0..NPages : f[k] \in S
    <3> DEFINE Bad == {k \in 0..NPages : f[k] \notin S}
    <3>1. SUFFICES ASSUME Bad # {} PROVE FALSE
      OBVIOUS
    <3>2. PICK k \in Bad : \A j \in Bad : k <= j
      <4>1. Bad \in SUBSET Nat
        BY <1>0
      <4> HIDE DEF Bad
      <4> QED BY <3>1, <4>1, LeastNat
    <3>3. k \in 0..NPages /\ f[k] \notin S
      OBVIOUS
    <3>4. k # 0
      BY <3>3, <2>4, <1>2 DEF QueueIs
    <3>5. k \in 1..NPages /\ k - 1 \in 0..NPages /\ ~(k <= k - 1)
      BY <1>0, <3>3, <3>4
    <3>6. f[k - 1] \in S
      BY <3>2, <3>5
    <3> QED BY <3>3, <3>5, <3>6, <2>4 DEF QueueIs
  <2>6. PICK i, j \in 0..NPages : i # j /\ f[i] = f[j]
    <3>1. IsFiniteSet(0..NPages) /\ Cardinality(0..NPages) = NPages + 1
      BY <1>0, FS_Interval
    <3>2. IsFiniteSet(Page) /\ Cardinality(Page) <= NPages
      <4>1. IsFiniteSet(1..NPages) /\ Cardinality(1..NPages) = IF 1 > NPages THEN 0 ELSE NPages - 1 + 1
        BY <1>0, FS_Interval
      <4> QED BY <4>1, <1>0 DEF Page
    <3>3. IsFiniteSet(S) /\ Cardinality(S) <= Cardinality(Page)
      BY <3>2, FS_Subset
    <3>4. Cardinality(S) \in Nat /\ Cardinality(Page) \in Nat
      BY <3>2, <3>3, FS_CardinalityType
    <3>5. Cardinality(S) < Cardinality(0..NPages)
      BY <1>0, <3>1, <3>2, <3>3, <3>4
    <3>6. f \in [0..NPages -> S]
      BY <2>2, <2>5 DEF Walks
    <3>7. \E x, y \in 0..NPages : x # y /\ f[x] = f[y]
      BY <3>1, <3>3, <3>5, <3>6, FS_PigeonHole
    <3> QED BY <3>7
  <2>7. PICK d \in 1..NPages : f[d] = f[0]
    <3> DEFINE Back == {a \in 0..NPages : \E b \in 0..NPages : a < b /\ f[a] = f[b]}
    <3>1. Back # {}
      BY <2>6, <1>0
    <3>2. PICK a \in Back : \A x \in Back : a <= x
      <4>1. Back \in SUBSET Nat
        BY <1>0
      <4> HIDE DEF Back
      <4> QED BY <3>1, <4>1, LeastNat
    <3>3. PICK b \in 0..NPages : a < b /\ f[a] = f[b]
      OBVIOUS
    <3>4. CASE a = 0
      BY <3>3, <3>4, <1>0
    <3>5. CASE a # 0
      <4>1. a \in 1..NPages /\ b \in 1..NPages /\ a - 1 \in 0..NPages /\ b - 1 \in 0..NPages
        BY <1>0, <3>3, <3>5
      <4>2. q.n[f[a - 1]] = q.n[f[b - 1]] /\ f[a - 1] \in Page /\ f[b - 1] \in Page
        BY <2>4, <2>5, <3>3, <4>1
      <4>3. f[a - 1] = f[b - 1]
        BY <4>2 DEF Mutual
      <4>4. a - 1 < b - 1 /\ ~(a <= a - 1)
        BY <3>3, <4>1
      <4>5. a - 1 \in Back
        BY <4>1, <4>3, <4>4
      <4> QED BY <4>4, <4>5, <3>2
    <3> QED BY <3>4, <3>5
  <2> DEFINE T == {f[k] : k \in 0..(d - 1)}
  <2>8. \A x \in T : q.n[x] \in T /\ q.v[x] \in T
    <3> SUFFICES ASSUME NEW k \in 0..(d - 1) PROVE q.n[f[k]] \in T /\ q.v[f[k]] \in T
      OBVIOUS
    <3>0. k \in 0..NPages /\ k + 1 \in 1..NPages /\ d \in Nat /\ k \in Nat
      BY <1>0
    <3>1. q.n[f[k]] = f[k + 1]
      BY <3>0, <2>4
    <3>2. q.n[f[k]] \in T
      <4>1. CASE k = d - 1
        <5>1. k + 1 = d /\ 0 \in 0..(d - 1)
          BY <3>0, <4>1
        <5> QED BY <5>1, <3>1, <2>7
      <4>2. CASE k # d - 1
        <5>1. k + 1 \in 0..(d - 1)
          BY <3>0, <4>2
        <5> QED BY <5>1, <3>1
      <4> QED BY <4>1, <4>2
    <3>3. q.v[f[k]] \in T
      <4>1. CASE k = 0
        <5>1. d - 1 \in 0..(d - 1) /\ d - 1 \in 0..NPages
          BY <1>0
        <5>2. f[0] = q.n[f[d - 1]] /\ f[d - 1] \in Page
          BY <5>1, <2>4, <2>5, <2>7
        <5>3. q.v[f[0]] = f[d - 1]
          BY <5>2 DEF Mutual
        <5> QED BY <5>1, <5>3, <4>1
      <4>2. CASE k # 0
        <5>1. k - 1 \in 0..(d - 1) /\ k - 1 \in 0..NPages /\ k \in 1..NPages
          BY <1>0, <3>0, <4>2
        <5>2. f[k] = q.n[f[k - 1]] /\ f[k - 1] \in Page
          BY <5>1, <2>4, <2>5
        <5>3. q.v[f[k]] = f[k - 1]
          BY <5>2 DEF Mutual
        <5> QED BY <5>1, <5>3
      <4> QED BY <4>1, <4>2
    <3> QED BY <3>2, <3>3
  <2>9. T \in SUBSET S /\ T # {}
    <3>1. \A k \in 0..(d - 1) : k \in 0..NPages
      BY <1>0
    <3>2. 0 \in 0..(d - 1)
      OBVIOUS
    <3> QED BY <3>1, <3>2, <2>5
  <2>10. T = S
    <3> HIDE DEF T
    <3> QED BY <2>8, <2>9 DEF QueueIs
  <2>11. T \subseteq {f[k] : k \in 0..NPages}
    <3>1. \A k \in 0..(d - 1) : k \in 0..NPages
      BY <1>0
    <3> QED BY <3>1
  <2>12. {f[k] : k \in 0..NPages} \subseteq S
    BY <2>5
  <2> QED BY <2>3, <2>10, <2>11, <2>12
<1> QED BY <1>1, <1>2

(* What Chain computes is the run along the chain. *)
LEMMA ChainIs ==
  ASSUME NEW s, NEW X, NEW m \in Nat, X \subseteq Chunks(s), Chunks(s) \subseteq Nat,
         NEW e \in [1..(m + 1) -> X \cup {INDEX_INVALID}],
         Runs(e, X, index[s], chunk[s], m)
  PROVE  Chain(s, m + 1) = e
<1> DEFINE Step(g) == [k \in 1..(m + 1) |-> IF k = 1 THEN index[s]
                         ELSE IF g[k - 1] \in Chunks(s) THEN chunk[s][g[k - 1]]
                         ELSE INDEX_INVALID]
<1> DEFINE P(g) == g = Step(g)
<1>1. P(e)
  <2>1. \A k \in 1..(m + 1) : e[k] = IF k = 1 THEN index[s]
                         ELSE IF e[k - 1] \in Chunks(s) THEN chunk[s][e[k - 1]]
                         ELSE INDEX_INVALID
    <3> TAKE k \in 1..(m + 1)
    <3>1. CASE k = 1
      BY <3>1 DEF Runs
    <3>2. CASE k # 1
      <4>1. k - 1 \in 1..m /\ (k - 1) + 1 = k
        BY <3>2
      <4>2. e[k - 1] \in X /\ chunk[s][e[k - 1]] = e[k]
        BY <4>1 DEF Runs
      <4> QED BY <3>2, <4>2
    <3> QED BY <3>1, <3>2
  <2>2. e = [k \in 1..(m + 1) |-> e[k]]
    OBVIOUS
  <2> QED BY <2>1, <2>2
<1>2. PICK f : f = Chain(s, m + 1)
  OBVIOUS
<1>3. f = CHOOSE g : P(g)
  BY <1>2 DEF Chain
<1>4. P(f)
  <2> HIDE DEF P
  <2> QED BY <1>1, <1>3
<1>5. \A k \in 1..(m + 1) : f[k] = IF k = 1 THEN index[s]
                         ELSE IF f[k - 1] \in Chunks(s) THEN chunk[s][f[k - 1]]
                         ELSE INDEX_INVALID
  BY <1>4
<1>6. \A k \in 1..(m + 1) : e[k] = IF k = 1 THEN index[s]
                         ELSE IF e[k - 1] \in Chunks(s) THEN chunk[s][e[k - 1]]
                         ELSE INDEX_INVALID
  BY <1>1
<1>7. f = [k \in 1..(m + 1) |-> f[k]]
  BY <1>4
<1> HIDE DEF P, Step
<1>8. \A k \in 1..(m + 1) : f[k] = e[k]
  <2> DEFINE Bad == {k \in 1..(m + 1) : f[k] # e[k]}
  <2>1. SUFFICES ASSUME Bad # {} PROVE FALSE
    OBVIOUS
  <2>2. PICK k \in Bad : \A j \in Bad : k <= j
    <3>1. Bad \in SUBSET Nat
      OBVIOUS
    <3> HIDE DEF Bad
    <3> QED BY <2>1, <3>1, LeastNat
  <2>3. k \in 1..(m + 1) /\ f[k] # e[k]
    OBVIOUS
  <2>4. k # 1
    BY <2>3, <1>5, <1>6
  <2>5. k - 1 \in 1..(m + 1) /\ ~(k <= k - 1)
    BY <2>3, <2>4
  <2>6. f[k - 1] = e[k - 1]
    BY <2>2, <2>5
  <2>7. f[k] = IF f[k - 1] \in Chunks(s) THEN chunk[s][f[k - 1]] ELSE INDEX_INVALID
    BY <2>3, <2>4, <1>5
  <2>8. e[k] = IF e[k - 1] \in Chunks(s) THEN chunk[s][e[k - 1]] ELSE INDEX_INVALID
    BY <2>3, <2>4, <1>6
  <2> QED BY <2>3, <2>6, <2>7, <2>8
<1>9. f = e
  BY <1>7, <1>8
<1> QED BY <1>2, <1>9

(* A chain from i that is not empty starts with a free chunk, and the rest *)
(* of it is a chain, whatever is written over that chunk.                  *)
LEMMA ChainPop ==
  ASSUME NEW X, NEW i, NEW f, NEW g, NEW m \in Nat, m > 0, Chained(X, i, f, m),
         \A x \in X : x # i => g[x] = f[x]
  PROVE  i \in X /\ Chained(X \ {i}, f[i], g, m - 1)
<1>1. PICK e \in [1..(m + 1) -> X \cup {INDEX_INVALID}] : Runs(e, X, i, f, m)
  BY DEF Chained
<1>2. i \in X /\ f[i] = e[2]
  <2>1. 1 \in 1..m /\ 1 + 1 = 2
    OBVIOUS
  <2> QED BY <1>1, <2>1 DEF Runs
<1>3. PICK d : d = [k \in 1..m |-> e[k + 1]]
  OBVIOUS
<1>4. \A k \in 1..m : d[k] = e[k + 1]
  BY <1>3
<1>5. \A k \in 1..(m - 1) : d[k] \in X \ {i} /\ g[d[k]] = d[k + 1]
  <2> TAKE k \in 1..(m - 1)
  <2>1. k + 1 \in 1..m /\ k \in 1..m /\ 1 \in 1..m /\ k + 1 # 1 /\ m \in 1..m
    OBVIOUS
  <2>2. e[k + 1] \in X /\ f[e[k + 1]] = e[(k + 1) + 1] /\ e[k + 1] # e[1]
    BY <1>1, <2>1 DEF Runs
  <2>3. d[k + 1] = e[(k + 1) + 1] /\ d[k] = e[k + 1] /\ e[1] = i
    BY <1>1, <1>4, <2>1 DEF Runs
  <2> QED BY <2>2, <2>3
<1>6. d[(m - 1) + 1] = INDEX_INVALID /\ d[1] = f[i]
  <2>1. (m - 1) + 1 = m /\ m \in 1..m /\ 1 \in 1..m /\ 1 + 1 = 2
    OBVIOUS
  <2> QED BY <2>1, <1>1, <1>2, <1>4 DEF Runs
<1>7. ASSUME NEW x \in X \ {i} PROVE \E k \in 1..(m - 1) : d[k] = x
  <2>1. PICK k \in 1..m : e[k] = x
    BY <1>1 DEF Runs
  <2>2. k # 1
    BY <1>1, <2>1 DEF Runs
  <2>3. k - 1 \in 1..(m - 1) /\ k - 1 \in 1..m /\ (k - 1) + 1 = k
    BY <2>2
  <2> QED BY <2>1, <2>3, <1>4
<1>8. ASSUME NEW j \in 1..(m - 1), NEW k \in 1..(m - 1), d[j] = d[k] PROVE j = k
  <2>1. j + 1 \in 1..m /\ k + 1 \in 1..m /\ j \in 1..m /\ k \in 1..m
    OBVIOUS
  <2>2. e[j + 1] = e[k + 1]
    BY <1>4, <1>8, <2>1
  <2>3. j + 1 = k + 1
    BY <1>1, <2>1, <2>2 DEF Runs
  <2> QED BY <2>3
<1>9. d \in [1..((m - 1) + 1) -> (X \ {i}) \cup {INDEX_INVALID}]
  <2>1. (m - 1) + 1 = m
    OBVIOUS
  <2>2. \A k \in 1..m : d[k] \in (X \ {i}) \cup {INDEX_INVALID}
    <3> TAKE k \in 1..m
    <3>1. k \in 1..(m - 1) \/ k = (m - 1) + 1
      OBVIOUS
    <3> QED BY <3>1, <1>5, <1>6
  <2> QED BY <1>3, <2>1, <2>2
<1>10. Runs(d, X \ {i}, f[i], g, m - 1)
  BY <1>5, <1>6, <1>7, <1>8 DEF Runs
<1> QED BY <1>2, <1>9, <1>10 DEF Chained

(* A chunk whose first word is the start of a chain starts a longer chain. *)
LEMMA ChainPush ==
  ASSUME NEW X, NEW i, NEW f, NEW g, NEW m \in Nat, Chained(X, i, f, m),
         NEW x \in Nat, x \notin X, g[x] = i, \A y \in X : g[y] = f[y]
  PROVE  Chained(X \cup {x}, x, g, m + 1)
<1>1. PICK e \in [1..(m + 1) -> X \cup {INDEX_INVALID}] : Runs(e, X, i, f, m)
  BY DEF Chained
<1>2. PICK d : d = [k \in 1..(m + 2) |-> IF k = 1 THEN x ELSE e[k - 1]]
  OBVIOUS
<1>3. d[1] = x /\ \A k \in 1..(m + 1) : d[k + 1] = e[k]
  <2>1. 1 \in 1..(m + 2)
    OBVIOUS
  <2>2. \A k \in 1..(m + 1) : k + 1 \in 1..(m + 2) /\ k + 1 # 1 /\ (k + 1) - 1 = k
    OBVIOUS
  <2> QED BY <1>2, <2>1, <2>2
<1>4. \A k \in 1..(m + 1) : k = 1 \/ (k - 1 \in 1..m /\ k - 1 \in 1..(m + 1) /\ k = (k - 1) + 1)
  OBVIOUS
<1>5. \A k \in 1..(m + 1) : d[k] \in X \cup {x} /\ g[d[k]] = d[k + 1]
  <2> TAKE k \in 1..(m + 1)
  <2>1. d[k + 1] = e[k]
    BY <1>3
  <2>2. CASE k = 1
    BY <2>1, <2>2, <1>1, <1>3 DEF Runs
  <2>3. CASE k # 1
    <3>1. k - 1 \in 1..m /\ k - 1 \in 1..(m + 1) /\ k = (k - 1) + 1
      BY <1>4, <2>3
    <3>2. d[k] = e[k - 1]
      BY <1>3, <3>1
    <3>3. e[k - 1] \in X /\ f[e[k - 1]] = e[k]
      BY <1>1, <3>1 DEF Runs
    <3> QED BY <2>1, <3>2, <3>3
  <2> QED BY <2>2, <2>3
<1>6. d[(m + 1) + 1] = INDEX_INVALID
  <2>1. m + 1 \in 1..(m + 1)
    OBVIOUS
  <2> QED BY <2>1, <1>1, <1>3 DEF Runs
<1>7. \A y \in X \cup {x} : \E k \in 1..(m + 1) : d[k] = y
  <2> TAKE y \in X \cup {x}
  <2>1. CASE y = x
    <3>1. 1 \in 1..(m + 1)
      OBVIOUS
    <3> QED BY <3>1, <2>1, <1>3
  <2>2. CASE y # x
    <3>1. PICK k \in 1..m : e[k] = y
      BY <1>1, <2>2 DEF Runs
    <3>2. k + 1 \in 1..(m + 1) /\ k \in 1..(m + 1)
      OBVIOUS
    <3> QED BY <3>1, <3>2, <1>3
  <2> QED BY <2>1, <2>2
<1>8. \A j, k \in 1..(m + 1) : d[j] = d[k] => j = k
  <2> SUFFICES ASSUME NEW j \in 1..(m + 1), NEW k \in 1..(m + 1), d[j] = d[k] PROVE j = k
    OBVIOUS
  <2>1. \A l \in 1..(m + 1) : l # 1 => d[l] = e[l - 1] /\ d[l] \in X
    <3> TAKE l \in 1..(m + 1)
    <3> HAVE l # 1
    <3>1. l - 1 \in 1..m /\ l - 1 \in 1..(m + 1) /\ l = (l - 1) + 1
      BY <1>4
    <3>2. d[l] = e[l - 1]
      BY <1>3, <3>1
    <3>3. e[l - 1] \in X
      BY <1>1, <3>1 DEF Runs
    <3> QED BY <3>2, <3>3
  <2>2. CASE j = 1 \/ k = 1
    BY <2>1, <2>2, <1>3
  <2>3. CASE j # 1 /\ k # 1
    <3>1. j - 1 \in 1..m /\ k - 1 \in 1..m /\ e[j - 1] = e[k - 1]
      BY <1>4, <2>1, <2>3
    <3>2. j - 1 = k - 1
      BY <1>1, <3>1 DEF Runs
    <3> QED BY <3>2
  <2> QED BY <2>2, <2>3
<1>9. d \in [1..((m + 1) + 1) -> (X \cup {x}) \cup {INDEX_INVALID}]
  <2>1. (m + 1) + 1 = m + 2
    OBVIOUS
  <2>2. \A k \in 1..(m + 2) : d[k] \in (X \cup {x}) \cup {INDEX_INVALID}
    <3> TAKE k \in 1..(m + 2)
    <3>1. k \in 1..(m + 1) \/ k = (m + 1) + 1
      OBVIOUS
    <3> QED BY <3>1, <1>5, <1>6
  <2> QED BY <1>2, <2>1, <2>2
<1>10. Runs(d, X \cup {x}, x, g, m + 1)
  BY <1>3, <1>5, <1>6, <1>7, <1>8 DEF Runs
<1> QED BY <1>9, <1>10 DEF Chained

(* The chain fill_slab writes runs through all chunks, from the first. *)
LEMMA ChainFill ==
  ASSUME NEW c \in Cache
  PROVE  Chained(0..(capacity(c) - 1), 0, fill_slab(c), capacity(c))
<1>0. PICK m \in Nat : m = capacity(c) /\ m > 0
  BY CacheFacts
<1>1. PICK f : f = fill_slab(c)
  OBVIOUS
<1>2. \A k \in 0..(m - 1) : f[k] = IF k = m - 1 THEN INDEX_INVALID ELSE k + 1
  BY <1>0, <1>1 DEF fill_slab
<1>3. PICK e : e = [k \in 1..(m + 1) |-> IF k = m + 1 THEN INDEX_INVALID ELSE k - 1]
  OBVIOUS
<1>4. e \in [1..(m + 1) -> 0..(m - 1) \cup {INDEX_INVALID}]
  BY <1>3
<1>5. e[1] = 0 /\ e[m + 1] = INDEX_INVALID
  BY <1>0, <1>3
<1>6. \A k \in 1..m : e[k] = k - 1
  BY <1>3
<1>7. \A k \in 1..m : e[k] \in 0..(m - 1) /\ f[e[k]] = e[k + 1]
  <2> TAKE k \in 1..m
  <2>1. e[k] = k - 1 /\ k - 1 \in 0..(m - 1)
    BY <1>6
  <2>2. f[k - 1] = IF k = m THEN INDEX_INVALID ELSE k
    BY <1>2, <2>1
  <2>3. CASE k = m
    BY <1>5, <2>1, <2>2, <2>3
  <2>4. CASE k # m
    <3>1. k + 1 \in 1..m
      BY <2>4
    <3>2. e[k + 1] = k
      BY <1>6, <3>1
    <3> QED BY <2>1, <2>2, <2>4, <3>2
  <2> QED BY <2>3, <2>4
<1>8. \A x \in 0..(m - 1) : \E k \in 1..m : e[k] = x
  <2> TAKE x \in 0..(m - 1)
  <2>1. x + 1 \in 1..m /\ (x + 1) - 1 = x
    OBVIOUS
  <2>2. e[x + 1] = x
    BY <1>6, <2>1
  <2> QED BY <2>1, <2>2
<1>9. \A j, k \in 1..m : e[j] = e[k] => j = k
  BY <1>6
<1>10. Runs(e, 0..(m - 1), 0, f, m)
  BY <1>5, <1>7, <1>8, <1>9 DEF Runs
<1>11. Chained(0..(m - 1), 0, f, m)
  BY <1>4, <1>10 DEF Chained
<1> QED BY <1>0, <1>1, <1>11

-----------------------------------------------------------------------------
(* The inductive invariant implies the properties. *)

(* Chunks are numbered from 0. *)
LEMMA ChunksOf ==
  TypeInv => \A s \in Slabs : /\ cache[s] \in Cache /\ s \in Page
                              /\ Chunks(s) \subseteq Nat /\ IsFiniteSet(Chunks(s))
                              /\ Cardinality(Chunks(s)) = capacity(cache[s])
                              /\ capacity(cache[s]) \in Nat /\ capacity(cache[s]) >= 2
<1> SUFFICES ASSUME TypeInv, NEW s \in Slabs
             PROVE  /\ cache[s] \in Cache /\ s \in Page
                    /\ Chunks(s) \subseteq Nat /\ IsFiniteSet(Chunks(s))
                    /\ Cardinality(Chunks(s)) = capacity(cache[s])
                    /\ capacity(cache[s]) \in Nat /\ capacity(cache[s]) >= 2
  OBVIOUS
<1>1. cache[s] \in Cache /\ s \in Page
  BY CacheFacts DEF TypeInv, Slabs, NULL
<1>2. PICK m \in Nat : m = capacity(cache[s]) /\ m >= 2
  BY <1>1, CacheFacts
<1>3. IsFiniteSet(0..(m - 1)) /\ Cardinality(0..(m - 1)) = IF 0 > m - 1 THEN 0 ELSE (m - 1) - 0 + 1
  BY FS_Interval
<1>4. 0..(m - 1) \subseteq Nat
  OBVIOUS
<1> QED BY <1>1, <1>2, <1>3, <1>4 DEF Chunks

(* The free chunks of a slab are finitely many, and it has one in use. *)
LEMMA SlabUsed ==
  TypeInv /\ ChainInv => \A s \in Slabs : IsFiniteSet(Unheld(s)) /\ Held(s) # {}
<1> SUFFICES ASSUME TypeInv, ChainInv, NEW s \in Slabs
             PROVE  IsFiniteSet(Unheld(s)) /\ Held(s) # {}
  OBVIOUS
<1>1. /\ IsFiniteSet(Chunks(s)) /\ Cardinality(Chunks(s)) = capacity(cache[s])
      /\ capacity(cache[s]) \in Nat
  BY ChunksOf
<1>2. Unheld(s) \in SUBSET Chunks(s)
  BY DEF Unheld
<1>3. IsFiniteSet(Unheld(s))
  BY <1>1, <1>2, FS_Subset
<1>4. Held(s) = {} => Unheld(s) = Chunks(s)
  BY DEF Unheld
<1>5. Cardinality(Unheld(s)) < capacity(cache[s])
  BY DEF ChainInv, ChainOf
<1> QED BY <1>1, <1>3, <1>4, <1>5

(* The chain of a slab, walked as ChainExact walks it *)
LEMMA ChainHolds == TypeInv /\ ChainInv => ChainExact
<1> SUFFICES ASSUME TypeInv, ChainInv, NEW s \in Slabs
             PROVE  LET f == Chain(s, count[s] + 1)
                    IN /\ {f[k] : k \in 1..count[s]} = Chunks(s) \ Held(s)
                       /\ count[s] = Cardinality(Chunks(s) \ Held(s))
                       /\ f[count[s] + 1] = INDEX_INVALID
  BY DEF ChainExact
<1>1. PICK m \in Nat : m = count[s]
  BY ChunksOf DEF TypeInv
<1>2. PICK X : X = Unheld(s)
  OBVIOUS
<1>3. ChainOf(s)
  BY DEF ChainInv
<1>4. PICK e \in [1..(m + 1) -> X \cup {INDEX_INVALID}] : Runs(e, X, index[s], chunk[s], m)
  BY <1>1, <1>2, <1>3 DEF ChainOf, Chained
<1>5. X \subseteq Chunks(s) /\ Chunks(s) \subseteq Nat
  BY <1>2, ChunksOf DEF Unheld
<1>6. Chain(s, m + 1) = e
  BY <1>4, <1>5, ChainIs
<1>7. {e[k] : k \in 1..m} = X
  BY <1>4 DEF Runs
<1>8. e[m + 1] = INDEX_INVALID
  BY <1>4 DEF Runs
<1>9. m = Cardinality(X)
  BY <1>1, <1>2, <1>3 DEF ChainOf
<1>10. X = Chunks(s) \ Held(s)
  BY <1>2 DEF Unheld
<1>11. PICK f : f = Chain(s, count[s] + 1)
  OBVIOUS
<1>12. f = e
  BY <1>1, <1>6, <1>11
<1>13. {f[k] : k \in 1..count[s]} = Chunks(s) \ Held(s)
  BY <1>1, <1>7, <1>10, <1>12
<1>14. count[s] = Cardinality(Chunks(s) \ Held(s)) /\ f[count[s] + 1] = INDEX_INVALID
  BY <1>1, <1>8, <1>9, <1>10, <1>12
<1> QED BY <1>11, <1>13, <1>14

(* The queues, walked as QueuesExact walks them *)
LEMMA QueuesHold == TypeInv /\ ChainInv /\ QueueInv => QueuesExact
<1> SUFFICES ASSUME TypeInv, ChainInv, QueueInv PROVE QueuesExact
  OBVIOUS
<1>1. /\ q.n \in [Page -> Page] /\ q.v \in [Page -> Page] /\ Mutual(q.n, q.v)
      /\ \A k \in Key \ {0} : QueueIs(q.n, q.v, Heads(q)[k], {p \in Page : Place[p] = k})
  BY DEF QueueInv, Rings
<1>2. ASSUME NEW k \in Key \ {0}
      PROVE  Ring(Heads(q)[k]) = {p \in Page : Place[p] = k}
  <2>1. PICK S : S = {p \in Page : Place[p] = k}
    OBVIOUS
  <2>2. S \in SUBSET Page /\ QueueIs(q.n, q.v, Heads(q)[k], S)
    BY <2>1, <1>1
  <2>3. Ring(Heads(q)[k]) = S
    BY <2>2, <1>1, RingIs
  <2> QED BY <2>1, <2>3
<1>3. \A p \in Page : cache[p] \in 0..13 /\ count[p] \in Nat
  BY DEF TypeInv
<1>4. \A p \in Page : Place[p] = IF cache[p] = 0 THEN 0 ELSE IF count[p] > 0 THEN cache[p] ELSE -cache[p]
  BY DEF Place, NULL
<1>5. ASSUME NEW c \in Cache
      PROVE  /\ Ring(q.avail[c]) = {s \in Slabs : cache[s] = c /\ count[s] > 0}
             /\ Ring(q.full[c]) = {s \in Slabs : cache[s] = c /\ count[s] = 0}
  <2>1. c \in 1..13 /\ c \in Key \ {0} /\ -c \in Key \ {0}
    BY CacheFacts DEF Key
  <2>2. Heads(q)[c] = q.avail[c] /\ Heads(q)[-c] = q.full[c]
    BY <2>1 DEF Heads
  <2>3. \A p \in Page : Place[p] = c <=> p \in Slabs /\ cache[p] = c /\ count[p] > 0
    BY <1>3, <1>4, <2>1 DEF Slabs, NULL
  <2>4. \A p \in Page : Place[p] = -c <=> p \in Slabs /\ cache[p] = c /\ count[p] = 0
    BY <1>3, <1>4, <2>1 DEF Slabs, NULL
  <2>5. Slabs \subseteq Page
    BY DEF Slabs
  <2>6. {p \in Page : Place[p] = c} = {s \in Slabs : cache[s] = c /\ count[s] > 0}
    BY <2>3, <2>5
  <2>7. {p \in Page : Place[p] = -c} = {s \in Slabs : cache[s] = c /\ count[s] = 0}
    BY <2>4, <2>5
  <2> QED BY <1>2, <2>1, <2>2, <2>6, <2>7
<1>6. \A s \in Slabs : count[s] < capacity(cache[s])
  BY DEF ChainInv, ChainOf
<1>7. \A p \in Page : q.v[q.n[p]] = p
  BY <1>1 DEF Mutual
<1> QED BY <1>5, <1>6, <1>7 DEF QueuesExact

(* A large chunk has at least the page of its address. *)
LEMMA FirstOfRun ==
  TypeInv => \A o \in own : /\ o.page \in LargeRun(o) /\ o.page \in Page
                            /\ o.index \in Nat /\ o.bytes \in Nat \ {0}
<1> SUFFICES ASSUME TypeInv, NEW o \in own
             PROVE  /\ o.page \in LargeRun(o) /\ o.page \in Page
                    /\ o.index \in Nat /\ o.bytes \in Nat \ {0}
  OBVIOUS
<1>1. o.page \in Page /\ o.index \in Nat /\ o.bytes \in Nat \ {0}
  BY DEF TypeInv
<1>2. o.page \in Nat
  BY <1>1, SlabAssumption DEF Page
<1>3. (o.bytes + 16384 - 1) \div 16384 \in Nat /\ (o.bytes + 16384 - 1) \div 16384 >= 1
  BY <1>1
<1> QED BY <1>1, <1>2, <1>3 DEF LargeRun, PGSIZE

(* Two allocations are apart: chunks of slabs, runs of pages, or one each. *)
LEMMA OwnedHolds == TypeInv /\ OwnInv => OwnedExact
<1> SUFFICES ASSUME TypeInv, OwnInv PROVE OwnedExact
  OBVIOUS
<1>1. \A o, x \in own : o # x => IF {o, x} \subseteq Small
                                THEN o.page # x.page \/ o.index # x.index
                                ELSE o.page # x.page
  <2> SUFFICES ASSUME NEW o \in own, NEW x \in own, o # x
               PROVE  IF {o, x} \subseteq Small
                      THEN o.page # x.page \/ o.index # x.index
                      ELSE o.page # x.page
    OBVIOUS
  <2>0. o.page \in LargeRun(o) /\ x.page \in LargeRun(x)
    BY FirstOfRun
  <2>1. CASE o \in Small /\ x \in Small
    BY <2>1 DEF OwnInv
  <2>2. CASE o \in Large /\ x \in Large
    BY <2>0, <2>2 DEF OwnInv, Large
  <2>3. CASE o \in Small /\ x \in Large
    <3>1. o.page \in Slabs /\ x.page \notin Slabs
      BY <2>0, <2>3 DEF OwnInv
    <3> QED BY <3>1, <2>3 DEF Large
  <2>4. CASE o \in Large /\ x \in Small
    <3>1. x.page \in Slabs /\ o.page \notin Slabs
      BY <2>0, <2>4 DEF OwnInv
    <3> QED BY <3>1, <2>4 DEF Large
  <2> QED BY <2>1, <2>2, <2>3, <2>4 DEF Large
<1>2. /\ \A o \in Small : /\ o.page \in Slabs /\ o.index \in Chunks(o.page)
                          /\ size[cache[o.page]] >= o.bytes
                          /\ type[o.page] = "slab"
      /\ \A o \in own \ Small : /\ LargeRun(o) \cap (free \cup Slabs) = {}
                                /\ type[o.page] # "slab"
      /\ Slabs \cap free = {}
  BY DEF OwnInv, Large
<1> QED BY <1>1, <1>2 DEF OwnedExact

(* Every page is accounted for, and every slab has a chunk in use. *)
LEMMA LeakHolds == TypeInv /\ ChainInv /\ OwnInv => NoLeak
<1> SUFFICES ASSUME TypeInv, ChainInv, OwnInv PROVE NoLeak
  OBVIOUS
<1>1. \A s \in Slabs : Held(s) # {} /\ s \in Page
  BY SlabUsed DEF Slabs
<1>2. \A o \in Large : LargeRun(o) \subseteq Page
  BY DEF OwnInv
<1>3. free \subseteq Page
  BY DEF TypeInv
<1>4. \A p \in Page : p \in free \/ p \in Slabs \/ \E o \in Large : p \in LargeRun(o)
  BY DEF OwnInv
<1> QED BY <1>1, <1>2, <1>3, <1>4 DEF NoLeak, Large

-----------------------------------------------------------------------------
(* The steps *)

(* The sizes a cache serves, evaluated *)
LEMMA FitFacts ==
  ASSUME NEW b \in Nat
  PROVE  /\ ALMOST_FIT(b, 1) <=> b = 8
         /\ ALMOST_FIT(b, 2) <=> b = 16
         /\ ALMOST_FIT(b, 3) <=> 24 <= b /\ b <= 32
         /\ ALMOST_FIT(b, 4) <=> 40 <= b /\ b <= 64
         /\ ALMOST_FIT(b, 5) <=> 72 <= b /\ b <= 96
         /\ ALMOST_FIT(b, 6) <=> 104 <= b /\ b <= 128
         /\ ALMOST_FIT(b, 7) <=> 136 <= b /\ b <= 192
         /\ ALMOST_FIT(b, 8) <=> 200 <= b /\ b <= 256
         /\ ALMOST_FIT(b, 9) <=> 264 <= b /\ b <= 512
         /\ ALMOST_FIT(b, 10) <=> 520 <= b /\ b <= 1024
         /\ ALMOST_FIT(b, 11) <=> 1032 <= b /\ b <= 2048
         /\ ALMOST_FIT(b, 12) <=> 2056 <= b /\ b <= 4096
         /\ ALMOST_FIT(b, 13) <=> 4104 <= b /\ b <= 8192
<1>1. /\ size[1] = 8 /\ size[2] = 16 /\ size[3] = 32 /\ size[4] = 64 /\ size[5] = 96
      /\ size[6] = 128 /\ size[7] = 192 /\ size[8] = 256 /\ size[9] = 512 /\ size[10] = 1024
      /\ size[11] = 2048 /\ size[12] = 4096 /\ size[13] = 8192
  BY DEF size
<1>2. /\ lbound[1] = 8 /\ lbound[2] = 16 /\ lbound[3] = 24 /\ lbound[4] = 40 /\ lbound[5] = 72
      /\ lbound[6] = 104 /\ lbound[7] = 136 /\ lbound[8] = 200
  BY DEF lbound
<1>3. /\ LBOUND(1) = 8 /\ LBOUND(2) = 16 /\ LBOUND(3) = 24 /\ LBOUND(4) = 40 /\ LBOUND(5) = 72
      /\ LBOUND(6) = 104 /\ LBOUND(7) = 136 /\ LBOUND(8) = 200
  BY <1>1, <1>2 DEF LBOUND
<1>4. /\ LBOUND(9) = 264 /\ LBOUND(10) = 520 /\ LBOUND(11) = 1032 /\ LBOUND(12) = 2056
      /\ LBOUND(13) = 4104
  BY <1>1 DEF LBOUND
<1> QED BY <1>1, <1>3, <1>4 DEF ALMOST_FIT, NULL

(* Every small request, rounded up to words, has a cache with chunks at    *)
(* least as large: find_kmcache does not panic.                            *)
LEMMA CacheFound ==
  ASSUME NEW k \in Nat, NEW b \in Nat, b = 8 * k, b > 0, b <= LARGE_CHUNK,
         last_accessed \in 0..13
  PROVE  find_kmcache(b) \in Cache /\ size[find_kmcache(b)] >= b
<1>1. b <= 8192
  BY DEF LARGE_CHUNK, PGSIZE
<1>2. \E c \in Cache : ALMOST_FIT(b, c)
  <2>1. \E c \in 1..13 : ALMOST_FIT(b, c)
    <3>1. \/ b = 8
          \/ b = 16
          \/ 24 <= b /\ b <= 32
          \/ 40 <= b /\ b <= 64
          \/ 72 <= b /\ b <= 96
          \/ 104 <= b /\ b <= 128
          \/ 136 <= b /\ b <= 192
          \/ 200 <= b /\ b <= 256
          \/ 264 <= b /\ b <= 512
          \/ 520 <= b /\ b <= 1024
          \/ 1032 <= b /\ b <= 2048
          \/ 2056 <= b /\ b <= 4096
          \/ 4104 <= b /\ b <= 8192
      BY <1>1
    <3> QED BY <3>1, FitFacts
  <2> QED BY <2>1, CacheFacts
<1>3. \A c : ALMOST_FIT(b, c) => size[c] >= b /\ c # NULL
  BY DEF ALMOST_FIT
<1>4. CASE ALMOST_FIT(b, last_accessed)
  <2>1. last_accessed \in Cache
    BY <1>3, <1>4, CacheFacts DEF NULL
  <2> QED BY <1>3, <1>4, <2>1 DEF find_kmcache
<1>5. CASE ~ALMOST_FIT(b, last_accessed)
  <2> DEFINE T == {c \in Cache : ALMOST_FIT(b, c)}
  <2> DEFINE P(c) == ALMOST_FIT(b, c) /\ \A d \in 1..(c - 1) : ~ALMOST_FIT(b, d)
  <2>1. T \in SUBSET Nat /\ T # {}
    BY <1>2, CacheFacts
  <2>2. PICK c \in T : \A d \in T : c <= d
    <3> HIDE DEF T
    <3> QED BY <2>1, LeastNat
  <2>3. c \in Cache /\ P(c)
    <3>1. c \in 1..13 /\ Cache = 1..13 /\ ALMOST_FIT(b, c)
      BY <2>2, CacheFacts
    <3>2. ASSUME NEW d \in 1..(c - 1) PROVE ~ALMOST_FIT(b, d)
      <4>1. d \in Cache /\ ~(c <= d)
        BY <3>1
      <4> QED BY <4>1, <2>2
    <3> QED BY <3>1, <3>2
  <2>4. PICK d : d = CHOOSE e \in Cache : P(e)
    OBVIOUS
  <2>5. d \in Cache /\ P(d)
    <3> HIDE DEF P
    <3> QED BY <2>3, <2>4
  <2>6. find_kmcache(b) = d
    BY <1>2, <1>5, <2>4 DEF find_kmcache
  <2> QED BY <2>5, <2>6, <1>3
<1> QED BY <1>4, <1>5

(* Nothing about slabs other than s changes. *)
Others(s) ==
  \A p \in Page \ {s} : /\ cache'[p] = cache[p] /\ index'[p] = index[p]
                        /\ count'[p] = count[p] /\ chunk'[p] = chunk[p]
                        /\ Held(p)' = Held(p)

(* The chains of the other slabs stay as they are. *)
LEMMA ChainStep ==
  ASSUME ChainInv, NEW s \in Page, Others(s), s \in Slabs' => ChainOf(s)'
  PROVE  ChainInv'
<1> SUFFICES ASSUME NEW p \in Slabs' PROVE ChainOf(p)'
  BY DEF ChainInv
<1>1. CASE p = s
  BY <1>1
<1>2. CASE p # s
  <2>0. p \in Page \ {s}
    BY <1>2 DEF Slabs
  <2>1. /\ cache'[p] = cache[p] /\ index'[p] = index[p]
        /\ count'[p] = count[p] /\ chunk'[p] = chunk[p]
        /\ Held(p)' = Held(p)
    BY <2>0 DEF Others
  <2>2. p \in Slabs
    BY <2>0, <2>1 DEF Slabs
  <2>3. ChainOf(p)
    BY <2>2 DEF ChainInv
  <2>4. Chunks(p)' = Chunks(p)
    BY <2>1 DEF Chunks
  <2>5. Unheld(p)' = Unheld(p)
    BY <2>1, <2>4 DEF Unheld
  <2> QED BY <2>1, <2>3, <2>4, <2>5 DEF ChainOf
<1> QED BY <1>1, <1>2

(* The queues after a step that leaves them as R. *)
LEMMA QueueStep ==
  ASSUME NEW R, NEW z, QType(R), Rings(R.n, R.v, Heads(R), z), q' = R, Place' = z
  PROVE  QueueInv'
<1>1. QType(q)' /\ Heads(q)' = Heads(R)
  BY DEF QType, Heads
<1> QED BY <1>1 DEF QueueInv, Rings, Mutual, QueueIs

(* What a new small chunk changes about who holds what *)
LEMMA OwnMore ==
  ASSUME NEW s, NEW i, NEW b \in Nat, b <= LARGE_CHUNK,
         own' = own \cup {[page |-> s, index |-> i, bytes |-> b]}
  PROVE  /\ Small' = Small \cup {[page |-> s, index |-> i, bytes |-> b]}
         /\ Large' = Large
         /\ Held(s)' = Held(s) \cup {i}
         /\ \A p \in Page \ {s} : Held(p)' = Held(p)
<1>1. PICK o : o = [page |-> s, index |-> i, bytes |-> b]
  OBVIOUS
<1>2. o.page = s /\ o.index = i /\ o.bytes = b /\ own' = own \cup {o}
  BY <1>1
<1>3. Small' = Small \cup {o}
  BY <1>2 DEF Small
<1>4. Large' = Large
  BY <1>2, <1>3 DEF Large, Small
<1>5. Held(s)' = Held(s) \cup {i}
  BY <1>2, <1>3 DEF Held
<1>6. ASSUME NEW p \in Page \ {s}
      PROVE  Held(p)' = Held(p)
  BY <1>2, <1>3 DEF Held
<1> QED BY <1>1, <1>3, <1>4, <1>5, <1>6

(* What a returned small chunk changes *)
LEMMA OwnLess ==
  ASSUME OwnInv, NEW o \in Small, own' = own \ {o}
  PROVE  /\ Small' = Small \ {o}
         /\ Large' = Large
         /\ Held(o.page)' = Held(o.page) \ {o.index}
         /\ o.index \in Held(o.page)
         /\ \A p \in Page \ {o.page} : Held(p)' = Held(p)
<1>1. Small' = Small \ {o}
  BY DEF Small
<1>2. Large' = Large
  BY <1>1 DEF Large, Small
<1>3. \A x \in Small : x # o => x.page # o.page \/ x.index # o.index
  BY DEF OwnInv
<1>4. Held(o.page)' = Held(o.page) \ {o.index}
  BY <1>1, <1>3 DEF Held
<1>5. ASSUME NEW p \in Page \ {o.page}
      PROVE  Held(p)' = Held(p)
  BY <1>1 DEF Held
<1>6. o.index \in Held(o.page)
  BY DEF Held
<1> QED BY <1>1, <1>2, <1>4, <1>5, <1>6

(* The slab chunk is taken from: one of cache c, or a free page filled. *)
Source(c, s, i, m, chunks, Q) ==
  LET X == 0..(capacity(c) - 1) \ Held(s) IN
  /\ (s \in Slabs /\ cache[s] = c) \/ s \in free
  /\ chunks = [k \in 0..(capacity(c) - 1) |-> chunks[k]]
  /\ Chained(X, i, chunks, m)
  /\ m = Cardinality(X) /\ m <= capacity(c)
  /\ QType(Q) /\ Rings(Q.n, Q.v, Heads(Q), [Place EXCEPT ![s] = c])

(* Taking the first chunk of a slab keeps the invariant, and no assert     *)
(* fails.                                                                  *)
LEMMA PopGood ==
  ASSUME SlabInv, NEW c \in Cache, NEW s \in Page, NEW i, NEW m \in Nat, m > 0, NEW chunks, NEW Q,
         NEW b \in Nat \ {0}, b <= LARGE_CHUNK, size[c] >= b, Source(c, s, i, m, chunks, Q),
         free' = free \ {s}, type' = [type EXCEPT ![s] = "slab"],
         cache' = [cache EXCEPT ![s] = c], Pop(c, s, i, m, chunks, Q, b)
  PROVE  SlabInv'
<1>0. TypeInv /\ ChainInv /\ QueueInv /\ OwnInv /\ ~halted
  BY DEF SlabInv
<1>1. PICK C : C = 0..(capacity(c) - 1)
  OBVIOUS
<1>2. PICK X : X = C \ Held(s)
  OBVIOUS
<1>3. /\ (s \in Slabs /\ cache[s] = c) \/ s \in free
      /\ chunks = [k \in C |-> chunks[k]]
      /\ Chained(X, i, chunks, m)
      /\ m = Cardinality(X) /\ m <= capacity(c)
      /\ QType(Q) /\ Rings(Q.n, Q.v, Heads(Q), [Place EXCEPT ![s] = c])
  BY <1>1, <1>2 DEF Source
<1>4. C \subseteq Nat /\ IsFiniteSet(C) /\ capacity(c) \in Nat
  <2>1. capacity(c) \in Nat
    BY CacheFacts
  <2>2. IsFiniteSet(0..(capacity(c) - 1))
    BY <2>1, FS_Interval
  <2> QED BY <1>1, <2>1, <2>2
<1>5. PICK g : g = [chunks EXCEPT ![i] = InUse]
  OBVIOUS
<1>6. i \in X /\ Chained(X \ {i}, chunks[i], g, m - 1)
  <2>1. \A x \in X : x # i => g[x] = chunks[x]
    BY <1>2, <1>3, <1>5
  <2> QED BY <1>3, <2>1, ChainPop
<1>7. i \in C /\ i \in Nat /\ ~(i < 0) /\ i \notin Held(s)
  BY <1>2, <1>4, <1>6
<1>8. PICK o : o = [page |-> s, index |-> i, bytes |-> b]
  OBVIOUS
<1>9. /\ own' = own \cup {o}
      /\ index' = [index EXCEPT ![s] = chunks[i]]
      /\ chunk' = [chunk EXCEPT ![s] = g]
      /\ count' = [count EXCEPT ![s] = m - 1]
      /\ q' = IF m = 1 THEN set_slab_full(Q, c, s) ELSE Q
      /\ last_accessed' = c
      /\ halted' = halted
  BY <1>5, <1>7, <1>8 DEF Pop
<1>10. /\ Small' = Small \cup {o} /\ Large' = Large
       /\ Held(s)' = Held(s) \cup {i}
       /\ \A p \in Page \ {s} : Held(p)' = Held(p)
  BY <1>8, <1>9, OwnMore
<1>11. c \in 0..13 /\ c # NULL /\ c \in 1..13
  BY CacheFacts DEF NULL
<1>12. o.page = s /\ o.index = i /\ o.bytes = b
  BY <1>8
<1>13. TypeInv'
  <2>1. free' \subseteq Page /\ type' \in [Page -> {"generic", "slab", "tail"}] /\ cache' \in [Page -> 0..13]
    BY <1>0, <1>11 DEF TypeInv
  <2>2. index' = [p \in Page |-> index'[p]] /\ chunk' = [p \in Page |-> chunk'[p]]
    BY <1>0, <1>9 DEF TypeInv
  <2>3. count' \in [Page -> Nat]
    BY <1>0, <1>9 DEF TypeInv
  <2>4. own' \subseteq [page : Page, index : Nat, bytes : Nat \ {0}]
    <3>1. o \in [page : Page, index : Nat, bytes : Nat \ {0}]
      BY <1>7, <1>8
    <3> QED BY <3>1, <1>0, <1>9 DEF TypeInv
  <2> QED BY <2>1, <2>2, <2>3, <2>4, <1>9, <1>11 DEF TypeInv
<1>14. /\ cache'[s] = c /\ index'[s] = chunks[i] /\ chunk'[s] = g /\ count'[s] = m - 1
       /\ type'[s] = "slab"
       /\ \A p \in Page \ {s} : /\ cache'[p] = cache[p] /\ index'[p] = index[p]
                                /\ count'[p] = count[p] /\ chunk'[p] = chunk[p]
                                /\ type'[p] = type[p]
  BY <1>0, <1>9 DEF TypeInv
<1>15. ChainInv'
  <2>1. Others(s)
    BY <1>10, <1>14 DEF Others
  <2>2. Chunks(s)' = C
    BY <1>1, <1>14 DEF Chunks
  <2>3. Unheld(s)' = X \ {i}
    BY <1>2, <1>10, <2>2 DEF Unheld
  <2>4. g = [k \in C |-> g[k]]
    BY <1>3, <1>5
  <2>5. m - 1 = Cardinality(X \ {i})
    <3>1. IsFiniteSet(X)
      <4>1. X \in SUBSET C
        BY <1>2
      <4> QED BY <4>1, <1>4, FS_Subset
    <3>2. Cardinality(X \ {i}) = Cardinality(X) - 1
      BY <3>1, <1>6, FS_RemoveElement
    <3> QED BY <3>2, <1>3
  <2>6. m - 1 < capacity(c)
    BY <1>3, <1>4
  <2>7. ChainOf(s)'
    BY <1>6, <1>14, <2>2, <2>3, <2>4, <2>5, <2>6 DEF ChainOf
  <2> QED BY <1>0, <2>1, <2>7, ChainStep
<1>16. QueueInv'
  <2>1. PICK w : w = [Place EXCEPT ![s] = c]
    OBVIOUS
  <2>2. w = [p \in Page |-> w[p]] /\ w[s] = c /\ \A p \in Page \ {s} : w[p] = Place[p]
    BY <2>1 DEF Place
  <2>3. \A p \in Page \ {s} : Place'[p] = Place[p]
    BY <1>14 DEF Place
  <2>4. Place'[s] = IF m - 1 > 0 THEN c ELSE -c
    BY <1>11, <1>14 DEF Place
  <2>5. Place' = [p \in Page |-> Place'[p]]
    BY DEF Place
  <2>6. Rings(Q.n, Q.v, Heads(Q), w) /\ QType(Q)
    BY <1>3, <2>1
  <2>7. CASE m = 1
    <3>1. Place' = [w EXCEPT ![s] = -c]
      BY <2>2, <2>3, <2>4, <2>5, <2>7
    <3>2. PICK R : R = set_slab_full(Q, c, s)
      OBVIOUS
    <3>3. QType(R) /\ Rings(R.n, R.v, Heads(R), [w EXCEPT ![s] = -c])
      BY <2>2, <2>6, <3>2, SetFull
    <3>4. q' = R
      BY <1>9, <2>7, <3>2
    <3>5. PICK z : z = [w EXCEPT ![s] = -c]
      OBVIOUS
    <3> QED BY <3>1, <3>3, <3>4, <3>5, QueueStep
  <2>8. CASE m # 1
    <3>1. Place' = w
      BY <2>2, <2>3, <2>4, <2>5, <2>8
    <3>2. q' = Q
      BY <1>9, <2>8
    <3> QED BY <2>6, <3>1, <3>2, QueueStep
  <2> QED BY <2>7, <2>8
<1>17. OwnInv'
  <2>1. Slabs' = Slabs \cup {s}
    BY <1>11, <1>14 DEF Slabs
  <2>2. \A p \in Slabs : p \in Page /\ cache'[p] = cache[p]
    BY <1>0, <1>3, <1>14 DEF OwnInv, Slabs
  <2>3. \A p \in Slabs : Chunks(p)' = Chunks(p)
    BY <2>2 DEF Chunks
  <2>4. \A x \in own : LargeRun(x)' = LargeRun(x)
    BY DEF LargeRun
  <2>5. \A x \in Small' : /\ x.page \in Slabs' /\ x.index \in Chunks(x.page)'
                          /\ size[cache'[x.page]] >= x.bytes
                          /\ type'[x.page] = "slab"
    <3> TAKE x \in Small'
    <3>1. CASE x \in Small
      <4>1. /\ x.page \in Slabs /\ x.index \in Chunks(x.page)
            /\ size[cache[x.page]] >= x.bytes /\ type[x.page] = "slab"
        BY <1>0, <3>1 DEF OwnInv
      <4> QED BY <4>1, <2>1, <2>2, <2>3, <1>14
    <3>2. CASE x = o
      <4>1. Chunks(s)' = C
        BY <1>1, <1>14 DEF Chunks
      <4> QED BY <3>2, <4>1, <1>7, <1>12, <1>14, <2>1
    <3> QED BY <3>1, <3>2, <1>10
  <2>6. \A x \in Large : /\ LargeRun(x) \subseteq Page
                         /\ LargeRun(x) \cap (free' \cup Slabs') = {}
                         /\ type'[x.page] # "slab"
    <3> TAKE x \in Large
    <3>1. /\ LargeRun(x) \subseteq Page /\ LargeRun(x) \cap (free \cup Slabs) = {}
          /\ type[x.page] # "slab"
      BY <1>0 DEF OwnInv
    <3>2. s \notin LargeRun(x)
      BY <3>1, <1>3
    <3>3. x.page \in LargeRun(x) /\ x.page \in Page
      BY <1>0, FirstOfRun DEF Large
    <3>4. type'[x.page] = type[x.page]
      BY <3>2, <3>3, <1>14
    <3> QED BY <3>1, <3>2, <3>4, <2>1
  <2>7. \A x, y \in Small' : x # y => x.page # y.page \/ x.index # y.index
    <3>1. \A x \in Small : x.page # s \/ x.index # i
      BY <1>7 DEF Held
    <3>2. \A x, y \in Small : x # y => x.page # y.page \/ x.index # y.index
      BY <1>0 DEF OwnInv
    <3> QED BY <3>1, <3>2, <1>10, <1>12
  <2>8. \A x, y \in Large : x # y => LargeRun(x) \cap LargeRun(y) = {}
    BY <1>0 DEF OwnInv
  <2>9. Slabs' \cap free' = {}
    BY <1>0, <2>1 DEF OwnInv
  <2>10. \A p \in Page : p \in free' \/ p \in Slabs' \/ \E x \in Large : p \in LargeRun(x)
    BY <1>0, <2>1 DEF OwnInv
  <2>11. \A x \in Large : LargeRun(x)' = LargeRun(x)
    BY <2>4 DEF Large
  <2> QED BY <1>10, <2>5, <2>6, <2>7, <2>8, <2>9, <2>10, <2>11 DEF OwnInv
<1>18. ~halted'
  BY <1>0, <1>9
<1> QED BY <1>13, <1>15, <1>16, <1>17, <1>18 DEF SlabInv

(* A step that leaves the slabs and the small chunks alone *)
LEMMA SteadyGood ==
  ASSUME ChainInv, QueueInv, UNCHANGED <<cache, index, count, chunk, q>>, Small' = Small
  PROVE  ChainInv' /\ QueueInv'
<1>1. Slabs' = Slabs
  BY DEF Slabs
<1>2. \A p : Held(p)' = Held(p) /\ Chunks(p)' = Chunks(p)
  BY DEF Held, Chunks
<1>3. ChainInv'
  BY <1>1, <1>2 DEF ChainInv, ChainOf, Unheld
<1>4. Place' = Place
  BY DEF Place
<1>5. QueueInv'
  <2>1. PICK R, z : R = q /\ z = Place
    OBVIOUS
  <2>2. QType(R) /\ Rings(R.n, R.v, Heads(R), z) /\ q' = R /\ Place' = z
    BY <1>4, <2>1 DEF QueueInv
  <2> QED BY <2>2, QueueStep
<1> QED BY <1>3, <1>5

(* A step that changes at most last_accessed *)
LEMMA IdleGood ==
  ASSUME SlabInv, UNCHANGED <<free, type, cache, index, count, chunk, q, own, halted>>,
         last_accessed' \in 0..13
  PROVE  SlabInv'
<1>0. TypeInv /\ ChainInv /\ QueueInv /\ OwnInv /\ ~halted
  BY DEF SlabInv
<1>1. TypeInv'
  BY <1>0 DEF TypeInv
<1>2. Small' = Small /\ Slabs' = Slabs /\ Large' = Large
  BY DEF Small, Slabs, Large
<1>3. \A p : Chunks(p)' = Chunks(p)
  BY DEF Chunks
<1>4. ChainInv' /\ QueueInv'
  BY <1>0, <1>2, SteadyGood
<1>5. \A o : LargeRun(o)' = LargeRun(o)
  BY DEF LargeRun
<1>6. OwnInv'
  BY <1>0, <1>2, <1>3, <1>5 DEF OwnInv
<1> QED BY <1>0, <1>1, <1>4, <1>6 DEF SlabInv

(* slab_alloc from a slab of the avail queue *)
LEMMA AllocOldGood ==
  ASSUME SlabInv, NEW c \in Cache, NEW b \in Nat \ {0}, b <= LARGE_CHUNK, size[c] >= b,
         NEW s, s = q.avail[c], s # NULL,
         Pop(c, s, index[s], count[s], chunk[s], q, b), UNCHANGED <<free, type, cache>>
  PROVE  SlabInv'
<1>0. TypeInv /\ ChainInv /\ QueueInv /\ OwnInv
  BY DEF SlabInv
<1>1. c \in 1..13 /\ c \in Key \ {0}
  BY CacheFacts DEF Key
<1>2. Heads(q)[c] = s
  BY <1>1 DEF Heads
<1>3. s \in Page /\ Place[s] = c
  BY <1>0, <1>1, <1>2 DEF QueueInv, Rings, QueueIs
<1>4. cache[s] \in 0..13 /\ count[s] \in Nat
  BY <1>0, <1>3 DEF TypeInv
<1>5. cache[s] = c /\ count[s] > 0 /\ s \in Slabs
  BY <1>1, <1>3, <1>4 DEF Place, NULL, Slabs
<1>6. ChainOf(s) /\ Chunks(s) = 0..(capacity(c) - 1) /\ Unheld(s) = 0..(capacity(c) - 1) \ Held(s)
  BY <1>0, <1>5 DEF ChainInv, Chunks, Unheld
<1>7. [Place EXCEPT ![s] = c] = Place
  BY <1>3 DEF Place
<1>8. count[s] <= capacity(c)
  <2>1. count[s] < capacity(c)
    BY <1>5, <1>6 DEF ChainOf
  <2>2. capacity(c) \in Nat
    BY CacheFacts
  <2> QED BY <1>4, <2>1, <2>2
<1>9. Source(c, s, index[s], count[s], chunk[s], q)
  BY <1>0, <1>5, <1>6, <1>7, <1>8 DEF Source, ChainOf, QueueInv
<1>10. type[s] = "slab"
  <2>1. Held(s) # {}
    BY <1>0, <1>5, SlabUsed
  <2>2. PICK o \in Small : o.page = s
    BY <2>1 DEF Held
  <2> QED BY <2>2, <1>0 DEF OwnInv
<1>11. s \notin free
  BY <1>0, <1>5 DEF OwnInv
<1>12. /\ free' = free \ {s} /\ type' = [type EXCEPT ![s] = "slab"]
       /\ cache' = [cache EXCEPT ![s] = c]
  BY <1>0, <1>3, <1>5, <1>10, <1>11 DEF TypeInv
<1>13. PICK i, m, x, Q : i = index[s] /\ m = count[s] /\ x = chunk[s] /\ Q = q
  OBVIOUS
<1>14. /\ m \in Nat /\ m > 0 /\ Source(c, s, i, m, x, Q) /\ Pop(c, s, i, m, x, Q, b)
  BY <1>4, <1>5, <1>9, <1>13
<1> QED BY <1>3, <1>12, <1>14, PopGood

(* slab_new, and the first chunk of the new slab *)
LEMMA AllocNewGood ==
  ASSUME SlabInv, NEW c \in Cache, NEW b \in Nat \ {0}, b <= LARGE_CHUNK, size[c] >= b,
         NEW s \in free, PopNew(c, s, b)
  PROVE  SlabInv'
<1>0. TypeInv /\ ChainInv /\ QueueInv /\ OwnInv
  BY DEF SlabInv
<1>1. s \in Page /\ s \notin Slabs /\ Place[s] = 0
  BY <1>0 DEF TypeInv, OwnInv, Slabs, Place
<1>2. Held(s) = {}
  BY <1>0, <1>1 DEF Held, OwnInv
<1>3. PICK m \in Nat : m = capacity(c) /\ m > 0
  BY CacheFacts
<1>4. 0..(capacity(c) - 1) \ Held(s) = 0..(capacity(c) - 1)
  BY <1>2
<1>5. m = Cardinality(0..(capacity(c) - 1))
  <2>1. Cardinality(0..(m - 1)) = IF 0 > m - 1 THEN 0 ELSE (m - 1) - 0 + 1
    BY FS_Interval
  <2> QED BY <2>1, <1>3
<1>6. PICK f, Q : f = fill_slab(c) /\ Q = set_slab_available(q, c, s)
  OBVIOUS
<1>7. Chained(0..(capacity(c) - 1), 0, f, m)
  BY <1>3, <1>6, ChainFill
<1>8. QType(Q) /\ Rings(Q.n, Q.v, Heads(Q), [Place EXCEPT ![s] = c])
  <2>1. PICK w : w = Place
    OBVIOUS
  <2>2. QType(q) /\ Rings(q.n, q.v, Heads(q), w) /\ w = [p \in Page |-> w[p]] /\ w[s] = 0
    BY <1>0, <1>1, <2>1 DEF QueueInv, Place
  <2>3. PICK r : r = q
    OBVIOUS
  <2>4. /\ QType(set_slab_available(r, c, s))
        /\ Rings(set_slab_available(r, c, s).n, set_slab_available(r, c, s).v,
                 Heads(set_slab_available(r, c, s)), [w EXCEPT ![s] = c])
    BY <1>1, <2>2, <2>3, SetAvailable
  <2> QED BY <2>1, <2>3, <2>4, <1>6
<1>9. f = [k \in 0..(capacity(c) - 1) |-> f[k]]
  BY <1>6 DEF fill_slab
<1>10. m <= capacity(c)
  BY <1>3
<1>11. Source(c, s, 0, m, f, Q)
  BY <1>4, <1>5, <1>7, <1>8, <1>9, <1>10 DEF Source
<1>12. /\ free' = free \ {s} /\ type' = [type EXCEPT ![s] = "slab"]
       /\ cache' = [cache EXCEPT ![s] = c] /\ Pop(c, s, 0, m, f, Q, b)
  BY <1>3, <1>6 DEF PopNew
<1> QED BY <1>1, <1>3, <1>11, <1>12, PopGood

(* slab_alloc, for a request rounded up to words *)
LEMMA SlabAllocGood ==
  ASSUME SlabInv, NEW k \in Nat, NEW b \in Nat \ {0}, b = 8 * k, b <= LARGE_CHUNK, slab_alloc(b)
  PROVE  SlabInv'
<1>1. PICK c : c = find_kmcache(b)
  OBVIOUS
<1>2. c \in Cache /\ size[c] >= b
  BY <1>1, CacheFound DEF SlabInv, TypeInv
<1>3. c # NULL /\ c \in 0..13
  BY <1>2, CacheFacts DEF NULL
<1>4. PICK s : s = q.avail[c]
  OBVIOUS
<1>5. CASE s # NULL
  <2>1. Pop(c, s, index[s], count[s], chunk[s], q, b) /\ UNCHANGED <<free, type, cache>>
    BY <1>1, <1>3, <1>4, <1>5 DEF slab_alloc
  <2> QED BY <1>2, <1>4, <1>5, <2>1, AllocOldGood
<1>6. CASE s = NULL /\ free # {}
  <2> DEFINE P(p) == \A r \in free : p <= r
  <2>1. PICK p : p = CHOOSE x \in free : P(x)
    OBVIOUS
  <2>2. PopNew(c, p, b)
    BY <1>1, <1>3, <1>4, <1>6, <2>1 DEF slab_alloc
  <2>3. \E x \in free : P(x)
    <3>1. free \in SUBSET Nat
      BY SlabAssumption DEF SlabInv, TypeInv, Page
    <3> QED BY <3>1, <1>6, LeastNat
  <2>4. p \in free
    <3> HIDE DEF P
    <3> QED BY <2>1, <2>3
  <2> QED BY <1>2, <2>2, <2>4, AllocNewGood
<1>7. CASE s = NULL /\ free = {}
  <2>1. last_accessed' = c /\ UNCHANGED <<free, type, cache, index, count, chunk, q, own, halted>>
    BY <1>1, <1>3, <1>4, <1>7 DEF slab_alloc
  <2> QED BY <1>3, <2>1, IdleGood
<1> QED BY <1>5, <1>6, <1>7

(* kmalloc_large: the run becomes a large chunk. *)
LEMMA LargeGood ==
  ASSUME SlabInv, NEW b \in Nat \ {0}, b > LARGE_CHUNK, kmalloc_large(b)
  PROVE  SlabInv'
<1>0. TypeInv /\ ChainInv /\ QueueInv /\ OwnInv /\ ~halted
  BY DEF SlabInv
<1> DEFINE Run(p) == p..(p + (b + PGSIZE - 1) \div PGSIZE - 1)
<1>1. PICK p \in Page :
        /\ Run(p) \subseteq free
        /\ free' = free \ Run(p)
        /\ type' = [r \in Page |-> IF r = p THEN "generic"
                                   ELSE IF r \in Run(p) THEN "tail" ELSE type[r]]
        /\ own' = own \cup {[page |-> p, index |-> NULL, bytes |-> b]}
        /\ UNCHANGED <<cache, index, count, chunk, q, last_accessed, halted>>
  BY DEF kmalloc_large
<1>2. PICK o : o = [page |-> p, index |-> NULL, bytes |-> b]
  OBVIOUS
<1>3. PICK run : run = Run(p)
  OBVIOUS
<1>4. o.page = p /\ o.bytes = b /\ own' = own \cup {o}
  BY <1>1, <1>2
<1>5. LargeRun(o) = run
  BY <1>3, <1>4 DEF LargeRun
<1> HIDE DEF Run
<1>6. run \subseteq free /\ free' = free \ run /\ run \subseteq Page
  BY <1>0, <1>1, <1>3 DEF TypeInv
<1>7. o \in [page : Page, index : Nat, bytes : Nat \ {0}]
  BY <1>2 DEF NULL
<1>8. TypeInv'
  BY <1>0, <1>1, <1>4, <1>6, <1>7 DEF TypeInv
<1>9. ~(b <= LARGE_CHUNK)
  BY DEF LARGE_CHUNK, PGSIZE
<1>10. Small' = Small /\ Slabs' = Slabs
  BY <1>1, <1>4, <1>9 DEF Small, Slabs
<1>11. Large' = Large \cup {o}
  BY <1>4, <1>9, <1>10 DEF Large, Small
<1>12. ChainInv' /\ QueueInv'
  BY <1>0, <1>1, <1>10, SteadyGood
<1>13. p \in run
  <2>1. p \in Nat
    BY SlabAssumption DEF Page
  <2>2. (b + 16384 - 1) \div 16384 \in Nat /\ (b + 16384 - 1) \div 16384 >= 1
    OBVIOUS
  <2> QED BY <1>4, <1>5, <2>1, <2>2 DEF LargeRun, PGSIZE
<1>14. \A r \in Page : r \notin run => type'[r] = type[r]
  BY <1>1, <1>3, <1>13
<1>15. type'[p] = "generic"
  BY <1>1
<1>16. OwnInv'
  <2>1. \A x : LargeRun(x)' = LargeRun(x)
    BY DEF LargeRun
  <2>2. \A x : Chunks(x)' = Chunks(x)
    BY <1>1 DEF Chunks
  <2>3. \A x \in Small : /\ x.page \in Slabs /\ x.index \in Chunks(x.page)
                         /\ size[cache[x.page]] >= x.bytes
                         /\ type'[x.page] = "slab"
    <3> TAKE x \in Small
    <3>1. /\ x.page \in Slabs /\ x.index \in Chunks(x.page)
          /\ size[cache[x.page]] >= x.bytes
          /\ type[x.page] = "slab"
      BY <1>0 DEF OwnInv
    <3>2. x.page \notin run /\ x.page \in Page
      BY <1>0, <1>6, <3>1 DEF OwnInv, Slabs
    <3> QED BY <3>1, <3>2, <1>14
  <2>4. \A x \in Large : /\ LargeRun(x) \subseteq Page
                         /\ LargeRun(x) \cap (free \cup Slabs) = {}
                         /\ LargeRun(x) \cap run = {}
                         /\ type'[x.page] # "slab"
    <3> TAKE x \in Large
    <3>1. /\ LargeRun(x) \subseteq Page /\ LargeRun(x) \cap (free \cup Slabs) = {}
          /\ type[x.page] # "slab"
      BY <1>0 DEF OwnInv
    <3>2. x.page \in LargeRun(x) /\ x.page \in Page
      BY <1>0, FirstOfRun DEF Large
    <3>3. x.page \notin run
      BY <1>6, <3>1, <3>2
    <3> QED BY <3>1, <3>2, <3>3, <1>6, <1>14
  <2>5. \A x \in Large' : /\ LargeRun(x) \subseteq Page
                          /\ LargeRun(x) \cap (free' \cup Slabs) = {}
                          /\ type'[x.page] # "slab"
    <3> TAKE x \in Large'
    <3>1. CASE x \in Large
      BY <3>1, <2>4, <1>6
    <3>2. CASE x = o
      <4>1. run \cap (free' \cup Slabs) = {}
        BY <1>0, <1>6 DEF OwnInv
      <4> QED BY <4>1, <3>2, <1>4, <1>5, <1>6, <1>15
    <3> QED BY <3>1, <3>2, <1>11
  <2>6. \A x, y \in Large' : x # y => LargeRun(x) \cap LargeRun(y) = {}
    <3>1. \A x, y \in Large : x # y => LargeRun(x) \cap LargeRun(y) = {}
      BY <1>0 DEF OwnInv
    <3> QED BY <3>1, <2>4, <1>5, <1>11
  <2>7. \A x, y \in Small : x # y => x.page # y.page \/ x.index # y.index
    BY <1>0 DEF OwnInv
  <2>8. Slabs \cap free' = {}
    BY <1>0, <1>6 DEF OwnInv
  <2>9. \A r \in Page : r \in free' \/ r \in Slabs \/ \E x \in Large' : r \in LargeRun(x)
    <3> TAKE r \in Page
    <3>1. r \in free \/ r \in Slabs \/ \E x \in Large : r \in LargeRun(x)
      BY <1>0 DEF OwnInv
    <3>2. r \in run => r \in LargeRun(o) /\ o \in Large'
      BY <1>5, <1>11
    <3> QED BY <3>1, <3>2, <1>6, <1>11
  <2> QED BY <1>1, <1>10, <2>1, <2>2, <2>3, <2>5, <2>6, <2>7, <2>8, <2>9 DEF OwnInv
<1>17. ~halted'
  BY <1>0, <1>1
<1> QED BY <1>8, <1>12, <1>16, <1>17 DEF SlabInv

(* kfree of a large chunk gives all its pages back. *)
LEMMA FreeLargeGood ==
  ASSUME SlabInv, NEW o \in Large, kfree_large(o)
  PROVE  SlabInv'
<1>0. TypeInv /\ ChainInv /\ QueueInv /\ OwnInv /\ ~halted
  BY DEF SlabInv
<1>1. /\ own' = own \ {o} /\ free' = free \cup LargeRun(o)
      /\ UNCHANGED <<type, cache, index, count, chunk, q, last_accessed, halted>>
  BY DEF kfree_large, LargeRun
<1>2. Small' = Small /\ Slabs' = Slabs
  BY <1>1 DEF Small, Slabs, Large
<1>3. Large' = Large \ {o}
  BY <1>1, <1>2 DEF Large
<1>4. LargeRun(o) \subseteq Page /\ LargeRun(o) \cap (free \cup Slabs) = {}
  BY <1>0 DEF OwnInv
<1>5. TypeInv'
  BY <1>0, <1>1, <1>4 DEF TypeInv
<1>6. ChainInv' /\ QueueInv'
  BY <1>0, <1>1, <1>2, SteadyGood
<1>7. OwnInv'
  <2>1. \A x : LargeRun(x)' = LargeRun(x)
    BY DEF LargeRun
  <2>2. \A x : Chunks(x)' = Chunks(x)
    BY <1>1 DEF Chunks
  <2>3. \A x \in Small : /\ x.page \in Slabs /\ x.index \in Chunks(x.page)
                         /\ size[cache[x.page]] >= x.bytes
                         /\ type[x.page] = "slab"
    BY <1>0 DEF OwnInv
  <2>4. \A x \in Large' : /\ LargeRun(x) \subseteq Page
                          /\ LargeRun(x) \cap (free' \cup Slabs) = {}
                          /\ type[x.page] # "slab"
    <3> TAKE x \in Large'
    <3>1. /\ x \in Large /\ LargeRun(x) \subseteq Page /\ LargeRun(x) \cap (free \cup Slabs) = {}
          /\ type[x.page] # "slab"
      BY <1>0, <1>3 DEF OwnInv
    <3>2. LargeRun(x) \cap LargeRun(o) = {}
      BY <1>0, <1>3 DEF OwnInv
    <3> QED BY <3>1, <3>2, <1>1
  <2>5. \A x, y \in Large' : x # y => LargeRun(x) \cap LargeRun(y) = {}
    BY <1>0, <1>3 DEF OwnInv
  <2>6. \A x, y \in Small : x # y => x.page # y.page \/ x.index # y.index
    BY <1>0 DEF OwnInv
  <2>7. Slabs \cap free' = {}
    BY <1>0, <1>1, <1>4 DEF OwnInv
  <2>8. \A r \in Page : r \in free' \/ r \in Slabs \/ \E x \in Large' : r \in LargeRun(x)
    <3> TAKE r \in Page
    <3>1. r \in free \/ r \in Slabs \/ \E x \in Large : r \in LargeRun(x)
      BY <1>0 DEF OwnInv
    <3> QED BY <3>1, <1>1, <1>3
  <2> QED BY <1>1, <1>2, <2>1, <2>2, <2>3, <2>4, <2>5, <2>6, <2>7, <2>8 DEF OwnInv
<1>8. ~halted'
  BY <1>0, <1>1
<1> QED BY <1>5, <1>6, <1>7, <1>8 DEF SlabInv

(* slab_free when other chunks of the slab stay in use *)
LEMMA FreeMoreGood ==
  ASSUME SlabInv, NEW o \in Small, NEW s, NEW c, s = o.page, c = cache[s],
         own' = own \ {o}, UNCHANGED <<type, last_accessed, free, cache, halted>>,
         count[s] + 1 < capacity(c), Push(s, o.index), count' = [count EXCEPT ![s] = @ + 1],
         q' = IF count[s] = 0 THEN set_slab_available(q, c, s) ELSE q
  PROVE  SlabInv'
<1>0. TypeInv /\ ChainInv /\ QueueInv /\ OwnInv /\ ~halted
  BY DEF SlabInv
<1>1. s \in Slabs /\ s \in Page /\ o \in own
  BY <1>0 DEF OwnInv, Slabs, Small
<1>2. PICK j : j = o.index
  OBVIOUS
<1>3. /\ c \in Cache /\ Chunks(s) \subseteq Nat /\ IsFiniteSet(Chunks(s))
      /\ j \in Chunks(s) /\ ChainOf(s)
  BY <1>0, <1>1, <1>2, ChunksOf DEF OwnInv, ChainInv
<1>4. c \in 1..13
  BY <1>3, CacheFacts
<1>5. /\ Small' = Small \ {o} /\ Large' = Large
      /\ Held(s)' = Held(s) \ {j} /\ j \in Held(s)
      /\ \A p \in Page \ {s} : Held(p)' = Held(p)
  BY <1>0, <1>2, OwnLess
<1>6. PICK m \in Nat : m = count[s]
  BY <1>0, <1>1 DEF TypeInv
<1>7. PICK X, i, f, g : X = Unheld(s) /\ i = index[s] /\ f = chunk[s] /\ g = chunk'[s]
  OBVIOUS
<1>8. /\ chunk' = [chunk EXCEPT ![s] = [chunk[s] EXCEPT ![j] = index[s]]]
      /\ index' = [index EXCEPT ![s] = j]
  BY <1>2 DEF Push
<1>9. /\ index'[s] = j /\ count'[s] = m + 1 /\ cache' = cache
      /\ g = [f EXCEPT ![j] = i]
      /\ \A p \in Page \ {s} : index'[p] = index[p] /\ count'[p] = count[p] /\ chunk'[p] = chunk[p]
  BY <1>0, <1>1, <1>6, <1>7, <1>8 DEF TypeInv
<1>10. TypeInv'
  <2>1. index' = [p \in Page |-> index'[p]] /\ chunk' = [p \in Page |-> chunk'[p]]
    BY <1>0, <1>8 DEF TypeInv
  <2>2. count' \in [Page -> Nat]
    BY <1>0, <1>1 DEF TypeInv
  <2> QED BY <1>0, <2>1, <2>2 DEF TypeInv
<1>11. ChainInv'
  <2>1. Others(s)
    BY <1>5, <1>9 DEF Others
  <2>2. Chunks(s)' = Chunks(s)
    BY DEF Chunks
  <2>3. Unheld(s)' = X \cup {j} /\ j \notin X /\ j \in Nat
    BY <1>3, <1>5, <1>7, <2>2 DEF Unheld
  <2>4. /\ f = [k \in Chunks(s) |-> f[k]] /\ Chained(X, i, f, m) /\ m = Cardinality(X)
    BY <1>3, <1>6, <1>7 DEF ChainOf
  <2>5. g[j] = i /\ \A y \in X : g[y] = f[y]
    BY <1>3, <1>7, <1>9, <2>3, <2>4 DEF Unheld
  <2>6. Chained(X \cup {j}, j, g, m + 1)
    BY <2>3, <2>4, <2>5, ChainPush
  <2>7. Cardinality(X \cup {j}) = m + 1
    <3>1. IsFiniteSet(X)
      BY <1>0, <1>1, <1>7, SlabUsed
    <3> QED BY <3>1, <2>3, <2>4, FS_AddElement
  <2>8. g = [k \in Chunks(s) |-> g[k]]
    BY <1>9, <2>4
  <2>9. ChainOf(s)'
    BY <1>6, <1>7, <1>9, <2>2, <2>3, <2>6, <2>7, <2>8 DEF ChainOf
  <2> QED BY <1>0, <1>1, <2>1, <2>9, ChainStep
<1>12. QueueInv'
  <2>1. PICK w : w = Place
    OBVIOUS
  <2>2. w = [p \in Page |-> w[p]] /\ w[s] = IF m > 0 THEN c ELSE -c
    BY <1>1, <1>6, <2>1 DEF Place, Slabs
  <2>3. \A p \in Page \ {s} : Place'[p] = w[p]
    BY <1>9, <2>1 DEF Place
  <2>4. Place'[s] = c
    BY <1>1, <1>4, <1>9 DEF Place, Slabs
  <2>5. Place' = [p \in Page |-> Place'[p]]
    BY DEF Place
  <2>6. PICK Q : Q = q
    OBVIOUS
  <2>7. Rings(Q.n, Q.v, Heads(Q), w) /\ QType(Q)
    BY <1>0, <2>1, <2>6 DEF QueueInv
  <2>8. CASE m = 0
    <3>1. PICK z : z = [w EXCEPT ![s] = c]
      OBVIOUS
    <3>2. Place' = z
      BY <2>2, <2>3, <2>4, <2>5, <3>1
    <3>3. PICK R : R = set_slab_available(Q, c, s)
      OBVIOUS
    <3>4. w[s] = -c
      BY <2>2, <2>8
    <3>5. QType(R) /\ Rings(R.n, R.v, Heads(R), z)
      BY <1>1, <1>3, <2>2, <2>7, <3>1, <3>3, <3>4, SetAvailable
    <3>6. q' = R
      BY <1>6, <2>6, <2>8, <3>3
    <3> QED BY <3>2, <3>5, <3>6, QueueStep
  <2>9. CASE m # 0
    <3>1. Place' = w
      BY <2>2, <2>3, <2>4, <2>5, <2>9
    <3>2. q' = Q
      BY <1>6, <2>6, <2>9
    <3> QED BY <2>7, <3>1, <3>2, QueueStep
  <2> QED BY <2>8, <2>9
<1>13. OwnInv'
  <2>1. \A x : LargeRun(x)' = LargeRun(x) /\ Chunks(x)' = Chunks(x)
    BY DEF LargeRun, Chunks
  <2>2. Slabs' = Slabs
    BY DEF Slabs
  <2>3. \A x \in Small' : x \in Small
    BY <1>5
  <2> QED BY <1>0, <1>5, <2>1, <2>2, <2>3 DEF OwnInv
<1> QED BY <1>0, <1>10, <1>11, <1>12, <1>13 DEF SlabInv

(* slab_free of the last chunk in use, slab_delete: the slab is in the     *)
(* avail queue, so the assert against a full slab holds.                   *)
LEMMA FreeLastGood ==
  ASSUME SlabInv, NEW o \in Small, NEW s, NEW c, s = o.page, c = cache[s],
         own' = own \ {o}, UNCHANGED <<type, last_accessed>>,
         ~(count[s] + 1 < capacity(c)),
         NEW Q, Q = (IF count[s] = 0 THEN set_slab_available(q, c, s) ELSE q),
         halted' = (Q.full[c] = s), q' = set_slab_empty(Q, c, s), free' = free \cup {s},
         cache' = [cache EXCEPT ![s] = NULL], index' = [index EXCEPT ![s] = 0],
         count' = [count EXCEPT ![s] = 0], chunk' = [chunk EXCEPT ![s] = << >>]
  PROVE  SlabInv'
<1>0. TypeInv /\ ChainInv /\ QueueInv /\ OwnInv /\ ~halted
  BY DEF SlabInv
<1>1. s \in Slabs /\ s \in Page /\ o \in own
  BY <1>0 DEF OwnInv, Slabs, Small
<1>2. PICK j : j = o.index
  OBVIOUS
<1>3. /\ c \in Cache /\ IsFiniteSet(Chunks(s)) /\ Cardinality(Chunks(s)) = capacity(c)
      /\ j \in Chunks(s) /\ ChainOf(s) /\ capacity(c) \in Nat /\ capacity(c) >= 2
  BY <1>0, <1>1, <1>2, ChunksOf DEF OwnInv, ChainInv
<1>4. c \in 1..13
  BY <1>3, CacheFacts
<1>5. /\ Small' = Small \ {o} /\ Large' = Large
      /\ Held(s)' = Held(s) \ {j} /\ j \in Held(s)
      /\ \A p \in Page \ {s} : Held(p)' = Held(p)
  BY <1>0, <1>2, OwnLess
<1>6. PICK m \in Nat : m = count[s]
  BY <1>0, <1>1 DEF TypeInv
<1>7. m + 1 = capacity(c) /\ m > 0
  <2>1. m < capacity(c)
    BY <1>3, <1>6 DEF ChainOf
  <2> QED BY <1>3, <1>6, <2>1
<1>8. Q = q
  BY <1>6, <1>7
<1>9. Held(s)' = {}
  <2>1. PICK X : X = Unheld(s)
    OBVIOUS
  <2>2. IsFiniteSet(X) /\ Cardinality(X) = m /\ j \notin X
    <3>1. IsFiniteSet(X)
      BY <1>0, <1>1, <2>1, SlabUsed
    <3> QED BY <1>3, <1>5, <1>6, <2>1, <3>1 DEF ChainOf, Unheld
  <2>3. Cardinality(X \cup {j}) = m + 1
    BY <2>2, FS_AddElement
  <2>4. X \cup {j} \in SUBSET Chunks(s)
    BY <1>3, <2>1 DEF Unheld
  <2>5. X \cup {j} = Chunks(s)
    BY <1>3, <1>7, <2>3, <2>4, FS_Subset
  <2>6. Held(s) \subseteq Chunks(s)
    BY <1>0 DEF Held, OwnInv
  <2> QED BY <1>5, <2>1, <2>5, <2>6 DEF Unheld
<1>10. /\ cache'[s] = NULL
       /\ \A p \in Page \ {s} : /\ cache'[p] = cache[p] /\ index'[p] = index[p]
                                /\ count'[p] = count[p] /\ chunk'[p] = chunk[p]
  BY <1>0, <1>1 DEF TypeInv
<1>11. TypeInv'
  <2>1. index' = [p \in Page |-> index'[p]] /\ chunk' = [p \in Page |-> chunk'[p]]
    BY <1>0 DEF TypeInv
  <2>2. count' \in [Page -> Nat] /\ cache' \in [Page -> 0..13] /\ free' \subseteq Page
    BY <1>0, <1>1 DEF TypeInv, NULL
  <2> QED BY <1>0, <2>1, <2>2 DEF TypeInv
<1>12. Slabs' = Slabs \ {s}
  BY <1>10 DEF Slabs
<1>13. ChainInv'
  <2>1. Others(s)
    BY <1>5, <1>10 DEF Others
  <2>2. s \notin Slabs'
    BY <1>12
  <2> QED BY <1>0, <1>1, <2>1, <2>2, ChainStep
<1>14. PICK w : w = Place
  OBVIOUS
<1>15. w = [p \in Page |-> w[p]] /\ w[s] = c
  BY <1>1, <1>6, <1>7, <1>14 DEF Place, Slabs
<1>16. Rings(Q.n, Q.v, Heads(Q), w) /\ QType(Q)
  BY <1>0, <1>8, <1>14 DEF QueueInv
<1>17. QueueInv'
  <2>1. PICK z : z = [w EXCEPT ![s] = 0]
    OBVIOUS
  <2>2. Place' = z
    <3>1. \A p \in Page : Place'[p] = z[p]
      BY <1>1, <1>10, <1>14, <1>15, <2>1 DEF Place
    <3>2. Place' = [p \in Page |-> Place'[p]] /\ z = [p \in Page |-> z[p]]
      BY <1>15, <2>1 DEF Place
    <3> QED BY <3>1, <3>2
  <2>3. PICK R : R = set_slab_empty(Q, c, s)
    OBVIOUS
  <2>4. QType(R) /\ Rings(R.n, R.v, Heads(R), z)
    BY <1>1, <1>3, <1>15, <1>16, <2>1, <2>3, SetEmpty
  <2>5. q' = R
    BY <2>3
  <2> QED BY <2>2, <2>4, <2>5, QueueStep
<1>18. Q.full[c] # s
  <2>0. \A d \in 1..13 : -d \in Key \ {0} /\ -d # d
    BY DEF Key
  <2>1. -c \in Key \ {0} /\ -c # c
    BY <1>4, <2>0
  <2>2. Heads(Q)[-c] = Q.full[c]
    <3>1. \A d \in 1..13 : -d \in Key /\ ~(-d > 0) /\ -d < 0 /\ -(-d) = d
      BY DEF Key
    <3>2. \A d \in 1..13 : Heads(Q)[-d] = Q.full[d]
      BY <3>1 DEF Heads
    <3> QED BY <1>4, <3>2
  <2>3. Q.full[c] = NULL \/ w[Q.full[c]] = -c
    <3>1. PICK k \in Key \ {0} : k = -c
      BY <2>1
    <3>2. QueueIs(Q.n, Q.v, Heads(Q)[k], {p \in Page : w[p] = k})
      BY <1>16 DEF Rings
    <3>3. Heads(Q)[k] = NULL \/ Heads(Q)[k] \in {p \in Page : w[p] = k}
      BY <3>2 DEF QueueIs
    <3> QED BY <2>2, <3>1, <3>3
  <2>4. s # NULL
    BY <1>1 DEF Page, NULL
  <2> QED BY <1>15, <2>1, <2>3, <2>4
<1>19. OwnInv'
  <2>1. \A x : LargeRun(x)' = LargeRun(x)
    BY DEF LargeRun
  <2>2. \A x \in Small' : x \in Small /\ x.page # s
    <3>1. Held(s)' = {x.index : x \in {y \in Small' : y.page = s}}
      BY DEF Held
    <3>2. ASSUME NEW x \in Small', x.page = s PROVE FALSE
      <4>1. x.index \in Held(s)'
        BY <3>1, <3>2
      <4> QED BY <4>1, <1>9
    <3> QED BY <1>5, <3>2
  <2>3. \A x \in Small' : /\ x.page \in Slabs' /\ x.index \in Chunks(x.page)'
                          /\ size[cache'[x.page]] >= x.bytes
                          /\ type[x.page] = "slab"
    <3> TAKE x \in Small'
    <3>1. /\ x.page \in Slabs /\ x.index \in Chunks(x.page) /\ x.page # s
          /\ size[cache[x.page]] >= x.bytes /\ type[x.page] = "slab"
      BY <1>0, <2>2 DEF OwnInv
    <3>2. x.page \in Page \ {s} /\ x.page \in Slabs'
      BY <3>1, <1>12 DEF Slabs
    <3>3. cache'[x.page] = cache[x.page]
      BY <3>2, <1>10
    <3>4. Chunks(x.page)' = Chunks(x.page)
      BY <3>3 DEF Chunks
    <3> QED BY <3>1, <3>2, <3>3, <3>4
  <2>4. \A x \in Large : /\ LargeRun(x) \subseteq Page
                         /\ LargeRun(x) \cap (free' \cup Slabs') = {}
                         /\ type[x.page] # "slab"
    BY <1>0, <1>1, <1>12 DEF OwnInv
  <2>5. \A x, y \in Small' : x # y => x.page # y.page \/ x.index # y.index
    BY <1>0, <2>2 DEF OwnInv
  <2>6. \A x, y \in Large : x # y => LargeRun(x) \cap LargeRun(y) = {}
    BY <1>0 DEF OwnInv
  <2>7. Slabs' \cap free' = {}
    BY <1>0, <1>12 DEF OwnInv
  <2>8. \A r \in Page : r \in free' \/ r \in Slabs' \/ \E x \in Large : r \in LargeRun(x)
    BY <1>0, <1>12 DEF OwnInv
  <2> QED BY <1>5, <2>1, <2>3, <2>4, <2>5, <2>6, <2>7, <2>8 DEF OwnInv
<1>20. ~halted'
  BY <1>18
<1> QED BY <1>11, <1>13, <1>17, <1>19, <1>20 DEF SlabInv

-----------------------------------------------------------------------------
(* The invariant holds. *)

(* After slab_bootstrap all pages are free and every queue is empty. *)
LEMMA InitGood == SlabInit => SlabInv
<1> SUFFICES ASSUME SlabInit PROVE SlabInv
  OBVIOUS
<1>1. Slabs = {} /\ Small = {} /\ Large = {}
  BY DEF SlabInit, Slabs, Small, Large
<1>2. TypeInv
  BY DEF SlabInit, TypeInv, NULL
<1>3. ChainInv
  BY <1>1 DEF ChainInv
<1>4. OwnInv
  BY <1>1 DEF OwnInv, SlabInit
<1>5. /\ q.n = [p \in Page |-> p] /\ q.v = [p \in Page |-> p]
      /\ q.avail = [c \in Cache |-> NULL] /\ q.full = [c \in Cache |-> NULL]
      /\ q = [n |-> q.n, v |-> q.v, avail |-> q.avail, full |-> q.full]
  BY DEF SlabInit
<1>6. QType(q)
  <2>1. NULL \in 0..NPages
    BY SlabAssumption DEF NULL
  <2>2. /\ q.n \in [Page -> Page] /\ q.v \in [Page -> Page]
        /\ q.avail \in [Cache -> 0..NPages] /\ q.full \in [Cache -> 0..NPages]
    BY <1>5, <2>1
  <2> QED BY <1>5, <2>2 DEF QType
<1>7. \A k \in Key : Heads(q)[k] = NULL
  <2> TAKE k \in Key
  <2>1. (k > 0 => k \in Cache) /\ (k < 0 => -k \in Cache)
    BY CacheFacts DEF Key
  <2> QED BY <1>5, <2>1 DEF Heads
<1>8. \A p \in Page : Place[p] = 0
  BY DEF SlabInit, Place
<1>9. ASSUME NEW k \in Key \ {0}
      PROVE  QueueIs(q.n, q.v, Heads(q)[k], {p \in Page : Place[p] = k})
  <2>1. {p \in Page : Place[p] = k} = {}
    BY <1>8
  <2> QED BY <1>7, <2>1 DEF QueueIs
<1>10. Rings(q.n, q.v, Heads(q), Place)
  BY <1>5, <1>9 DEF Rings, Mutual
<1> QED BY <1>2, <1>3, <1>4, <1>6, <1>10 DEF SlabInv, QueueInv, SlabInit

(* A request is rounded up to a multiple of a word. *)
LEMMA Rounded ==
  ASSUME NEW n \in Nat \ {0}
  PROVE  \E k \in Nat : ROUNDUP(n, 8) = 8 * k /\ ROUNDUP(n, 8) \in Nat \ {0}
<1>1. PICK k : k = (n + 8 - 1) \div 8
  OBVIOUS
<1>2. k \in Nat /\ k > 0
  BY <1>1
<1> QED BY <1>1, <1>2 DEF ROUNDUP

(* Every call keeps the invariant. *)
LEMMA StepGood == SlabInv /\ [SlabNext]_slabVars => SlabInv'
<1> SUFFICES ASSUME SlabInv, [SlabNext]_slabVars PROVE SlabInv'
  OBVIOUS
<1>1. ASSUME NEW n \in Requests, kmalloc(n) PROVE SlabInv'
  <2>1. n \in Nat \ {0}
    BY SlabAssumption
  <2>2. PICK b : b = ROUNDUP(n, 8)
    OBVIOUS
  <2>3. PICK k \in Nat : b = 8 * k /\ b \in Nat \ {0}
    BY <2>1, <2>2, Rounded
  <2>4. IF b > LARGE_CHUNK THEN kmalloc_large(b) ELSE slab_alloc(b)
    BY <1>1, <2>2 DEF kmalloc
  <2>5. CASE b > LARGE_CHUNK
    BY <2>3, <2>4, <2>5, LargeGood
  <2>6. CASE ~(b > LARGE_CHUNK)
    <3>1. b <= LARGE_CHUNK
      BY <2>3, <2>6 DEF LARGE_CHUNK, PGSIZE
    <3> QED BY <2>3, <2>4, <2>6, <3>1, SlabAllocGood
  <2> QED BY <2>5, <2>6
<1>2. ASSUME NEW o \in own, kfree(o) PROVE SlabInv'
  <2>1. CASE type[o.page] = "slab"
    <3>1. o \in Small
      BY <2>1 DEF SlabInv, OwnInv, Large
    <3>2. slab_free(o)
      BY <1>2, <2>1 DEF kfree
    <3>3. PICK s, c : s = o.page /\ c = cache[s]
      OBVIOUS
    <3>4. PICK Q : Q = IF count[s] = 0 THEN set_slab_available(q, c, s) ELSE q
      OBVIOUS
    <3>5. CASE count[s] + 1 < capacity(c)
      <4>1. /\ own' = own \ {o} /\ UNCHANGED <<type, last_accessed, free, cache, halted>>
            /\ Push(s, o.index) /\ count' = [count EXCEPT ![s] = @ + 1]
            /\ q' = IF count[s] = 0 THEN set_slab_available(q, c, s) ELSE q
        BY <3>2, <3>3, <3>5 DEF slab_free
      <4> QED BY <3>1, <3>3, <3>5, <4>1, FreeMoreGood
    <3>6. CASE ~(count[s] + 1 < capacity(c))
      <4>1. /\ own' = own \ {o} /\ UNCHANGED <<type, last_accessed>>
            /\ halted' = (Q.full[c] = s) /\ q' = set_slab_empty(Q, c, s)
            /\ free' = free \cup {s} /\ cache' = [cache EXCEPT ![s] = NULL]
            /\ index' = [index EXCEPT ![s] = 0] /\ count' = [count EXCEPT ![s] = 0]
            /\ chunk' = [chunk EXCEPT ![s] = << >>]
        BY <3>2, <3>3, <3>4, <3>6 DEF slab_free
      <4> QED BY <3>1, <3>3, <3>4, <3>6, <4>1, FreeLastGood
    <3> QED BY <3>5, <3>6
  <2>2. CASE type[o.page] # "slab"
    <3>1. o \in Large
      BY <2>2 DEF SlabInv, OwnInv, Large
    <3>2. kfree_large(o)
      BY <1>2, <2>2 DEF kfree
    <3> QED BY <3>1, <3>2, FreeLargeGood
  <2> QED BY <2>1, <2>2
<1>3. CASE UNCHANGED slabVars
  <2>1. last_accessed' \in 0..13
    BY <1>3 DEF slabVars, SlabInv, TypeInv
  <2> QED BY <1>3, <2>1, IdleGood DEF slabVars
<1> QED BY <1>1, <1>2, <1>3 DEF SlabNext

(* The inductive invariant is an invariant. *)
LEMMA InvHolds == SlabSpec => []SlabInv
<1> QED BY InitGood, StepGood, PTL DEF SlabSpec

(* The free chain of every slab runs through exactly the chunks nobody     *)
(* holds and ends, so slab_alloc never hands out a chunk twice: for any    *)
(* number of pages, any sizes and any order of the frees.                  *)
THEOREM FreeChainsAreExact == SlabSpec => []ChainExact
<1>1. SlabInv => ChainExact
  BY ChainHolds DEF SlabInv
<1> QED BY InvHolds, <1>1, PTL

(* Every slab is in the queue its number of free chunks calls for, and a   *)
(* slab without a chunk in use has given its page back.                    *)
THEOREM SlabQueuesAreExact == SlabSpec => []QueuesExact
<1>1. SlabInv => QueuesExact
  BY QueuesHold DEF SlabInv
<1> QED BY InvHolds, <1>1, PTL

(* A caller of kmalloc gets memory large enough that nobody else has, and  *)
(* kfree recognises by the type of its page where it came from.            *)
THEOREM ChunksHaveOneOwner == SlabSpec => []OwnedExact
<1>1. SlabInv => OwnedExact
  BY OwnedHolds DEF SlabInv
<1> QED BY InvHolds, <1>1, PTL

(* kmalloc and kfree leak no page. *)
THEOREM NoPageLeaks == SlabSpec => []NoLeak
<1>1. SlabInv => NoLeak
  BY LeakHolds DEF SlabInv
<1> QED BY InvHolds, <1>1, PTL

(* find_kmcache finds a cache for every small request, a slab in an avail  *)
(* queue has a free chunk, and slab_delete gets no full slab: no panic and *)
(* no assert of the slab allocator is reached.                             *)
THEOREM SlabNeverHalts == SlabSpec => []NoHalt
<1>1. SlabInv => NoHalt
  BY DEF SlabInv, NoHalt
<1> QED BY InvHolds, <1>1, PTL
=============================================================================
