---------------------------- MODULE VmAreaProofs -----------------------------
(***************************************************************************)
(* Proofs about virtual memory areas, for any address space and any number *)
(* of pages and area structures, and wherever memory runs out.             *)
(***************************************************************************)
EXTENDS VmArea, FiniteSetTheorems, SequenceTheorems, TLAPS

-----------------------------------------------------------------------------
(* Least elements, elements by rank, and sequences with an element more or less *)
LessThan == {ss \in Nat \X Nat : ss[1] < ss[2]}

(* A set of natural numbers has a least element. *)
LEMMA MinOf ==
  ASSUME NEW S \in SUBSET Nat, S # {}
  PROVE  Min(S) \in S /\ \A y \in S : Min(S) <= y
<1>1. IsWellFoundedOn(OpToRel(<, Nat), Nat)
  BY NatLessThanWellFounded
<1>0. OpToRel(<, Nat) = LessThan
  BY Zenon DEF OpToRel, LessThan
<1>2. IsWellFoundedOn(LessThan, Nat)
  BY <1>0, <1>1, Zenon
<1>3. \E x \in S : \A y \in S : ~(<<y, x>> \in LessThan)
  BY <1>2, WFMin, Zenon
<1>4. \A x, y \in Nat : <<y, x>> \in LessThan <=> y < x
  BY DEF LessThan
<1>5. PICK x \in S : \A y \in S : ~(<<y, x>> \in LessThan)
  BY <1>3
<1>6. \A y \in S : x \in Nat /\ y \in Nat /\ ~(y < x)
  BY <1>4, <1>5, Zenon
<1>7. \A y \in S : x <= y
  BY <1>6
<1>8. QED
  BY <1>7 DEF Min

(* m is l with k put at place i. *)
PutAt(m, l, i, k) ==
  /\ m \in Seq(Id) /\ Len(m) = Len(l) + 1
  /\ \A j \in 1..(Len(l) + 1) : m[j] = IF j < i THEN l[j] ELSE IF j = i THEN k ELSE l[j-1]

(* InsertAt moves the elements from i on by one. *)
LEMMA InsertAtIs ==
  ASSUME NEW s \in Seq(Id), NEW i \in 1..(Len(s)+1), NEW e \in Id
  PROVE  PutAt(InsertAt(s, i, e), s, i, e)
<1> DEFINE a == SubSeq(s, 1, i - 1)
           c == SubSeq(s, i, Len(s))
<1>1. Len(s) \in Nat /\ \A j \in 1..Len(s) : s[j] \in Id
  OBVIOUS
<1>2. a \in Seq(Id) /\ Len(a) = i - 1 /\ \A j \in 1..(i-1) : a[j] = s[j]
  BY <1>1, SubSeqProperties
<1>3. c \in Seq(Id) /\ Len(c) = Len(s) - i + 1 /\ \A j \in 1..(Len(s)-i+1) : c[j] = s[i+j-1]
  BY <1>1, SubSeqProperties
<1> HIDE DEF a, c
<1>4. <<e>> \in Seq(Id) /\ Len(<<e>>) = 1 /\ <<e>>[1] = e
  OBVIOUS
<1>5. /\ a \o <<e>> \in Seq(Id) /\ Len(a \o <<e>>) = i
      /\ \A j \in 1..i : (a \o <<e>>)[j] = IF j < i THEN s[j] ELSE e
  BY <1>1, <1>2, <1>4, ConcatProperties
<1>6. /\ (a \o <<e>>) \o c \in Seq(Id) /\ Len((a \o <<e>>) \o c) = Len(s) + 1
      /\ \A j \in 1..(Len(s) + 1) : ((a \o <<e>>) \o c)[j] =
              IF j < i THEN s[j] ELSE IF j = i THEN e ELSE s[j-1]
  <2> DEFINE b == a \o <<e>>
  <2>1. b \in Seq(Id) /\ c \in Seq(Id) /\ Len(b) = i /\ Len(c) = Len(s) - i + 1
    BY <1>3, <1>5
  <2> HIDE DEF b
  <2>2. /\ b \o c \in Seq(Id) /\ Len(b \o c) = Len(b) + Len(c)
        /\ \A j \in 1..(Len(b) + Len(c)) : (b \o c)[j] = IF j <= Len(b) THEN b[j] ELSE c[j - Len(b)]
    BY <2>1, ConcatProperties
  <2>3. Len(b \o c) = Len(s) + 1
    BY <1>1, <2>1, <2>2
  <2>4. ASSUME NEW j \in 1..(Len(s) + 1)
        PROVE  (b \o c)[j] = IF j < i THEN s[j] ELSE IF j = i THEN e ELSE s[j-1]
    <3>1. CASE j <= i
      BY <1>1, <1>5, <2>1, <2>2, <3>1 DEF b
    <3>2. CASE ~(j <= i)
      <4>1. j - i \in 1..(Len(s)-i+1) /\ i + (j - i) - 1 = j - 1
        BY <1>1, <3>2
      <4>2. (b \o c)[j] = c[j - i]
        BY <1>1, <2>1, <2>2, <3>2
      <4>3. c[j - i] = s[j - 1]
        BY <1>3, <4>1
      <4>4. QED
        BY <1>1, <3>2, <4>2, <4>3
    <3>3. QED
      BY <3>1, <3>2, Zenon
  <2>5. QED
    BY <2>2, <2>3, <2>4 DEF b
<1>7. PutAt((a \o <<e>>) \o c, s, i, e)
  BY <1>6, Zenon DEF PutAt
<1>8. QED
  BY <1>7 DEF InsertAt, a, c

(* RemoveAt moves the elements after i by one. *)
LEMMA RemoveAtIs ==
  ASSUME NEW T, NEW s \in Seq(T), NEW i \in 1..Len(s)
  PROVE  /\ RemoveAt(s, i) \in Seq(T) /\ Len(RemoveAt(s, i)) = Len(s) - 1
         /\ \A j \in 1..(Len(s)-1) : RemoveAt(s, i)[j] = IF j < i THEN s[j] ELSE s[j+1]
<1> DEFINE a == SubSeq(s, 1, i - 1)
           c == SubSeq(s, i + 1, Len(s))
<1>1. Len(s) \in Nat /\ \A j \in 1..Len(s) : s[j] \in T
  OBVIOUS
<1>2. a \in Seq(T) /\ Len(a) = i - 1 /\ \A j \in 1..(i-1) : a[j] = s[j]
  BY <1>1, SubSeqProperties
<1>3. c \in Seq(T) /\ Len(c) = Len(s) - i /\ \A j \in 1..(Len(s)-i) : c[j] = s[i+j]
  BY <1>1, SubSeqProperties
<1> HIDE DEF a, c
<1>4. /\ a \o c \in Seq(T) /\ Len(a \o c) = Len(s) - 1
      /\ \A j \in 1..(Len(s) - 1) : (a \o c)[j] = IF j < i THEN s[j] ELSE s[j+1]
  <2>2. /\ a \o c \in Seq(T) /\ Len(a \o c) = Len(a) + Len(c)
        /\ \A j \in 1..(Len(a) + Len(c)) : (a \o c)[j] = IF j <= Len(a) THEN a[j] ELSE c[j - Len(a)]
    BY <1>2, <1>3, ConcatProperties
  <2>3. Len(a \o c) = Len(s) - 1
    BY <1>1, <1>2, <1>3, <2>2
  <2>4. ASSUME NEW j \in 1..(Len(s) - 1)
        PROVE  (a \o c)[j] = IF j < i THEN s[j] ELSE s[j+1]
    <3>1. CASE j < i
      BY <1>1, <1>2, <1>3, <2>2, <3>1
    <3>2. CASE ~(j < i)
      <4>1. j - (i - 1) \in 1..(Len(s)-i) /\ i + (j - (i - 1)) = j + 1
        BY <1>1, <3>2
      <4>2. (a \o c)[j] = c[j - (i - 1)]
        BY <1>1, <1>2, <1>3, <2>2, <3>2
      <4>3. c[j - (i - 1)] = s[j + 1]
        BY <1>3, <4>1
      <4>4. QED
        BY <1>1, <3>2, <4>2, <4>3
    <3>3. QED
      BY <3>1, <3>2, Zenon
  <2>5. QED
    BY <2>2, <2>3, <2>4
<1>5. QED
  BY <1>4 DEF RemoveAt, a, c

(* The n-th smallest element of a finite set of numbers, and no two alike: *)
(* the number of elements below an element is an injection, and so covers  *)
(* all numbers below the cardinality.                                      *)
LEMMA NthOf ==
  ASSUME NEW S \in SUBSET Nat, IsFiniteSet(S)
  PROVE  /\ \A n \in 1..Cardinality(S) : Nth(S, n) \in S
         /\ \A m, n \in 1..Cardinality(S) : Nth(S, m) = Nth(S, n) => m = n
<1> DEFINE Under(x) == {y \in S : y < x}
           c == Cardinality(S)
           f == [x \in S |-> Cardinality(Under(x))]
<1>1. c \in Nat
  BY FS_CardinalityType
<1>2. ASSUME NEW x \in S PROVE IsFiniteSet(Under(x)) /\ Cardinality(Under(x)) \in 0..(c - 1)
  <2>1. Under(x) \in SUBSET S /\ x \notin Under(x)
    OBVIOUS
  <2>2. IsFiniteSet(Under(x)) /\ Cardinality(Under(x)) <= c /\ (c = Cardinality(Under(x)) => S = Under(x))
    BY <2>1, FS_Subset
  <2>3. Cardinality(Under(x)) \in Nat /\ c # Cardinality(Under(x))
    BY <2>1, <2>2, FS_CardinalityType
  <2>4. QED
    BY <1>1, <2>2, <2>3
<1>3. ASSUME NEW x \in S, NEW y \in S, x < y PROVE Cardinality(Under(x)) # Cardinality(Under(y))
  <2>1. Under(x) \in SUBSET Under(y) /\ x \in Under(y) /\ x \notin Under(x)
    <3>1. x \in Nat /\ y \in Nat /\ \A z \in S : z \in Nat
      OBVIOUS
    <3>2. \A z \in S : z < x => z < y
      BY <1>3, <3>1
    <3>3. ~(x < x)
      BY <3>1
    <3>4. Under(x) \in SUBSET Under(y)
      BY <3>2, Zenon
    <3>5. x \in Under(y) /\ x \notin Under(x)
      BY <1>3, <3>3, Zenon
    <3>6. QED
      BY <3>4, <3>5
  <2>2. IsFiniteSet(Under(y))
    BY <1>2
  <2>3. Cardinality(Under(y)) = Cardinality(Under(x)) => Under(y) = Under(x)
    BY <2>1, <2>2, FS_Subset
  <2>4. QED
    BY <2>1, <2>3
<1>4. f \in Injection(S, 0..(c - 1))
  <2>1. f \in [S -> 0..(c - 1)]
    BY <1>2
  <2>2. ASSUME NEW x \in S, NEW y \in S, x # y PROVE f[x] # f[y]
    <3>1. x < y \/ y < x
      BY <2>2
    <3>2. QED
      BY <1>3, <3>1
  <2>3. QED
    BY <2>1, <2>2 DEF Injection, IsInjective
<1>5. IsFiniteSet(0..(c - 1)) /\ Cardinality(0..(c - 1)) = c
  <2> HIDE DEF c
  <2>1. 0 \in Int /\ c - 1 \in Int
    BY <1>1
  <2>2. /\ IsFiniteSet(0..(c - 1))
        /\ Cardinality(0..(c - 1)) = IF 0 > c - 1 THEN 0 ELSE (c - 1) - 0 + 1
    BY <2>1, FS_Interval
  <2>3. QED
    BY <1>1, <2>2
<1>6. f \in Surjection(S, 0..(c - 1))
  BY <1>4, <1>5, FS_Injection
<1>7. \A n \in 1..c : \E x \in S : Cardinality(Under(x)) = n - 1
  <2> TAKE n \in 1..c
  <2>1. n - 1 \in 0..(c - 1)
    BY <1>1
  <2>2. PICK x \in S : f[x] = n - 1
    BY <1>6, <2>1 DEF Surjection
  <2>3. QED
    BY <2>2
<1>8. \A n \in 1..c : Nth(S, n) \in S /\ Cardinality(Under(Nth(S, n))) = n - 1
  BY <1>7, Zenon DEF Nth
<1>9. ASSUME NEW m \in 1..c, NEW n \in 1..c, Nth(S, m) = Nth(S, n) PROVE m = n
  <2>1. m - 1 = n - 1
    BY <1>8, <1>9
  <2>2. QED
    BY <1>1, <2>1
<1>10. QED
  BY <1>8, <1>9

-----------------------------------------------------------------------------
(* The area list *)
Area == [start: 0..NV, end: 0..NV, flags: Flags]

(* The areas of list l are not empty, in ascending order and disjoint. *)
Order(A, l) ==
  /\ \A j \in DOMAIN l : A[l[j]].start < A[l[j]].end
  /\ \A i, j \in DOMAIN l : i < j => A[l[i]].end <= A[l[j]].start

(* Areas x and y have no page in common. *)
Apart(A, x, y) == A[x].end <= A[y].start \/ A[y].end <= A[x].start

LEMMA AreaBounds ==
  ASSUME NEW A \in [Id -> Area], NEW x \in Id
  PROVE  A[x].start \in Int /\ A[x].end \in Int
BY VmAssumption DEF Area

(* An area is in the list once, and has no page in common with another one. *)
LEMMA OrderApart ==
  ASSUME NEW A \in [Id -> Area], NEW l \in Seq(Id), Order(A, l),
         NEW i \in DOMAIN l, NEW j \in DOMAIN l, i # j
  PROVE  l[i] # l[j] /\ Apart(A, l[i], l[j])
<1>1. i \in Int /\ j \in Int /\ l[i] \in Id /\ l[j] \in Id
  OBVIOUS
<1>2. A[l[i]].start \in Int /\ A[l[i]].end \in Int /\ A[l[j]].start \in Int /\ A[l[j]].end \in Int
  BY <1>1, AreaBounds
<1>3. i < j \/ j < i
  BY <1>1
<1>4. A[l[i]].end <= A[l[j]].start \/ A[l[j]].end <= A[l[i]].start
  BY <1>3 DEF Order
<1>5. A[l[i]].start < A[l[i]].end /\ A[l[j]].start < A[l[j]].end
  BY DEF Order
<1>6. l[i] = l[j] => FALSE
  BY <1>2, <1>4, <1>5
<1>7. QED
  BY <1>4, <1>6 DEF Apart

(* Place i of the list is between what ends before area k and what starts  *)
(* behind it.                                                              *)
Between(A, l, i, k) ==
  /\ i \in 1..(Len(l) + 1)
  /\ \A j \in 1..Len(l) : j < i => A[l[j]].end <= A[k].start
  /\ \A j \in 1..Len(l) : i <= j => A[k].end <= A[l[j]].start

LEMMA PutOrdered ==
  ASSUME NEW A \in [Id -> Area], NEW l \in Seq(Id), Order(A, l), NEW k \in Id,
         A[k].start < A[k].end, NEW i, Between(A, l, i, k), NEW m, PutAt(m, l, i, k)
  PROVE  Order(A, m) /\ Range(m) = Range(l) \cup {k}
<1>0. USE DEF Between, PutAt
<1>1. Len(l) \in Nat /\ DOMAIN l = 1..Len(l) /\ DOMAIN m = 1..(Len(l) + 1)
  OBVIOUS
<1>2. ASSUME NEW j \in DOMAIN m
      PROVE  \/ j < i /\ j \in 1..Len(l) /\ m[j] = l[j]
             \/ j = i /\ m[j] = k
             \/ i < j /\ j - 1 \in 1..Len(l) /\ i <= j - 1 /\ m[j] = l[j-1]
  BY <1>1
<1>3. \A j \in DOMAIN m : A[m[j]].start < A[m[j]].end
  BY <1>1, <1>2 DEF Order
<1>4. ASSUME NEW g \in DOMAIN m, NEW j \in DOMAIN m, g < j PROVE A[m[g]].end <= A[m[j]].start
  <2>1. CASE j < i
    <3>1. m[g] = l[g] /\ m[j] = l[j] /\ g \in DOMAIN l /\ j \in DOMAIN l
      BY <1>1, <1>2, <1>4, <2>1
    <3>2. QED
      BY <1>4, <3>1 DEF Order
  <2>2. CASE j = i
    BY <1>1, <1>2, <1>4, <2>2
  <2>3. CASE i < j /\ g = i
    BY <1>1, <1>2, <1>4, <2>3
  <2>4. CASE i < j /\ g < i
    <3>1. m[g] = l[g] /\ m[j] = l[j-1] /\ g \in DOMAIN l /\ j - 1 \in DOMAIN l /\ g < j - 1
      BY <1>1, <1>2, <1>4, <2>4
    <3>2. QED
      BY <3>1 DEF Order
  <2>5. CASE i < j /\ i < g
    <3>1. m[g] = l[g-1] /\ m[j] = l[j-1] /\ g - 1 \in DOMAIN l /\ j - 1 \in DOMAIN l /\ g - 1 < j - 1
      BY <1>1, <1>2, <1>4, <2>5
    <3>2. QED
      BY <3>1 DEF Order
  <2>6. QED
    BY <1>1, <2>1, <2>2, <2>3, <2>4, <2>5
<1>5. Range(m) \subseteq Range(l) \cup {k}
  BY <1>1, <1>2 DEF Range
<1>6. k \in Range(m)
  <2>1. i \in DOMAIN m /\ m[i] = k
    BY <1>1
  <2>2. QED
    BY <2>1 DEF Range
<1>7. ASSUME NEW j \in DOMAIN l PROVE l[j] \in Range(m)
  <2>1. CASE j < i
    <3>1. j \in DOMAIN m /\ m[j] = l[j]
      BY <1>1, <2>1
    <3>2. QED
      BY <3>1 DEF Range
  <2>2. CASE i <= j
    <3>1. j + 1 \in DOMAIN m /\ m[j + 1] = l[j]
      BY <1>1, <2>2
    <3>2. QED
      BY <3>1 DEF Range
  <2>3. QED
    BY <1>1, <2>1, <2>2
<1>8. QED
  BY <1>3, <1>4, <1>5, <1>6, <1>7 DEF Order, Range

(* Area k can be put into the ordered list l. *)
Insertable(A, l, k) ==
  /\ A \in [Id -> Area] /\ l \in Seq(Id) /\ Order(A, l)
  /\ k \in Id /\ A[k].start < A[k].end
  /\ \A x \in Range(l) : Apart(A, x, k)

(* m is the ordered list l with area k. *)
Inserted(A, l, k, m) == m \in Seq(Id) /\ Order(A, m) /\ Range(m) = Range(l) \cup {k}

(* vm_area_insert keeps the list ordered. *)
LEMMA InsertOrdered ==
  ASSUME NEW A, NEW l, NEW k, Insertable(A, l, k)
  PROVE  Inserted(A, l, k, vm_area_insert(A, l, k))
<1>a. /\ A \in [Id -> Area] /\ l \in Seq(Id) /\ Order(A, l)
      /\ k \in Id /\ A[k].start < A[k].end
      /\ \A x \in Range(l) : Apart(A, x, k)
  BY DEF Insertable
<1> USE <1>a DEF Inserted
<1> DEFINE behind == {j \in DOMAIN l : ~(A[l[j]].end <= A[k].start)}
           m == vm_area_insert(A, l, k)
<1>0. k # None
  BY DEF Id, None
<1>1. Len(l) \in Nat /\ DOMAIN l = 1..Len(l)
  OBVIOUS
<1>2. \A j \in DOMAIN l : /\ l[j] \in Id /\ l[j] \in Range(l)
                          /\ A[l[j]].start \in Int /\ A[l[j]].end \in Int
  BY AreaBounds DEF Range
<1>3. A[k].start \in Int /\ A[k].end \in Int
  BY AreaBounds
<1>4. CASE behind = {}
  <2>1. m = Append(l, k)
    BY <1>0, <1>4, Zenon DEF vm_area_insert
  <2>2. /\ m \in Seq(Id) /\ Len(m) = Len(l) + 1
        /\ \A j \in 1..(Len(l) + 1) : m[j] = IF j < Len(l) + 1 THEN l[j] ELSE IF j = Len(l) + 1 THEN k ELSE l[j-1]
    <3> HIDE DEF m
    <3>1. QED
      BY <1>1, <2>1
  <2>3. \A j \in DOMAIN l : A[l[j]].end <= A[k].start
    BY <1>4, Zenon
  <2> HIDE DEF m, behind
  <2>4. PICK i \in 1..(Len(l) + 1) : i = Len(l) + 1
    BY <1>1
  <2>5. /\ \A j \in 1..Len(l) : j < i => A[l[j]].end <= A[k].start
        /\ \A j \in 1..Len(l) : i <= j => A[k].end <= A[l[j]].start
        /\ \A j \in 1..(Len(l) + 1) : m[j] = IF j < i THEN l[j] ELSE IF j = i THEN k ELSE l[j-1]
    BY <1>1, <2>2, <2>3, <2>4
  <2>51. Between(A, l, i, k) /\ PutAt(m, l, i, k)
    BY <2>2, <2>5, Zenon DEF Between, PutAt
  <2>6. Order(A, m) /\ Range(m) = Range(l) \cup {k}
    BY <2>51, PutOrdered
  <2>7. QED
    BY <2>2, <2>6 DEF m
<1>5. CASE behind # {}
  <2> DEFINE i == Min(behind)
  <2>1. m = InsertAt(l, i, k)
    BY <1>0, <1>5, Zenon DEF vm_area_insert
  <2>2. i \in behind /\ \A j \in behind : i <= j
    <3>1. behind \in SUBSET Nat
      BY <1>1
    <3> HIDE DEF behind
    <3>2. QED
      BY <1>5, <3>1, MinOf
  <2>3. i \in DOMAIN l /\ ~(A[l[i]].end <= A[k].start)
    BY <2>2
  <2>4. \A j \in DOMAIN l : j < i => A[l[j]].end <= A[k].start
    <3> SUFFICES ASSUME NEW j \in DOMAIN l, j < i, ~(A[l[j]].end <= A[k].start) PROVE FALSE
      OBVIOUS
    <3>1. j \in behind
      BY Zenon
    <3> HIDE DEF behind, i
    <3>2. i <= j /\ i \in Int /\ j \in Int
      BY <1>1, <2>2, <2>3, <3>1
    <3>3. QED
      BY <3>2
  <2> HIDE DEF m, behind, i
  <2>5. A[k].end <= A[l[i]].start
    BY <1>2, <2>3 DEF Apart
  <2>6. ASSUME NEW j \in DOMAIN l, i <= j PROVE A[k].end <= A[l[j]].start
    <3>1. CASE i = j
      BY <2>5, <3>1
    <3>2. CASE i < j
      <4>1. A[l[i]].end <= A[l[j]].start /\ A[l[i]].start < A[l[i]].end
        BY <2>3, <3>2 DEF Order
      <4>2. QED
        BY <1>2, <1>3, <2>3, <2>5, <4>1
    <3>3. QED
      BY <1>1, <2>3, <2>6, <3>1, <3>2
  <2>7. i \in 1..(Len(l) + 1)
    BY <1>1, <2>3
  <2>8. m \in Seq(Id) /\ PutAt(m, l, i, k)
    <3>1. PutAt(m, l, i, k)
      BY <2>1, <2>7, InsertAtIs
    <3>2. QED
      BY <3>1 DEF PutAt
  <2>81. /\ \A j \in 1..Len(l) : j < i => A[l[j]].end <= A[k].start
         /\ \A j \in 1..Len(l) : i <= j => A[k].end <= A[l[j]].start
    BY <1>1, <2>4, <2>6
  <2>9. Order(A, m) /\ Range(m) = Range(l) \cup {k}
    <3>1. Between(A, l, i, k)
      BY <2>7, <2>81, Zenon DEF Between
    <3>2. QED
      BY <2>8, <3>1, PutOrdered
  <2>10. QED
    BY <2>8, <2>9 DEF m
<1>6. QED
  BY <1>4, <1>5, Zenon

(* list_del keeps the list ordered. *)
LEMMA RemoveOrdered ==
  ASSUME NEW A \in [Id -> Area], NEW l \in Seq(Id), Order(A, l), NEW k \in Range(l)
  PROVE  LET m == RemoveAt(l, Min({j \in DOMAIN l : l[j] = k}))
         IN m \in Seq(Id) /\ Order(A, m) /\ Range(m) = Range(l) \ {k}
<1> DEFINE at == {j \in DOMAIN l : l[j] = k}
           i == Min(at)
           m == RemoveAt(l, i)
<1>1. Len(l) \in Nat /\ DOMAIN l = 1..Len(l)
  OBVIOUS
<1>2. i \in DOMAIN l /\ l[i] = k
  <2>1. at \in SUBSET Nat
    BY <1>1
  <2>2. at # {}
    BY DEF Range
  <2>3. i \in at
    <3> HIDE DEF at
    <3>1. QED
      BY <2>1, <2>2, MinOf
  <2>4. QED
    BY <2>3
<1> HIDE DEF i
<1>3. /\ m \in Seq(Id) /\ Len(m) = Len(l) - 1
      /\ \A j \in 1..(Len(l) - 1) : m[j] = IF j < i THEN l[j] ELSE l[j+1]
  BY <1>1, <1>2, RemoveAtIs, Zenon
<1> HIDE DEF m
<1>4. DOMAIN m = 1..(Len(l) - 1)
  BY <1>1, <1>3
<1>5. ASSUME NEW j \in DOMAIN m
      PROVE  \/ j < i /\ j \in DOMAIN l /\ m[j] = l[j]
             \/ i <= j /\ j + 1 \in DOMAIN l /\ m[j] = l[j+1]
  BY <1>1, <1>2, <1>3, <1>4
<1>6. \A j \in DOMAIN m : A[m[j]].start < A[m[j]].end
  BY <1>5 DEF Order
<1>7. ASSUME NEW g \in DOMAIN m, NEW j \in DOMAIN m, g < j PROVE A[m[g]].end <= A[m[j]].start
  <2>0. g \in Int /\ j \in Int /\ i \in Int
    BY <1>1, <1>2, <1>4
  <2>1. CASE j < i
    <3>1. m[g] = l[g] /\ m[j] = l[j] /\ g \in DOMAIN l /\ j \in DOMAIN l
      BY <1>5, <1>7, <2>0, <2>1
    <3>2. QED
      BY <1>7, <3>1 DEF Order
  <2>2. CASE i <= j /\ g < i
    <3>1. m[g] = l[g] /\ m[j] = l[j+1] /\ g \in DOMAIN l /\ j + 1 \in DOMAIN l /\ g < j + 1
      BY <1>5, <1>7, <2>0, <2>2
    <3>2. QED
      BY <3>1 DEF Order
  <2>3. CASE i <= j /\ i <= g
    <3>1. m[g] = l[g+1] /\ m[j] = l[j+1] /\ g + 1 \in DOMAIN l /\ j + 1 \in DOMAIN l /\ g + 1 < j + 1
      BY <1>5, <1>7, <2>0, <2>3
    <3>2. QED
      BY <3>1 DEF Order
  <2>4. QED
    BY <2>0, <2>1, <2>2, <2>3
<1>8. ASSUME NEW x \in Range(m) PROVE x \in Range(l) \ {k}
  <2>1. PICK j \in DOMAIN m : x = m[j]
    BY DEF Range
  <2>2. \E g \in DOMAIN l : x = l[g] /\ g # i
    BY <1>1, <1>2, <1>4, <1>5, <2>1
  <2>3. QED
    BY <1>2, <2>2, OrderApart DEF Range
<1>9. ASSUME NEW x \in Range(l) \ {k} PROVE x \in Range(m)
  <2>1. PICK g \in DOMAIN l : x = l[g]
    BY DEF Range
  <2>2. g # i
    BY <1>2, <2>1
  <2>3. CASE g < i
    <3>1. g \in DOMAIN m /\ m[g] = l[g]
      BY <1>1, <1>2, <1>3, <1>4, <2>3
    <3>2. QED
      BY <2>1, <3>1 DEF Range
  <2>4. CASE i < g
    <3>1. g - 1 \in DOMAIN m /\ m[g - 1] = l[g]
      BY <1>1, <1>2, <1>3, <1>4, <2>4
    <3>2. QED
      BY <2>1, <3>1 DEF Range
  <2>5. QED
    BY <1>1, <1>2, <2>2, <2>3, <2>4
<1>10. Range(m) = Range(l) \ {k}
  BY <1>8, <1>9
<1>11. QED
  BY <1>3, <1>6, <1>7, <1>10 DEF Order, m, i

-----------------------------------------------------------------------------
(* The page table and the pages *)
Perm == SUBSET {"valid", "noexec", "dirty"}
Cell == {Unmapped} \cup [page: Page, perm: Perm]

(* The pages mapped at the addresses of R *)
PagesAt(M, R) == {M[a].page : a \in R} \ {None}

(* A page is free unless it has gone or is mapped, and it is mapped once. *)
Owned(M, F, G) ==
  /\ \A p \in Page : p \in F <=> p \notin G /\ \A a \in V : M[a].page # p
  /\ \A a \in V : M[a].page \notin G
  /\ \A a, b \in V : a # b /\ M[a].page # None => M[a].page # M[b].page

PageState(M, F, G) ==
  M \in [V -> Cell] /\ F \in SUBSET Page /\ G \in SUBSET Page /\ Owned(M, F, G)

(* R and S are sets of addresses that have none in common. *)
Disjoint(R, S) == R \in SUBSET V /\ S \in SUBSET V /\ R \cap S = {}

(* The page table once the addresses of R are unmapped *)
Dropped(M, R) == [a \in V |-> IF a \in R THEN Unmapped ELSE M[a]]

(* g gives each address of R another page of F. *)
Different(g, R, F) == g \in [R -> F] /\ \A a, b \in R : g[a] = g[b] => a = b

(* The page table once the pages g are mapped at the addresses of R *)
Taken(M, R, g, f) == [a \in V |-> IF a \in R THEN [page |-> g[a], perm |-> f] ELSE M[a]]

LEMMA CellIs ==
  ASSUME NEW M \in [V -> Cell], NEW a \in V
  PROVE  /\ M[a] = Unmapped <=> M[a].page = None
         /\ M[a].page # None => M[a].page \in Page
<1>1. M[a] \in Cell /\ None \notin Page
  BY DEF None, Page
<1>2. CASE M[a] = Unmapped
  BY <1>2 DEF Unmapped
<1>3. CASE M[a] \in [page: Page, perm: Perm]
  <2>1. M[a].page \in Page
    BY <1>3
  <2>2. M[a].page # None
    BY <1>1, <2>1
  <2>3. Unmapped.page = None
    BY DEF Unmapped
  <2>4. QED
    BY <2>1, <2>2, <2>3
<1>4. QED
  BY <1>1, <1>2, <1>3 DEF Cell

(* Two disjoint sets of addresses are unmapped; the pages of the first are *)
(* freed, those of the second are gone.                                    *)
LEMMA DropPages ==
  ASSUME NEW M, NEW F, NEW G, PageState(M, F, G), NEW R, NEW S, Disjoint(R, S)
  PROVE  PageState(Dropped(M, R \cup S), F \cup PagesAt(M, R), G \cup PagesAt(M, S))
<1>0. /\ M \in [V -> Cell] /\ F \in SUBSET Page /\ G \in SUBSET Page /\ Owned(M, F, G)
      /\ R \in SUBSET V /\ S \in SUBSET V /\ R \cap S = {}
  BY DEF PageState, Disjoint
<1> USE <1>0
<1> DEFINE N == Dropped(M, R \cup S)
           F1 == F \cup PagesAt(M, R)
           G1 == G \cup PagesAt(M, S)
<1>1. N \in [V -> Cell]
  <2>1. Unmapped \in Cell
    BY DEF Cell
  <2>2. QED
    BY <2>1, Zenon DEF Dropped
<1>2. \A a \in V : IF a \in R \cup S THEN N[a] = Unmapped /\ N[a].page = None ELSE N[a] = M[a]
  BY DEF Unmapped, Dropped
<1>3. \A a \in V : M[a].page # None => M[a].page \in Page
  BY CellIs
<1>4. F1 \in SUBSET Page /\ G1 \in SUBSET Page
  BY <1>3 DEF PagesAt
<1>5. None \notin Page /\ None \notin F /\ None \notin G
  BY DEF None, Page
<1>6. \A p \in Page : p \in F1 <=> p \in F \/ \E a \in R : M[a].page = p
  BY <1>5 DEF PagesAt
<1>7. \A p \in Page : p \in G1 <=> p \in G \/ \E a \in S : M[a].page = p
  BY <1>5 DEF PagesAt
<1> HIDE DEF N, F1, G1
<1>8. ASSUME NEW p \in Page PROVE p \in F1 <=> p \notin G1 /\ \A a \in V : N[a].page # p
  <2>1. CASE \E a \in R : M[a].page = p
    <3>1. PICK a \in R : M[a].page = p
      BY <2>1
    <3>2. p # None
      BY <1>5
    <3>3. \A b \in V : b # a => M[b].page # p
      BY <3>1, <3>2 DEF Owned
    <3>4. p \notin G
      BY <3>1 DEF Owned
    <3>5. p \notin G1
      BY <1>7, <3>1, <3>3, <3>4
    <3>6. \A b \in V : N[b].page # p
      BY <1>2, <3>1, <3>2, <3>3
    <3>7. QED
      BY <1>6, <3>1, <3>5, <3>6
  <2>2. CASE \E a \in S : M[a].page = p
    <3>1. PICK a \in S : M[a].page = p
      BY <2>2
    <3>2. p \in G1
      BY <1>7, <3>1
    <3>3. p \notin F
      BY <3>1 DEF Owned
    <3>4. \A b \in R : M[b].page # p
      BY <1>5, <3>1 DEF Owned
    <3>5. QED
      BY <1>6, <3>2, <3>3, <3>4
  <2>3. CASE \A a \in R \cup S : M[a].page # p
    <3>1. p \in F1 <=> p \in F
      BY <1>6, <2>3
    <3>2. p \in G1 <=> p \in G
      BY <1>7, <2>3
    <3>3. (\A a \in V : N[a].page # p) <=> (\A a \in V : M[a].page # p)
      BY <1>2, <1>5, <2>3
    <3>4. QED
      BY <3>1, <3>2, <3>3 DEF Owned
  <2>4. QED
    BY <2>1, <2>2, <2>3
<1>9. ASSUME NEW a \in V PROVE N[a].page \notin G1
  <2>1. CASE a \in R \cup S
    <3>1. None \notin G1
      BY <1>4, <1>5 DEF G1
    <3>2. QED
      BY <1>2, <2>1, <3>1
  <2>2. CASE a \notin R \cup S
    <3>1. N[a] = M[a]
      BY <1>2, <2>2
    <3>2. CASE M[a].page = None
      BY <1>4, <1>5, <3>1, <3>2 DEF G1
    <3>3. CASE M[a].page # None
      <4>1. M[a].page \in Page /\ M[a].page \notin G
        BY <1>3, <3>3 DEF Owned
      <4>2. \A b \in S : M[b].page # M[a].page
        BY <2>2, <3>3 DEF Owned
      <4>3. QED
        BY <1>7, <3>1, <4>1, <4>2
    <3>4. QED
      BY <3>2, <3>3
  <2>3. QED
    BY <2>1, <2>2
<1>10. ASSUME NEW a \in V, NEW b \in V, a # b, N[a].page # None PROVE N[a].page # N[b].page
  <2>1. a \notin R \cup S /\ N[a] = M[a] /\ (N[b] = M[b] \/ N[b].page = None)
    BY <1>2, <1>10
  <2>2. M[a].page # M[b].page
    BY <1>10, <2>1 DEF Owned
  <2>3. QED
    BY <1>10, <2>1, <2>2
<1>11. QED
  BY <1>1, <1>4, <1>8, <1>9, <1>10 DEF Owned, PageState, N, F1, G1

(* Free pages, all different, are mapped at the addresses of R; what was   *)
(* mapped there is freed.                                                  *)
LEMMA TakePages ==
  ASSUME NEW M, NEW F, NEW G, PageState(M, F, G), NEW R \in SUBSET V, NEW f \in Perm,
         NEW g, Different(g, R, F), NEW T, T = {g[a] : a \in R}
  PROVE  PageState(Taken(M, R, g, f), (F \ T) \cup PagesAt(M, R), G)
<1>0. /\ M \in [V -> Cell] /\ F \in SUBSET Page /\ G \in SUBSET Page /\ Owned(M, F, G)
      /\ g \in [R -> F] /\ \A a, b \in R : g[a] = g[b] => a = b
  BY DEF PageState, Different
<1> USE <1>0
<1> DEFINE N == Taken(M, R, g, f)
           F1 == (F \ T) \cup PagesAt(M, R)
<1>1. \A a \in R : g[a] \in Page /\ g[a] \in F
  OBVIOUS
<1>2. \A a \in V : IF a \in R THEN N[a] = [page |-> g[a], perm |-> f] /\ N[a].page = g[a] /\ N[a].perm = f
                   ELSE N[a] = M[a]
  BY DEF Taken
<1>3. N \in [V -> Cell]
  <2>1. \A a \in V : (IF a \in R THEN [page |-> g[a], perm |-> f] ELSE M[a]) \in Cell
    BY <1>1 DEF Cell
  <2>2. QED
    BY <2>1, Zenon DEF Taken
<1>4. \A a \in V : M[a].page # None => M[a].page \in Page
  BY CellIs
<1>5. F1 \in SUBSET Page
  BY <1>4 DEF PagesAt
<1>6. None \notin Page /\ None \notin F
  BY DEF None, Page
<1>7. \A p \in Page : p \in F1 <=> (p \in F /\ p \notin T) \/ \E a \in R : M[a].page = p
  BY <1>6 DEF PagesAt
<1> HIDE DEF N, F1
<1>8. \A p : p \in T <=> \E a \in R : g[a] = p
  OBVIOUS
<1>9. \A a \in V, p \in F : M[a].page # p /\ p \notin G
  BY DEF Owned
<1>10. ASSUME NEW p \in Page PROVE p \in F1 <=> p \notin G /\ \A a \in V : N[a].page # p
  <2>1. CASE p \in T
    <3>1. PICK a \in R : g[a] = p
      BY <1>8, <2>1
    <3>2. N[a].page = p /\ p \in F
      BY <1>1, <1>2, <3>1
    <3>3. p \notin F1
      BY <1>7, <1>9, <2>1, <3>2
    <3>4. QED
      BY <3>2, <3>3
  <2>2. CASE p \notin T /\ \E a \in R : M[a].page = p
    <3>1. PICK a \in R : M[a].page = p
      BY <2>2
    <3>2. p \in F1 /\ p \notin G
      BY <1>7, <3>1 DEF Owned
    <3>3. \A b \in V : b # a => M[b].page # p
      BY <1>6, <3>1 DEF Owned
    <3>4. \A b \in V : N[b].page # p
      BY <1>2, <1>8, <2>2, <3>1, <3>3
    <3>5. QED
      BY <3>2, <3>4
  <2>3. CASE p \notin T /\ \A a \in R : M[a].page # p
    <3>1. p \in F1 <=> p \in F
      BY <1>7, <2>3
    <3>2. (\A a \in V : N[a].page # p) <=> (\A a \in V : M[a].page # p)
      BY <1>2, <1>8, <2>3
    <3>3. QED
      BY <3>1, <3>2 DEF Owned
  <2>4. QED
    BY <2>1, <2>2, <2>3
<1>11. \A a \in V : N[a].page \notin G
  BY <1>1, <1>2, <1>9 DEF Owned
<1>12. ASSUME NEW a \in V, NEW b \in V, a # b, N[a].page # None PROVE N[a].page # N[b].page
  <2>1. CASE a \in R /\ b \in R
    BY <1>2, <1>12, <2>1
  <2>2. CASE a \in R /\ b \notin R
    BY <1>1, <1>2, <1>9, <2>2
  <2>3. CASE a \notin R /\ b \in R
    BY <1>1, <1>2, <1>9, <2>3
  <2>4. CASE a \notin R /\ b \notin R
    <3>1. N[a] = M[a] /\ N[b] = M[b]
      BY <1>2, <2>4
    <3>2. QED
      BY <1>12, <3>1 DEF Owned
  <2>5. QED
    BY <2>1, <2>2, <2>3, <2>4
<1>13. QED
  BY <1>3, <1>5, <1>10, <1>11, <1>12 DEF Owned, PageState, N, F1

-----------------------------------------------------------------------------
(* The inductive invariant.  What AreasOrdered and MapsMatchAreas say of   *)
(* the list holds of the allocated structures, in every state, and the     *)
(* cached area is one of them.                                             *)
TypeOK ==
  /\ area \in [Id -> Area] /\ live \in SUBSET Id /\ list \in Seq(Id)
  /\ bare \in SUBSET V /\ dropped \in SUBSET V
  /\ stale \in [end: 0..NV, start: {"none", "zero", "odd", "invalid"}]

Linked == Range(list) = live /\ cache \in live \cup {None}

(* Address a is in area r. *)
Inside(r, a) == r.start <= a /\ a < r.end

(* Page table M has for address a, in an area with flags f, what it should *)
(* have if D are the addresses that lost their mapping.                    *)
Shown(M, D, a, f) ==
  IF a \in D THEN M[a].page = None ELSE M[a].page # None /\ M[a].perm = page_perm(f)

(* Areas A of L and page table M agree, but for the pages B without area   *)
(* and the addresses D.                                                    *)
Agree(A, L, M, B, D) ==
  \A a \in V :
    /\ \A k \in L : Inside(A[k], a) => Shown(M, D, a, A[k].flags) /\ a \notin B
    /\ M[a].page # None \/ a \in D => a \in B \/ \E k \in L : Inside(A[k], a)
    /\ a \in B => M[a].page # None /\ a \notin D

Inv ==
  /\ TypeOK
  /\ Order(area, list) /\ Linked
  /\ Agree(area, live, map, bare, dropped)
  /\ PageState(map, free, gone)

LEMMA LiveAreas ==
  ASSUME TypeOK, Order(area, list), Linked
  PROVE  /\ \A x \in live : x \in Id /\ x # None /\ area[x].start < area[x].end
         /\ \A x \in live : area[x].start \in 0..NV /\ area[x].end \in 0..NV /\ area[x].flags \in Flags
         /\ \A x, y \in live : x # y => Apart(area, x, y)
<1>1. \A x \in live : \E j \in DOMAIN list : x = list[j]
  BY DEF Linked, Range
<1>2. \A x \in live : x \in Id /\ x # None
  BY DEF TypeOK, Id, None
<1>3. \A x \in live : area[x].start < area[x].end
  BY <1>1 DEF Order
<1>4. \A x \in live : area[x].start \in 0..NV /\ area[x].end \in 0..NV /\ area[x].flags \in Flags
  <2>1. \A x \in live : area[x] \in Area
    BY <1>2 DEF TypeOK
  <2>2. QED
    BY <2>1 DEF Area
<1>5. ASSUME NEW x \in live, NEW y \in live, x # y PROVE Apart(area, x, y)
  <2>1. PICK i \in DOMAIN list : x = list[i]
    BY <1>1
  <2>2. PICK j \in DOMAIN list : y = list[j]
    BY <1>1
  <2>3. area \in [Id -> Area] /\ list \in Seq(Id) /\ i # j
    BY <1>5, <2>1, <2>2 DEF TypeOK
  <2>4. QED
    BY <2>1, <2>2, <2>3, OrderApart
<1>6. QED
  BY <1>2, <1>3, <1>4, <1>5

(* vm_area_find finds an area that contains the address, and caches it. *)
LEMMA FindSound ==
  ASSUME TypeOK, Linked, NEW c \in live \cup {None}, NEW a
  PROVE  \/ vm_area_find(c, a).vma = None /\ vm_area_find(c, a).cache = c
         \/ /\ vm_area_find(c, a).vma \in live
            /\ Inside(area[vm_area_find(c, a).vma], a)
            /\ vm_area_find(c, a).cache = vm_area_find(c, a).vma
<1> DEFINE fit == {j \in DOMAIN list : vm_area_fit(list[j], a)}
<1>1. CASE c # None /\ vm_area_fit(c, a)
  <2>1. vm_area_find(c, a) = [vma |-> c, cache |-> c]
    BY <1>1, Zenon DEF vm_area_find
  <2>2. QED
    BY <1>1, <2>1 DEF vm_area_fit, Inside
<1>2. CASE ~(c # None /\ vm_area_fit(c, a)) /\ fit = {}
  <2>1. vm_area_find(c, a) = [vma |-> None, cache |-> c]
    BY <1>2, Zenon DEF vm_area_find
  <2>2. QED
    BY <2>1
<1>3. CASE ~(c # None /\ vm_area_fit(c, a)) /\ fit # {}
  <2>1. vm_area_find(c, a) = [vma |-> list[Min(fit)], cache |-> list[Min(fit)]]
    BY <1>3, Zenon DEF vm_area_find
  <2>2. fit \in SUBSET Nat
    BY DEF TypeOK
  <2>3. Min(fit) \in fit
    <3> HIDE DEF fit
    <3>1. QED
      BY <1>3, <2>2, MinOf
  <2>4. Min(fit) \in DOMAIN list /\ vm_area_fit(list[Min(fit)], a)
    BY <2>3, Zenon
  <2> HIDE DEF fit
  <2>5. list[Min(fit)] \in live
    BY <2>4 DEF Linked, Range
  <2>6. QED
    BY <2>1, <2>4, <2>5 DEF vm_area_fit, Inside
<1>4. QED
  BY <1>1, <1>2, <1>3, Zenon

(* The last loop of unmap_pages *)
LEMMA UnmapStep ==
  ASSUME PageState(map, free, gone), NEW a \in Nat, NEW b \in Nat, b <= NV, Unmap(a, b)
  PROVE  /\ PageState(map', free', gone')
         /\ bare' = bare \ (a..(b - 1)) /\ dropped' = dropped \ (a..(b - 1))
         /\ \A c \in V : map'[c] = IF a <= c /\ c < b THEN Unmapped ELSE map[c]
<1> DEFINE R == a..(b - 1)
           S == {}
<1>1. Disjoint(R, S)
  BY VmAssumption DEF V, Disjoint
<1>2. \A c \in V : (a <= c /\ c < b) <=> c \in R \cup S
  BY VmAssumption DEF V
<1>3. map' = [c \in V |-> IF a <= c /\ c < b THEN Unmapped ELSE map[c]]
  BY DEF Unmap
<1>4. map' = Dropped(map, R \cup S)
  <2> HIDE DEF R, S
  <2>1. QED
    BY <1>2, <1>3, Zenon DEF Dropped
<1>5. At(R) = PagesAt(map, R) /\ PagesAt(map, S) = {}
  BY DEF At, PagesAt
<1>6. free' = free \cup PagesAt(map, R) /\ gone' = gone \cup PagesAt(map, S)
  BY <1>5 DEF Unmap
<1> HIDE DEF R, S
<1>7. PageState(Dropped(map, R \cup S), free \cup PagesAt(map, R), gone \cup PagesAt(map, S))
  BY <1>1, DropPages
<1>8. PageState(map', free', gone')
  BY <1>4, <1>6, <1>7
<1>9. QED
  BY <1>3, <1>8 DEF Unmap

-----------------------------------------------------------------------------
(* unmap_pages inside area k: h and t are the structures of what remains   *)
(* before and behind the region, or None.                                  *)
Pieces(k, a, b, h, t) ==
  /\ IF area[k].start < a THEN h \in Id \ live ELSE h = None
  /\ IF b < area[k].end THEN t \in Id \ live ELSE t = None
  /\ h = t => h = None

Replaced(A, k, a, b, h, t) ==
  \A x \in Id : A[x] = IF x = h THEN [area[k] EXCEPT !.end = a]
                       ELSE IF x = t THEN [area[k] EXCEPT !.start = b]
                       ELSE IF x = k THEN Blank ELSE area[x]

LEMMA FreshPieces ==
  ASSUME TypeOK, NEW k \in live, NEW a \in Nat, NEW b \in Nat,
         Needed(k, a, b) <= Cardinality(Id \ live)
  PROVE  Pieces(k, a, b, IF area[k].start < a THEN Nth(Id \ live, 1) ELSE None,
                         IF b < area[k].end THEN Nth(Id \ live, Needed(k, a, b)) ELSE None)
<1> DEFINE S == Id \ live
           c == Cardinality(S)
           n == Needed(k, a, b)
           h == IF area[k].start < a THEN Nth(S, 1) ELSE None
           t == IF b < area[k].end THEN Nth(S, n) ELSE None
<1>1. S \in SUBSET Nat /\ S \in SUBSET Id
  BY DEF Id
<1>2. IsFiniteSet(S) /\ c \in Nat
  <2>1. 1 \in Int /\ NIds \in Int
    BY VmAssumption
  <2>2. IsFiniteSet(Id)
    BY <2>1, FS_Interval DEF Id
  <2>3. IsFiniteSet(S)
    BY <1>1, <2>2, FS_Subset
  <2>4. QED
    BY <2>3, FS_CardinalityType
<1>3. /\ n \in 0..2
      /\ area[k].start < a => 1 <= n
      /\ b < area[k].end => 1 <= n
      /\ area[k].start < a /\ b < area[k].end => n = 2
  BY DEF Needed
<1>4. n <= c
  OBVIOUS
<1>5. /\ \A i \in 1..c : Nth(S, i) \in S
      /\ \A i, j \in 1..c : Nth(S, i) = Nth(S, j) => i = j
  <2> HIDE DEF S
  <2>1. QED
    BY <1>1, <1>2, NthOf
<1> HIDE DEF c, n
<1>6. (area[k].start < a \/ b < area[k].end) => 1 \in 1..c /\ n \in 1..c
  BY <1>2, <1>3, <1>4
<1>7. None \notin S
  BY DEF Id, None
<1> HIDE DEF S
<1>8. area[k].start < a => h \in S
  BY <1>5, <1>6
<1>9. b < area[k].end => t \in S
  BY <1>5, <1>6
<1>10. h = t => h = None
  <2>1. CASE area[k].start < a /\ b < area[k].end
    <3>1. h = Nth(S, 1) /\ t = Nth(S, n) /\ n = 2
      BY <1>3, <2>1
    <3>2. h # t
      BY <1>5, <1>6, <2>1, <3>1
    <3>3. QED
      BY <3>2
  <2>2. CASE ~(area[k].start < a)
    BY <2>2
  <2>3. CASE area[k].start < a /\ ~(b < area[k].end)
    BY <2>3
  <2>4. QED
    BY <2>1, <2>2, <2>3
<1>11. Pieces(k, a, b, h, t)
  BY <1>8, <1>9, <1>10 DEF Pieces, S
<1>12. QED
  BY <1>11 DEF S, n

(* What remains of area k takes its place in the list. *)
LEMMA InsideAreas ==
  ASSUME TypeOK, Order(area, list), Linked, NEW k \in live, NEW a \in Nat, NEW b \in Nat,
         area[k].start <= a, a < b, b <= area[k].end,
         NEW h, NEW t, Pieces(k, a, b, h, t),
         NEW A, DOMAIN A = Id, A \in [Id -> Area], Replaced(A, k, a, b, h, t),
         NEW l, l = RemoveAt(list, Min({j \in DOMAIN list : list[j] = k})),
         NEW m, m = vm_area_insert(A, vm_area_insert(A, l, h), t)
  PROVE  m \in Seq(Id) /\ Order(A, m) /\ Range(m) = (live \ {k}) \cup ({h, t} \ {None})
<1>1. /\ area \in [Id -> Area] /\ list \in Seq(Id) /\ Range(list) = live /\ live \in SUBSET Id
      /\ None \notin Id
  BY DEF TypeOK, Linked, Id, None
<1>2. l \in Seq(Id) /\ Order(area, l) /\ Range(l) = live \ {k}
  BY <1>1, RemoveOrdered
<1>3. \A x \in live \ {k} : A[x] = area[x] /\ Apart(area, x, k) /\ x # h /\ x # t
  <2>1. \A x \in live \ {k} : x \in Id /\ x # h /\ x # t
    BY <1>1 DEF Pieces
  <2>2. \A x \in live \ {k} : Apart(area, x, k)
    BY LiveAreas
  <2>3. QED
    BY <2>1, <2>2 DEF Replaced
<1>4. Order(A, l)
  <2>1. \A j \in DOMAIN l : l[j] \in live \ {k}
    BY <1>2 DEF Range
  <2>2. \A j \in DOMAIN l : A[l[j]] = area[l[j]]
    BY <1>3, <2>1
  <2>3. Order(area, l)
    BY <1>2
  <2>4. QED
    BY <2>2, <2>3, ZenonT(30) DEF Order
<1>5. area[k] \in Area /\ area[k].start \in Int /\ area[k].end \in Int
  BY <1>1, AreaBounds
<1>6. h # None => h \in Id /\ A[h].start = area[k].start /\ A[h].end = a /\ area[k].start < a
  BY <1>5 DEF Pieces, Replaced, Area
<1>7. t # None => t \in Id /\ t # h /\ A[t].start = b /\ A[t].end = area[k].end /\ b < area[k].end
  BY <1>5 DEF Pieces, Replaced, Area
<1>8. \A x \in live \ {k} : A[x].start \in Int /\ A[x].end \in Int
  BY <1>1, <1>3, AreaBounds
<1> DEFINE l1 == vm_area_insert(A, l, h)
<1>9. l1 \in Seq(Id) /\ Order(A, l1) /\ Range(l1) = (live \ {k}) \cup ({h} \ {None})
  <2>1. CASE h = None
    <3>1. l1 = l
      BY <2>1 DEF vm_area_insert
    <3>2. QED
      BY <1>2, <1>4, <2>1, <3>1
  <2>2. CASE h # None
    <3>1. \A x \in Range(l) : Apart(A, x, h)
      <4>1. ASSUME NEW x \in live \ {k} PROVE Apart(A, x, h)
        <5>1. area[x].end <= area[k].start \/ area[k].end <= area[x].start
          BY <1>3 DEF Apart
        <5>2. A[x].end <= A[h].start \/ A[h].end <= A[x].start
          BY <1>3, <1>5, <1>6, <1>8, <2>2, <5>1
        <5>3. QED
          BY <5>2 DEF Apart
      <4>2. QED
        BY <1>2, <4>1
    <3>2. h \in Id /\ A[h].start < A[h].end
      BY <1>6, <2>2
    <3>3. Insertable(A, l, h)
      BY <1>2, <1>4, <3>1, <3>2 DEF Insertable
    <3>4. Inserted(A, l, h, l1)
      BY <3>3, InsertOrdered
    <3>5. QED
      BY <1>2, <2>2, <3>4 DEF Inserted
  <2>3. QED
    BY <2>1, <2>2
<1> HIDE DEF l1
<1>10. CASE t = None
  <2>1. m = l1
    BY <1>10 DEF vm_area_insert, l1
  <2>2. QED
    BY <1>9, <1>10, <2>1
<1>11. CASE t # None
  <2>1. ASSUME NEW x \in Range(l1) PROVE Apart(A, x, t)
    <3>1. CASE x \in live \ {k}
      <4>1. area[x].end <= area[k].start \/ area[k].end <= area[x].start
        BY <1>3, <3>1 DEF Apart
      <4>2. A[x].end <= A[t].start \/ A[t].end <= A[x].start
        BY <1>3, <1>5, <1>7, <1>8, <1>11, <3>1, <4>1
      <4>3. QED
        BY <4>2 DEF Apart
    <3>2. CASE x = h /\ h # None
      BY <1>6, <1>7, <1>11, <3>2 DEF Apart
    <3>3. QED
      BY <1>9, <3>1, <3>2
  <2>2. t \in Id /\ A[t].start < A[t].end
    BY <1>7, <1>11
  <2>3. m = vm_area_insert(A, l1, t)
    BY DEF l1
  <2>4. m \in Seq(Id) /\ Order(A, m) /\ Range(m) = Range(l1) \cup {t}
    <3>1. Insertable(A, l1, t)
      BY <1>9, <2>1, <2>2 DEF Insertable
    <3>2. Inserted(A, l1, t, m)
      BY <2>3, <3>1, InsertOrdered
    <3>3. QED
      BY <3>2 DEF Inserted
  <2>5. QED
    BY <1>9, <1>11, <2>4
<1>12. QED
  BY <1>10, <1>11

(* They contain the pages of area k outside the region, which are the ones *)
(* that stay mapped.                                                       *)
LEMMA InsideAgree ==
  ASSUME TypeOK, Order(area, list), Linked, Agree(area, live, map, bare, dropped),
         NEW k \in live, NEW a \in Nat, NEW b \in Nat,
         area[k].start <= a, a < b, b <= area[k].end,
         NEW h, NEW t, Pieces(k, a, b, h, t), NEW A, Replaced(A, k, a, b, h, t),
         NEW N, \A c \in V : N[c] = IF a <= c /\ c < b THEN Unmapped ELSE map[c],
         NEW L, L = (live \ {k}) \cup ({h, t} \ {None}),
         NEW B, B = bare \ (a..(b - 1)), NEW D, D = dropped \ (a..(b - 1))
  PROVE  Agree(A, L, N, B, D)
<1>1. /\ live \in SUBSET Id /\ None \notin Id
      /\ \A x \in live : area[x].start \in Int /\ area[x].end \in Int
  BY LiveAreas DEF Id, None
<1>2. area[k] \in Area
  BY <1>1 DEF TypeOK
<1>3. \A x \in live \ {k} : A[x] = area[x] /\ Apart(area, x, k)
  <2>1. \A x \in live \ {k} : x \in Id /\ x # h /\ x # t
    BY <1>1 DEF Pieces
  <2>2. \A x \in live \ {k} : Apart(area, x, k)
    BY LiveAreas
  <2>3. QED
    BY <2>1, <2>2 DEF Replaced
<1>4. h # None => /\ A[h].start = area[k].start /\ A[h].end = a /\ A[h].flags = area[k].flags
  BY <1>2 DEF Pieces, Replaced, Area
<1>5. t # None => /\ A[t].start = b /\ A[t].end = area[k].end /\ A[t].flags = area[k].flags
  BY <1>2 DEF Pieces, Replaced, Area
<1>6. (area[k].start < a => h # None) /\ (b < area[k].end => t # None)
  BY <1>1 DEF Pieces
<1>7. Unmapped.page = None
  BY DEF Unmapped
<1>8. ASSUME NEW c \in V
      PROVE  /\ \A x \in L : Inside(A[x], c) => Shown(N, D, c, A[x].flags) /\ c \notin B
             /\ N[c].page # None \/ c \in D => c \in B \/ \E x \in L : Inside(A[x], c)
             /\ c \in B => N[c].page # None /\ c \notin D
  <2>0. c \in Int
    BY DEF V
  <2>1. /\ c \in B <=> c \in bare /\ ~(a <= c /\ c < b)
        /\ c \in D <=> c \in dropped /\ ~(a <= c /\ c < b)
    BY <2>0
  <2>2. N[c] = IF a <= c /\ c < b THEN Unmapped ELSE map[c]
    OBVIOUS
  <2>3. ASSUME NEW x \in live, Inside(area[x], c), ~(a <= c /\ c < b)
        PROVE  Shown(N, D, c, area[x].flags) /\ c \notin B
    BY <2>1, <2>2, <2>3 DEF Agree, Shown
  <2>4. ASSUME NEW x \in L, Inside(A[x], c) PROVE Shown(N, D, c, A[x].flags) /\ c \notin B
    <3>1. CASE x \in live \ {k}
      <4>1. A[x] = area[x] /\ (area[x].end <= area[k].start \/ area[k].end <= area[x].start)
        BY <1>3, <3>1 DEF Apart
      <4>2. area[x].start <= c /\ c < area[x].end
        BY <2>4, <4>1 DEF Inside
      <4>3. ~(a <= c /\ c < b)
        BY <1>1, <2>0, <3>1, <4>1, <4>2
      <4>4. QED
        BY <2>3, <2>4, <3>1, <4>1, <4>3
    <3>2. CASE x = h /\ h # None
      <4>1. area[k].start <= c /\ c < a
        BY <1>4, <2>4, <3>2 DEF Inside
      <4>2. ~(a <= c /\ c < b) /\ Inside(area[k], c)
        BY <1>1, <2>0, <4>1 DEF Inside
      <4>3. QED
        BY <1>4, <2>3, <3>2, <4>2
    <3>3. CASE x = t /\ t # None
      <4>1. b <= c /\ c < area[k].end
        BY <1>5, <2>4, <3>3 DEF Inside
      <4>2. ~(a <= c /\ c < b) /\ Inside(area[k], c)
        BY <1>1, <2>0, <4>1 DEF Inside
      <4>3. QED
        BY <1>5, <2>3, <3>3, <4>2
    <3>4. QED
      BY <3>1, <3>2, <3>3
  <2>5. ASSUME N[c].page # None \/ c \in D, c \notin B PROVE \E x \in L : Inside(A[x], c)
    <3>1. ~(a <= c /\ c < b) /\ N[c] = map[c]
      BY <1>7, <2>1, <2>2, <2>5
    <3>2. PICK x \in live : Inside(area[x], c)
      BY <2>1, <2>5, <3>1 DEF Agree
    <3>3. CASE x # k
      BY <1>3, <3>2, <3>3
    <3>4. CASE x = k /\ c < a
      <4>1. area[k].start <= c
        BY <3>2, <3>4 DEF Inside
      <4>2. h # None
        BY <1>1, <1>6, <2>0, <3>4, <4>1
      <4>3. Inside(A[h], c)
        BY <1>4, <3>4, <4>1, <4>2 DEF Inside
      <4>4. QED
        BY <4>2, <4>3
    <3>5. CASE x = k /\ b <= c
      <4>1. c < area[k].end
        BY <3>2, <3>5 DEF Inside
      <4>2. t # None
        BY <1>1, <1>6, <2>0, <3>5, <4>1
      <4>3. Inside(A[t], c)
        BY <1>5, <3>5, <4>1, <4>2 DEF Inside
      <4>4. QED
        BY <4>2, <4>3
    <3>6. QED
      BY <2>0, <3>1, <3>3, <3>4, <3>5
  <2>6. c \in B => N[c].page # None /\ c \notin D
    BY <2>1, <2>2 DEF Agree
  <2>7. QED
    BY <2>4, <2>5, <2>6
<1>9. QED
  BY <1>8, Zenon DEF Agree

LEMMA InsideStep ==
  ASSUME Inv, NEW k \in live, NEW a \in Nat, NEW b \in Nat,
         area[k].start <= a, a < b, b <= area[k].end,
         NEW c \in live \cup {None}, UnmapInside(k, a, b, c)
  PROVE  Inv'
<1> DEFINE h == IF area[k].start < a THEN Nth(Id \ live, 1) ELSE None
           t == IF b < area[k].end THEN Nth(Id \ live, Needed(k, a, b)) ELSE None
           r == Rest(k, a, b)
           A == [x \in Id |-> IF x = h THEN r[1] ELSE IF x = t THEN r[2]
                              ELSE IF x = k THEN Blank ELSE area[x]]
           l == RemoveAt(list, Min({j \in DOMAIN list : list[j] = k}))
           m == vm_area_insert(A, vm_area_insert(A, l, h), t)
           L == (live \ {k}) \cup ({h, t} \ {None})
<1>0. TypeOK /\ Order(area, list) /\ Linked /\ Agree(area, live, map, bare, dropped) /\ PageState(map, free, gone)
  BY DEF Inv
<1>1. CASE cache' = c /\ UNCHANGED <<area, live, list, stale, map, free, bare, dropped, gone, status>>
  BY <1>0, <1>1 DEF Inv, TypeOK, Linked
<1>2. CASE /\ Needed(k, a, b) <= Cardinality(Id \ live)
           /\ area' = A /\ live' = L /\ list' = m /\ cache' = Forget(c, k) /\ Unmap(a, b)
           /\ stale' = stale
  <2>1. Pieces(k, a, b, h, t)
    BY <1>0, <1>2, FreshPieces
  <2>2. /\ area \in [Id -> Area] /\ area[k] \in Area /\ live \in SUBSET Id
        /\ area[k].end \in 0..NV /\ area[k].start \in 0..NV
    BY <1>0, LiveAreas DEF TypeOK
  <2>3. b \in 0..NV /\ a \in 0..NV /\ b <= NV
    BY <2>2, VmAssumption
  <2>4. r[1] = [area[k] EXCEPT !.end = a] /\ r[2] = [area[k] EXCEPT !.start = b]
    BY DEF Rest
  <2> HIDE DEF r, h, t
  <2>5. Replaced(A, k, a, b, h, t)
    BY <2>4 DEF Replaced
  <2>6. A \in [Id -> Area]
    <3>1. r[1] \in Area /\ r[2] \in Area
      BY <2>2, <2>3, <2>4 DEF Area
    <3>2. Blank \in Area
      BY VmAssumption DEF Blank, Area, Flags
    <3>3. \A x \in Id : area[x] \in Area
      BY <2>2
    <3>4. QED
      BY <3>1, <3>2, <3>3, Zenon
  <2> HIDE DEF A
  <2>7. DOMAIN A = Id
    BY <2>6
  <2>8. m \in Seq(Id) /\ Order(A, m) /\ Range(m) = L
    BY <1>0, <2>1, <2>5, <2>6, <2>7, InsideAreas
  <2> HIDE DEF m
  <2>9. /\ PageState(map', free', gone')
        /\ bare' = bare \ (a..(b - 1)) /\ dropped' = dropped \ (a..(b - 1))
        /\ \A x \in V : map'[x] = IF a <= x /\ x < b THEN Unmapped ELSE map[x]
    BY <1>0, <1>2, <2>3, UnmapStep
  <2>10. Agree(A, L, map', bare', dropped')
    BY <1>0, <2>1, <2>5, <2>9, InsideAgree
  <2>11. L \in SUBSET Id
    BY <1>0, <2>1, <2>2 DEF Pieces
  <2>12. Forget(c, k) \in L \cup {None}
    BY DEF Forget
  <2> HIDE DEF L
  <2>13. TypeOK'
    BY <1>0, <1>2, <2>6, <2>8, <2>9, <2>11 DEF TypeOK
  <2>14. Linked'
    BY <1>2, <2>8, <2>12 DEF Linked
  <2>15. Agree(area', live', map', bare', dropped') /\ Order(area', list')
    BY <1>2, <2>8, <2>10
  <2>16. QED
    BY <2>9, <2>13, <2>14, <2>15 DEF Inv
<1>3. QED
  BY <1>1, <1>2, Zenon DEF UnmapInside

-----------------------------------------------------------------------------
(* unmap_pages from area k to its neighbour e *)
LEMMA AcrossStep ==
  ASSUME Inv, NEW k \in live, NEW e \in live, k # e, NEW a \in Nat, NEW b \in Nat, b <= NV,
         Inside(area[k], a), Inside(area[e], b - 1), Shortens(k, e, a, b),
         NEW c \in live \cup {None}, UnmapAcross(k, e, a, b, c)
  PROVE  Inv'
<1> DEFINE A == Cut(k, e, a, b)
<1>0. TypeOK /\ Order(area, list) /\ Linked /\ Agree(area, live, map, bare, dropped) /\ PageState(map, free, gone)
  BY DEF Inv
<1>1. /\ area' = A /\ cache' = c /\ Unmap(a, b) /\ live' = live /\ list' = list
      /\ stale' = stale
      /\ area[k].start < a /\ b < area[e].end
  BY DEF UnmapAcross, Shortens
<1>2. /\ area \in [Id -> Area] /\ live \in SUBSET Id /\ list \in Seq(Id) /\ Range(list) = live
      /\ \A x \in live : area[x].start \in Int /\ area[x].end \in Int
      /\ \A x \in live : area[x].start < area[x].end
      /\ DOMAIN list = 1..Len(list) /\ Len(list) \in Nat
  BY <1>0, LiveAreas DEF TypeOK, Linked
<1>3. area[k].start <= a /\ a < area[k].end /\ area[e].start <= b - 1 /\ b - 1 < area[e].end
  BY DEF Inside
<1>4. PICK i \in 1..(Len(list) - 1) : list[i] = k /\ list[i + 1] = e
  BY DEF Shortens, Neighbours
<1>5. i \in DOMAIN list /\ i + 1 \in DOMAIN list /\ i \in Int
  BY <1>2
<1>6. area[k].end <= area[e].start
  <2>1. i < i + 1
    BY <1>5
  <2>2. QED
    BY <1>0, <1>4, <1>5, <2>1 DEF Order
<1>7. a < b
  BY <1>2, <1>3, <1>6
<1>8. ASSUME NEW x \in live, x # k, x # e PROVE area[x].end <= area[k].start \/ area[e].end <= area[x].start
  <2>1. PICK j \in DOMAIN list : x = list[j]
    BY <1>2 DEF Range
  <2>2. j \in Int /\ (j < i \/ i + 1 < j)
    BY <1>2, <1>4, <1>5, <1>8, <2>1
  <2>3. QED
    BY <1>0, <1>4, <1>5, <2>1, <2>2 DEF Order
<1>9. /\ A \in [Id -> Area]
      /\ A[k].start = area[k].start /\ A[k].end = a /\ A[k].flags = area[k].flags
      /\ A[e].start = b /\ A[e].end = area[e].end /\ A[e].flags = area[e].flags
      /\ \A x \in Id : x # k /\ x # e => A[x] = area[x]
  <2>1. k \in Id /\ e \in Id /\ area[k] \in Area /\ area[e] \in Area
    BY <1>2
  <2>2. a \in 0..NV /\ b \in 0..NV
    BY <1>7, VmAssumption
  <2>3. [area[k] EXCEPT !.end = a] \in Area /\ [area[e] EXCEPT !.start = b] \in Area
    BY <2>1, <2>2 DEF Area
  <2>4. A = [[area EXCEPT ![k] = [area[k] EXCEPT !.end = a]] EXCEPT ![e] = [area[e] EXCEPT !.start = b]]
    BY <1>2, <2>1 DEF Cut
  <2> HIDE DEF A
  <2>5. A \in [Id -> Area] /\ \A x \in Id : x # k /\ x # e => A[x] = area[x]
    BY <1>2, <2>1, <2>3, <2>4
  <2>6. A[k] = [area[k] EXCEPT !.end = a] /\ A[e] = [area[e] EXCEPT !.start = b]
    BY <1>2, <2>1, <2>4
  <2>7. QED
    BY <2>1, <2>5, <2>6 DEF Area
<1> HIDE DEF A
<1>10. \A x \in live : /\ area[x].start <= A[x].start /\ A[x].end <= area[x].end
                       /\ A[x].start < A[x].end /\ A[x].flags = area[x].flags
                       /\ A[x].start \in Int /\ A[x].end \in Int
  <2> SUFFICES ASSUME NEW x \in live
               PROVE  /\ area[x].start <= A[x].start /\ A[x].end <= area[x].end
                      /\ A[x].start < A[x].end /\ A[x].flags = area[x].flags
                      /\ A[x].start \in Int /\ A[x].end \in Int
    OBVIOUS
  <2>1. CASE x = k
    BY <1>1, <1>2, <1>3, <1>7, <1>9, <2>1
  <2>2. CASE x = e
    BY <1>1, <1>2, <1>3, <1>7, <1>9, <2>2
  <2>3. CASE x # k /\ x # e
    <3>1. A[x] = area[x]
      BY <1>2, <1>9, <2>3
    <3>2. QED
      BY <1>1, <1>2, <3>1
  <2>4. QED
    BY <2>1, <2>2, <2>3
<1>11. Order(A, list)
  <2>1. \A j \in DOMAIN list : list[j] \in live
    BY <1>2 DEF Range
  <2>2. ASSUME NEW g \in DOMAIN list, NEW j \in DOMAIN list, g < j PROVE A[list[g]].end <= A[list[j]].start
    <3>1. area[list[g]].end <= area[list[j]].start
      BY <1>0, <2>2 DEF Order
    <3>2. QED
      BY <1>2, <1>10, <2>1, <3>1
  <2>3. QED
    BY <1>10, <2>1, <2>2 DEF Order
<1>12. /\ PageState(map', free', gone')
       /\ bare' = bare \ (a..(b - 1)) /\ dropped' = dropped \ (a..(b - 1))
       /\ \A x \in V : map'[x] = IF a <= x /\ x < b THEN Unmapped ELSE map[x]
  BY <1>0, <1>1, UnmapStep
<1>13. ASSUME NEW d \in V
       PROVE  /\ \A x \in live : Inside(A[x], d) <=> Inside(area[x], d) /\ ~(a <= d /\ d < b)
              /\ d \in bare' <=> d \in bare /\ ~(a <= d /\ d < b)
              /\ d \in dropped' <=> d \in dropped /\ ~(a <= d /\ d < b)
  <2>0. d \in Int
    BY DEF V
  <2>1. ASSUME NEW x \in live PROVE Inside(A[x], d) <=> Inside(area[x], d) /\ ~(a <= d /\ d < b)
    <3>1. CASE x = k
      BY <1>2, <1>3, <1>6, <1>7, <1>9, <2>0, <3>1 DEF Inside
    <3>2. CASE x = e
      BY <1>2, <1>3, <1>6, <1>7, <1>9, <2>0, <3>2 DEF Inside
    <3>3. CASE x # k /\ x # e
      <4>1. A[x] = area[x]
        BY <1>2, <1>9, <3>3
      <4>2. area[x].end <= area[k].start \/ area[e].end <= area[x].start
        BY <1>8, <3>3
      <4>3. /\ area[x].start \in Int /\ area[x].end \in Int
            /\ area[k].start \in Int /\ area[e].end \in Int /\ area[k].start < a /\ b < area[e].end
        BY <1>1, <1>2, <1>3
      <4>4. QED
        BY <1>2, <2>0, <4>1, <4>2, <4>3 DEF Inside
    <3>4. QED
      BY <3>1, <3>2, <3>3
  <2>2. /\ d \in bare' <=> d \in bare /\ ~(a <= d /\ d < b)
        /\ d \in dropped' <=> d \in dropped /\ ~(a <= d /\ d < b)
    BY <1>12, <2>0
  <2>3. QED
    BY <2>1, <2>2
<1>14. Agree(A, live, map', bare', dropped')
  <2>0. Unmapped.page = None
    BY DEF Unmapped
  <2>1. ASSUME NEW d \in V
        PROVE  /\ \A x \in live : Inside(A[x], d) => Shown(map', dropped', d, A[x].flags) /\ d \notin bare'
               /\ map'[d].page # None \/ d \in dropped' => d \in bare' \/ \E x \in live : Inside(A[x], d)
               /\ d \in bare' => map'[d].page # None /\ d \notin dropped'
    <3>1. CASE a <= d /\ d < b
      BY <1>12, <1>13, <2>0, <3>1
    <3>2. CASE ~(a <= d /\ d < b)
      <4>1. map'[d] = map[d]
        BY <1>12, <3>2
      <4>2. /\ \A x \in live : Inside(area[x], d) => Shown(map, dropped, d, area[x].flags) /\ d \notin bare
            /\ map[d].page # None \/ d \in dropped => d \in bare \/ \E x \in live : Inside(area[x], d)
            /\ d \in bare => map[d].page # None /\ d \notin dropped
        BY <1>0 DEF Agree
      <4>3. \A x \in live : Inside(A[x], d) <=> Inside(area[x], d)
        BY <1>13, <3>2
      <4>4. (d \in bare' <=> d \in bare) /\ (d \in dropped' <=> d \in dropped)
        BY <1>13, <3>2
      <4>5. \A x \in live : Shown(map, dropped, d, area[x].flags) => Shown(map', dropped', d, A[x].flags)
        BY <1>10, <4>1, <4>4 DEF Shown
      <4>6. QED
        BY <4>1, <4>2, <4>3, <4>4, <4>5
    <3>3. QED
      BY <3>1, <3>2
  <2>2. QED
    BY <2>1, Zenon DEF Agree
<1>15. TypeOK' /\ Linked'
  BY <1>0, <1>1, <1>9, <1>12 DEF TypeOK, Linked
<1>16. Order(area', list') /\ Agree(area', live', map', bare', dropped')
  BY <1>1, <1>11, <1>14
<1>17. QED
  BY <1>12, <1>15, <1>16 DEF Inv

(* unmap_pages, from the searches on *)
LEMMA UnmapFromStep ==
  ASSUME Inv, Walks = FALSE, NEW c \in live \cup {None}, NEW a \in Nat, NEW b \in Nat, a < b, b <= NV,
         unmap_from(c, a, b)
  PROVE  Inv' /\ status' = status /\ stale' = stale
<1> DEFINE first == vm_area_find(c, a)
           last == vm_area_find(first.cache, b - 1)
<1>0. TypeOK /\ Linked /\ Order(area, list)
  BY DEF Inv
<1>1. \/ first.vma = None /\ first.cache = c
      \/ first.vma \in live /\ Inside(area[first.vma], a) /\ first.cache = first.vma
  BY <1>0, FindSound
<1>2. first.cache \in live \cup {None}
  BY <1>1
<1> HIDE DEF first
<1>3. \/ last.vma = None /\ last.cache = first.cache
      \/ last.vma \in live /\ Inside(area[last.vma], b - 1) /\ last.cache = last.vma
  BY <1>0, <1>2, FindSound
<1>4. last.cache \in live \cup {None}
  BY <1>2, <1>3
<1> HIDE DEF last
<1>5. CASE first.vma = None \/ last.vma = None
  <2>1. cache' = last.cache /\ UNCHANGED <<area, live, list, stale, map, free, bare, dropped, gone, status>>
    BY <1>5, Zenon DEF unmap_from, first, last
  <2>2. QED
    BY <1>4, <2>1 DEF Inv, TypeOK, Linked
<1>6. CASE ~(first.vma = None \/ last.vma = None) /\ first.vma = last.vma
  <2>1. UnmapInside(first.vma, a, b, last.cache)
    BY <1>6, Zenon DEF unmap_from, first, last
  <2>2. /\ first.vma \in live /\ area[first.vma].start <= a /\ b - 1 < area[first.vma].end
        /\ area[first.vma].end \in Int
    BY <1>0, <1>1, <1>3, <1>6, LiveAreas DEF Inside
  <2>3. b <= area[first.vma].end
    BY <2>2
  <2>4. Inv'
    BY <1>4, <2>1, <2>2, <2>3, InsideStep
  <2>5. status' = status /\ stale' = stale
    BY <2>1 DEF UnmapInside
  <2>6. QED
    BY <2>4, <2>5
<1>7. CASE ~(first.vma = None \/ last.vma = None) /\ first.vma # last.vma
  <2>1. /\ Walks \/ Shortens(first.vma, last.vma, a, b)
        /\ UnmapAcross(first.vma, last.vma, a, b, last.cache)
    BY <1>7, Zenon DEF unmap_from, first, last
  <2>2. Shortens(first.vma, last.vma, a, b)
    BY <2>1
  <2>3. /\ first.vma \in live /\ last.vma \in live
        /\ Inside(area[first.vma], a) /\ Inside(area[last.vma], b - 1)
    BY <1>1, <1>3, <1>7
  <2>4. Inv'
    BY <1>4, <1>7, <2>1, <2>2, <2>3, AcrossStep
  <2>5. status' = status /\ stale' = stale
    BY <2>1, <2>2 DEF UnmapAcross, Shortens
  <2>6. QED
    BY <2>4, <2>5
<1>8. QED
  BY <1>5, <1>6, <1>7

-----------------------------------------------------------------------------
(* mm_create_uvm: n free pages for the addresses from a on *)
Region(a, n) == a..(a + n - 1)

LEMMA RegionIs ==
  ASSUME NEW a \in Nat, NEW n \in Nat, a + n <= NV
  PROVE  Region(a, n) \in SUBSET V /\ \A d \in V : d \in Region(a, n) <=> a <= d /\ d < a + n
BY VmAssumption DEF Region, V

(* alloc_pages returns different free pages. *)
LEMMA PagesAreFree ==
  ASSUME PageState(map, free, gone), NEW n \in Nat, n <= Cardinality(free)
  PROVE  /\ Len(Pages(n)) = n /\ \A j \in 1..n : Pages(n)[j] \in free
         /\ \A i, j \in 1..n : Pages(n)[i] = Pages(n)[j] => i = j
         /\ Range(Pages(n)) = {Pages(n)[j] : j \in 1..n}
<1>1. free \in SUBSET Page /\ free \in SUBSET Nat
  BY DEF PageState, Page
<1>2. IsFiniteSet(free) /\ Cardinality(free) \in Nat
  <2>1. 1 \in Int /\ NPages \in Int
    BY VmAssumption
  <2>2. IsFiniteSet(Page)
    BY <2>1, FS_Interval DEF Page
  <2>3. IsFiniteSet(free)
    BY <1>1, <2>2, FS_Subset
  <2>4. QED
    BY <2>3, FS_CardinalityType
<1>3. /\ \A i \in 1..Cardinality(free) : Nth(free, i) \in free
      /\ \A i, j \in 1..Cardinality(free) : Nth(free, i) = Nth(free, j) => i = j
  BY <1>1, <1>2, NthOf
<1>4. DOMAIN Pages(n) = 1..n /\ \A j \in 1..n : Pages(n)[j] = Nth(free, j)
  BY DEF Pages
<1>5. \A j \in 1..n : j \in 1..Cardinality(free)
  BY <1>2
<1>6. Len(Pages(n)) = n
  <2>1. Pages(n) \in Seq(free)
    BY <1>3, <1>5 DEF Pages
  <2>2. QED
    BY <1>4, <2>1
<1>7. QED
  BY <1>3, <1>4, <1>5, <1>6 DEF Range

(* map_pages gives the addresses of a region other pages. *)
LEMMA MapStep ==
  ASSUME PageState(map, free, gone), NEW a \in Nat, NEW n \in Nat, a + n <= NV, n <= Cardinality(free),
         NEW f \in Flags, NEW k, Mapping(a, Pages(n), f, k)
  PROVE  /\ PageState(map', free', gone')
         /\ \A d \in V : IF d \in Region(a, n) THEN map'[d].page # None /\ map'[d].perm = page_perm(f)
                         ELSE map'[d] = map[d]
<1> DEFINE pgs == Pages(n)
           R == Region(a, n)
           g == [d \in R |-> pgs[d - a + 1]]
           T == Range(pgs)
<1>1. /\ Len(pgs) = n /\ \A j \in 1..n : pgs[j] \in free
      /\ \A i, j \in 1..n : pgs[i] = pgs[j] => i = j
      /\ T = {pgs[j] : j \in 1..n}
  BY PagesAreFree
<1>2. R \in SUBSET V
  BY RegionIs
<1> HIDE DEF pgs
<1>3. \A d \in R : d \in Int /\ d - a + 1 \in 1..n
  BY DEF Region
<1>4. \A j \in 1..n : a + j - 1 \in R /\ (a + j - 1) - a + 1 = j
  BY DEF Region
<1>5. R = a..(a + Len(pgs) - 1)
  BY <1>1 DEF Region
<1> HIDE DEF R, T
<1>6. Different(g, R, free)
  <2>1. g \in [R -> free]
    BY <1>1, <1>3
  <2>2. ASSUME NEW d \in R, NEW e \in R, g[d] = g[e] PROVE d = e
    <3>1. pgs[d - a + 1] = pgs[e - a + 1]
      BY <2>2
    <3>2. d - a + 1 = e - a + 1
      BY <1>1, <1>3, <3>1
    <3>3. QED
      BY <1>3, <3>2
  <2>3. QED
    BY <2>1, <2>2 DEF Different
<1>7. T = {g[d] : d \in R}
  <2>1. ASSUME NEW p \in T PROVE \E d \in R : p = g[d]
    <3>1. PICK j \in 1..n : p = pgs[j]
      BY <1>1
    <3>2. g[a + j - 1] = pgs[j]
      BY <1>4
    <3>3. QED
      BY <1>4, <3>1, <3>2
  <2>2. ASSUME NEW d \in R PROVE g[d] \in T
    BY <1>1, <1>3
  <2> HIDE DEF g
  <2>3. QED
    BY <2>1, <2>2
<1>8. map' = Taken(map, R, g, page_perm(f))
  <2>1. map' = [d \in V |-> IF d \in R THEN [page |-> pgs[d - a + 1], perm |-> page_perm(f)] ELSE map[d]]
    BY <1>5 DEF Mapping, pgs
  <2>2. \A d \in R : g[d] = pgs[d - a + 1]
    OBVIOUS
  <2> HIDE DEF g
  <2>3. QED
    BY <2>1, <2>2, Zenon DEF Taken
<1>9. free' = (free \ T) \cup PagesAt(map, R) /\ gone' = gone
  BY <1>5 DEF Mapping, At, PagesAt, pgs, T
<1> HIDE DEF g
<1>10. PageState(Taken(map, R, g, page_perm(f)), (free \ T) \cup PagesAt(map, R), gone)
  <2>1. page_perm(f) \in Perm
    BY DEF page_perm, Perm
  <2>2. QED
    BY <1>2, <1>6, <1>7, <2>1, TakePages
<1>11. PageState(map', free', gone')
  BY <1>8, <1>9, <1>10
<1>12. ASSUME NEW d \in V
       PROVE  IF d \in R THEN map'[d].page # None /\ map'[d].perm = page_perm(f) ELSE map'[d] = map[d]
  <2>1. None \notin free
    BY DEF PageState, Page, None
  <2>2. d \in R => g[d] \in free
    BY <1>6 DEF Different
  <2>3. QED
    BY <1>8, <2>1, <2>2 DEF Taken
<1>13. QED
  BY <1>11, <1>12 DEF R

(* The region is outside all areas. *)
LEMMA VacantRegion ==
  ASSUME TypeOK, Linked, Order(area, list), NEW a \in Nat, NEW n \in Nat, Vacant(a, a + n - 1)
  PROVE  \A x \in live : /\ area[x].end <= a \/ a + n <= area[x].start
                         /\ \A d \in Region(a, n) : ~Inside(area[x], d)
<1> SUFFICES ASSUME NEW x \in live
             PROVE  /\ area[x].end <= a \/ a + n <= area[x].start
                    /\ \A d \in Region(a, n) : ~Inside(area[x], d)
  OBVIOUS
<1>1. PICK j \in DOMAIN list : x = list[j]
  BY DEF Linked, Range
<1>2. area[x].end <= a \/ a + n - 1 < area[x].start
  BY <1>1 DEF Vacant
<1>3. area[x].start \in Int /\ area[x].end \in Int
  BY LiveAreas
<1>4. area[x].end <= a \/ a + n <= area[x].start
  BY <1>2, <1>3
<1>5. QED
  BY <1>3, <1>4 DEF Region, Inside

(* The pages of R are remapped and those of area k: the rest agrees as it did. *)
LEMMA MappedAgree ==
  ASSUME Agree(area, live, map, bare, dropped), NEW R \in SUBSET V, NEW f,
         \A x \in live : \A d \in R : ~Inside(area[x], d),
         NEW N, \A d \in V : IF d \in R THEN N[d].page # None /\ N[d].perm = page_perm(f) ELSE N[d] = map[d],
         NEW k, k \notin live, NEW A, \A x \in live : A[x] = area[x],
         \A d \in V : Inside(A[k], d) <=> d \in R, A[k].flags = f
  PROVE  Agree(A, live \cup {k}, N, bare \ R, dropped)
<1>1. ASSUME NEW d \in V
      PROVE  /\ \A x \in live \cup {k} : Inside(A[x], d) => Shown(N, dropped, d, A[x].flags) /\ d \notin bare \ R
             /\ N[d].page # None \/ d \in dropped => d \in bare \ R \/ \E x \in live \cup {k} : Inside(A[x], d)
             /\ d \in bare \ R => N[d].page # None /\ d \notin dropped
  <2>0. /\ \A x \in live : Inside(area[x], d) => Shown(map, dropped, d, area[x].flags) /\ d \notin bare
        /\ map[d].page # None \/ d \in dropped => d \in bare \/ \E x \in live : Inside(area[x], d)
        /\ d \in bare => map[d].page # None /\ d \notin dropped
    BY DEF Agree
  <2>1. CASE d \in R
    <3>1. N[d].page # None /\ N[d].perm = page_perm(f) /\ Inside(A[k], d)
      BY <2>1
    <3>2. \A x \in live : ~Inside(A[x], d) /\ ~Inside(area[x], d)
      BY <2>1
    <3>3. d \notin dropped
      BY <2>0, <3>2
    <3>4. Shown(N, dropped, d, A[k].flags)
      BY <3>1, <3>3 DEF Shown
    <3>5. QED
      BY <2>1, <3>1, <3>2, <3>4
  <2>2. CASE d \notin R
    <3>1. N[d] = map[d] /\ ~Inside(A[k], d)
      BY <2>2
    <3>2. \A x \in live : Shown(map, dropped, d, area[x].flags) => Shown(N, dropped, d, A[x].flags)
      BY <3>1 DEF Shown
    <3>3. QED
      BY <2>0, <2>2, <3>1, <3>2
  <2>3. QED
    BY <2>1, <2>2
<1>2. QED
  BY <1>1, Zenon DEF Agree

LEMMA BareAgree ==
  ASSUME Agree(area, live, map, bare, dropped), NEW R \in SUBSET V, NEW f,
         \A x \in live : \A d \in R : ~Inside(area[x], d),
         NEW N, \A d \in V : IF d \in R THEN N[d].page # None /\ N[d].perm = page_perm(f) ELSE N[d] = map[d]
  PROVE  Agree(area, live, N, bare \cup R, dropped)
<1>1. ASSUME NEW d \in V
      PROVE  /\ \A x \in live : Inside(area[x], d) => Shown(N, dropped, d, area[x].flags) /\ d \notin bare \cup R
             /\ N[d].page # None \/ d \in dropped => d \in bare \cup R \/ \E x \in live : Inside(area[x], d)
             /\ d \in bare \cup R => N[d].page # None /\ d \notin dropped
  <2>1. /\ \A x \in live : Inside(area[x], d) => Shown(map, dropped, d, area[x].flags) /\ d \notin bare
        /\ map[d].page # None \/ d \in dropped => d \in bare \/ \E x \in live : Inside(area[x], d)
        /\ d \in bare => map[d].page # None /\ d \notin dropped
    BY DEF Agree
  <2>2. CASE d \in R
    BY <2>1, <2>2
  <2>3. CASE d \notin R
    <3>1. N[d] = map[d]
      BY <2>3
    <3>2. \A x \in live : Shown(map, dropped, d, area[x].flags) => Shown(N, dropped, d, area[x].flags)
      BY <3>1 DEF Shown
    <3>3. QED
      BY <2>1, <2>3, <3>1, <3>2
  <2>4. QED
    BY <2>2, <2>3
<1>2. QED
  BY <1>1, Zenon DEF Agree

(* The addresses of R lose their mapping, also those in areas. *)
LEMMA DroppedAgree ==
  ASSUME Agree(area, live, map, bare, dropped), map \in [V -> Cell], NEW R \in SUBSET V,
         NEW D, D = dropped \cup {d \in R : map[d] # Unmapped /\ d \notin bare}
  PROVE  Agree(area, live, Dropped(map, R), bare \ R, D)
<1> DEFINE N == Dropped(map, R)
<1>0. \A d \in V : IF d \in R THEN N[d].page = None ELSE N[d] = map[d]
  BY DEF Dropped, Unmapped
<1>1. \A d \in V : map[d] # Unmapped <=> map[d].page # None
  BY CellIs
<1> HIDE DEF N
<1>2. ASSUME NEW d \in V
      PROVE  /\ \A x \in live : Inside(area[x], d) => Shown(N, D, d, area[x].flags) /\ d \notin bare \ R
             /\ N[d].page # None \/ d \in D => d \in bare \ R \/ \E x \in live : Inside(area[x], d)
             /\ d \in bare \ R => N[d].page # None /\ d \notin D
  <2>1. /\ \A x \in live : Inside(area[x], d) => Shown(map, dropped, d, area[x].flags) /\ d \notin bare
        /\ map[d].page # None \/ d \in dropped => d \in bare \/ \E x \in live : Inside(area[x], d)
        /\ d \in bare => map[d].page # None /\ d \notin dropped
    BY DEF Agree
  <2>2. d \in D <=> d \in dropped \/ (d \in R /\ map[d].page # None /\ d \notin bare)
    BY <1>1
  <2>3. CASE d \in R
    <3>1. N[d].page = None
      BY <1>0, <2>3
    <3>2. \A x \in live : Inside(area[x], d) => d \in D
      BY <2>1, <2>2, <2>3 DEF Shown
    <3>3. \A x \in live : Inside(area[x], d) => Shown(N, D, d, area[x].flags)
      BY <3>1, <3>2 DEF Shown
    <3>4. QED
      BY <2>1, <2>2, <2>3, <3>1, <3>3
  <2>4. CASE d \notin R
    <3>1. N[d] = map[d] /\ (d \in D <=> d \in dropped)
      BY <1>0, <2>2, <2>4
    <3>2. \A x \in live : Shown(map, dropped, d, area[x].flags) => Shown(N, D, d, area[x].flags)
      BY <3>1 DEF Shown
    <3>3. QED
      BY <2>1, <2>4, <3>1, <3>2
  <2>5. QED
    BY <2>3, <2>4
<1>3. QED
  BY <1>2, Zenon DEF Agree, N

LEMMA MappingStep ==
  ASSUME Inv, NEW a \in Nat, NEW n \in Nat \ {0}, a + n <= NV, n <= Cardinality(free),
         Vacant(a, a + n - 1), NEW f \in Flags, NEW k \in (Id \ live) \cup {None},
         Mapping(a, Pages(n), f, k)
  PROVE  Inv'
<1> DEFINE R == Region(a, n)
<1>0. TypeOK /\ Order(area, list) /\ Linked /\ Agree(area, live, map, bare, dropped) /\ PageState(map, free, gone)
  BY DEF Inv
<1>1. Len(Pages(n)) = n
  BY <1>0, PagesAreFree
<1>2. R \in SUBSET V /\ \A d \in V : d \in R <=> a <= d /\ d < a + n
  BY RegionIs
<1>3. \A x \in live : /\ area[x].end <= a \/ a + n <= area[x].start
                      /\ \A d \in R : ~Inside(area[x], d)
  BY <1>0, VacantRegion
<1>4. /\ PageState(map', free', gone')
      /\ \A d \in V : IF d \in R THEN map'[d].page # None /\ map'[d].perm = page_perm(f) ELSE map'[d] = map[d]
      /\ stale' = stale /\ dropped' = dropped
  BY <1>0, MapStep DEF Mapping
<1>5. R = a..(a + Len(Pages(n)) - 1)
  BY <1>1 DEF Region
<1>6. /\ area \in [Id -> Area] /\ live \in SUBSET Id /\ list \in Seq(Id) /\ bare \in SUBSET V
      /\ dropped \in SUBSET V /\ stale \in [end: 0..NV, start: {"none", "zero", "odd", "invalid"}]
      /\ Range(list) = live /\ cache \in live \cup {None} /\ None \notin Id
      /\ \A j \in DOMAIN list : list[j] \in live
  BY <1>0 DEF TypeOK, Linked, Range, Id, None
<1>7. CASE k = None
  <2>1. /\ area' = area /\ live' = live /\ list' = list /\ cache' = cache /\ bare' = bare \cup R
    BY <1>5, <1>7 DEF Mapping, vm_area_insert
  <2>2. Agree(area, live, map', bare \cup R, dropped)
    <3> HIDE DEF R
    <3>1. QED
      BY <1>0, <1>2, <1>3, <1>4, BareAgree
  <2>3. Agree(area', live', map', bare', dropped')
    BY <1>4, <2>1, <2>2
  <2>4. TypeOK' /\ Linked' /\ Order(area', list')
    BY <1>0, <1>2, <1>4, <2>1 DEF TypeOK, Linked
  <2>5. QED
    BY <1>4, <2>3, <2>4 DEF Inv
<1>8. CASE k # None
  <2> DEFINE A == [area EXCEPT ![k] = [start |-> a, end |-> a + n, flags |-> f]]
             m == vm_area_insert(A, list, k)
  <2>0. k \in Id /\ k \notin live
    BY <1>8
  <2>1. area' = A /\ list' = m /\ live' = live \cup {k} /\ cache' = cache /\ bare' = bare \ R
    BY <1>1, <1>5, <1>8 DEF Mapping
  <2>2. A \in [Id -> Area]
    <3>1. [start |-> a, end |-> a + n, flags |-> f] \in Area
      BY VmAssumption DEF Area
    <3>2. QED
      BY <1>6, <2>0, <3>1
  <2>3. A[k].start = a /\ A[k].end = a + n /\ A[k].flags = f
    BY <1>6, <2>0
  <2>4. \A x \in live : A[x] = area[x]
    BY <1>6, <2>0
  <2> HIDE DEF A
  <2>5. Order(A, list)
    BY <1>0, <1>6, <2>4 DEF Order
  <2>6. Insertable(A, list, k)
    <3>1. ASSUME NEW x \in Range(list) PROVE Apart(A, x, k)
      BY <1>3, <1>6, <2>3, <2>4 DEF Apart
    <3>2. a < a + n
      OBVIOUS
    <3>3. QED
      BY <1>6, <2>0, <2>2, <2>3, <2>5, <3>1, <3>2 DEF Insertable
  <2>7. m \in Seq(Id) /\ Order(A, m) /\ Range(m) = live \cup {k}
    <3>1. Inserted(A, list, k, m)
      BY <2>6, InsertOrdered
    <3> HIDE DEF m
    <3>2. QED
      BY <1>6, <3>1 DEF Inserted
  <2> HIDE DEF m
  <2>8. \A d \in V : Inside(A[k], d) <=> d \in R
    BY <1>2, <2>3 DEF Inside
  <2>9. Agree(A, live \cup {k}, map', bare \ R, dropped)
    <3> HIDE DEF R
    <3>1. QED
      BY <1>0, <1>2, <1>3, <1>4, <2>0, <2>3, <2>4, <2>8, MappedAgree
  <2>10. Agree(area', live', map', bare', dropped') /\ Order(area', list')
    BY <1>4, <2>1, <2>7, <2>9
  <2>11. TypeOK' /\ Linked'
    BY <1>4, <1>6, <2>0, <2>1, <2>2, <2>7 DEF TypeOK, Linked
  <2>12. QED
    BY <1>4, <2>10, <2>11 DEF Inv
<1>9. QED
  BY <1>7, <1>8

(* What is mapped at R is freed, and what is mapped at S is lost. *)
LEMMA LossStep ==
  ASSUME Inv, NEW R, NEW S, Disjoint(R, S),
         map' = [d \in V |-> IF d \in R \/ d \in S THEN Unmapped ELSE map[d]],
         free' = free \cup At(R), gone' = gone \cup At(S), bare' = bare \ (R \cup S),
         dropped' = dropped \cup {d \in R \cup S : map[d] # Unmapped /\ d \notin bare},
         area' = area, live' = live, list' = list, cache' \in {cache, None},
         stale' \in [end: 0..NV, start: {"none", "zero", "odd", "invalid"}]
  PROVE  Inv'
<1>0. /\ TypeOK /\ Order(area, list) /\ Linked /\ Agree(area, live, map, bare, dropped)
      /\ PageState(map, free, gone)
  BY DEF Inv
<1>1. R \cup S \in SUBSET V
  BY DEF Disjoint
<1>2. map' = Dropped(map, R \cup S) /\ free' = free \cup PagesAt(map, R) /\ gone' = gone \cup PagesAt(map, S)
  <2>1. \A d \in V : (d \in R \/ d \in S) <=> d \in R \cup S
    OBVIOUS
  <2>2. QED
    BY <2>1, Zenon DEF Dropped, At, PagesAt
<1>3. PageState(Dropped(map, R \cup S), free \cup PagesAt(map, R), gone \cup PagesAt(map, S))
  BY <1>0, DropPages
<1>4. PageState(map', free', gone')
  BY <1>2, <1>3
<1>5. map \in [V -> Cell]
  BY <1>0 DEF PageState
<1>6. Agree(area, live, Dropped(map, R \cup S), bare \ (R \cup S), dropped')
  BY <1>0, <1>1, <1>5, DroppedAgree
<1>7. Agree(area', live', map', bare', dropped')
  BY <1>2, <1>6
<1>8. dropped' \in SUBSET V /\ bare' \in SUBSET V
  BY <1>0, <1>1 DEF TypeOK
<1>9. TypeOK' /\ Linked' /\ Order(area', list')
  BY <1>0, <1>8 DEF TypeOK, Linked
<1>10. QED
  BY <1>4, <1>7, <1>9 DEF Inv

LEMMA FailingStep ==
  ASSUME Inv, NEW a \in Nat, NEW n \in Nat \ {0}, a + n <= NV,
         Vacant(a, a + n - 1), NEW b \in a..(a + n - 1), NEW vma \in BOOLEAN, MappingFails(a, n, b, vma)
  PROVE  Inv'
<1> DEFINE R == Region(a, n)
           others == UnderPmd(b) \ R
           R1 == a..(b - 1)
           T == b..(a + n - 1)
           S == T \cup others
<1>0. /\ TypeOK /\ Linked /\ Order(area, list) /\ Agree(area, live, map, bare, dropped)
      /\ PageState(map, free, gone)
  BY DEF Inv
<1>1. R \in SUBSET V /\ others \in SUBSET V /\ others \cap R = {}
  BY RegionIs DEF UnderPmd
<1>2. R = R1 \cup T /\ R1 \cap T = {}
  BY DEF Region
<1>3. \A x \in live : \A d \in R : ~Inside(area[x], d)
  BY <1>0, VacantRegion
<1>4. /\ area' = area /\ live' = live /\ list' = list /\ cache' = cache
      /\ map' = [d \in V |-> IF d \in R \/ d \in others THEN Unmapped ELSE map[d]]
      /\ free' = free \cup At(R1) /\ gone' = gone \cup At(S)
      /\ bare' = bare \ (R \cup others)
      /\ dropped' = dropped \cup {d \in others : map[d] # Unmapped /\ d \notin bare}
  BY DEF MappingFails, Region
<1>5. stale' \in [end: 0..NV, start: {"none", "zero", "odd", "invalid"}]
  <2>1. CASE vma
    <3>1. PICK st \in {"zero", "odd", "invalid"} : stale' = [end |-> a + n, start |-> st]
      BY <2>1 DEF MappingFails
    <3>2. a + n \in 0..NV
      BY VmAssumption
    <3>3. QED
      BY <3>1, <3>2
  <2>2. CASE ~vma
    BY <1>0, <2>2 DEF MappingFails, TypeOK
  <2>3. QED
    BY <2>1, <2>2
<1> HIDE DEF R, R1, T, others
<1>6. Disjoint(R1, S)
  BY <1>1, <1>2 DEF Disjoint
<1>7. R1 \cup S = R \cup others /\ \A d : (d \in R \/ d \in others) <=> (d \in R1 \/ d \in S)
  BY <1>2
<1>8. \A d \in R : map[d] # Unmapped => d \in bare
  <2>1. map \in [V -> Cell]
    BY <1>0 DEF PageState
  <2>2. \A d \in V : map[d] # Unmapped => map[d].page # None
    BY <2>1, CellIs
  <2>3. QED
    BY <1>0, <1>1, <1>3, <2>2 DEF Agree
<1>9. {d \in others : map[d] # Unmapped /\ d \notin bare} = {d \in R1 \cup S : map[d] # Unmapped /\ d \notin bare}
  BY <1>7, <1>8
<1>10. map' = [d \in V |-> IF d \in R1 \/ d \in S THEN Unmapped ELSE map[d]]
  <2> HIDE DEF S
  <2>1. QED
    BY <1>4, <1>7, Zenon
<1> HIDE DEF S
<1>11. bare' = bare \ (R1 \cup S) /\ dropped' = dropped \cup {d \in R1 \cup S : map[d] # Unmapped /\ d \notin bare}
  BY <1>4, <1>7, <1>9
<1>12. QED
  BY <1>4, <1>5, <1>6, <1>10, <1>11, LossStep

(* The freed area that a failed mapping has left in the list is unlinked. *)
LEMMA StaleStep ==
  ASSUME Inv, UnmapStale
  PROVE  Inv'
<1> DEFINE R == 0..(stale.end - 1)
           S == {}
<1>1. stale.end \in 0..NV
  BY DEF Inv, TypeOK
<1>2. Disjoint(R, S)
  BY <1>1, VmAssumption DEF Disjoint, V
<1>3. /\ map' = [d \in V |-> IF d \in R THEN Unmapped ELSE map[d]]
      /\ free' = free \cup At(R) /\ gone' = gone /\ bare' = bare \ R
      /\ dropped' = dropped \cup {d \in R : map[d] # Unmapped /\ d \notin bare}
      /\ area' = area /\ live' = live /\ list' = list /\ cache' = None /\ stale' = NoStale
  BY DEF UnmapStale
<1> HIDE DEF R
<1>4. R \cup S = R /\ At(S) = {} /\ \A d : d \in R <=> d \in R \/ d \in S
  BY DEF At
<1>5. gone' = gone \cup At(S)
  BY <1>3, <1>4
<1> HIDE DEF S
<1>6. map' = [d \in V |-> IF d \in R \/ d \in S THEN Unmapped ELSE map[d]]
  BY <1>3, <1>4, Zenon
<1>7. stale' \in [end: 0..NV, start: {"none", "zero", "odd", "invalid"}]
  BY <1>3, VmAssumption DEF NoStale
<1>8. bare' = bare \ (R \cup S) /\ dropped' = dropped \cup {d \in R \cup S : map[d] # Unmapped /\ d \notin bare}
  BY <1>3, <1>4
<1>9. QED
  BY <1>2, <1>3, <1>5, <1>6, <1>7, <1>8, LossStep

LEMMA CreatesStep ==
  ASSUME Inv, NEW a \in V, NEW n \in 1..NV, NEW f \in Flags, Creates(a, n, f)
  PROVE  Inv' /\ status = "run" /\ status' = "run" /\ stale' = stale
<1>0. /\ a \in Nat /\ n \in Nat \ {0} /\ a + n <= NV /\ n <= Cardinality(free) /\ Vacant(a, a + n - 1)
      /\ status = "run"
  BY VmAssumption DEF Creates, Creatable, V
<1>1. CASE live # Id /\ Mapping(a, Pages(n), f, Nth(Id \ live, 1))
  <2> DEFINE S == Id \ live
  <2>1. S \in SUBSET Nat /\ S \in SUBSET Id /\ S # {}
    <3>1. live \in SUBSET Id
      BY DEF Inv, TypeOK
    <3>2. S # {} /\ S \in SUBSET Id
      BY <1>1, <3>1
    <3>3. Id \in SUBSET Nat
      BY DEF Id
    <3>4. QED
      BY <3>2, <3>3
  <2>2. IsFiniteSet(S)
    <3>1. 1 \in Int /\ NIds \in Int
      BY VmAssumption
    <3>2. IsFiniteSet(Id)
      BY <3>1, FS_Interval DEF Id
    <3>3. QED
      BY <2>1, <3>2, FS_Subset
  <2> HIDE DEF S
  <2>3. 1 \in 1..Cardinality(S)
    BY <2>1, <2>2, FS_CardinalityType, FS_EmptySet
  <2>4. Nth(S, 1) \in S
    BY <2>1, <2>2, <2>3, NthOf
  <2>5. Nth(Id \ live, 1) \in (Id \ live) \cup {None}
    BY <2>4 DEF S
  <2>6. Inv'
    BY <1>0, <1>1, <2>5, MappingStep
  <2>7. status' = status /\ stale' = stale
    BY <1>1 DEF Mapping
  <2>8. QED
    BY <1>0, <2>6, <2>7
<1>2. CASE Mapping(a, Pages(n), f, None)
  <2>1. Inv'
    BY <1>0, <1>2, MappingStep
  <2>2. status' = status /\ stale' = stale
    BY <1>2 DEF Mapping
  <2>3. QED
    BY <1>0, <2>1, <2>2
<1>3. QED
  BY <1>1, <1>2, Zenon DEF Creates

LEMMA CreateFailsStep ==
  ASSUME Inv, NEW a \in V, NEW n \in 1..NV, CreateFails(a, n)
  PROVE  /\ Inv' /\ area' = area /\ live' = live
         /\ status = "run"
         /\ \/ status' = "dangling" /\ stale'.end = a + n
            \/ status' = "run" /\ stale' = stale
<1>0. a \in Nat /\ n \in Nat \ {0} /\ a + n <= NV /\ Vacant(a, a + n - 1) /\ status = "run"
  BY VmAssumption DEF CreateFails, Creatable, V
<1>1. PICK b \in a..(a + n - 1), vma \in BOOLEAN : MappingFails(a, n, b, vma)
  BY DEF CreateFails
<1>2. Inv'
  BY <1>0, <1>1, FailingStep
<1>3. area' = area /\ live' = live
  BY <1>1 DEF MappingFails
<1>4. \/ status' = "dangling" /\ stale'.end = a + n
      \/ status' = status /\ stale' = stale
  BY <1>1 DEF MappingFails
<1>5. QED
  BY <1>0, <1>2, <1>3, <1>4

-----------------------------------------------------------------------------
LEMMA DestroyStep ==
  ASSUME Inv, Walks = FALSE, mm_destroy
  PROVE  Inv' /\ status = "run" /\ status' = "none" /\ stale' = stale
<1> DEFINE R == {}
           S == V
<1>0. TypeOK /\ Order(area, list) /\ Linked /\ Agree(area, live, map, bare, dropped) /\ PageState(map, free, gone)
  BY DEF Inv
<1>1. /\ list = << >> /\ status = "run" /\ status' = "none" /\ gone' = gone \cup At(V) /\ bare' = {} /\ dropped' = {}
      /\ map' = [a \in V |-> Unmapped]
      /\ UNCHANGED <<area, live, list, stale, cache, free>>
  BY DEF mm_destroy
<1>2. live = {}
  BY <1>0, <1>1 DEF Linked, Range
<1>3. Disjoint(R, S)
  BY DEF Disjoint
<1>4. map' = Dropped(map, R \cup S)
  <2>1. \A a \in V : a \in R \cup S
    OBVIOUS
  <2> HIDE DEF R, S
  <2>2. QED
    BY <1>1, <2>1, Zenon DEF Dropped
<1>5. free' = free \cup PagesAt(map, R) /\ gone' = gone \cup PagesAt(map, S)
  BY <1>1 DEF PagesAt, At
<1> HIDE DEF R, S
<1>6. PageState(Dropped(map, R \cup S), free \cup PagesAt(map, R), gone \cup PagesAt(map, S))
  BY <1>0, <1>3, DropPages
<1>7. PageState(map', free', gone')
  BY <1>4, <1>5, <1>6
<1>8. Agree(area', live', map', bare', dropped')
  <2>1. \A a \in V : map'[a].page = None
    BY <1>1 DEF Unmapped
  <2>2. live' = {} /\ bare' = {} /\ dropped' = {}
    BY <1>1, <1>2
  <2>3. QED
    BY <2>1, <2>2 DEF Agree
<1>9. TypeOK' /\ Linked' /\ Order(area', list')
  BY <1>0, <1>1 DEF TypeOK, Linked
<1>10. QED
  BY <1>1, <1>7, <1>8, <1>9 DEF Inv

(* Only a failed mapping leaves a freed area in the list. *)
Status ==
  /\ status \in {"none", "run", "dangling", "twice", "assert"}
  /\ status \in {"none", "run", "twice"} => stale = NoStale

LEMMA InitInv == Init => Inv /\ Status
<1> SUFFICES ASSUME Init PROVE Inv /\ Status
  OBVIOUS
<1> USE DEF Init
<1>1. TypeOK
  <2>1. Blank \in Area
    BY VmAssumption DEF Blank, Area, Flags
  <2>2. area \in [Id -> Area]
    BY <2>1, Zenon
  <2>3. stale \in [end: 0..NV, start: {"none", "zero", "odd", "invalid"}]
    BY VmAssumption DEF NoStale
  <2>4. QED
    BY <2>2, <2>3 DEF TypeOK
<1>2. Order(area, list) /\ Linked
  BY DEF Order, Linked, Range
<1>3. \A a \in V : map[a] = Unmapped /\ map[a].page = None
  BY DEF Unmapped
<1>4. Agree(area, live, map, bare, dropped)
  BY <1>3 DEF Agree
<1>5. PageState(map, free, gone)
  <2>1. map \in [V -> Cell]
    <3>1. Unmapped \in Cell
      BY DEF Cell
    <3>2. QED
      BY <3>1, Zenon
  <2>2. None \notin Page
    BY DEF None, Page
  <2>3. Owned(map, free, gone)
    BY <1>3, <2>2 DEF Owned
  <2>4. QED
    BY <2>1, <2>3 DEF PageState
<1>6. QED
  BY <1>1, <1>2, <1>4, <1>5 DEF Inv, Status

LEMMA DestroyUvmStep ==
  ASSUME Walks = FALSE, Inv, Status, NEW a, NEW above, mm_destroy_uvm(a, above)
  PROVE  /\ Inv'
         /\ \/ status' = "assert"
            \/ status' = "twice" /\ stale' = NoStale
            \/ status' = status /\ stale' = stale
<1>0. TypeOK /\ Linked /\ Order(area, list)
  BY DEF Inv
<1> DEFINE found == vm_area_find(cache, a)
           k == found.vma
<1>1. CASE /\ status' = "assert"
           /\ UNCHANGED <<area, live, list, stale, cache, map, free, bare, dropped, gone>>
  BY <1>1 DEF Inv, TypeOK, Linked
<1>2. CASE UnmapStale
  <2>1. status' = "twice" /\ stale' = NoStale
    BY <1>2 DEF UnmapStale
  <2>2. QED
    BY <1>2, <2>1, StaleStep
<1>3. CASE UNCHANGED vars
  BY <1>3 DEF vars, Inv, TypeOK, Linked
<1>4. CASE k # None /\ unmap_from(found.cache, area[k].start, area[k].end)
  <2>3. cache \in live \cup {None}
    BY <1>0 DEF Linked
  <2>4. k \in live /\ found.cache = k
    BY <1>0, <1>4, <2>3, FindSound
  <2> HIDE DEF k, found
  <2>5. /\ area[k].start \in Nat /\ area[k].end \in Nat /\ area[k].start < area[k].end
        /\ area[k].end <= NV
    BY <1>0, <2>4, LiveAreas, VmAssumption
  <2>6. Inv' /\ status' = status /\ stale' = stale
    BY <1>4, <2>4, <2>5, UnmapFromStep
  <2>7. QED
    BY <2>6
<1>5. QED
  BY <1>1, <1>2, <1>3, <1>4, Zenon DEF mm_destroy_uvm

LEMMA NextInv ==
  ASSUME Walks = FALSE, Inv /\ Status, [Next]_vars
  PROVE  Inv' /\ Status'
<1>0. Inv /\ Status /\ TypeOK /\ Linked /\ Order(area, list)
  BY DEF Inv
<1>1. CASE mm_new
  <2>1. Inv'
    BY <1>0, <1>1 DEF mm_new, Inv, TypeOK, Linked
  <2>2. Status'
    BY <1>0, <1>1 DEF mm_new, Status
  <2>3. QED
    BY <2>1, <2>2
<1>2. CASE mm_destroy
  BY <1>0, <1>2, DestroyStep DEF Status
<1>3. CASE \E a \in V, n \in 1..NV : mm_create_uvm(a, n, FlagsAt(a))
  <2>1. PICK a \in V, n \in 1..NV : mm_create_uvm(a, n, FlagsAt(a))
    BY <1>3
  <2>2. FlagsAt(a) \in Flags
    BY DEF FlagsAt, Flags
  <2>3. CASE Creates(a, n, FlagsAt(a))
    BY <1>0, <2>2, <2>3, CreatesStep DEF Status
  <2>4. CASE CreateFails(a, n)
    BY <1>0, <2>4, CreateFailsStep DEF Status
  <2>5. QED
    BY <2>1, <2>3, <2>4 DEF mm_create_uvm
<1>4. CASE \E a \in V, n \in 1..NV : unmap_pages(a, n)
  <2>1. PICK a \in V, n \in 1..NV : unmap_pages(a, n)
    BY <1>4
  <2>2. a \in Nat /\ a + n \in Nat /\ a < a + n /\ a + n <= NV /\ unmap_from(cache, a, a + n)
    BY <2>1, VmAssumption DEF unmap_pages, V
  <2>3. cache \in live \cup {None}
    BY <1>0 DEF Linked
  <2>4. Inv' /\ status' = status /\ stale' = stale
    BY <1>0, <2>2, <2>3, UnmapFromStep
  <2>5. QED
    BY <1>0, <2>4 DEF Status
<1>5. CASE \E a \in V, above \in BOOLEAN : mm_destroy_uvm(a, above)
  <2>1. PICK a \in V, above \in BOOLEAN : mm_destroy_uvm(a, above)
    BY <1>5
  <2>2. QED
    BY <1>0, <2>1, DestroyUvmStep DEF Status
<1>6. CASE UNCHANGED vars
  BY <1>0, <1>6 DEF vars, Inv, Status, TypeOK, Linked
<1>7. QED
  BY <1>1, <1>2, <1>3, <1>4, <1>5, <1>6, Zenon DEF Next

-----------------------------------------------------------------------------
(* What the runs check follows from the invariant. *)
LEMMA InvImplies ==
  ASSUME Inv, Status
  PROVE  AreasOrdered /\ MapsMatchAreas /\ CacheLinked /\ PagesExact /\ WalksEnd
<1>0. TypeOK /\ Order(area, list) /\ Linked /\ Agree(area, live, map, bare, dropped) /\ PageState(map, free, gone)
  BY DEF Inv
<1>1. AreasOrdered
  BY <1>0 DEF AreasOrdered, Order, Linked
<1>2. \A a \in V : map[a] = Unmapped <=> map[a].page = None
  BY <1>0, CellIs DEF PageState
<1>3. MapsMatchAreas
  <2> SUFFICES ASSUME NEW a \in V
               PROVE  LET in == {k \in Range(list) : vm_area_fit(k, a)}
                      IN /\ map[a] # Unmapped <=> (in # {} /\ a \notin dropped) \/ a \in bare
                         /\ in = {} \/ a \notin bare
                         /\ a \notin dropped => \A k \in in : map[a].perm = page_perm(area[k].flags)
    BY DEF MapsMatchAreas
  <2> DEFINE in == {k \in Range(list) : vm_area_fit(k, a)}
  <2>1. \A k : k \in in <=> k \in live /\ Inside(area[k], a)
    BY <1>0 DEF Linked, vm_area_fit, Inside
  <2>2. /\ \A k \in live : Inside(area[k], a) =>
             /\ a \notin bare
             /\ IF a \in dropped THEN map[a].page = None
                ELSE map[a].page # None /\ map[a].perm = page_perm(area[k].flags)
        /\ map[a].page # None => a \in bare \/ \E k \in live : Inside(area[k], a)
        /\ a \in bare => map[a].page # None
    BY <1>0 DEF Agree, Shown
  <2> HIDE DEF in
  <2>3. /\ map[a] # Unmapped <=> (in # {} /\ a \notin dropped) \/ a \in bare
        /\ in = {} \/ a \notin bare
        /\ a \notin dropped => \A k \in in : map[a].perm = page_perm(area[k].flags)
    BY <1>2, <2>1, <2>2
  <2>4. QED
    BY <2>3 DEF in
<1>4. CacheLinked
  BY <1>0 DEF CacheLinked, Linked
<1>5. PagesExact
  <2>1. /\ free \in SUBSET Page /\ gone \in SUBSET Page
        /\ \A p \in Page : p \in free <=> p \notin gone /\ \A a \in V : map[a].page # p
        /\ \A a \in V : map[a].page \notin gone
        /\ \A a, b \in V : a # b /\ map[a].page # None => map[a].page # map[b].page
    BY <1>0 DEF PageState, Owned
  <2>2. \A p : p \in At(V) <=> p # None /\ \E a \in V : map[a].page = p
    BY DEF At
  <2>3. \A a \in V : map[a].page # None => map[a].page \in Page
    BY <1>0, CellIs DEF PageState
  <2>4. At(V) \in SUBSET Page /\ None \notin Page
    BY <2>2, <2>3 DEF None, Page
  <2>5. Page \ free = At(V) \cup gone
    BY <2>1, <2>2, <2>4
  <2>6. free \cap (At(V) \cup gone) = {} /\ At(V) \cap gone = {}
    BY <2>1, <2>2, <2>4
  <2>7. \A a, b \in V : a # b /\ map[a] # Unmapped => map[a].page # map[b].page
    BY <1>2, <2>1
  <2>8. QED
    BY <2>5, <2>6, <2>7 DEF PagesExact
<1>6. WalksEnd
  BY DEF WalksEnd, Status
<1>7. QED
  BY <1>1, <1>3, <1>4, <1>5, <1>6

LEMMA AlwaysInv ==
  ASSUME Walks = FALSE
  PROVE  Spec => [](AreasOrdered /\ MapsMatchAreas /\ CacheLinked /\ PagesExact /\ WalksEnd)
<1>1. (Inv /\ Status) /\ [Next]_vars => (Inv /\ Status)'
  BY NextInv
<1>2. Inv /\ Status => AreasOrdered /\ MapsMatchAreas /\ CacheLinked /\ PagesExact /\ WalksEnd
  BY InvImplies
<1>3. QED
  BY InitInv, <1>1, <1>2, PTL DEF Spec

(* While callers keep to regions inside one area or across two neighbours, *)
(* and destroy an mm only when it is empty, the area list stays ordered    *)
(* and disjoint and has every allocated structure, however mm_create_uvm   *)
(* and unmap_pages mix and whichever allocation fails in them.             *)
THEOREM AreaListStaysOrdered ==
  ASSUME Walks = FALSE
  PROVE  Spec => []AreasOrdered
<1>1. Spec => [](AreasOrdered /\ MapsMatchAreas /\ CacheLinked /\ PagesExact /\ WalksEnd)
  BY AlwaysInv
<1>2. QED
  BY <1>1, PTL

(* Under the same callers, the page table maps exactly the pages of the    *)
(* areas, with the permissions page_perm makes of the areas' flags, and    *)
(* those of mappings that got no area: splits and cuts by unmap_pages      *)
(* never leave a page mapped outside, or missing inside, an area.  Missing *)
(* inside an area are only the pages that a failed mapping dropped with    *)
(* its page middle directory, or unmapped through its freed area.          *)
THEOREM PageTableMatchesAreas ==
  ASSUME Walks = FALSE
  PROVE  Spec => []MapsMatchAreas
<1>1. Spec => [](AreasOrdered /\ MapsMatchAreas /\ CacheLinked /\ PagesExact /\ WalksEnd)
  BY AlwaysInv
<1>2. QED
  BY <1>1, PTL

(* Under the same callers, vma_last_accessed never outlives its area.      *)
THEOREM CacheNeverDangles ==
  ASSUME Walks = FALSE
  PROVE  Spec => []CacheLinked
<1>1. Spec => [](AreasOrdered /\ MapsMatchAreas /\ CacheLinked /\ PagesExact /\ WalksEnd)
  BY AlwaysInv
<1>2. QED
  BY <1>1, PTL

(* Under the same callers, every page is free, mapped at one address, or   *)
(* lost: mapped when mm_destroy or a failing mapping dropped the page      *)
(* directory above it, or a failing mapping without an area unmapped it.   *)
THEOREM PagesHaveOneOwner ==
  ASSUME Walks = FALSE
  PROVE  Spec => []PagesExact
<1>1. Spec => [](AreasOrdered /\ MapsMatchAreas /\ CacheLinked /\ PagesExact /\ WalksEnd)
  BY AlwaysInv
<1>2. QED
  BY <1>1, PTL

(* The loops of unmap_pages and mm_destroy that take their next area from  *)
(* a freed one are entered only by callers that unmap over more than two   *)
(* areas or destroy an mm that has areas.                                  *)
THEOREM WalksEndForCallers ==
  ASSUME Walks = FALSE
  PROVE  Spec => []WalksEnd
<1>1. Spec => [](AreasOrdered /\ MapsMatchAreas /\ CacheLinked /\ PagesExact /\ WalksEnd)
  BY AlwaysInv
<1>2. QED
  BY <1>1, PTL
=============================================================================
