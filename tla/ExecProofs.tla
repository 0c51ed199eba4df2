----------------------------- MODULE ExecProofs ------------------------------
(***************************************************************************)
(* Proofs about the start of a program, for any executables and arguments, *)
(* any address space and memory, and wherever memory runs out.             *)
(***************************************************************************)
EXTENDS Exec, VmAreaProofs

-----------------------------------------------------------------------------
(* Addresses and pages *)
LEMMA PageBounds ==
  ASSUME NEW a \in Int
  PROVE  /\ PageOf(a) \in Int /\ a % PG \in Int
         /\ PageOf(a) * PG <= a /\ a < PageOf(a) * PG + PG
         /\ a = PG * PageOf(a) + (a % PG)
         /\ a \in Nat => PageOf(a) \in Nat
<1>1. PG \in Nat \ {0}
  BY ExecAssumption
<1>2. /\ a \div PG \in Int /\ a % PG \in Int
      /\ (a \div PG) * PG <= a /\ a < (a \div PG) * PG + PG
  BY <1>1
<1>3. a = PG * (a \div PG) + (a % PG)
  BY <1>1
<1>4. a \in Nat => a \div PG \in Nat
  BY <1>1
<1>5. QED
  BY <1>2, <1>3, <1>4 DEF PageOf

LEMMA Multiples ==
  ASSUME NEW m \in Int, NEW n \in Int, m < n
  PROVE  m * PG + PG <= n * PG
<1>1. PG \in Nat \ {0}
  BY ExecAssumption
<1>2. (m + 1) * PG <= n * PG
  BY <1>1
<1>3. (m + 1) * PG = m * PG + PG /\ m * PG \in Int /\ n * PG \in Int
  BY <1>1
<1>4. QED
  BY <1>1, <1>2, <1>3

(* An address is in the page that begins at or before it and ends behind it. *)
LEMMA PageIs ==
  ASSUME NEW q \in Int, NEW a \in Int, q * PG <= a, a < q * PG + PG
  PROVE  PageOf(a) = q
<1>1. PG \in Nat \ {0} /\ q * PG \in Int
  BY ExecAssumption
<1> DEFINE p == PageOf(a)
<1>2. p \in Int /\ p * PG \in Int /\ p * PG <= a /\ a < p * PG + PG
  BY <1>1, PageBounds
<1> HIDE DEF p
<1>3. p < q => p * PG + PG <= q * PG
  BY <1>2, Multiples
<1>4. q < p => q * PG + PG <= p * PG
  BY <1>2, Multiples
<1>5. p = q
  BY <1>1, <1>2, <1>3, <1>4
<1>6. QED
  BY <1>5 DEF p

LEMMA PageOrder ==
  ASSUME NEW a \in Int, NEW b \in Int, a <= b
  PROVE  PageOf(a) <= PageOf(b)
<1>1. PG \in Nat \ {0}
  BY ExecAssumption
<1>2. \A x \in {a, b} : /\ PageOf(x) \in Int /\ PageOf(x) * PG \in Int
                        /\ PageOf(x) * PG <= x /\ x < PageOf(x) * PG + PG
  BY <1>1, PageBounds
<1>3. PageOf(b) < PageOf(a) => PageOf(b) * PG + PG <= PageOf(a) * PG
  BY <1>2, Multiples
<1>4. QED
  BY <1>1, <1>2, <1>3

LEMMA SpannedIs ==
  ASSUME NEW a \in Nat, NEW n \in Nat, NEW b \in a..(a + n - 1)
  PROVE  PageOf(b) \in Spanned(a, n)
<1>1. b \in Int /\ a + n - 1 \in Int /\ a <= b /\ b <= a + n - 1
  OBVIOUS
<1>2. PageOf(a) <= PageOf(b) /\ PageOf(b) <= PageOf(a + n - 1)
  BY <1>1, PageOrder
<1>3. PageOf(a) \in Int /\ PageOf(b) \in Int /\ PageOf(a + n - 1) \in Int
  BY <1>1, PageBounds
<1>4. QED
  BY <1>2, <1>3 DEF Spanned

(* The page above the program: all that is below t ends two pages before it. *)
LEMMA StackAbove ==
  ASSUME NEW t \in Nat
  PROVE  /\ Above(t) \in Nat /\ t <= Above(t)
         /\ PageOf(Above(t)) \in Nat \ {0} /\ Above(t) = PageOf(Above(t)) * PG
         /\ \A e \in 1..t : PageOf(e - 1) < PageOf(Above(t)) - 1
<1>1. PG \in Nat \ {0}
  BY ExecAssumption
<1> DEFINE q == PageOf(t + PG - 1)
<1>2. t + PG - 1 \in Nat
  BY <1>1
<1>3. q \in Nat /\ q * PG <= t + PG - 1 /\ t + PG - 1 < q * PG + PG
  BY <1>2, PageBounds
<1>4. Above(t) = q * PG + PG
  BY <1>1 DEF Above, PGROUNDUP, PageOf
<1> HIDE DEF q
<1>5. q * PG \in Nat /\ q * PG + PG = (q + 1) * PG
  BY <1>1, <1>3
<1>6. PageOf(q * PG + PG) = q + 1
  BY <1>1, <1>3, <1>5, PageIs
<1>7. t <= q * PG
  BY <1>1, <1>2, <1>3, <1>5
<1>8. ASSUME NEW e \in 1..t
      PROVE  PageOf(e - 1) < q
  <2>1. e - 1 \in Int /\ e - 1 < q * PG
    BY <1>5, <1>7
  <2> DEFINE p == PageOf(e - 1)
  <2>2. p \in Int /\ p * PG <= e - 1
    BY <2>1, PageBounds
  <2> HIDE DEF p
  <2>3. q < p => q * PG + PG <= p * PG
    BY <1>3, <2>2, Multiples
  <2>4. p * PG \in Int
    BY <1>1, <2>2
  <2>5. p # q
    BY <1>5, <2>1, <2>2, <2>4
  <2>6. p < q
    BY <1>1, <1>3, <1>5, <2>1, <2>2, <2>3, <2>4, <2>5
  <2>7. QED
    BY <2>6 DEF p
<1>9. QED
  BY <1>1, <1>3, <1>4, <1>5, <1>6, <1>7, <1>8

-----------------------------------------------------------------------------
(* The contents of pages: M is a page table, W what was copied. *)
MappedIn(M, p) == p \in V /\ M[p].page # None

Place(M, a) == <<M[PageOf(a)].page, a % PG>>

(* The word at address a is v. *)
Holds(M, W, a, v) ==
  MappedIn(M, PageOf(a)) /\ Place(M, a) \in DOMAIN W /\ W[Place(M, a)] = v

(* No two addresses share a word, since no two share a page. *)
LEMMA PlacesDiffer ==
  ASSUME PageState(map, free, gone), NEW b \in Int, NEW c \in Int, b # c,
         MappedIn(map, PageOf(b)), MappedIn(map, PageOf(c))
  PROVE  Place(map, b) # Place(map, c)
<1>1. CASE PageOf(b) = PageOf(c)
  <2>1. b = PG * PageOf(b) + (b % PG) /\ c = PG * PageOf(c) + (c % PG)
    BY PageBounds
  <2>2. b % PG # c % PG
    BY <1>1, <2>1
  <2>3. QED
    BY <2>2 DEF Place
<1>2. CASE PageOf(b) # PageOf(c)
  <2>1. map[PageOf(b)].page # map[PageOf(c)].page
    BY <1>2 DEF PageState, Owned, MappedIn
  <2>2. QED
    BY <2>1 DEF Place
<1>3. QED
  BY <1>1, <1>2

LEMMA AbsentIs ==
  ASSUME PageState(map, free, gone), NEW p
  PROVE  Absent(p) <=> ~MappedIn(map, p)
BY CellIs DEF PageState, Absent, MappedIn

(* A copy that does not fail has put the words of the source in their      *)
(* places, and touched no others.                                          *)
LEMMA CopyIs ==
  ASSUME PageState(map, free, gone), NEW a \in Nat, NEW n \in Nat, ~CopyFails(a, n), NEW source
  PROVE  /\ \A b \in a..(a + n - 1) : Holds(map, Copied(a, n, source), b, Word(source, b - a))
         /\ \A c \in Int : \A v : Holds(map, word, c, v) /\ c \notin a..(a + n - 1)
                                    => Holds(map, Copied(a, n, source), c, v)
<1> DEFINE R == Reached(a, n)
           at == {Phys(b) : b \in R}
           W == [x \in at \cup DOMAIN word |->
                   IF x \in at THEN Word(source, Offset(a, CHOOSE b \in R : Phys(b) = x)) ELSE word[x]]
<1>1. {p \in Spanned(a, n) : Absent(p)} = {}
  BY DEF CopyFails
<1>2. R = a..(a + n - 1) /\ Copied(a, n, source) = W
  <2>1. Reached(a, n) = a..(a + n - 1)
    <3> DEFINE H == {p \in Spanned(a, n) : Absent(p)}
               to == IF H = {} THEN a + n ELSE Min(H) * PG
    <3>1. H = {}
      BY <1>1
    <3> HIDE DEF H
    <3>2. to = a + n
      BY <3>1
    <3>3. Reached(a, n) = a..(to - 1)
      BY DEF Reached, H
    <3> HIDE DEF to
    <3>4. QED
      BY <3>2, <3>3
  <2>2. Copied(a, n, source) = W
    BY DEF Copied
  <2>3. QED
    BY <2>1, <2>2
<1> HIDE DEF R
<1>3. \A b \in R : b \in Int /\ MappedIn(map, PageOf(b))
  <2> SUFFICES ASSUME NEW b \in R PROVE b \in Int /\ MappedIn(map, PageOf(b))
    OBVIOUS
  <2>1. PageOf(b) \in Spanned(a, n) /\ b \in Int
    BY <1>2, SpannedIs
  <2>2. ~Absent(PageOf(b))
    BY <1>1, <2>1
  <2>3. QED
    BY <2>1, <2>2, AbsentIs
<1>4. \A b : Phys(b) = Place(map, b)
  BY DEF Phys, Place
<1>5. \A x : x \in at <=> \E b \in R : Place(map, b) = x
  BY <1>4
<1>6. DOMAIN W = at \cup DOMAIN word
  OBVIOUS
<1>7. \A b \in R : W[Place(map, b)] = Word(source, b - a)
  <2> TAKE b \in R
  <2> DEFINE x == Place(map, b)
             e == CHOOSE d \in R : Phys(d) = x
  <2>1. e \in R /\ Place(map, e) = x
    BY <1>4
  <2>2. e = b
    BY <1>3, <2>1, PlacesDiffer
  <2>3. x \in at
    BY <1>5
  <2>4. W[x] = Word(source, Offset(a, e))
    BY <2>3
  <2>5. QED
    BY <2>2, <2>4 DEF Offset
<1>8. \A x \in DOMAIN word : x \notin at => W[x] = word[x]
  OBVIOUS
<1> HIDE DEF W
<1>9. \A b \in R : Holds(map, W, b, Word(source, b - a))
  <2> HIDE DEF at
  <2>1. QED
    BY <1>3, <1>5, <1>6, <1>7 DEF Holds
<1>10. ASSUME NEW c \in Int, NEW v, Holds(map, word, c, v), c \notin R
       PROVE  Holds(map, W, c, v)
  <2> HIDE DEF at, R
  <2>1. MappedIn(map, PageOf(c)) /\ Place(map, c) \in DOMAIN word /\ word[Place(map, c)] = v
    BY <1>10 DEF Holds
  <2>2. Place(map, c) \notin at
    BY <1>3, <1>5, <1>10, <2>1, PlacesDiffer
  <2>3. QED
    BY <1>6, <1>8, <2>1, <2>2 DEF Holds
<1>11. QED
  BY <1>2, <1>9, <1>10

(* The same of one word. *)
LEMMA PutIs ==
  ASSUME PageState(map, free, gone), NEW a \in Int, MappedIn(map, PageOf(a)), NEW w, NEW u, NEW W,
         DOMAIN W = {Phys(a)} \cup DOMAIN w, W[Phys(a)] = u,
         \A x \in DOMAIN w : x # Phys(a) => W[x] = w[x]
  PROVE  /\ Holds(map, W, a, u)
         /\ \A c \in Int : \A v : Holds(map, w, c, v) /\ c # a => Holds(map, W, c, v)
<1>1. Phys(a) = Place(map, a)
  BY DEF Phys, Place
<1>2. /\ DOMAIN W = {Place(map, a)} \cup DOMAIN w
      /\ W[Place(map, a)] = u
      /\ \A x \in DOMAIN w : x # Place(map, a) => W[x] = w[x]
  BY <1>1
<1>3. Holds(map, W, a, u)
  BY <1>2 DEF Holds
<1>4. ASSUME NEW c \in Int, NEW v, Holds(map, w, c, v), c # a
      PROVE  Holds(map, W, c, v)
  <2>1. MappedIn(map, PageOf(c)) /\ Place(map, c) \in DOMAIN w /\ w[Place(map, c)] = v
    BY <1>4 DEF Holds
  <2>2. Place(map, c) # Place(map, a)
    BY <1>4, <2>1, PlacesDiffer
  <2>3. QED
    BY <1>2, <2>1, <2>2 DEF Holds
<1>5. QED
  BY <1>3, <1>4
-----------------------------------------------------------------------------
(* The calls of VmArea that the loader makes *)

(* A page that is mapped without an area was the last one free. *)
BareLast(B, F) == B # {} => F = {}

LEMMA FreeSet ==
  ASSUME PageState(map, free, gone)
  PROVE  free \in SUBSET Nat /\ IsFiniteSet(free) /\ Cardinality(free) \in Nat
<1>1. free \in SUBSET Page /\ Page \in SUBSET Nat
  BY VmAssumption DEF PageState, Page
<1>2. 1 \in Int /\ NPages \in Int
  BY VmAssumption
<1>3. IsFiniteSet(Page)
  BY <1>2, FS_Interval DEF Page
<1>4. IsFiniteSet(free)
  BY <1>1, <1>3, FS_Subset
<1>5. QED
  BY <1>1, <1>4, FS_CardinalityType

(* alloc_pages for as many pages as are free returns all of them. *)
LEMMA AllPages ==
  ASSUME PageState(map, free, gone), NEW n \in Nat, n = Cardinality(free)
  PROVE  free \subseteq Range(Pages(n))
<1> DEFINE g == [j \in 1..n |-> Pages(n)[j]]
<1>1. /\ \A j \in 1..n : Pages(n)[j] \in free
      /\ \A j, k \in 1..n : Pages(n)[j] = Pages(n)[k] => j = k
      /\ Range(Pages(n)) = {Pages(n)[j] : j \in 1..n}
  BY FreeSet, PagesAreFree
<1>2. g \in Injection(1..n, free)
  BY <1>1 DEF Injection, IsInjective
<1>3. IsFiniteSet(1..n) /\ Cardinality(1..n) = n
  <2>1. 1 \in Int /\ n \in Int
    OBVIOUS
  <2>2. IsFiniteSet(1..n) /\ Cardinality(1..n) = IF 1 > n THEN 0 ELSE n - 1 + 1
    BY <2>1, FS_Interval
  <2>3. QED
    BY <2>2
<1>4. IsFiniteSet(free)
  BY FreeSet
<1> HIDE DEF g
<1>5. g \in Surjection(1..n, free)
  BY <1>2, <1>3, <1>4, FS_Injection
<1>6. \A p \in free : \E j \in 1..n : g[j] = p
  BY <1>5 DEF Surjection
<1>7. QED
  BY <1>1, <1>6 DEF g

(* What mm_create_uvm does for a loader: a is the first page, n their number. *)
Created(a, n, f) ==
  /\ bare = {} /\ a \in Nat /\ n \in Nat \ {0} /\ a # 0 /\ a + n <= NV
  /\ \A d \in Region(a, n) : d \in V /\ map[d].page = None
  /\ \A d \in V : IF d \in Region(a, n) THEN map'[d].page # None /\ map'[d].perm = page_perm(f)
                  ELSE map'[d] = map[d]
  /\ \A x \in live' : (x \in live /\ area'[x] = area[x]) \/ area'[x].start = a
  /\ BareLast(bare', free')

LEMMA CreateEffect ==
  ASSUME Inv, NEW a \in Nat, NEW n \in Nat \ {0}, NEW f \in Flags, Creates(a, n, f),
         BareLast(bare, free)
  PROVE  Created(a, n, f)
<1>0. TypeOK /\ Order(area, list) /\ Linked /\ Agree(area, live, map, bare, dropped) /\ PageState(map, free, gone)
  BY DEF Inv
<1>1. a # 0 /\ a + n <= NV /\ n <= Cardinality(free) /\ Vacant(a, a + n - 1)
  BY DEF Creates, Creatable
<1>2. bare = {}
  <2>1. free # {}
    BY <1>0, <1>1, FreeSet, FS_EmptySet
  <2>2. QED
    BY <2>1 DEF BareLast
<1>3. Region(a, n) \in SUBSET V /\ \A x \in live : \A d \in Region(a, n) : ~Inside(area[x], d)
  BY <1>0, <1>1, RegionIs, VacantRegion
<1>4. \A d \in Region(a, n) : d \in V /\ map[d].page = None
  BY <1>0, <1>2, <1>3 DEF Agree
<1>5. PICK k \in (Id \ live) \cup {None} :
        /\ Mapping(a, Pages(n), f, k)
        /\ k = None => n = Cardinality(free)
  <2>1. CASE live # Id /\ Mapping(a, Pages(n), f, Nth(Id \ live, 1))
    <3> DEFINE S == Id \ live
    <3>1. S \in SUBSET Nat /\ S # {} /\ IsFiniteSet(Id) /\ S \in SUBSET Id
      <4>1. live \in SUBSET Id /\ Id \in SUBSET Nat
        BY <1>0, VmAssumption DEF TypeOK, Id
      <4>2. 1 \in Int /\ NIds \in Int
        BY VmAssumption
      <4>3. IsFiniteSet(Id)
        BY <4>2, FS_Interval DEF Id
      <4>4. QED
        BY <2>1, <4>1, <4>3
    <3> HIDE DEF S
    <3>2. IsFiniteSet(S)
      BY <3>1, FS_Subset
    <3>3. 1 \in 1..Cardinality(S)
      BY <3>1, <3>2, FS_CardinalityType, FS_EmptySet
    <3>4. Nth(S, 1) \in S
      BY <3>1, <3>2, <3>3, NthOf
    <3>5. Nth(Id \ live, 1) \in Id \ live /\ None \notin Id
      BY <3>4 DEF S, None, Id
    <3>6. QED
      BY <2>1, <3>5
  <2>2. CASE OutOfMemory("map", n) /\ Mapping(a, Pages(n), f, None)
    BY <2>2 DEF OutOfMemory
  <2>3. QED
    BY <2>1, <2>2, Zenon DEF Creates
<1>6. \A d \in V : IF d \in Region(a, n) THEN map'[d].page # None /\ map'[d].perm = page_perm(f)
                   ELSE map'[d] = map[d]
  BY <1>0, <1>1, <1>5, MapStep
<1>7. Len(Pages(n)) = n /\ a..(a + Len(Pages(n)) - 1) = Region(a, n)
  BY <1>0, <1>1, PagesAreFree DEF Region
<1>8. \A x \in live' : (x \in live /\ area'[x] = area[x]) \/ area'[x].start = a
  <2>1. live' = live \cup ({k} \ {None})
    BY <1>5 DEF Mapping
  <2>2. CASE k = None
    <3>1. area' = area /\ live' = live
      BY <1>5, <2>1, <2>2 DEF Mapping
    <3>2. QED
      BY <3>1
  <2>3. CASE k # None
    <3>1. area' = [area EXCEPT ![k] = [start |-> a, end |-> a + Len(Pages(n)), flags |-> f]]
      BY <1>5, <2>3 DEF Mapping
    <3>2. k \in Id \ live /\ area \in [Id -> Area] /\ live \in SUBSET Id
      BY <1>0, <1>5, <2>3 DEF TypeOK
    <3>3. \A x \in live : area'[x] = area[x]
      BY <3>1, <3>2
    <3>4. area'[k].start = a
      BY <3>1, <3>2
    <3>5. QED
      BY <2>1, <3>3, <3>4
  <2>4. QED
    BY <2>2, <2>3
<1>9. BareLast(bare', free')
  <2>1. CASE k = None
    <3>1. free' = (free \ Range(Pages(n))) \cup At(Region(a, n))
      BY <1>5, <1>7 DEF Mapping
    <3>2. At(Region(a, n)) = {}
      BY <1>4 DEF At
    <3>3. free \subseteq Range(Pages(n))
      BY <1>0, <1>5, <2>1, AllPages
    <3>4. free' = {}
      BY <3>1, <3>2, <3>3
    <3>5. QED
      BY <3>4 DEF BareLast
  <2>2. CASE k # None
    <3>1. bare' = {}
      BY <1>2, <1>5, <2>2 DEF Mapping
    <3>2. QED
      BY <3>1 DEF BareLast
  <2>3. QED
    BY <2>1, <2>2
<1>10. QED
  BY <1>1, <1>2, <1>4, <1>6, <1>8, <1>9 DEF Created

(* vm_area_find finds the area of an address if there is one. *)
LEMMA FindComplete ==
  ASSUME TypeOK, Linked, NEW c \in live \cup {None}, NEW a, NEW k \in live, Inside(area[k], a)
  PROVE  vm_area_find(c, a).vma # None
<1> DEFINE fit == {j \in DOMAIN list : vm_area_fit(list[j], a)}
<1>1. list \in Seq(Id) /\ Range(list) = live /\ None \notin Id /\ live \in SUBSET Id
  BY DEF TypeOK, Linked, None, Id
<1>2. fit \in SUBSET Nat /\ fit # {}
  <2>1. PICK j \in DOMAIN list : list[j] = k
    BY <1>1 DEF Range
  <2>2. j \in fit
    BY <2>1 DEF vm_area_fit, Inside
  <2>3. DOMAIN list \in SUBSET Nat
    BY <1>1
  <2>4. QED
    BY <2>2, <2>3
<1>3. CASE c # None /\ vm_area_fit(c, a)
  BY <1>3 DEF vm_area_find
<1>4. CASE ~(c # None /\ vm_area_fit(c, a))
  <2>1. Min(fit) \in fit
    BY <1>2, MinOf
  <2>2. list[Min(fit)] # None
    BY <1>1, <2>1
  <2>3. vm_area_find(c, a).vma = list[Min(fit)]
    BY <1>2, <1>4 DEF vm_area_find
  <2>4. QED
    BY <2>2, <2>3
<1>5. QED
  BY <1>3, <1>4

(* mm_destroy_uvm of the whole area of an address, which needs no          *)
(* allocation: no area with that address is left.  The freed area of a     *)
(* failed mapping stops the kernel, goes, or is not for this address.      *)
Emptied(a) ==
  \A x \in live' : x \in live /\ area'[x] = area[x] /\ ~Inside(area[x], PageOf(a))

NotStale(a) ==
  status = "dangling" /\ (\A x \in live : ~Inside(area[x], PageOf(a)))
    => ~(0 < PageOf(a) /\ PageOf(a) < stale.end)

LEMMA StaleGoes ==
  ASSUME Inv, NEW a \in Int, StaleReached(PageOf(a)), NEW above, StaleFits(PageOf(a), above), UnmapStale
  PROVE  Emptied(a)
<1>0. TypeOK /\ Order(area, list) /\ Linked
  BY DEF Inv
<1>1. area' = area /\ live' = live
  BY DEF UnmapStale
<1>2. PageOf(a) \in Int /\ stale.end \in Int /\ PageOf(a) < stale.end
  BY <1>0, PageBounds DEF StaleFits, TypeOK
<1>3. ASSUME NEW x \in live, Inside(area[x], PageOf(a)) PROVE FALSE
  <2>1. x \in Range(list) /\ vm_area_fit(x, PageOf(a))
    BY <1>0, <1>3 DEF Linked, vm_area_fit, Inside
  <2>2. stale.end <= area[x].start
    BY <2>1 DEF StaleReached
  <2>3. area[x].start \in Int /\ area[x].start <= PageOf(a)
    BY <1>0, <1>3, LiveAreas DEF Inside
  <2>4. QED
    BY <1>2, <2>2, <2>3
<1>4. QED
  BY <1>1, <1>3 DEF Emptied

(* The freed area is found if no other one has the address. *)
LEMMA StaleFound ==
  ASSUME Inv, NEW a \in Int, status = "dangling", \A x \in live : ~Inside(area[x], PageOf(a)),
         0 < PageOf(a), PageOf(a) < stale.end, NEW above
  PROVE  StaleReached(PageOf(a)) /\ StaleFits(PageOf(a), above)
<1>1. cache \in live \cup {None} /\ Range(list) = live
  BY DEF Inv, Linked
<1>2. \A x \in live : ~vm_area_fit(x, PageOf(a))
  BY DEF vm_area_fit, Inside
<1>3. StaleReached(PageOf(a))
  BY <1>1, <1>2 DEF StaleReached
<1>4. StaleFits(PageOf(a), above)
  BY DEF StaleFits
<1>5. QED
  BY <1>3, <1>4

LEMMA AreaGoes ==
  ASSUME Inv, Walks = FALSE, NEW a \in Int, NEW k, k = vm_area_find(cache, PageOf(a)).vma, k # None,
         unmap_from(vm_area_find(cache, PageOf(a)).cache, area[k].start, area[k].end)
  PROVE  Emptied(a)
<1> DEFINE found == vm_area_find(cache, PageOf(a))
<1>0. TypeOK /\ Order(area, list) /\ Linked
  BY DEF Inv
<1>1. cache \in live \cup {None}
  BY <1>0 DEF Linked
<1>2. k \in live /\ Inside(area[k], PageOf(a)) /\ found.cache = k
  BY <1>0, <1>1, FindSound
<1>3. unmap_from(k, area[k].start, area[k].end)
  BY <1>2
<1> HIDE DEF found
<1>4. /\ k \in Id /\ k # None
      /\ area[k].start \in Nat /\ area[k].end \in Nat /\ area[k].start < area[k].end
      /\ area[k].end <= NV
  BY <1>0, <1>2, LiveAreas, VmAssumption
<1>5. /\ vm_area_find(k, area[k].start) = [vma |-> k, cache |-> k]
      /\ vm_area_find(k, area[k].end - 1) = [vma |-> k, cache |-> k]
  <2>1. vm_area_fit(k, area[k].start) /\ vm_area_fit(k, area[k].end - 1)
    BY <1>4 DEF vm_area_fit
  <2>2. QED
    BY <1>4, <2>1 DEF vm_area_find
<1>6. UnmapInside(k, area[k].start, area[k].end, k)
  BY <1>3, <1>4, <1>5 DEF unmap_from
<1>7. Needed(k, area[k].start, area[k].end) = 0
  BY <1>4 DEF Needed
<1>8. /\ \A x \in Id : x # k => area'[x] = area[x]
      /\ live' = live \ {k}
  <2>1. /\ ~(area[k].start < area[k].start) /\ ~(area[k].end < area[k].end)
        /\ None \notin Id /\ ~(Needed(k, area[k].start, area[k].end) > 0)
    BY <1>4, <1>7 DEF None, Id
  <2> DEFINE A == [x \in Id |-> IF x = None THEN Rest(k, area[k].start, area[k].end)[1]
                                ELSE IF x = None THEN Rest(k, area[k].start, area[k].end)[2]
                                ELSE IF x = k THEN Blank ELSE area[x]]
  <2>2. area' = A /\ live' = (live \ {k}) \cup ({None, None} \ {None})
    BY <1>6, <2>1 DEF UnmapInside
  <2>3. QED
    BY <2>1, <2>2
<1>9. ASSUME NEW x \in live \ {k}
      PROVE  x \in Id /\ ~Inside(area[x], PageOf(a))
  <2>1. x \in Id /\ Apart(area, x, k) /\ area[x].start \in Int /\ area[x].end \in Int
    BY <1>0, <1>2, LiveAreas
  <2>2. ASSUME Inside(area[x], PageOf(a)) PROVE FALSE
    <3>1. area[x].start <= PageOf(a) /\ PageOf(a) < area[x].end
      BY <2>2 DEF Inside
    <3>2. area[k].start <= PageOf(a) /\ PageOf(a) < area[k].end
      BY <1>2 DEF Inside
    <3>3. PageOf(a) \in Int
      BY ExecAssumption DEF PageOf
    <3>4. QED
      BY <1>4, <2>1, <3>1, <3>2, <3>3 DEF Apart
  <2>3. QED
    BY <2>1, <2>2
<1>10. QED
  BY <1>8, <1>9 DEF Emptied

LEMMA DestroyEffect ==
  ASSUME Inv, Status, Walks = FALSE, NEW a \in Int, Destroy(a)
  PROVE  /\ Inv' /\ status # "assert"
         /\ \/ status = "dangling" /\ status' = "assert"
            \/ /\ Emptied(a)
               /\ \/ status = "dangling" /\ status' = "twice" /\ stale' = NoStale
                  \/ status' = status /\ stale' = stale /\ NotStale(a)
<1> DEFINE p == PageOf(a)
           found == vm_area_find(cache, p)
           k == found.vma
<1>0. TypeOK /\ Order(area, list) /\ Linked
  BY DEF Inv
<1>1. PICK above \in BOOLEAN : mm_destroy_uvm(p, above)
  BY DEF Destroy
<1>2. Inv' /\ status # "assert"
  BY <1>1, DestroyUvmStep DEF mm_destroy_uvm
<1>3. CASE StaleReached(p) /\ AssertFails(p, above)
  BY <1>1, <1>2, <1>3 DEF mm_destroy_uvm, StaleReached
<1>4. CASE StaleReached(p) /\ ~AssertFails(p, above) /\ StaleFits(p, above)
  <2>1. UnmapStale
    BY <1>1, <1>4 DEF mm_destroy_uvm
  <2>2. Emptied(a)
    BY <1>4, <2>1, StaleGoes
  <2>3. status = "dangling" /\ status' = "twice" /\ stale' = NoStale
    BY <1>4, <2>1 DEF UnmapStale, StaleReached
  <2>4. QED
    BY <1>2, <2>2, <2>3
<1>5. CASE ~(StaleReached(p) /\ AssertFails(p, above)) /\ ~(StaleReached(p) /\ StaleFits(p, above))
  <2>1. NotStale(a)
    BY <1>5, StaleFound DEF NotStale
  <2>2. CASE k = None
    <3>1. UNCHANGED vars
      BY <1>1, <1>5, <2>2 DEF mm_destroy_uvm
    <3>2. cache \in live \cup {None}
      BY <1>0 DEF Linked
    <3>3. \A x \in live : ~Inside(area[x], PageOf(a))
      BY <1>0, <2>2, <3>2, FindComplete
    <3>4. live' = live /\ area' = area /\ status' = status /\ stale' = stale
      BY <3>1 DEF vars
    <3>5. Emptied(a)
      BY <3>3, <3>4 DEF Emptied
    <3>6. QED
      BY <1>2, <2>1, <3>4, <3>5
  <2>3. CASE k # None
    <3>1. unmap_from(found.cache, area[k].start, area[k].end)
      BY <1>1, <1>5, <2>3 DEF mm_destroy_uvm
    <3>2. Emptied(a)
      BY <2>3, <3>1, AreaGoes
    <3>3. k \in live /\ found.cache = k
      <4>1. cache \in live \cup {None}
        BY <1>0 DEF Linked
      <4>2. QED
        BY <1>0, <2>3, <4>1, FindSound
    <3>4. /\ area[k].start \in Nat /\ area[k].end \in Nat /\ area[k].start < area[k].end
          /\ area[k].end <= NV
      BY <1>0, <3>3, LiveAreas, VmAssumption
    <3>5. status' = status /\ stale' = stale
      <4> HIDE DEF k, found
      <4>1. QED
        BY <3>1, <3>3, <3>4, UnmapFromStep
    <3>6. QED
      BY <1>2, <2>1, <3>2, <3>5
  <2>4. QED
    BY <2>2, <2>3
<1>6. QED
  BY <1>3, <1>4, <1>5
-----------------------------------------------------------------------------
(* What the loader has done after n headers.  M, A, L, B, F are the page   *)
(* table, the areas, those in use, the pages without an area and those     *)
(* that are free.                                                          *)
Headers == 1..Len(prog.ph)

(* Every page that is mapped is in one of the segments, *)
Covered(M, n) == \A a \in V : MappedIn(M, a) => \E k \in 1..n : Loads(k) /\ a \in SegPages(k)

(* they are mapped with their permissions, *)
Backed(M, n) ==
  \A k \in 1..n : Loads(k) =>
    \A a \in SegPages(k) : MappedIn(M, a) /\ M[a].perm = page_perm(elf_to_vmaflags(prog.ph[k].flags))

(* and have no page in common. *)
Separate(n) ==
  \A k, l \in 1..n : Loads(k) /\ Loads(l) /\ k # l => SegPages(k) \cap SegPages(l) = {}

(* Every area is that of one of the headers from m on. *)
AreasFrom(A, L, m) ==
  \A x \in L : \E k \in m..Len(prog.ph) : Loads(k) /\ A[x].start = PageOf(prog.ph[k].vaddr)

Segments(M, A, L, B, F, n) ==
  Covered(M, n) /\ Backed(M, n) /\ Separate(n) /\ AreasFrom(A, L, 1) /\ BareLast(B, F)

(* t is not below the end of any of them *)
Beyond(n, t) == \A k \in 1..n : prog.ph[k].vaddr + prog.ph[k].memsz <= t

(* The segments have the beginning of the file. *)
FileLoaded(M, W, n) ==
  FilesFit =>
    \A k \in 1..n : Loads(k) =>
      \A o \in 0..(prog.ph[k].filesz - 1) : Holds(M, W, prog.ph[k].vaddr + o, Word(File, o))

Phases == {"other", "start", "create", "copy", "unload", "ustack", "argv", "ready", "failed", "panic"}

LoadType ==
  /\ prog \in Programs /\ argv \in Argvs /\ phase \in Phases
  /\ i \in Nat \ {0} /\ progtop \in Nat /\ ustacktop \in Nat /\ sp \in Nat /\ strtop \in Nat
  /\ phase \in {"create", "copy", "unload"} => i \in Headers

LEMMA HeaderIs ==
  ASSUME prog \in Programs
  PROVE  /\ Len(prog.ph) \in Nat \ {0} /\ DOMAIN prog.ph = Headers
         /\ \A k \in Headers :
              /\ prog.ph[k].vaddr \in Nat /\ prog.ph[k].memsz \in Nat /\ prog.ph[k].filesz \in Nat
              /\ elf_to_vmaflags(prog.ph[k].flags) \in Flags /\ prog.ph[k].load \in BOOLEAN
              /\ prog.ph[k].load => prog.ph[k].vaddr > 0
<1>1. /\ prog.ph \in Seq(Header) /\ prog.ph # << >>
      /\ \A k \in DOMAIN prog.ph : prog.ph[k].load => prog.ph[k].vaddr > 0
  BY ExecAssumption
<1>2. Len(prog.ph) \in Nat \ {0} /\ DOMAIN prog.ph = Headers
  BY <1>1 DEF Headers
<1>3. \A k \in Headers : prog.ph[k] \in Header
  BY <1>1, <1>2
<1>4. QED
  BY <1>1, <1>2, <1>3 DEF Header, Flags, elf_to_vmaflags

(* The pages of a segment, as mm_create_uvm is asked for them *)
LEMMA SegRegion ==
  ASSUME prog \in Programs, NEW k \in Headers, Loads(k)
  PROVE  LET h == prog.ph[k]
             n == Cardinality(Spanned(h.vaddr, h.memsz))
         IN n \in Nat \ {0} /\ Region(PageOf(h.vaddr), n) = SegPages(k)
<1> DEFINE h == prog.ph[k]
           a == PageOf(h.vaddr)
           b == PageOf(h.vaddr + h.memsz - 1)
           n == Cardinality(Spanned(h.vaddr, h.memsz))
<1>1. h.vaddr \in Nat /\ h.memsz \in Nat /\ h.memsz > 0
  BY HeaderIs DEF Loads
<1>2. a \in Int /\ b \in Int /\ a <= b
  <2>1. h.vaddr \in Int /\ h.vaddr + h.memsz - 1 \in Int /\ h.vaddr <= h.vaddr + h.memsz - 1
    BY <1>1
  <2> HIDE DEF h
  <2>2. QED
    BY <2>1, PageBounds, PageOrder
<1>3. Spanned(h.vaddr, h.memsz) = a..b
  BY DEF Spanned
<1> HIDE DEF a, b
<1>4. Cardinality(a..b) = IF a > b THEN 0 ELSE b - a + 1
  BY <1>2, FS_Interval
<1>5. n = b - a + 1
  BY <1>2, <1>3, <1>4
<1>6. n \in Nat \ {0} /\ a..(a + n - 1) = a..b
  BY <1>2, <1>5
<1>7. SegPages(k) = a..b
  BY <1>3 DEF SegPages
<1>8. QED
  BY <1>6, <1>7 DEF Region, a

(* A header that is not loaded leaves things as they are. *)
LEMMA SegmentSkipped ==
  ASSUME prog \in Programs, NEW k \in Headers, ~Loads(k), NEW M, NEW A, NEW L, NEW B, NEW F,
         Segments(M, A, L, B, F, k - 1)
  PROVE  Segments(M, A, L, B, F, k)
<1>1. \A l \in 1..k : l # k => l \in 1..(k - 1)
  BY DEF Headers
<1>2. \A l \in 1..(k - 1) : l \in 1..k
  BY DEF Headers
<1>3. Covered(M, k)
  BY <1>2 DEF Segments, Covered
<1>4. Backed(M, k)
  BY <1>1 DEF Segments, Backed
<1>5. Separate(k)
  BY <1>1 DEF Segments, Separate
<1>6. QED
  BY <1>3, <1>4, <1>5 DEF Segments

(* The area of a header is created. *)
LEMMA SegmentCreated ==
  ASSUME prog \in Programs, NEW k \in Headers, Loads(k), Segments(map, area, live, bare, free, k - 1),
         Created(PageOf(prog.ph[k].vaddr),
                 Cardinality(Spanned(prog.ph[k].vaddr, prog.ph[k].memsz)),
                 elf_to_vmaflags(prog.ph[k].flags))
  PROVE  Segments(map', area', live', bare', free', k)
<1> DEFINE S == SegPages(k)
<1>1. /\ \A d \in S : d \in V /\ map[d].page = None
      /\ \A d \in V : IF d \in S THEN map'[d].page # None /\ map'[d].perm = page_perm(elf_to_vmaflags(prog.ph[k].flags))
                      ELSE map'[d] = map[d]
      /\ \A x \in live' : (x \in live /\ area'[x] = area[x]) \/ area'[x].start = PageOf(prog.ph[k].vaddr)
      /\ BareLast(bare', free')
  BY SegRegion DEF Created
<1>2. /\ Covered(map, k - 1) /\ Backed(map, k - 1) /\ Separate(k - 1) /\ AreasFrom(area, live, 1)
  BY DEF Segments
<1>3. /\ \A l \in 1..k : l # k => l \in 1..(k - 1)
      /\ \A l \in 1..(k - 1) : l \in 1..k
      /\ k \in 1..k
  BY DEF Headers
<1>4. \A l \in 1..(k - 1) : Loads(l) => \A a \in SegPages(l) : MappedIn(map, a) /\ a \notin S
  BY <1>1, <1>2 DEF Backed, MappedIn
<1>5. Covered(map', k)
  <2> SUFFICES ASSUME NEW a \in V, MappedIn(map', a)
               PROVE  \E l \in 1..k : Loads(l) /\ a \in SegPages(l)
    BY DEF Covered
  <2>1. CASE a \in S
    BY <1>3, <2>1
  <2>2. CASE a \notin S
    <3>1. MappedIn(map, a)
      BY <1>1, <2>2 DEF MappedIn
    <3>2. QED
      BY <1>2, <1>3, <3>1 DEF Covered
  <2>3. QED
    BY <2>1, <2>2
<1>6. Backed(map', k)
  <2> SUFFICES ASSUME NEW l \in 1..k, Loads(l), NEW a \in SegPages(l)
               PROVE  MappedIn(map', a) /\ map'[a].perm = page_perm(elf_to_vmaflags(prog.ph[l].flags))
    BY DEF Backed
  <2>1. CASE l = k
    BY <1>1, <2>1 DEF MappedIn
  <2>2. CASE l # k
    <3>1. l \in 1..(k - 1)
      BY <1>3, <2>2
    <3>2. MappedIn(map, a) /\ a \notin S /\ map[a].perm = page_perm(elf_to_vmaflags(prog.ph[l].flags))
      BY <1>2, <1>4, <3>1 DEF Backed
    <3>3. QED
      BY <1>1, <3>2 DEF MappedIn
  <2>3. QED
    BY <2>1, <2>2
<1>7. Separate(k)
  BY <1>2, <1>3, <1>4 DEF Separate
<1>8. AreasFrom(area', live', 1)
  <2>1. k \in 1..Len(prog.ph)
    BY DEF Headers
  <2>2. QED
    BY <1>1, <1>2, <2>1 DEF AreasFrom
<1>9. QED
  BY <1>1, <1>5, <1>6, <1>7, <1>8 DEF Segments

(* What has been copied before stays where it is. *)
LEMMA HoldsOn ==
  ASSUME NEW a, NEW n, NEW f, Created(a, n, f), NEW W, NEW c, NEW v, Holds(map, W, c, v)
  PROVE  Holds(map', W, c, v)
<1>1. PageOf(c) \in V /\ map[PageOf(c)].page # None
  BY DEF Holds, MappedIn
<1>2. map'[PageOf(c)] = map[PageOf(c)]
  BY <1>1 DEF Created
<1>3. QED
  BY <1>1, <1>2 DEF Holds, MappedIn, Place

LEMMA FileStays ==
  ASSUME NEW a, NEW n, NEW f, Created(a, n, f), NEW W, NEW m, FileLoaded(map, W, m)
  PROVE  FileLoaded(map', W, m)
BY HoldsOn DEF FileLoaded

(* The file's part of a segment is in the segment's pages. *)
LEMMA FileInside ==
  ASSUME FilesFit, prog \in Programs, NEW k \in Headers, Loads(k), NEW o \in 0..(prog.ph[k].filesz - 1)
  PROVE  prog.ph[k].vaddr + o \in Int /\ PageOf(prog.ph[k].vaddr + o) \in SegPages(k)
<1> DEFINE h == prog.ph[k]
<1>1. h.vaddr \in Nat /\ h.memsz \in Nat /\ h.filesz \in Nat /\ h.memsz # 0 /\ h.load
  BY HeaderIs DEF Loads
<1>2. Spanned(h.vaddr, h.filesz) \subseteq Spanned(h.vaddr, h.memsz)
  BY <1>1, HeaderIs DEF FilesFit
<1>3. o \in Int /\ h.vaddr + o \in h.vaddr..(h.vaddr + h.filesz - 1)
  BY <1>1
<1> HIDE DEF h
<1>4. PageOf(h.vaddr + o) \in Spanned(h.vaddr, h.filesz)
  BY <1>1, <1>3, SpannedIs
<1>5. QED
  BY <1>1, <1>2, <1>3, <1>4 DEF SegPages, h

(* The loader has nothing to copy for a header without an area: page 0 is  *)
(* not mapped, so a copy to it would fail.                                 *)
LEMMA NothingToCopy ==
  ASSUME FilesFit, PageState(map, free, gone), prog \in Programs, NEW k \in Headers,
         prog.ph[k].load, ~Loads(k), Covered(map, k), ~CopyFails(prog.ph[k].vaddr, prog.ph[k].filesz)
  PROVE  prog.ph[k].filesz = 0
<1> DEFINE a == prog.ph[k].vaddr
           n == prog.ph[k].filesz
<1>1. a \in Nat /\ n \in Nat /\ prog.ph[k].memsz \in Nat /\ k \in DOMAIN prog.ph
  BY HeaderIs
<1>2. CASE prog.ph[k].memsz = 0
  BY <1>1, <1>2 DEF FilesFit
<1>3. CASE prog.ph[k].memsz # 0
  <2>1. PageOf(a) \in Nat /\ ~(PageOf(a) > 0)
    BY <1>1, <1>3, PageBounds DEF Loads
  <2>2. PageOf(a) = 0
    BY <2>1
  <2>3. ASSUME n # 0 PROVE FALSE
    <3>1. a \in a..(a + n - 1)
      BY <1>1, <2>3
    <3> HIDE DEF a, n
    <3>2. 0 \in Spanned(a, n)
      BY <1>1, <2>2, <3>1, SpannedIs
    <3>3. MappedIn(map, 0)
      BY <3>2, AbsentIs DEF CopyFails, a, n
    <3>4. PICK l \in 1..k : Loads(l) /\ 0 \in SegPages(l)
      BY <3>3 DEF Covered, MappedIn
    <3>5. PageOf(prog.ph[l].vaddr) > 0 /\ PageOf(prog.ph[l].vaddr) <= 0
      BY <3>4 DEF Loads, SegPages, Spanned
    <3>6. l \in Headers
      BY <3>4, HeaderIs DEF Headers
    <3>7. PageOf(prog.ph[l].vaddr) \in Int
      <4>1. prog.ph[l].vaddr \in Int
        BY <3>6, HeaderIs
      <4>2. QED
        BY <4>1, PageBounds
    <3>8. QED
      BY <3>5, <3>7
  <2>4. QED
    BY <2>3
<1>4. QED
  BY <1>2, <1>3

(* copy_to_uvm to a segment leaves the others as they are. *)
LEMMA FileCopied ==
  ASSUME PageState(map, free, gone), prog \in Programs, NEW k \in Headers, prog.ph[k].load,
         Covered(map, k), Separate(k), FileLoaded(map, word, k - 1),
         ~CopyFails(prog.ph[k].vaddr, prog.ph[k].filesz)
  PROVE  FileLoaded(map, Copied(prog.ph[k].vaddr, prog.ph[k].filesz, File), k)
<1> DEFINE a == prog.ph[k].vaddr
           n == prog.ph[k].filesz
           W == Copied(a, n, File)
<1> SUFFICES ASSUME FilesFit, NEW l \in 1..k, Loads(l), NEW o \in 0..(prog.ph[l].filesz - 1)
             PROVE  Holds(map, W, prog.ph[l].vaddr + o, Word(File, o))
  BY DEF FileLoaded
<1>0. k \in Int /\ l \in Int /\ 1 <= l /\ l <= k /\ k <= Len(prog.ph) /\ l \in Headers
  BY HeaderIs DEF Headers
<1>1. a \in Nat /\ n \in Nat
  BY HeaderIs
<1> HIDE DEF a, n, W
<1>2. /\ \A b \in a..(a + n - 1) : Holds(map, W, b, Word(File, b - a))
      /\ \A c \in Int : \A v : Holds(map, word, c, v) /\ c \notin a..(a + n - 1) => Holds(map, W, c, v)
  BY <1>1, CopyIs DEF W, a, n
<1>3. CASE l = k
  <2>1. o \in Int /\ a + o \in a..(a + n - 1) /\ (a + o) - a = o
    BY <1>1, <1>3 DEF a, n
  <2>2. Holds(map, W, a + o, Word(File, (a + o) - a))
    BY <1>2, <2>1
  <2>3. QED
    BY <1>3, <2>1, <2>2 DEF a
<1>4. CASE l # k
  <2> DEFINE c == prog.ph[l].vaddr + o
  <2>1. l \in 1..(k - 1)
    BY <1>0, <1>4
  <2>2. Holds(map, word, c, Word(File, o))
    BY <2>1 DEF FileLoaded
  <2>3. c \in Int /\ PageOf(c) \in SegPages(l)
    BY <1>0, FileInside
  <2> HIDE DEF c
  <2>4. c \notin a..(a + n - 1)
    <3>1. CASE Loads(k)
      <4>1. SegPages(l) \cap SegPages(k) = {}
        BY <1>0, <1>4, <3>1 DEF Separate
      <4>2. ASSUME c \in a..(a + n - 1) PROVE PageOf(c) \in SegPages(k)
        <5>1. c - a \in 0..(n - 1) /\ a + (c - a) = c
          BY <1>1, <4>2
        <5>2. PageOf(a + (c - a)) \in SegPages(k)
          BY <3>1, <5>1, FileInside DEF a, n
        <5>3. QED
          BY <5>1, <5>2
      <4>3. QED
        BY <2>3, <4>1, <4>2
    <3>2. CASE ~Loads(k)
      <4>1. n = 0
        BY <3>2, NothingToCopy DEF n
      <4>2. QED
        BY <1>1, <4>1
    <3>3. QED
      BY <3>1, <3>2
  <2>5. Holds(map, W, c, Word(File, o))
    BY <1>2, <2>2, <2>3, <2>4
  <2>6. QED
    BY <2>5 DEF c
<1>5. QED
  BY <1>3, <1>4 DEF W

(* A header with nothing to load: what was copied stays. *)
LEMMA FileSkipped ==
  ASSUME prog \in Programs, NEW k \in Headers, ~Loads(k), NEW M, NEW W, FileLoaded(M, W, k - 1)
  PROVE  FileLoaded(M, W, k)
<1>1. \A l \in 1..k : l # k => l \in 1..(k - 1)
  BY DEF Headers
<1>2. QED
  BY <1>1 DEF FileLoaded

(* progtop after a header *)
LEMMA TopIs ==
  ASSUME prog \in Programs, i \in Headers, progtop \in Nat, Beyond(i - 1, progtop)
  PROVE  Top(progtop) \in Nat /\ Beyond(i, Top(progtop))
<1> DEFINE e == Seg.vaddr + Seg.memsz
<1>1. e \in Nat /\ Top(progtop) = IF progtop < e THEN e ELSE progtop
  BY HeaderIs DEF Seg, Top
<1>2. \A l \in 1..i : l # i => l \in 1..(i - 1)
  BY DEF Headers
<1>3. \A l \in 1..i : prog.ph[l].vaddr \in Nat /\ prog.ph[l].memsz \in Nat
  BY HeaderIs DEF Headers
<1> HIDE DEF e
<1>4. ASSUME NEW l \in 1..i
      PROVE  prog.ph[l].vaddr + prog.ph[l].memsz <= Top(progtop)
  <2>1. CASE l = i
    BY <1>1, <2>1 DEF e, Seg
  <2>2. CASE l # i
    <3>1. prog.ph[l].vaddr + prog.ph[l].memsz <= progtop
      BY <1>2, <2>2 DEF Beyond
    <3>2. QED
      BY <1>1, <1>3, <3>1
  <2>3. QED
    BY <2>1, <2>2
<1>5. QED
  BY <1>1, <1>4 DEF Beyond
-----------------------------------------------------------------------------
(* The stack: one page, two above the last one of the program.  T, Z and S *)
(* are progtop, sp and where the next argument goes.                       *)
AboveProgram(T) == \E t \in 0..T : T = Above(t) /\ Beyond(Len(prog.ph), t)

Stack(M, T, Z) ==
  /\ AboveProgram(T) /\ Z = T + USTACK
  /\ MappedIn(M, PageOf(T)) /\ M[PageOf(T)].perm = page_perm(USTACK_PERM)
  /\ \A a \in V : MappedIn(M, a) => a = PageOf(T) \/ \E k \in Headers : Loads(k) /\ a \in SegPages(k)
  /\ Backed(M, Len(prog.ph))

LEMMA Gap ==
  ASSUME prog \in Programs, NEW T \in Nat, AboveProgram(T)
  PROVE  /\ PageOf(T) \in Nat \ {0} /\ T = PageOf(T) * PG
         /\ \A k \in Headers : Loads(k) => \A a \in SegPages(k) : a \in Int /\ a < PageOf(T) - 1
<1>1. PICK t \in 0..T : T = Above(t) /\ Beyond(Len(prog.ph), t)
  BY DEF AboveProgram
<1>2. t \in Nat
  BY <1>1
<1>3. /\ PageOf(T) \in Nat \ {0} /\ T = PageOf(T) * PG
      /\ \A e \in 1..t : PageOf(e - 1) < PageOf(T) - 1
  BY <1>1, <1>2, StackAbove
<1>4. ASSUME NEW k \in Headers, Loads(k), NEW a \in SegPages(k)
      PROVE  a \in Int /\ a < PageOf(T) - 1
  <2> DEFINE e == prog.ph[k].vaddr + prog.ph[k].memsz
  <2>1. e \in 1..t
    <3>1. prog.ph[k].vaddr \in Nat /\ prog.ph[k].memsz \in Nat /\ prog.ph[k].memsz > 0
      BY <1>4, HeaderIs DEF Loads
    <3>2. e <= t
      BY <1>1 DEF Beyond, Headers
    <3>3. QED
      BY <3>1, <3>2
  <2>2. a \in Int /\ a <= PageOf(e - 1)
    <3>0. prog.ph[k].vaddr \in Int /\ prog.ph[k].memsz \in Int
      BY HeaderIs
    <3>1. e - 1 \in Int
      BY <3>0
    <3>2. PageOf(prog.ph[k].vaddr) \in Int /\ PageOf(e - 1) \in Int
      BY <3>0, <3>1, PageBounds
    <3>3. SegPages(k) = PageOf(prog.ph[k].vaddr)..PageOf(e - 1)
      <4>1. prog.ph[k].vaddr + prog.ph[k].memsz - 1 = e - 1
        BY <3>0
      <4>2. QED
        BY <4>1 DEF SegPages, Spanned
    <3> HIDE DEF e
    <3>4. QED
      BY <3>2, <3>3
  <2> HIDE DEF e
  <2>3. PageOf(e - 1) < PageOf(T) - 1 /\ PageOf(e - 1) \in Int
    BY <1>3, <2>1, PageBounds
  <2>4. QED
    BY <1>3, <2>2, <2>3
<1>5. QED
  BY <1>3, <1>4

(* Above progtop, only the stack's page is mapped. *)
LEMMA OnlyStack ==
  ASSUME prog \in Programs, NEW T \in Nat, NEW Z, Stack(map, T, Z), NEW c \in Int, T <= c,
         MappedIn(map, PageOf(c))
  PROVE  PageOf(c) = PageOf(T) /\ c < T + PG
<1>1. /\ PageOf(T) \in Nat \ {0} /\ T = PageOf(T) * PG
      /\ \A k \in Headers : Loads(k) => \A a \in SegPages(k) : a \in Int /\ a < PageOf(T) - 1
  BY Gap DEF Stack
<1>2. T \in Int /\ PageOf(T) <= PageOf(c)
  BY PageOrder
<1>3. PageOf(c) = PageOf(T) \/ \E k \in Headers : Loads(k) /\ PageOf(c) \in SegPages(k)
  BY DEF Stack, MappedIn
<1>4. PageOf(c) = PageOf(T)
  BY <1>1, <1>2, <1>3
<1>5. c < PageOf(c) * PG + PG
  BY PageBounds
<1>6. QED
  BY <1>1, <1>4, <1>5

LEMMA StackCreated ==
  ASSUME prog \in Programs, NEW T \in Nat, AboveProgram(T),
         Segments(map, area, live, bare, free, Len(prog.ph)), Created(PageOf(T), 1, USTACK_PERM)
  PROVE  Stack(map', T, T + USTACK)
<1> DEFINE P == PageOf(T)
           L == Len(prog.ph)
<1>1. P \in Nat \ {0}
  BY Gap
<1> HIDE DEF P
<1>2. Region(P, 1) = {P}
  BY <1>1 DEF Region
<1>3. /\ P \in V /\ map[P].page = None
      /\ map'[P].page # None /\ map'[P].perm = page_perm(USTACK_PERM)
      /\ \A d \in V : d # P => map'[d] = map[d]
  BY <1>2 DEF Created, P
<1>4. Covered(map, L) /\ Backed(map, L)
  BY DEF Segments
<1>5. \A a \in V : MappedIn(map', a) => a = P \/ \E k \in Headers : Loads(k) /\ a \in SegPages(k)
  BY <1>3, <1>4 DEF Covered, MappedIn, Headers
<1>6. Backed(map', L)
  BY <1>3, <1>4 DEF Backed, MappedIn
<1>7. QED
  BY <1>3, <1>5, <1>6 DEF Stack, MappedIn, P

(* Argument k: its address is in its place, and its words are there. *)
Pushed(M, W, Z, S, k) ==
  \E s \in 0..S :
    /\ Z + Len(argv) <= s /\ s + argv[k] <= S
    /\ Holds(M, W, Z + k - 1, Word(Pointer, s))
    /\ \A o \in 0..(argv[k] - 1) : Holds(M, W, s + o, Word(Arg(k), o))

(* The first n arguments *)
Arguments(M, W, T, Z, S, n) ==
  /\ Z + Len(argv) <= S
  /\ n > 0 => S <= T + PG
  /\ \A k \in 1..n : Pushed(M, W, Z, S, k)

LEMMA ArgvIs ==
  ASSUME argv \in Argvs
  PROVE  Len(argv) \in Nat /\ \A k \in 1..Len(argv) : argv[k] \in Nat \ {0}
BY ExecAssumption

(* Argument k, of n words, goes to S and its address to ptr; W are the     *)
(* words after that.                                                       *)
Pushes(Z, S, k, n, ptr, w, W) ==
  /\ n = argv[k] /\ ptr = Z + k - 1 /\ ~CopyFails(S, n) /\ ~CopyFails(ptr, 1)
  /\ w = Copied(S, n, Arg(k))
  /\ DOMAIN W = {Phys(ptr)} \cup DOMAIN w /\ W[Phys(ptr)] = Word(Pointer, S)
  /\ \A x \in DOMAIN w : x # Phys(ptr) => W[x] = w[x]

LEMMA ArgumentPushed ==
  ASSUME PageState(map, free, gone), prog \in Programs, argv \in Argvs,
         NEW T \in Nat, NEW Z \in Nat, NEW S \in Nat, NEW k \in 1..Len(argv),
         Stack(map, T, Z), Arguments(map, word, T, Z, S, k - 1),
         NEW n, NEW ptr, NEW w, NEW W, Pushes(Z, S, k, n, ptr, w, W)
  PROVE  /\ Arguments(map, W, T, Z, S + n, k)
         /\ FileLoaded(map, word, Len(prog.ph)) => FileLoaded(map, W, Len(prog.ph))
<1>0. /\ n = argv[k] /\ ptr = Z + k - 1 /\ ~CopyFails(S, n) /\ ~CopyFails(ptr, 1)
      /\ w = Copied(S, n, Arg(k))
      /\ DOMAIN W = {Phys(ptr)} \cup DOMAIN w /\ W[Phys(ptr)] = Word(Pointer, S)
      /\ \A x \in DOMAIN w : x # Phys(ptr) => W[x] = w[x]
  BY DEF Pushes
<1>1. n \in Nat \ {0} /\ k \in Nat /\ 1 <= k /\ k <= Len(argv) /\ Len(argv) \in Nat
  BY <1>0, ArgvIs
<1>2. Z = T + USTACK /\ Z + Len(argv) <= S /\ USTACK \in Nat /\ PG \in Nat
  BY ExecAssumption DEF Stack, Arguments
<1>3. ptr \in Nat /\ T <= ptr /\ ptr < S /\ ptr < Z + Len(argv) /\ S \in Int
  BY <1>0, <1>1, <1>2
<1>4. MappedIn(map, PageOf(ptr))
  <2>1. ptr \in ptr..(ptr + 1 - 1) /\ 1 \in Nat
    BY <1>3
  <2>2. PageOf(ptr) \in Spanned(ptr, 1)
    BY <1>3, <2>1, SpannedIs
  <2>3. QED
    BY <1>0, <2>2, AbsentIs DEF CopyFails
<1>5. ASSUME NEW b \in S..(S + n - 1)
      PROVE  b \in Int /\ PageOf(b) = PageOf(T) /\ b < T + PG
  <2>1. b \in Int /\ T <= b
    BY <1>1, <1>3
  <2>2. PageOf(b) \in Spanned(S, n)
    BY <1>1, SpannedIs
  <2>3. MappedIn(map, PageOf(b))
    BY <1>0, <2>2, AbsentIs DEF CopyFails
  <2>4. QED
    BY <2>1, <2>3, OnlyStack
<1>6. PageOf(ptr) = PageOf(T)
  BY <1>3, <1>4, OnlyStack
<1>7. S + n <= T + PG
  <2>1. S + n - 1 \in S..(S + n - 1)
    BY <1>1, <1>3
  <2>2. S + n - 1 < T + PG
    BY <1>5, <2>1
  <2>3. QED
    BY <1>1, <1>2, <1>3, <2>2
<1>8. /\ \A b \in S..(S + n - 1) : Holds(map, w, b, Word(Arg(k), b - S))
      /\ \A c \in Int : \A v : Holds(map, word, c, v) /\ c \notin S..(S + n - 1) => Holds(map, w, c, v)
  BY <1>0, <1>1, CopyIs
<1>9. /\ Holds(map, W, ptr, Word(Pointer, S))
      /\ \A c \in Int : \A v : Holds(map, w, c, v) /\ c # ptr => Holds(map, W, c, v)
  <2>1. ptr \in Int
    BY <1>3
  <2>2. /\ DOMAIN W = {Phys(ptr)} \cup DOMAIN w /\ W[Phys(ptr)] = Word(Pointer, S)
        /\ \A x \in DOMAIN w : x # Phys(ptr) => W[x] = w[x]
    BY <1>0
  <2>3. QED
    BY ONLY PageState(map, free, gone), <1>4, <2>1, <2>2, PutIs
<1>10. ASSUME NEW c \in Int, NEW v, Holds(map, word, c, v), c # ptr, c \notin S..(S + n - 1)
       PROVE  Holds(map, W, c, v)
  BY <1>8, <1>9, <1>10
<1>11. ASSUME NEW o \in 0..(n - 1)
       PROVE  Holds(map, W, S + o, Word(Arg(k), o))
  <2>1. S + o \in S..(S + n - 1) /\ (S + o) - S = o /\ S + o \in Int /\ S + o # ptr
    BY <1>1, <1>3
  <2>2. Holds(map, w, S + o, Word(Arg(k), (S + o) - S))
    BY <1>8, <2>1
  <2>3. QED
    BY <1>9, <2>1, <2>2
<1>12. Pushed(map, W, Z, S + n, k)
  <2>1. S \in 0..(S + n) /\ Z + Len(argv) <= S /\ S + n <= S + n
    BY <1>1, <1>2, <1>3
  <2>2. QED
    BY <1>0, <1>9, <1>11, <2>1 DEF Pushed
<1>13. ASSUME NEW j \in 1..(k - 1)
       PROVE  Pushed(map, W, Z, S + n, j)
  <2>1. Pushed(map, word, Z, S, j)
    BY DEF Arguments
  <2>2. PICK s \in 0..S : /\ Z + Len(argv) <= s /\ s + argv[j] <= S
                          /\ Holds(map, word, Z + j - 1, Word(Pointer, s))
                          /\ \A o \in 0..(argv[j] - 1) : Holds(map, word, s + o, Word(Arg(j), o))
    BY <2>1 DEF Pushed
  <2>3. j \in Nat /\ 1 <= j /\ j < k /\ argv[j] \in Nat \ {0}
    BY <1>1, ArgvIs
  <2>4. Holds(map, W, Z + j - 1, Word(Pointer, s))
    <3>1. Z + j - 1 \in Int /\ Z + j - 1 # ptr /\ Z + j - 1 \notin S..(S + n - 1)
      BY <1>0, <1>1, <1>2, <2>3
    <3>2. QED
      BY <1>10, <2>2, <3>1
  <2>5. ASSUME NEW o \in 0..(argv[j] - 1)
        PROVE  Holds(map, W, s + o, Word(Arg(j), o))
    <3>1. s + o \in Int /\ s + o # ptr /\ s + o \notin S..(S + n - 1)
      BY <1>0, <1>1, <1>2, <1>3, <2>2, <2>3
    <3>2. QED
      BY <1>10, <2>2, <3>1
  <2>6. s \in 0..(S + n) /\ s + argv[j] <= S + n
    BY <1>1, <1>3, <2>2, <2>3
  <2>7. QED
    BY <2>2, <2>4, <2>5, <2>6 DEF Pushed
<1>14. Arguments(map, W, T, Z, S + n, k)
  <2>1. Z + Len(argv) <= S + n
    BY <1>1, <1>2
  <2>2. \A j \in 1..k : j = k \/ j \in 1..(k - 1)
    BY <1>1
  <2>3. QED
    BY <1>7, <1>12, <1>13, <2>1, <2>2 DEF Arguments
<1>15. ASSUME FileLoaded(map, word, Len(prog.ph)) PROVE FileLoaded(map, W, Len(prog.ph))
  <2> SUFFICES ASSUME FilesFit, NEW l \in 1..Len(prog.ph), Loads(l), NEW o \in 0..(prog.ph[l].filesz - 1)
               PROVE  Holds(map, W, prog.ph[l].vaddr + o, Word(File, o))
    BY DEF FileLoaded
  <2> DEFINE c == prog.ph[l].vaddr + o
  <2>1. Holds(map, word, c, Word(File, o))
    BY <1>15 DEF FileLoaded
  <2>2. l \in Headers
    BY DEF Headers
  <2>3. c \in Int /\ PageOf(c) \in SegPages(l)
    BY <2>2, FileInside
  <2> HIDE DEF c
  <2>4. PageOf(c) # PageOf(T)
    BY <2>2, <2>3, Gap DEF Stack
  <2>5. c # ptr /\ c \notin S..(S + n - 1)
    BY <1>5, <1>6, <2>4
  <2>6. Holds(map, W, c, Word(File, o))
    BY <1>10, <2>1, <2>3, <2>5
  <2>7. QED
    BY <2>6 DEF c
<1>16. QED
  BY <1>14, <1>15
-----------------------------------------------------------------------------
(* The invariant: what holds in each phase *)
Starting ==
  /\ status = "none" /\ live = {} /\ bare = {} /\ \A a \in V : ~MappedIn(map, a)
  /\ i = 1 /\ progtop = 0

Creating ==
  /\ Segments(map, area, live, bare, free, i - 1) /\ Beyond(i - 1, progtop)
  /\ FileLoaded(map, word, i - 1)

Copying ==
  /\ prog.ph[i].load
  /\ Segments(map, area, live, bare, free, i) /\ Beyond(i - 1, progtop)
  /\ FileLoaded(map, word, i - 1)

Stacking ==
  /\ Segments(map, area, live, bare, free, Len(prog.ph)) /\ AboveProgram(progtop)
  /\ FileLoaded(map, word, Len(prog.ph)) /\ i = 1

Pushing ==
  /\ Stack(map, progtop, sp) /\ FileLoaded(map, word, Len(prog.ph))
  /\ i \in 1..(Len(argv) + 1) /\ Arguments(map, word, progtop, sp, strtop, i - 1)

(* The freed area of a failed mapping is in the way of a header from m on. *)
StaleFrom(m) ==
  \E k \in m..Len(prog.ph) :
    /\ Loads(k) /\ 0 < PageOf(prog.ph[k].vaddr) /\ PageOf(prog.ph[k].vaddr) < stale.end
    /\ \A x \in live : ~Inside(area[x], PageOf(prog.ph[k].vaddr))

Unloading ==
  status # "assert" =>
    status # "none" /\ AreasFrom(area, live, i) /\ (status = "dangling" => StaleFrom(i))

LoadInv ==
  /\ LoadType
  /\ phase = "start" => Starting
  /\ phase = "create" => status = "run" /\ Creating
  /\ phase = "copy" => status = "run" /\ Copying
  /\ phase = "unload" => Unloading
  /\ phase = "failed" /\ status # "assert" => live = {} /\ status \in {"run", "twice"}
  /\ phase = "ustack" => status = "run" /\ Stacking
  /\ phase \in {"argv", "ready"} => status = "run" /\ Pushing
  /\ phase = "ready" => i = Len(argv) + 1 /\ ustacktop = strtop

(* The program stays the same: the predicates after a step are those of    *)
(* the new page table and areas.                                           *)
LEMMA LoadsSame ==
  ASSUME prog' = prog
  PROVE  \A k : (Loads(k)' <=> Loads(k)) /\ SegPages(k)' = SegPages(k)
BY DEF Loads, SegPages

LEMMA CreatingAfter ==
  ASSUME prog' = prog, NEW n, i' - 1 = n, Segments(map', area', live', bare', free', n),
         Beyond(n, progtop'), FileLoaded(map', word', n)
  PROVE  Creating'
<1>1. Segments(map, area, live, bare, free, i - 1)'
  BY LoadsSame DEF Segments, Covered, Backed, Separate, AreasFrom, MappedIn, BareLast
<1>2. Beyond(i - 1, progtop)'
  BY DEF Beyond
<1>3. FileLoaded(map, word, i - 1)'
  BY LoadsSame DEF FileLoaded, Holds, Place, MappedIn
<1>4. QED
  BY <1>1, <1>2, <1>3 DEF Creating

LEMMA CopyingAfter ==
  ASSUME prog' = prog, NEW n, i' = n, prog.ph[n].load, Segments(map', area', live', bare', free', n),
         Beyond(n - 1, progtop'), FileLoaded(map', word', n - 1)
  PROVE  Copying'
<1>1. Segments(map, area, live, bare, free, i)'
  BY LoadsSame DEF Segments, Covered, Backed, Separate, AreasFrom, MappedIn, BareLast
<1>2. Beyond(i - 1, progtop)'
  BY DEF Beyond
<1>3. FileLoaded(map, word, i - 1)'
  BY LoadsSame DEF FileLoaded, Holds, Place, MappedIn
<1>4. QED
  <2>1. (prog.ph[i].load)'
    OBVIOUS
  <2>2. QED
    BY <1>1, <1>2, <1>3, <2>1 DEF Copying

LEMMA StackingAfter ==
  ASSUME prog' = prog, i' = 1, Segments(map', area', live', bare', free', Len(prog.ph)),
         AboveProgram(progtop'), FileLoaded(map', word', Len(prog.ph))
  PROVE  Stacking'
<1>1. Segments(map, area, live, bare, free, Len(prog.ph))'
  BY LoadsSame DEF Segments, Covered, Backed, Separate, AreasFrom, MappedIn, BareLast
<1>2. AboveProgram(progtop)'
  BY DEF AboveProgram, Beyond
<1>3. FileLoaded(map, word, Len(prog.ph))'
  BY LoadsSame DEF FileLoaded, Holds, Place, MappedIn
<1>4. QED
  BY <1>1, <1>2, <1>3 DEF Stacking

LEMMA PushingAfter ==
  ASSUME prog' = prog, argv' = argv, NEW n, i' - 1 = n, i' \in 1..(Len(argv) + 1),
         Stack(map', progtop', sp'), FileLoaded(map', word', Len(prog.ph)),
         Arguments(map', word', progtop', sp', strtop', n)
  PROVE  Pushing'
<1>1. Stack(map, progtop, sp)'
  <2>1. AboveProgram(progtop)'
    BY DEF Stack, AboveProgram, Beyond
  <2>2. Backed(map, Len(prog.ph))'
    BY LoadsSame DEF Stack, Backed, MappedIn
  <2>3. \A a \in V : MappedIn(map', a)
          => a = PageOf(progtop') \/ \E k \in Headers' : Loads(k)' /\ a \in SegPages(k)'
    BY LoadsSame DEF Stack, Headers
  <2>4. QED
    BY <2>1, <2>2, <2>3 DEF Stack, MappedIn
<1>2. FileLoaded(map, word, Len(prog.ph))'
  BY LoadsSame DEF FileLoaded, Holds, Place, MappedIn
<1>3. Arguments(map, word, progtop, sp, strtop, i - 1)'
  BY DEF Arguments, Pushed, Holds, Place, MappedIn
<1>4. QED
  BY <1>1, <1>2, <1>3 DEF Pushing
-----------------------------------------------------------------------------
(* Each step keeps the invariant. *)
ExecInv == Inv /\ Status /\ LoadInv

LEMMA InvParts ==
  ASSUME Inv
  PROVE  TypeOK /\ Order(area, list) /\ Linked /\ Agree(area, live, map, bare, dropped) /\ PageState(map, free, gone)
BY DEF Inv

LEMMA SameMm == Inv /\ Status /\ UNCHANGED vars => Inv' /\ Status'
BY DEF vars, Inv, Status, TypeOK, Linked

LEMMA StartStep ==
  ASSUME ExecInv, task_load_elf_kmem
  PROVE  ExecInv'
<1>1. /\ phase = "start" /\ mm_new /\ phase' = IF prog.ok THEN "create" ELSE "failed"
      /\ prog' = prog /\ argv' = argv /\ i' = i /\ word' = word /\ progtop' = progtop
      /\ ustacktop' = ustacktop /\ sp' = sp /\ strtop' = strtop
  BY DEF task_load_elf_kmem, args, taskVars
<1>2. Starting /\ LoadType
  BY <1>1 DEF ExecInv, LoadInv
<1>3. /\ status' = "run" /\ area' = area /\ live' = live /\ list' = list /\ map' = map
      /\ free' = free /\ bare' = bare /\ gone' = gone /\ cache' = None
      /\ stale' = stale /\ dropped' = dropped /\ status = "none"
  BY <1>1 DEF mm_new
<1>4. Inv' /\ Status'
  BY <1>3 DEF ExecInv, Inv, Status, TypeOK, Linked
<1>5. LoadType'
  BY <1>1, <1>2, HeaderIs DEF LoadType, Starting, Phases, Headers
<1>6. Creating'
  <2>1. Segments(map', area', live', bare', free', 0)
    BY <1>2, <1>3 DEF Starting, Segments, Covered, Backed, Separate, AreasFrom, BareLast
  <2>2. Beyond(0, progtop') /\ FileLoaded(map', word', 0) /\ i' - 1 = 0
    BY <1>1, <1>2 DEF Beyond, FileLoaded, Starting
  <2>3. QED
    BY <1>1, <2>1, <2>2, CreatingAfter
<1>7. live' = {}
  BY <1>2, <1>3 DEF Starting
<1>8. LoadInv'
  BY <1>1, <1>3, <1>5, <1>6, <1>7 DEF LoadInv
<1>9. QED
  BY <1>4, <1>8 DEF ExecInv

(* After a header that is in place: the next one, or the stack *)
LEMMA AdvanceKeeps ==
  ASSUME LoadType, i \in Headers, Advance, prog' = prog, argv' = argv, status' = "run",
         ustacktop' = ustacktop, sp' = sp, strtop' = strtop,
         Segments(map', area', live', bare', free', i), Beyond(i - 1, progtop),
         FileLoaded(map', word', i)
  PROVE  LoadInv'
<1>1. prog \in Programs /\ progtop \in Nat /\ i \in Nat \ {0} /\ Len(prog.ph) \in Nat /\ i <= Len(prog.ph)
  BY HeaderIs DEF LoadType, Headers
<1>2. Top(progtop) \in Nat /\ Beyond(i, Top(progtop))
  BY <1>1, TopIs
<1>3. CASE i = Len(prog.ph)
  <2>1. phase' = "ustack" /\ i' = 1 /\ progtop' = Above(Top(progtop))
    BY <1>3 DEF Advance
  <2>2. progtop' \in Nat /\ AboveProgram(progtop')
    <3>1. Above(Top(progtop)) \in Nat /\ Top(progtop) <= Above(Top(progtop))
      BY <1>2, StackAbove
    <3>2. Top(progtop) \in 0..progtop' /\ Beyond(Len(prog.ph), Top(progtop))
      BY <1>2, <1>3, <2>1, <3>1
    <3>3. QED
      BY <2>1, <3>1, <3>2 DEF AboveProgram
  <2>3. Stacking'
    BY <1>3, <2>1, <2>2, StackingAfter
  <2>4. LoadType'
    BY <2>1, <2>2 DEF LoadType, Phases
  <2>5. QED
    BY <2>1, <2>3, <2>4 DEF LoadInv
<1>4. CASE i # Len(prog.ph)
  <2>1. phase' = "create" /\ i' = i + 1 /\ progtop' = Top(progtop)
    BY <1>4 DEF Advance
  <2>2. i' - 1 = i /\ i' \in Headers'
    BY <1>1, <1>4, <2>1 DEF Headers
  <2>3. Creating'
    BY <1>2, <2>1, <2>2, CreatingAfter
  <2>4. LoadType'
    BY <1>1, <1>2, <2>1, <2>2 DEF LoadType, Phases
  <2>5. QED
    BY <2>1, <2>3, <2>4 DEF LoadInv
<1>5. QED
  BY <1>3, <1>4

(* A header that cannot be loaded: all areas are those of a header. *)
LEMMA GiveUpKeeps ==
  ASSUME LoadType, GiveUp, prog' = prog, argv' = argv, status' \in {"run", "dangling"},
         ustacktop' = ustacktop, sp' = sp, strtop' = strtop, AreasFrom(area', live', 1),
         status' = "dangling" =>
           \E k \in 1..Len(prog.ph) :
             /\ Loads(k) /\ 0 < PageOf(prog.ph[k].vaddr) /\ PageOf(prog.ph[k].vaddr) < stale'.end
             /\ \A x \in live' : ~Inside(area'[x], PageOf(prog.ph[k].vaddr))
  PROVE  LoadInv'
<1>1. phase' = "unload" /\ i' = 1 /\ progtop' = progtop
  BY DEF GiveUp
<1>2. LoadType'
  BY <1>1, HeaderIs DEF LoadType, Phases, Headers
<1>3. AreasFrom(area, live, i)'
  BY <1>1, LoadsSame DEF AreasFrom
<1>4. status' = "dangling" => StaleFrom(i)'
  BY <1>1, LoadsSame DEF StaleFrom
<1>5. Unloading'
  BY <1>3, <1>4 DEF Unloading
<1>6. QED
  BY <1>1, <1>2, <1>5 DEF LoadInv

LEMMA SegsStep ==
  ASSUME ExecInv, task_load_segs_kmem
  PROVE  ExecInv'
<1> DEFINE a == PageOf(Seg.vaddr)
           n == Cardinality(Spanned(Seg.vaddr, Seg.memsz))
<1>1. /\ phase = "create" /\ prog' = prog /\ argv' = argv /\ ustacktop' = ustacktop /\ sp' = sp
      /\ strtop' = strtop /\ word' = word
  BY DEF task_load_segs_kmem, args
<1>2. /\ Inv /\ Status /\ LoadType /\ status = "run" /\ Creating /\ i \in Headers /\ i \in Int
      /\ prog \in Programs
  BY <1>1 DEF ExecInv, LoadInv, LoadType
<1>3. /\ Segments(map, area, live, bare, free, i - 1) /\ Beyond(i - 1, progtop)
      /\ FileLoaded(map, word, i - 1)
  BY <1>2 DEF Creating
<1>4. /\ Seg = prog.ph[i] /\ Seg.vaddr \in Nat /\ Seg.memsz \in Nat /\ elf_to_vmaflags(Seg.flags) \in Flags
      /\ Seg.load \in BOOLEAN
  BY <1>2, HeaderIs DEF Seg
<1>5. PageOf(Seg.vaddr) \in Nat
  BY <1>4, PageBounds
<1>6. Loads(i) <=> Seg.load /\ ~Nothing
  BY <1>4, <1>5 DEF Loads, Nothing
<1>7. CASE ~Seg.load /\ Advance /\ UNCHANGED vars
  <2>1. ~Loads(i)
    BY <1>6, <1>7
  <2>2. Segments(map, area, live, bare, free, i) /\ FileLoaded(map, word, i)
    BY <1>2, <1>3, <2>1, SegmentSkipped, FileSkipped
  <2>3. Segments(map', area', live', bare', free', i) /\ FileLoaded(map', word', i) /\ status' = "run"
    BY <1>1, <1>2, <1>7, <2>2 DEF vars
  <2>4. LoadInv'
    BY <1>1, <1>2, <1>3, <1>7, <2>3, AdvanceKeeps
  <2>5. QED
    BY <1>2, <1>7, <2>4, SameMm DEF ExecInv
<1>8. CASE Seg.load /\ Nothing /\ phase' = "copy" /\ UNCHANGED <<i, progtop>> /\ UNCHANGED vars
  <2>1. ~Loads(i)
    BY <1>6, <1>8
  <2>2. Segments(map, area, live, bare, free, i)
    BY <1>2, <1>3, <2>1, SegmentSkipped
  <2>3. /\ Segments(map', area', live', bare', free', i) /\ FileLoaded(map', word', i - 1)
        /\ status' = "run" /\ i' = i /\ progtop' = progtop /\ phase' = "copy"
    BY <1>1, <1>2, <1>3, <1>8, <2>2 DEF vars
  <2>4. Copying'
    BY <1>1, <1>3, <1>4, <1>8, <2>3, CopyingAfter
  <2>5. LoadType'
    BY <1>1, <1>2, <2>3 DEF LoadType, Phases, Headers
  <2>6. LoadInv'
    BY <2>3, <2>4, <2>5 DEF LoadInv
  <2>7. QED
    BY <1>2, <1>8, <2>6, SameMm DEF ExecInv
<1>9. CASE GiveUp /\ UNCHANGED vars
  <2>1. AreasFrom(area', live', 1) /\ status' = "run"
    BY <1>2, <1>3, <1>9 DEF vars, Segments
  <2>2. LoadInv'
    BY <1>1, <1>2, <1>9, <2>1, GiveUpKeeps
  <2>3. QED
    BY <1>2, <1>9, <2>2, SameMm DEF ExecInv
<1>10. CASE Seg.load /\ ~Nothing /\ CreateFails(a, n) /\ GiveUp
  <2>1. Loads(i)
    BY <1>6, <1>10
  <2>2. n \in Nat \ {0}
    BY <1>2, <1>4, <2>1, SegRegion
  <2> HIDE DEF n
  <2>3. a \in Nat /\ a # 0 /\ a + n <= NV /\ Vacant(a, a + n - 1)
    BY <1>5, <1>10 DEF CreateFails, Creatable
  <2>4. a \in V /\ n \in 1..NV
    <3> HIDE DEF a
    <3>1. QED
      BY <2>2, <2>3, VmAssumption DEF V
  <2>5. /\ Inv' /\ area' = area /\ live' = live
        /\ \/ status' = "dangling" /\ stale'.end = a + n
           \/ status' = "run" /\ stale' = stale
    BY <1>2, <1>10, <2>4, CreateFailsStep
  <2>6. AreasFrom(area', live', 1)
    BY <1>3, <2>5 DEF Segments
  <2>7. \A x \in live : ~Inside(area[x], a)
    <3>1. TypeOK /\ Linked /\ Order(area, list)
      BY <1>2, InvParts
    <3> HIDE DEF a
    <3>2. a \in Region(a, n)
      BY <2>2, <2>3 DEF Region
    <3>3. QED
      BY <2>2, <2>3, <3>1, <3>2, VacantRegion
  <2>8. a = PageOf(prog.ph[i].vaddr) /\ i \in 1..Len(prog.ph)
    BY <1>2, <1>4 DEF Headers
  <2>9. 0 < a /\ a < a + n
    <3> HIDE DEF a
    <3>1. QED
      BY <2>2, <2>3
  <2>10. status' = "dangling" =>
           /\ Loads(i) /\ 0 < PageOf(prog.ph[i].vaddr) /\ PageOf(prog.ph[i].vaddr) < stale'.end
           /\ \A x \in live' : ~Inside(area'[x], PageOf(prog.ph[i].vaddr))
    <3> HIDE DEF a
    <3>1. QED
      BY <2>1, <2>5, <2>7, <2>8, <2>9
  <2>11. LoadInv'
    BY <1>1, <1>2, <1>10, <2>5, <2>6, <2>8, <2>10, GiveUpKeeps
  <2>12. Status'
    BY <1>2, <2>5 DEF Status
  <2>13. QED
    BY <2>5, <2>11, <2>12 DEF ExecInv
<1>11. CASE /\ Seg.load /\ ~Nothing /\ Creates(a, n, elf_to_vmaflags(Seg.flags))
            /\ phase' = "copy" /\ UNCHANGED <<i, progtop>>
  <2>1. Loads(i)
    BY <1>6, <1>11
  <2>2. n \in Nat \ {0}
    BY <1>2, <1>4, <2>1, SegRegion
  <2> HIDE DEF a, n
  <2>3. a \in Nat /\ a + n <= NV
    BY <1>5, <1>11 DEF a, Creates, Creatable
  <2>4. a \in V /\ n \in 1..NV
    BY <2>2, <2>3, VmAssumption DEF V
  <2>5. Inv' /\ status' = "run" /\ stale' = stale
    BY <1>2, <1>4, <1>11, <2>4, CreatesStep
  <2>6. LoadType'
    BY <1>1, <1>2, <1>11 DEF LoadType, Phases, Headers
  <2>7. BareLast(bare, free)
    BY <1>3 DEF Segments
  <2>8. Created(a, n, elf_to_vmaflags(Seg.flags))
    BY <1>2, <1>4, <1>11, <2>2, <2>3, <2>7, CreateEffect
  <2>9. Segments(map', area', live', bare', free', i)
    BY <1>2, <1>3, <1>4, <2>1, <2>8, SegmentCreated DEF a, n
  <2>10. FileLoaded(map', word', i - 1)
    BY <1>1, <1>3, <2>8, FileStays
  <2>11. Copying'
    BY <1>1, <1>3, <1>4, <1>11, <2>9, <2>10, CopyingAfter
  <2>12. LoadInv'
    BY <1>11, <2>5, <2>6, <2>11 DEF LoadInv
  <2>13. QED
    BY <1>2, <2>5, <2>12 DEF ExecInv, Status
<1>12. QED
  BY <1>7, <1>8, <1>9, <1>10, <1>11, Zenon DEF task_load_segs_kmem

LEMMA CopyStep ==
  ASSUME Walks = FALSE, ExecInv, task_load_seg_kmem
  PROVE  ExecInv'
<1>1. /\ phase = "copy" /\ status = "run" /\ prog' = prog /\ argv' = argv /\ ustacktop' = ustacktop
      /\ sp' = sp /\ strtop' = strtop /\ word' = Copied(Seg.vaddr, Seg.filesz, File)
  BY DEF task_load_seg_kmem, args
<1>2. Inv /\ Status /\ LoadType /\ Copying /\ i \in Headers /\ i \in Int /\ prog \in Programs
  BY <1>1 DEF ExecInv, LoadInv, LoadType
<1>3. /\ Segments(map, area, live, bare, free, i) /\ Beyond(i - 1, progtop)
      /\ FileLoaded(map, word, i - 1)
  BY <1>2 DEF Copying
<1>4. Seg = prog.ph[i] /\ Seg.vaddr \in Int
  BY <1>2, HeaderIs DEF Seg
<1>5. CASE CopyFails(Seg.vaddr, Seg.filesz)
  <2>1. Destroy(Seg.vaddr) /\ GiveUp
    BY <1>5 DEF task_load_seg_kmem
  <2>2. /\ Inv' /\ status' = status /\ stale' = stale
        /\ \A x \in live' : x \in live /\ area'[x] = area[x]
    BY <1>1, <1>2, <1>4, <2>1, DestroyEffect DEF Emptied
  <2>3. AreasFrom(area', live', 1)
    BY <1>3, <2>2 DEF Segments, AreasFrom
  <2>4. LoadInv'
    BY <1>1, <1>2, <2>1, <2>2, <2>3, GiveUpKeeps
  <2>5. QED
    BY <1>2, <2>2, <2>4 DEF ExecInv, Status
<1>6. CASE ~CopyFails(Seg.vaddr, Seg.filesz)
  <2>1. Advance /\ UNCHANGED vars
    BY <1>6 DEF task_load_seg_kmem
  <2>2. FileLoaded(map, Copied(Seg.vaddr, Seg.filesz, File), i)
    <3>1. PageState(map, free, gone) /\ Covered(map, i) /\ Separate(i) /\ prog.ph[i].load
      BY <1>2, <1>3, InvParts DEF Segments, Copying
    <3>2. QED
      BY <1>2, <1>3, <1>4, <1>6, <3>1, FileCopied
  <2>3. Segments(map', area', live', bare', free', i) /\ FileLoaded(map', word', i) /\ status' = "run"
    BY <1>1, <1>3, <2>1, <2>2 DEF vars
  <2>4. LoadInv'
    BY <1>1, <1>2, <1>3, <2>1, <2>3, AdvanceKeeps
  <2>5. QED
    BY <1>2, <2>1, <2>4, SameMm DEF ExecInv
<1>7. QED
  BY <1>5, <1>6

LEMMA UnloadStep ==
  ASSUME Walks = FALSE, ExecInv, task_unload_seg
  PROVE  ExecInv'
<1> DEFINE p == PageOf(Seg.vaddr)
<1>1. /\ phase = "unload" /\ status \in {"run", "dangling", "twice"} /\ prog' = prog /\ argv' = argv
      /\ ustacktop' = ustacktop /\ sp' = sp /\ strtop' = strtop /\ progtop' = progtop /\ Destroy(Seg.vaddr)
  BY DEF task_unload_seg, args, taskVars, Unloaded
<1>2. /\ Inv /\ Status /\ LoadType /\ AreasFrom(area, live, i) /\ i \in Headers /\ i \in Int
      /\ prog \in Programs /\ TypeOK /\ Order(area, list) /\ Linked
      /\ status = "dangling" => StaleFrom(i)
  BY <1>1, InvParts DEF ExecInv, LoadInv, LoadType, Unloading
<1>3. Seg = prog.ph[i] /\ Seg.vaddr \in Int /\ Len(prog.ph) \in Nat
  BY <1>2, HeaderIs DEF Seg
<1>4. /\ Inv' /\ Status'
      /\ \/ status' = "assert"
         \/ /\ Emptied(Seg.vaddr)
            /\ \/ status' \in {"run", "twice"}
               \/ status = "dangling" /\ status' = status /\ stale' = stale /\ NotStale(Seg.vaddr)
  <2>1. /\ Inv' /\ status # "assert"
        /\ \/ status = "dangling" /\ status' = "assert"
           \/ /\ Emptied(Seg.vaddr)
              /\ \/ status = "dangling" /\ status' = "twice" /\ stale' = NoStale
                 \/ status' = status /\ stale' = stale /\ NotStale(Seg.vaddr)
    BY <1>1, <1>2, <1>3, DestroyEffect
  <2>2. QED
    BY <1>1, <1>2, <2>1 DEF Status
<1>5. ASSUME status' # "assert", NEW x \in live'
      PROVE  \E k \in (i + 1)..Len(prog.ph) : Loads(k) /\ area'[x].start = PageOf(prog.ph[k].vaddr)
  <2>0. x \in live /\ area'[x] = area[x] /\ ~Inside(area[x], p)
    BY <1>4, <1>5 DEF Emptied
  <2>1. PICK k \in i..Len(prog.ph) : Loads(k) /\ area[x].start = PageOf(prog.ph[k].vaddr)
    BY <1>2, <2>0 DEF AreasFrom
  <2>2. area[x].start \in Int /\ area[x].start < area[x].end
    BY <1>2, <2>0, LiveAreas
  <2>3. Inside(area[x], area[x].start)
    BY <2>2 DEF Inside
  <2>4. k # i
    BY <1>3, <2>0, <2>1, <2>3
  <2>5. k \in (i + 1)..Len(prog.ph)
    BY <1>2, <2>1, <2>4
  <2>6. QED
    BY <2>0, <2>1, <2>5
<1>6. ASSUME status' = "dangling"
      PROVE  \E k \in (i + 1)..Len(prog.ph) :
               /\ Loads(k) /\ 0 < PageOf(prog.ph[k].vaddr) /\ PageOf(prog.ph[k].vaddr) < stale'.end
               /\ \A x \in live' : ~Inside(area'[x], PageOf(prog.ph[k].vaddr))
  <2>1. status = "dangling" /\ stale' = stale /\ NotStale(Seg.vaddr) /\ Emptied(Seg.vaddr)
    BY <1>4, <1>6
  <2>2. PICK k \in i..Len(prog.ph) :
          /\ Loads(k) /\ 0 < PageOf(prog.ph[k].vaddr) /\ PageOf(prog.ph[k].vaddr) < stale.end
          /\ \A x \in live : ~Inside(area[x], PageOf(prog.ph[k].vaddr))
    BY <1>2, <2>1 DEF StaleFrom
  <2>3. k # i
    BY <1>3, <2>1, <2>2 DEF NotStale
  <2>4. k \in (i + 1)..Len(prog.ph)
    BY <1>2, <2>2, <2>3
  <2>5. \A x \in live' : ~Inside(area'[x], PageOf(prog.ph[k].vaddr))
    BY <2>1, <2>2 DEF Emptied
  <2>6. QED
    BY <2>1, <2>2, <2>4, <2>5
<1>7. CASE i = Len(prog.ph)
  <2>1. phase' = "failed" /\ i' = 1
    BY <1>7 DEF task_unload_seg
  <2>2. (i + 1)..Len(prog.ph) = {}
    BY <1>2, <1>3, <1>7
  <2>3. status' # "assert" => live' = {} /\ status' \in {"run", "twice"}
    BY <1>4, <1>5, <1>6, <2>2
  <2>4. LoadType'
    BY <1>1, <1>2, <2>1 DEF LoadType, Phases
  <2>5. LoadInv'
    BY <2>1, <2>3, <2>4 DEF LoadInv
  <2>6. QED
    BY <1>4, <2>5 DEF ExecInv
<1>8. CASE i # Len(prog.ph)
  <2>1. phase' = "unload" /\ i' = i + 1
    BY <1>8 DEF task_unload_seg
  <2>2. i' \in Headers' /\ i' \in Nat \ {0}
    BY <1>1, <1>2, <1>8, <2>1, HeaderIs DEF Headers
  <2>3. LoadType'
    BY <1>1, <1>2, <2>1, <2>2 DEF LoadType, Phases
  <2>4. status' # "assert" => AreasFrom(area, live, i)'
    BY <1>1, <1>5, <2>1, LoadsSame DEF AreasFrom
  <2>5. status' = "dangling" => StaleFrom(i)'
    BY <1>1, <1>6, <2>1, LoadsSame DEF StaleFrom
  <2>6. status' # "none"
    BY <1>4
  <2>7. Unloading'
    BY <2>4, <2>5, <2>6 DEF Unloading
  <2>8. LoadInv'
    BY <2>1, <2>3, <2>7 DEF LoadInv
  <2>9. QED
    BY <1>4, <2>8 DEF ExecInv
<1>9. QED
  BY <1>7, <1>8

LEMMA UstackStep ==
  ASSUME ExecInv, set_task_ustack
  PROVE  ExecInv'
<1> DEFINE T == progtop
           Z == progtop + USTACK
<1>1. /\ phase = "ustack" /\ status = "run" /\ prog' = prog /\ argv' = argv /\ i' = i
      /\ progtop' = progtop /\ word' = word
  BY DEF set_task_ustack, args
<1>2. Inv /\ Status /\ LoadType /\ Stacking /\ prog \in Programs /\ argv \in Argvs /\ T \in Nat
  BY <1>1 DEF ExecInv, LoadInv, LoadType
<1>3. /\ Segments(map, area, live, bare, free, Len(prog.ph)) /\ AboveProgram(T)
      /\ FileLoaded(map, word, Len(prog.ph)) /\ i = 1
  BY <1>2 DEF Stacking
<1>4. CASE phase' = "panic" /\ UNCHANGED vars /\ UNCHANGED <<ustacktop, sp, strtop>>
  <2>1. LoadType'
    BY <1>1, <1>2, <1>4 DEF LoadType, Phases
  <2>2. LoadInv'
    BY <1>4, <2>1 DEF LoadInv
  <2>3. QED
    BY <1>2, <1>4, <2>2, SameMm DEF ExecInv
<1>5. CASE /\ CreateFails(PageOf(T), 1) /\ phase' = "panic" /\ UNCHANGED <<ustacktop, sp, strtop>>
  <2>1. PageOf(T) \in Nat /\ PageOf(T) + 1 <= NV
    BY <1>2, <1>5, PageBounds DEF CreateFails, Creatable
  <2>2. PageOf(T) \in V /\ 1 \in 1..NV
    BY <2>1, VmAssumption DEF V
  <2>3. Inv' /\ Status'
    BY <1>2, <1>5, <2>2, CreateFailsStep DEF Status
  <2>4. LoadType'
    BY <1>1, <1>2, <1>5 DEF LoadType, Phases
  <2>5. LoadInv'
    BY <1>5, <2>4 DEF LoadInv
  <2>6. QED
    BY <2>3, <2>5 DEF ExecInv
<1>6. CASE /\ Creates(PageOf(T), 1, USTACK_PERM) /\ phase' = "argv"
           /\ ustacktop' = Z /\ sp' = Z /\ strtop' = StringsAt(Z)
  <2>1. PageOf(T) \in Nat /\ PageOf(T) + 1 <= NV /\ 1 \in Nat \ {0} /\ USTACK_PERM \in Flags
    BY <1>2, <1>6, PageBounds DEF Creates, Creatable, Flags, USTACK_PERM
  <2>2. PageOf(T) \in V /\ 1 \in 1..NV
    BY <2>1, VmAssumption DEF V
  <2>3. Inv' /\ status' = "run" /\ stale' = stale
    BY <1>1, <1>2, <1>6, <2>1, <2>2, CreatesStep
  <2>4. Z \in Nat /\ StringsAt(Z) = Z + Len(argv) /\ Len(argv) \in Nat
    BY <1>2, ExecAssumption, ArgvIs DEF StringsAt
  <2>5. LoadType'
    BY <1>1, <1>2, <1>6, <2>4 DEF LoadType, Phases
  <2>6. Pushing'
    <3>1. BareLast(bare, free)
      BY <1>3 DEF Segments
    <3>2. Created(PageOf(T), 1, USTACK_PERM)
      BY <1>2, <1>6, <2>1, <3>1, CreateEffect
    <3>3. Stack(map', T, Z)
      BY <1>2, <1>3, <3>2, StackCreated
    <3>4. FileLoaded(map', word, Len(prog.ph))
      BY <1>3, <3>2, FileStays
    <3>5. Arguments(map', word, T, Z, Z + Len(argv), 0)
      BY <2>4 DEF Arguments
    <3>6. /\ Stack(map', progtop', sp') /\ FileLoaded(map', word', Len(prog.ph))
          /\ Arguments(map', word', progtop', sp', strtop', 0)
      BY <1>1, <1>6, <2>4, <3>3, <3>4, <3>5
    <3>7. i' - 1 = 0 /\ i' \in 1..(Len(argv) + 1)
      BY <1>1, <1>3, <2>4
    <3>8. QED
      BY <1>1, <3>6, <3>7, PushingAfter
  <2>7. LoadInv'
    BY <1>6, <2>3, <2>5, <2>6 DEF LoadInv
  <2>8. QED
    BY <1>1, <1>2, <2>3, <2>7 DEF ExecInv, Status
<1>7. QED
  BY <1>4, <1>5, <1>6 DEF set_task_ustack

LEMMA ArgvStep ==
  ASSUME ExecInv, set_task_argv
  PROVE  ExecInv'
<1> DEFINE n == argv[i]
           ptr == sp + i - 1
           w1 == Copied(strtop, n, Arg(i))
           L == Len(prog.ph)
<1>1. /\ phase = "argv" /\ status = "run" /\ prog' = prog /\ argv' = argv /\ UNCHANGED vars
      /\ progtop' = progtop /\ sp' = sp
  BY DEF set_task_argv, args
<1>2. /\ Inv /\ Status /\ LoadType /\ Pushing /\ prog \in Programs /\ argv \in Argvs
      /\ sp \in Nat /\ strtop \in Nat /\ progtop \in Nat /\ Len(argv) \in Nat /\ i \in Int
  BY <1>1, ArgvIs DEF ExecInv, LoadInv, LoadType
<1>3. /\ Stack(map, progtop, sp) /\ FileLoaded(map, word, L) /\ i \in 1..(Len(argv) + 1)
      /\ Arguments(map, word, progtop, sp, strtop, i - 1)
  BY <1>2 DEF Pushing
<1>4. map' = map /\ status' = "run" /\ Inv' /\ Status'
  BY <1>1, <1>2, SameMm DEF vars
<1>5. CASE i > Len(argv)
  <2>1. phase' = "ready" /\ ustacktop' = strtop /\ i' = i /\ strtop' = strtop /\ word' = word
    BY <1>5 DEF set_task_argv
  <2>2. i = Len(argv) + 1
    BY <1>2, <1>3, <1>5
  <2>3. LoadType'
    BY <1>1, <1>2, <2>1 DEF LoadType, Phases
  <2>4. PICK m : m = i - 1
    OBVIOUS
  <2>5. /\ Stack(map', progtop', sp') /\ FileLoaded(map', word', Len(prog.ph))
        /\ Arguments(map', word', progtop', sp', strtop', m)
        /\ i' - 1 = m /\ i' \in 1..(Len(argv) + 1)
    BY <1>1, <1>3, <1>4, <2>1, <2>4
  <2>6. Pushing'
    BY <1>1, <2>5, PushingAfter
  <2>7. i' = Len(argv') + 1 /\ ustacktop' = strtop'
    BY <1>1, <2>1, <2>2
  <2>8. LoadInv'
    BY <1>4, <2>1, <2>3, <2>6, <2>7 DEF LoadInv
  <2>9. QED
    BY <1>4, <2>8 DEF ExecInv
<1>6. CASE ~(i > Len(argv)) /\ (CopyFails(strtop, n) \/ CopyFails(ptr, 1))
  <2>1. phase' = "panic" /\ i' = i /\ ustacktop' = ustacktop /\ strtop' = strtop
    BY <1>6 DEF set_task_argv
  <2>2. LoadType'
    BY <1>1, <1>2, <2>1 DEF LoadType, Phases
  <2>3. LoadInv'
    BY <2>1, <2>2 DEF LoadInv
  <2>4. QED
    BY <1>4, <2>3 DEF ExecInv
<1>7. CASE ~(i > Len(argv)) /\ ~(CopyFails(strtop, n) \/ CopyFails(ptr, 1))
  <2>1. /\ phase' = "argv" /\ i' = i + 1 /\ ustacktop' = ustacktop /\ strtop' = strtop + n
        /\ word' = [x \in {Phys(ptr)} \cup DOMAIN w1 |->
                     IF x = Phys(ptr) THEN Word(Pointer, strtop) ELSE w1[x]]
    BY <1>1, <1>7 DEF set_task_argv
  <2>2. i \in 1..Len(argv) /\ n \in Nat \ {0}
    BY <1>2, <1>3, <1>7, ArgvIs
  <2>3. PICK W : W = word'
    OBVIOUS
  <2>4. PICK w : w = w1
    OBVIOUS
  <2>5. /\ DOMAIN W = {Phys(ptr)} \cup DOMAIN w /\ W[Phys(ptr)] = Word(Pointer, strtop)
        /\ \A x \in DOMAIN w : x # Phys(ptr) => W[x] = w[x]
    BY <2>1, <2>3, <2>4
  <2>6. /\ Arguments(map, W, progtop, sp, strtop + n, i)
        /\ FileLoaded(map, word, L) => FileLoaded(map, W, L)
    <3>1. PageState(map, free, gone)
      BY <1>2, InvParts
    <3>2. PICK N, P : N = n /\ P = ptr
      OBVIOUS
    <3>3. N = argv[i] /\ P = sp + i - 1 /\ w = Copied(strtop, N, Arg(i)) /\ strtop + n = strtop + N
      BY <2>4, <3>2
    <3>4. ~CopyFails(strtop, N) /\ ~CopyFails(P, 1)
      BY <1>7, <3>2
    <3>5. Pushes(sp, strtop, i, N, P, w, W)
      <4>1. /\ DOMAIN W = {Phys(P)} \cup DOMAIN w /\ W[Phys(P)] = Word(Pointer, strtop)
            /\ \A x \in DOMAIN w : x # Phys(P) => W[x] = w[x]
        BY <2>5, <3>2
      <4> HIDE DEF n, ptr, w1, L
      <4>2. QED
        BY ONLY <3>3, <3>4, <4>1 DEF Pushes
    <3>6. sp \in Nat /\ strtop \in Nat /\ progtop \in Nat /\ prog \in Programs /\ argv \in Argvs
      BY <1>2
    <3>7. Stack(map, progtop, sp) /\ Arguments(map, word, progtop, sp, strtop, i - 1)
      BY <1>3
    <3> HIDE DEF n, ptr, w1, L
    <3>8. /\ Arguments(map, W, progtop, sp, strtop + N, i)
          /\ FileLoaded(map, word, Len(prog.ph)) => FileLoaded(map, W, Len(prog.ph))
      BY ONLY <2>2, <3>1, <3>5, <3>6, <3>7, ArgumentPushed
    <3>9. QED
      BY <3>3, <3>8 DEF L
  <2>7. PICK m : m = i
    OBVIOUS
  <2>8. /\ Stack(map', progtop', sp') /\ FileLoaded(map', word', Len(prog.ph))
        /\ Arguments(map', word', progtop', sp', strtop', m)
        /\ i' - 1 = m /\ i' \in 1..(Len(argv) + 1)
    <3> HIDE DEF n, ptr, w1
    <3>1. QED
      BY <1>1, <1>2, <1>3, <1>4, <2>1, <2>2, <2>3, <2>6, <2>7
  <2>9. Pushing'
    BY <1>1, <2>8, PushingAfter
  <2>10. LoadType'
    BY <1>1, <1>2, <2>1, <2>2 DEF LoadType, Phases
  <2>11. LoadInv'
    BY <1>4, <2>1, <2>9, <2>10 DEF LoadInv
  <2>12. QED
    BY <1>4, <2>11 DEF ExecInv
<1>8. QED
  BY <1>5, <1>6, <1>7

(* do_write changes nothing but errno. *)
LEMMA WriteStep ==
  ASSUME ExecInv, NEW fd, NEW buf, do_write(fd, buf)
  PROVE  ExecInv'
<1>1. /\ UNCHANGED vars /\ prog' = prog /\ argv' = argv /\ phase' = phase /\ i' = i /\ word' = word
      /\ progtop' = progtop /\ ustacktop' = ustacktop /\ sp' = sp /\ strtop' = strtop
      /\ phase = "ready"
  BY DEF do_write, args
<1>2. LoadType /\ status = "run" /\ Pushing /\ i = Len(argv) + 1 /\ ustacktop = strtop
  BY <1>1 DEF ExecInv, LoadInv
<1>3. Inv' /\ Status' /\ status' = "run" /\ map' = map
  BY <1>1, <1>2, SameMm DEF ExecInv, vars
<1>4. PICK n : n = i - 1
  OBVIOUS
<1>5. /\ Stack(map', progtop', sp') /\ FileLoaded(map', word', Len(prog.ph))
      /\ Arguments(map', word', progtop', sp', strtop', n)
      /\ i' - 1 = n /\ i' \in 1..(Len(argv) + 1)
  BY <1>1, <1>2, <1>3, <1>4 DEF Pushing
<1>6. Pushing'
  BY <1>1, <1>5, PushingAfter
<1>7. LoadType' /\ i' = Len(argv') + 1 /\ ustacktop' = strtop'
  BY <1>1, <1>2 DEF LoadType, Phases
<1>8. LoadInv'
  BY <1>1, <1>3, <1>6, <1>7 DEF LoadInv
<1>9. QED
  BY <1>3, <1>8 DEF ExecInv

(* Another user of the address space *)
LEMMA OtherStep ==
  ASSUME Walks = FALSE, ExecInv, OtherUse
  PROVE  ExecInv'
<1>1. /\ phase = "other" /\ phase' = phase /\ prog' = prog /\ argv' = argv /\ i' = i
      /\ progtop' = progtop /\ ustacktop' = ustacktop /\ sp' = sp /\ strtop' = strtop
      /\ [Next]_vars
  BY DEF OtherUse, execVars
<1>2. Inv' /\ Status'
  BY <1>1, NextInv DEF ExecInv
<1>3. LoadType'
  BY <1>1 DEF ExecInv, LoadInv, LoadType, Phases
<1>4. LoadInv'
  BY <1>1, <1>3 DEF LoadInv
<1>5. QED
  BY <1>2, <1>4 DEF ExecInv

(* The predicates of a phase say the same of the same values. *)
LEMMA StutterStep ==
  ASSUME ExecInv, UNCHANGED <<vars, execVars>>
  PROVE  ExecInv'
<1>1. /\ UNCHANGED vars /\ prog' = prog /\ argv' = argv /\ phase' = phase /\ i' = i /\ word' = word
      /\ progtop' = progtop /\ ustacktop' = ustacktop /\ sp' = sp /\ strtop' = strtop
  BY DEF execVars
<1>2. /\ status' = status /\ area' = area /\ live' = live /\ map' = map /\ free' = free /\ bare' = bare
      /\ stale' = stale
  BY <1>1 DEF vars
<1>3. LoadType /\ LoadInv /\ Inv /\ Status
  BY DEF ExecInv, LoadInv
<1>4. Inv' /\ Status' /\ LoadType'
  BY <1>1, <1>3, SameMm DEF LoadType, Phases, Headers
<1>5. PICK n, m, L : n = i - 1 /\ m = i /\ L = Len(prog.ph)
  OBVIOUS
<1>6. i \in Nat
  BY <1>3 DEF LoadType
<1>7. phase = "start" => Starting'
  BY <1>1, <1>2, <1>3 DEF LoadInv, Starting, MappedIn
<1>8. ASSUME phase = "create" PROVE Creating'
  <2>1. Segments(map', area', live', bare', free', n) /\ Beyond(n, progtop') /\ FileLoaded(map', word', n)
    BY <1>1, <1>2, <1>3, <1>5, <1>8 DEF LoadInv, Creating
  <2>2. i' - 1 = n
    BY <1>1, <1>5
  <2>3. QED
    BY <1>1, <2>1, <2>2, CreatingAfter
<1>9. ASSUME phase = "copy" PROVE Copying'
  <2>1. /\ Segments(map', area', live', bare', free', m) /\ Beyond(m - 1, progtop')
        /\ FileLoaded(map', word', m - 1) /\ prog.ph[m].load
    BY <1>1, <1>2, <1>3, <1>5, <1>9 DEF LoadInv, Copying
  <2>2. i' = m
    BY <1>1, <1>5
  <2>3. QED
    BY <1>1, <2>1, <2>2, CopyingAfter
<1>10. ASSUME phase = "unload" PROVE Unloading'
  <2>1. Unloading
    BY <1>3, <1>10 DEF LoadInv
  <2>2. AreasFrom(area, live, i) => AreasFrom(area, live, i)'
    BY <1>1, <1>2, LoadsSame DEF AreasFrom
  <2>3. StaleFrom(i) => StaleFrom(i)'
    BY <1>1, <1>2, LoadsSame DEF StaleFrom
  <2>4. QED
    BY <1>2, <2>1, <2>2, <2>3 DEF Unloading
<1>11. ASSUME phase = "ustack" PROVE Stacking'
  <2>1. /\ Segments(map', area', live', bare', free', Len(prog.ph)) /\ AboveProgram(progtop')
        /\ FileLoaded(map', word', Len(prog.ph)) /\ i' = 1
    BY <1>1, <1>2, <1>3, <1>11 DEF LoadInv, Stacking
  <2>2. QED
    BY <1>1, <2>1, StackingAfter
<1>12. ASSUME phase \in {"argv", "ready"} PROVE Pushing'
  <2>1. /\ Stack(map', progtop', sp') /\ FileLoaded(map', word', Len(prog.ph))
        /\ Arguments(map', word', progtop', sp', strtop', n) /\ i' \in 1..(Len(argv) + 1)
    BY <1>1, <1>2, <1>3, <1>5, <1>12 DEF LoadInv, Pushing
  <2>2. i' - 1 = n
    BY <1>1, <1>5
  <2>3. QED
    BY <1>1, <2>1, <2>2, PushingAfter
<1>13. LoadInv'
  BY <1>1, <1>2, <1>3, <1>4, <1>7, <1>8, <1>9, <1>10, <1>11, <1>12 DEF LoadInv
<1>14. QED
  BY <1>4, <1>13 DEF ExecInv

LEMMA InitExec == ExecInit => ExecInv
<1> SUFFICES ASSUME ExecInit PROVE ExecInv
  OBVIOUS
<1>1. /\ Init /\ prog \in Programs /\ argv \in Argvs /\ phase \in {"other", "start"}
      /\ i = 1 /\ progtop = 0 /\ ustacktop = 0 /\ sp = 0 /\ strtop = 0
  BY DEF ExecInit
<1>2. Inv /\ Status
  BY <1>1, InitInv
<1>3. LoadType
  BY <1>1 DEF LoadType, Phases
<1>4. Starting
  BY <1>1 DEF Starting, Init, MappedIn, Unmapped
<1>5. LoadInv
  BY <1>1, <1>3, <1>4 DEF LoadInv
<1>6. QED
  BY <1>2, <1>5 DEF ExecInv

LEMMA NextExec ==
  ASSUME Walks = FALSE, ExecInv, [ExecNext]_<<vars, execVars>>
  PROVE  ExecInv'
<1>1. CASE OtherUse
  BY <1>1, OtherStep
<1>2. CASE task_load_elf_kmem
  BY <1>2, StartStep
<1>3. CASE task_load_segs_kmem
  BY <1>3, SegsStep
<1>4. CASE task_load_seg_kmem
  BY <1>4, CopyStep
<1>5. CASE task_unload_seg
  BY <1>5, UnloadStep
<1>6. CASE set_task_ustack
  BY <1>6, UstackStep
<1>7. CASE set_task_argv
  BY <1>7, ArgvStep
<1>8. CASE \E fd \in {0, 1}, buf \in {sp - 1, sp + PG - USTACK - 1} : do_write(fd, buf)
  BY <1>8, WriteStep
<1>9. CASE UNCHANGED <<vars, execVars>>
  BY <1>9, StutterStep
<1>10. QED
  BY <1>1, <1>2, <1>3, <1>4, <1>5, <1>6, <1>7, <1>8, <1>9, Zenon DEF ExecNext
-----------------------------------------------------------------------------
(* What the invariant says of each property *)

(* All areas are gone, and with them all pages that are in one. *)
LEMMA FailedIs == ExecInv => RollbackExact
<1> SUFFICES ASSUME ExecInv, phase = "failed", status # "assert"
             PROVE  /\ list = << >> /\ live = {} /\ stale = NoStale
                    /\ {a \in V : map[a] # Unmapped} \subseteq bare
  BY DEF RollbackExact
<1>1. /\ live = {} /\ TypeOK /\ Linked /\ Agree(area, live, map, bare, dropped) /\ PageState(map, free, gone)
      /\ stale = NoStale
  BY InvParts DEF ExecInv, LoadInv, Status
<1>2. list \in Seq(Id) /\ Range(list) = {}
  BY <1>1 DEF TypeOK, Linked
<1>3. list = << >>
  <2>1. \A j \in DOMAIN list : list[j] \in Range(list)
    BY DEF Range
  <2>2. DOMAIN list = {}
    BY <1>2, <2>1
  <2>3. QED
    BY <1>2, <2>2
<1>4. ASSUME NEW a \in V, map[a] # Unmapped
      PROVE  a \in bare
  <2>1. map \in [V -> Cell]
    BY <1>1 DEF PageState
  <2>2. map[a].page # None
    BY <1>4, <2>1, CellIs
  <2>3. QED
    BY <1>1, <2>2 DEF Agree
<1>5. QED
  BY <1>1, <1>3, <1>4

(* The page of the stack is two above the last one of the program, and it  *)
(* has a BUFSIZ left above every address of the stack.                     *)
LEMMA StartedIs == ExecInv => StackIsolated
<1> SUFFICES ASSUME ExecInv, Started
             PROVE  /\ map[PageOf(progtop) - 1] = Unmapped
                    /\ map[PageOf(progtop)].perm = page_perm(USTACK_PERM)
                    /\ \A k \in DOMAIN prog.ph : Loads(k) => PageOf(progtop) \notin SegPages(k)
                    /\ \A a \in progtop..(sp - 1) : ~CopyFails(a, BUFSIZ)
  BY DEF StackIsolated
<1> DEFINE P == PageOf(progtop)
<1>1. /\ Pushing /\ LoadType /\ PageState(map, free, gone)
  <2>1. phase \in {"argv", "ready"}
    BY DEF Started
  <2>2. QED
    BY <2>1, InvParts DEF ExecInv, LoadInv
<1>2. /\ Stack(map, progtop, sp) /\ prog \in Programs /\ progtop \in Nat
      /\ AboveProgram(progtop) /\ sp = progtop + USTACK
  BY <1>1 DEF Pushing, LoadType, Stack
<1>3. /\ P \in Nat \ {0} /\ progtop = P * PG
      /\ \A k \in Headers : Loads(k) => \A a \in SegPages(k) : a \in Int /\ a < P - 1
  BY <1>2, Gap
<1>4. /\ MappedIn(map, P) /\ map[P].perm = page_perm(USTACK_PERM)
      /\ \A a \in V : MappedIn(map, a) => a = P \/ \E k \in Headers : Loads(k) /\ a \in SegPages(k)
  BY <1>2 DEF Stack
<1> HIDE DEF P
<1>5. P - 1 \in V
  BY <1>3, <1>4, VmAssumption DEF MappedIn, V
<1>6. map[P - 1] = Unmapped
  <2>1. ~MappedIn(map, P - 1)
    BY <1>3, <1>4, <1>5
  <2>2. map \in [V -> Cell]
    BY <1>1 DEF PageState
  <2>3. map[P - 1] = Unmapped <=> map[P - 1].page = None
    BY <1>5, <2>2, CellIs
  <2>4. QED
    BY <1>5, <2>1, <2>3 DEF MappedIn
<1>7. \A k \in DOMAIN prog.ph : Loads(k) => P \notin SegPages(k)
  BY <1>2, <1>3, HeaderIs
<1>8. ASSUME NEW a \in progtop..(sp - 1)
      PROVE  ~CopyFails(a, BUFSIZ)
  <2>1. /\ USTACK \in Nat \ {0} /\ BUFSIZ \in Nat \ {0} /\ PG \in Nat \ {0} /\ USTACK + BUFSIZ <= PG
    BY ExecAssumption
  <2>2. /\ a \in Int /\ a + BUFSIZ - 1 \in Int /\ P * PG \in Int
        /\ P * PG <= a /\ a < P * PG + PG
        /\ P * PG <= a + BUFSIZ - 1 /\ a + BUFSIZ - 1 < P * PG + PG
    BY <1>2, <1>3, <2>1
  <2>3. PageOf(a) = P /\ PageOf(a + BUFSIZ - 1) = P
    BY <1>3, <2>2, PageIs
  <2>4. Spanned(a, BUFSIZ) = {P}
    BY <1>3, <2>3 DEF Spanned
  <2>5. ~Absent(P)
    BY <1>1, <1>4, AbsentIs
  <2>6. QED
    BY <2>4, <2>5 DEF CopyFails
<1>9. QED
  BY <1>4, <1>6, <1>7, <1>8 DEF P

LEMMA ContentsAre ==
  ASSUME NEW a, NEW v, Holds(map, word, a, v)
  PROVE  Contents(a) = v
BY DEF Holds, Contents, Phys, Place

(* All arguments have been pushed. *)
LEMMA ReadyArguments == ExecInv => ArgvExact
<1> SUFFICES ASSUME ExecInv, phase = "ready", NEW k \in DOMAIN argv
             PROVE  /\ Contents(sp + k - 1).source = Pointer
                    /\ LET s == Contents(sp + k - 1).at
                       IN s >= sp /\ s + argv[k] <= ustacktop
                          /\ \A o \in 0..(argv[k] - 1) : Contents(s + o) = Word(Arg(k), o)
  BY DEF ArgvExact
<1>1. Pushing /\ LoadType /\ i = Len(argv) + 1 /\ ustacktop = strtop
  BY DEF ExecInv, LoadInv
<1>2. argv \in Argvs /\ sp \in Nat /\ Len(argv) \in Nat
  BY <1>1, ArgvIs DEF LoadType
<1>3. k \in 1..Len(argv) /\ k \in 1..(i - 1)
  <2>1. argv \in Seq(Nat \ {0})
    BY <1>2, ExecAssumption
  <2>2. QED
    BY <1>1, <1>2, <2>1
<1>4. Pushed(map, word, sp, strtop, k)
  BY <1>1, <1>3 DEF Pushing, Arguments
<1>5. PICK s \in 0..strtop :
        /\ sp + Len(argv) <= s /\ s + argv[k] <= strtop
        /\ Holds(map, word, sp + k - 1, Word(Pointer, s))
        /\ \A o \in 0..(argv[k] - 1) : Holds(map, word, s + o, Word(Arg(k), o))
  BY <1>4 DEF Pushed
<1>6. Contents(sp + k - 1) = Word(Pointer, s)
  BY <1>5, ContentsAre
<1>7. Contents(sp + k - 1).source = Pointer /\ Contents(sp + k - 1).at = s
  BY <1>6 DEF Word
<1>8. \A o \in 0..(argv[k] - 1) : Contents(s + o) = Word(Arg(k), o)
  BY <1>5, ContentsAre
<1>9. s >= sp /\ s + argv[k] <= ustacktop
  BY <1>1, <1>2, <1>5
<1>10. QED
  BY <1>7, <1>8, <1>9

(* All segments have been loaded. *)
LEMMA ReadySegments == FilesFit /\ ExecInv => LoadedExact
<1> SUFFICES ASSUME FilesFit, ExecInv, phase = "ready", NEW k \in DOMAIN prog.ph, Loads(k)
             PROVE  /\ \A a \in SegPages(k) : "dirty" \in map[a].perm <=> "w" \in prog.ph[k].flags
                    /\ \A o \in 0..(prog.ph[k].filesz - 1) :
                         Contents(prog.ph[k].vaddr + o) = Word(File, o)
  BY DEF LoadedExact
<1>1. Pushing /\ LoadType
  BY DEF ExecInv, LoadInv
<1>2. prog \in Programs /\ Backed(map, Len(prog.ph)) /\ FileLoaded(map, word, Len(prog.ph))
  BY <1>1 DEF Pushing, LoadType, Stack
<1>3. k \in 1..Len(prog.ph)
  BY <1>2, HeaderIs DEF Headers
<1>4. \A a \in SegPages(k) : "dirty" \in map[a].perm <=> "w" \in prog.ph[k].flags
  <2>1. \A a \in SegPages(k) : map[a].perm = page_perm(elf_to_vmaflags(prog.ph[k].flags))
    BY <1>2, <1>3 DEF Backed
  <2>2. QED
    BY <2>1 DEF page_perm, elf_to_vmaflags
<1>5. \A o \in 0..(prog.ph[k].filesz - 1) : Holds(map, word, prog.ph[k].vaddr + o, Word(File, o))
  BY <1>2, <1>3 DEF FileLoaded
<1>6. QED
  BY <1>4, <1>5, ContentsAre

-----------------------------------------------------------------------------
(* Theorems *)

LEMMA ExecInvariant ==
  ASSUME Walks = FALSE
  PROVE  ExecSpec => []ExecInv
<1>1. ExecInv /\ [ExecNext]_<<vars, execVars>> => ExecInv'
  BY NextExec
<1>2. QED
  BY InitExec, <1>1, PTL DEF ExecSpec

(* Whichever header cannot be loaded, for want of memory for its pages, a  *)
(* page directory or because the file is not mapped where it must go, and  *)
(* however many areas have been created before it: when the rollback of    *)
(* task_load_segs_kmem returns at all, that is, unless an assert has       *)
(* stopped the kernel on the freed area of a failed mapping, it leaves no  *)
(* area, no freed structure in the list, and no page mapped but those that *)
(* map_pages put nowhere in the list.                                      *)
THEOREM LoaderLeavesNothing ==
  ASSUME Walks = FALSE
  PROVE  ExecSpec => []RollbackExact
BY ExecInvariant, FailedIs, PTL

(* set_task_ustack puts the stack above an unmapped page and in no         *)
(* segment, for any program headers, and do_write can read BUFSIZ bytes    *)
(* from every address of it.                                               *)
THEOREM StackStaysIsolated ==
  ASSUME Walks = FALSE
  PROVE  ExecSpec => []StackIsolated
BY ExecInvariant, StartedIs, PTL

(* A program that starts finds all its arguments, for any number of        *)
(* strings of any length: set_task_argv's words do not overwrite each      *)
(* other, and copy_uvm for the strings does not overwrite the pointers.    *)
THEOREM ArgumentsArrive ==
  ASSUME Walks = FALSE
  PROVE  ExecSpec => []ArgvExact
BY ExecInvariant, ReadyArguments, PTL

(* A program that starts finds in every segment what task_load_seg_kmem    *)
(* copied there, the beginning of the file for any p_offset, whatever was  *)
(* copied after it, and can write to the segment's pages exactly if its    *)
(* header has PF_W; provided that no header's file part is larger than its *)
(* pages.                                                                  *)
THEOREM SegmentsLoaded ==
  ASSUME Walks = FALSE, FilesFit
  PROVE  ExecSpec => []LoadedExact
<1>1. ExecInv => LoadedExact
  BY ReadySegments
<1>2. QED
  BY ExecInvariant, <1>1, PTL

(* The loader, the stack and the arguments keep the address space in       *)
(* order: VmArea's invariants hold of every state of ExecSpec too, also    *)
(* while the rollback walks over what a failed mapping has left.           *)
THEOREM LoaderKeepsAreas ==
  ASSUME Walks = FALSE
  PROVE  ExecSpec => [](AreasOrdered /\ MapsMatchAreas /\ CacheLinked /\ PagesExact)
<1>1. ExecInv => AreasOrdered /\ MapsMatchAreas /\ CacheLinked /\ PagesExact
  BY InvImplies DEF ExecInv
<1>2. QED
  BY ExecInvariant, <1>1, PTL
=============================================================================
