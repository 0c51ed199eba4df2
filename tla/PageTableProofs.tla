--------------------------- MODULE PageTableProofs ---------------------------
(***************************************************************************)
(* Proofs about the page table, for any memory and any set of addresses.   *)
(*                                                                         *)
(* Every page has a kind: free, in the hands of a caller, directory of one *)
(* of the three levels, or directory unlinked while in use.  The proof     *)
(* shows how each primitive of pgdir.c changes the kinds, in states in the *)
(* middle of a call, and puts the calls together from that.                *)
(***************************************************************************)
EXTENDS PageTable, FiniteSetTheorems, TLAPS

-----------------------------------------------------------------------------
LessThan == {ss \in Nat \X Nat : ss[1] < ss[2]}

(* The page that Min chooses is in the set. *)
LEMMA MinIn ==
  ASSUME NEW S \in SUBSET Nat, S # {}
  PROVE  Min(S) \in S
<1>1. IsWellFoundedOn(OpToRel(<, Nat), Nat)
  BY NatLessThanWellFounded
<1>2. OpToRel(<, Nat) = LessThan
  BY Zenon DEF OpToRel, LessThan
<1>3. IsWellFoundedOn(LessThan, Nat)
  BY <1>1, <1>2, Zenon
<1>4. \E x \in S : \A y \in S : ~(<<y, x>> \in LessThan)
  BY <1>3, WFMin, Zenon
<1>5. \A x, y \in Nat : <<y, x>> \in LessThan <=> y < x
  BY DEF LessThan
<1>6. PICK x \in S : \A y \in S : ~(<<y, x>> \in LessThan)
  BY <1>4
<1>7. \A y \in S : x \in Nat /\ y \in Nat /\ ~(y < x)
  BY <1>5, <1>6, Zenon
<1>8. \A y \in S : x <= y
  BY <1>7
<1>9. QED
  BY <1>8 DEF Min

LEMMA IndexFinite == IsFiniteSet(Index)
<1> DEFINE f == [v \in Vaddr |-> {v[1], v[2], v[3]}]
           I == {f[v] : v \in Vaddr}
<1>1. IsFiniteSet(Vaddr)
  BY TableAssumption
<1>2. f \in Surjection(Vaddr, I)
  BY DEF Surjection
<1>3. IsFiniteSet(I)
  <2> HIDE DEF f, I
  <2>1. QED
    BY <1>1, <1>2, FS_Surjection
<1>4. \A x \in I : IsFiniteSet(x)
  <2>1. ASSUME NEW v \in Vaddr PROVE IsFiniteSet({v[1], v[2], v[3]})
    <3>1. IsFiniteSet({v[1]})
      BY FS_Singleton
    <3>2. IsFiniteSet({v[1]} \cup {v[2]})
      BY <3>1, FS_AddElement
    <3>3. IsFiniteSet(({v[1]} \cup {v[2]}) \cup {v[3]})
      BY <3>2, FS_AddElement
    <3>4. ({v[1]} \cup {v[2]}) \cup {v[3]} = {v[1], v[2], v[3]}
      OBVIOUS
    <3>5. QED
      BY <3>3, <3>4
  <2>2. QED
    BY <2>1
<1>5. Index = UNION I
  BY DEF Index
<1>6. QED
  <2> HIDE DEF I
  <2>1. QED
    BY <1>3, <1>4, <1>5, FS_UNION

(* One entry more, one less, none *)
LEMMA CountSlots ==
  ASSUME NEW S \in SUBSET Index
  PROVE  /\ IsFiniteSet(S) /\ Cardinality(S) \in Nat /\ (Cardinality(S) = 0 <=> S = {})
         /\ \A i \in Index \ S : Cardinality(S \cup {i}) = Cardinality(S) + 1
         /\ \A i \in S : Cardinality(S \ {i}) = Cardinality(S) - 1
<1>1. IsFiniteSet(S)
  BY IndexFinite, FS_Subset
<1>2. Cardinality(S) \in Nat
  BY <1>1, FS_CardinalityType
<1>3. Cardinality(S) = 0 <=> S = {}
  BY <1>1, FS_EmptySet
<1>4. \A i \in Index \ S : Cardinality(S \cup {i}) = Cardinality(S) + 1
  BY <1>1, FS_AddElement
<1>5. \A i \in S : Cardinality(S \ {i}) = Cardinality(S) - 1
  BY <1>1, FS_RemoveElement
<1>6. QED
  BY <1>1, <1>2, <1>3, <1>4, <1>5

-----------------------------------------------------------------------------
(* The kind of each page *)
Kinds == {"free", "data", "pgd", "pmd", "pte", "lostpgd", "lostpmd", "lostpte"}
Cells == Page \cup {None}
Of(K, x) == {p \in Page : K[p] = x}

(* Directories that refer to directories, and those under the PGD *)
Inner == {"pgd", "pmd", "lostpmd"}
Live == {"pgd", "pmd", "pte"}

(* What a directory of kind k refers to *)
Below(k) ==
  IF k = "pgd" THEN "pmd" ELSE IF k = "pmd" THEN "pte" ELSE IF k = "pte" THEN "data" ELSE "lostpte"

(* States in the middle of a call *)
States == [free: SUBSET Page,
           dirs: [dir: [Page -> [Index -> Cells]], entries: [Page -> Int]],
           lost: SUBSET Page, panicked: BOOLEAN]

Slot(S, d) == {i \in Index : S.dirs.dir[d][i] # None}

(* The walk from the PGD r *)
At1(S, r, i) == IF r = None THEN None ELSE S.dirs.dir[r][i]
At2(S, r, i, j) == IF At1(S, r, i) = None THEN None ELSE S.dirs.dir[At1(S, r, i)][j]
At3(S, r, i, j, k) == IF At2(S, r, i, j) = None THEN None ELSE S.dirs.dir[At2(S, r, i, j)][k]

Links(K, S) ==
  \A d \in Page, i \in Index :
    K[d] \in Inner \cup {"pte"} /\ S.dirs.dir[d][i] # None => K[S.dirs.dir[d][i]] = Below(K[d])

(* No two entries refer to the same directory. *)
Single(K, S) ==
  \A d, e \in Page, i, j \in Index :
    /\ K[d] \in Inner /\ K[e] \in Inner
    /\ S.dirs.dir[d][i] # None /\ S.dirs.dir[d][i] = S.dirs.dir[e][j]
    => d = e /\ i = j

(* What a PGD refers to is lost with it. *)
Orphans(K, S) ==
  \A d \in Page, i \in Index :
    K[d] = "lostpgd" /\ S.dirs.dir[d][i] # None => K[S.dirs.dir[d][i]] = "lostpmd"

(* Some entry refers to it. *)
Reached(K, S) ==
  \A p \in Page : K[p] \in {"pmd", "pte", "lostpte"} =>
    \E d \in Page, i \in Index : K[d] \in Inner /\ S.dirs.dir[d][i] = p

Counted(K, S) == \A d \in Page : K[d] \in Live => S.dirs.entries[d] = Cardinality(Slot(S, d))

(* Only addresses in use are mapped. *)
Named(S, r) == \A i, j, k \in Index : At3(S, r, i, j, k) # None => <<i, j, k>> \in Vaddr

Typed(K, S, r) == S \in States /\ K \in [Page -> Kinds] /\ r \in Cells /\ ~S.panicked

Lost(K) == Of(K, "lostpmd") \cup Of(K, "lostpgd")

Sorted(K, S, r, B) ==
  S.free = Of(K, "free") /\ B = Of(K, "data") /\ S.lost = Lost(K) /\ Of(K, "pgd") = {r} \ {None}

Shape(K, S, r, B) ==
  /\ Typed(K, S, r) /\ Sorted(K, S, r, B)
  /\ Links(K, S) /\ Single(K, S) /\ Orphans(K, S) /\ Reached(K, S) /\ Counted(K, S)
  /\ Named(S, r)

(* No directory under the PGD is empty, but x may be. *)
Filled(K, S, x) == \A d \in Page : K[d] \in {"pmd", "pte"} /\ d # x => Slot(S, d) # {}

(* The same walks *)
SameWalks(S, R, r) == \A i, j, k \in Index : At3(R, r, i, j, k) = At3(S, r, i, j, k)

LEMMA NoneIs == None \notin Page /\ Page \in SUBSET Nat
BY DEF None, Page

(* What is on the walk *)
LEMMA WalkKinds ==
  ASSUME NEW K, NEW S, NEW r, NEW B, Shape(K, S, r, B), NEW i \in Index, NEW j \in Index, NEW k \in Index
  PROVE  /\ r # None => r \in Page /\ K[r] = "pgd"
         /\ At1(S, r, i) \in Cells /\ At2(S, r, i, j) \in Cells /\ At3(S, r, i, j, k) \in Cells
         /\ At1(S, r, i) # None => r # None /\ At1(S, r, i) \in Page /\ K[At1(S, r, i)] = "pmd"
         /\ At2(S, r, i, j) # None => /\ At1(S, r, i) # None /\ At2(S, r, i, j) \in Page
                                      /\ K[At2(S, r, i, j)] = "pte"
         /\ At3(S, r, i, j, k) # None => /\ At2(S, r, i, j) # None /\ At3(S, r, i, j, k) \in Page
                                         /\ K[At3(S, r, i, j, k)] = "data"
<1>0. S \in States /\ K \in [Page -> Kinds] /\ r \in Cells /\ Of(K, "pgd") = {r} \ {None} /\ Links(K, S)
  BY DEF Shape, Typed, Sorted
<1>1. \A d \in Page, x \in Index : S.dirs.dir[d][x] \in Cells
  BY <1>0 DEF States
<1>2. r # None => r \in Page /\ K[r] = "pgd"
  BY <1>0 DEF Of
<1> DEFINE m == At1(S, r, i)
           t == At2(S, r, i, j)
           x == At3(S, r, i, j, k)
<1>3. m \in Cells /\ (m # None => r # None /\ m \in Page /\ K[m] = "pmd")
  BY <1>0, <1>1, <1>2 DEF At1, Cells, Links, Inner, Below
<1>4. t = IF m = None THEN None ELSE S.dirs.dir[m][j]
  BY DEF At2
<1> HIDE DEF m
<1>5. t \in Cells /\ (t # None => m # None /\ t \in Page /\ K[t] = "pte")
  BY <1>0, <1>1, <1>3, <1>4 DEF Cells, Links, Inner, Below
<1>6. x = IF t = None THEN None ELSE S.dirs.dir[t][k]
  BY DEF At3
<1> HIDE DEF t
<1>7. x \in Cells /\ (x # None => t # None /\ x \in Page /\ K[x] = "data")
  BY <1>0, <1>1, <1>5, <1>6 DEF Cells, Links, Inner, Below
<1>8. QED
  BY <1>2, <1>3, <1>5, <1>7 DEF m, t

(* There is one walk to a directory. *)
LEMMA WalkUnique ==
  ASSUME NEW K, NEW S, NEW r, NEW B, Shape(K, S, r, B),
         NEW i \in Index, NEW j \in Index, NEW a \in Index, NEW b \in Index
  PROVE  /\ At1(S, r, i) # None /\ At1(S, r, i) = At1(S, r, a) => i = a
         /\ At2(S, r, i, j) # None /\ At2(S, r, i, j) = At2(S, r, a, b) => i = a /\ j = b
<1>0. Single(K, S)
  BY DEF Shape
<1>1. /\ r # None => r \in Page /\ K[r] = "pgd"
      /\ At1(S, r, i) # None => At1(S, r, i) \in Page /\ K[At1(S, r, i)] = "pmd"
      /\ At1(S, r, a) # None => At1(S, r, a) \in Page /\ K[At1(S, r, a)] = "pmd"
  BY WalkKinds
<1>2. ASSUME At1(S, r, i) # None, At1(S, r, i) = At1(S, r, a) PROVE i = a
  <2>1. r # None /\ At1(S, r, i) = S.dirs.dir[r][i] /\ At1(S, r, a) = S.dirs.dir[r][a]
    BY <1>2 DEF At1
  <2>2. /\ r \in Page /\ K[r] \in Inner
        /\ S.dirs.dir[r][i] # None /\ S.dirs.dir[r][i] = S.dirs.dir[r][a]
    BY <1>1, <1>2, <2>1 DEF Inner
  <2>3. QED
    BY <1>0, <2>2, Zenon DEF Single
<1>3. ASSUME At2(S, r, i, j) # None, At2(S, r, i, j) = At2(S, r, a, b) PROVE i = a /\ j = b
  <2>1. /\ At1(S, r, i) # None /\ At1(S, r, a) # None
        /\ At2(S, r, i, j) = S.dirs.dir[At1(S, r, i)][j] /\ At2(S, r, a, b) = S.dirs.dir[At1(S, r, a)][b]
    BY <1>3 DEF At2
  <2>2. At1(S, r, i) = At1(S, r, a) /\ j = b
    <3> DEFINE m == At1(S, r, i)
               n == At1(S, r, a)
    <3>1. /\ m \in Page /\ n \in Page /\ K[m] \in Inner /\ K[n] \in Inner
          /\ S.dirs.dir[m][j] # None /\ S.dirs.dir[m][j] = S.dirs.dir[n][b]
      BY <1>1, <1>3, <2>1 DEF Inner
    <3> HIDE DEF m, n
    <3>2. m = n /\ j = b
      BY <1>0, <3>1, Zenon DEF Single
    <3>3. QED
      BY <3>2 DEF m, n
  <2>3. QED
    BY <1>2, <2>1, <2>2
<1>4. QED
  BY <1>2, <1>3

LEMMA OrphansKept ==
  ASSUME NEW K, NEW K2, NEW S \in States, NEW R, Orphans(K, S),
         \A y \in Page : K2[y] = "lostpgd" =>
            K[y] = "lostpgd" /\ \A z \in Index : R.dirs.dir[y][z] = S.dirs.dir[y][z],
         \A y \in Page : K[y] = "lostpmd" => K2[y] = "lostpmd"
  PROVE  Orphans(K2, R)
<1> SUFFICES ASSUME NEW d \in Page, NEW i \in Index, K2[d] = "lostpgd", R.dirs.dir[d][i] # None
             PROVE  K2[R.dirs.dir[d][i]] = "lostpmd"
  BY DEF Orphans
<1>1. K[d] = "lostpgd" /\ R.dirs.dir[d][i] = S.dirs.dir[d][i]
  OBVIOUS
<1>2. K[S.dirs.dir[d][i]] = "lostpmd" /\ S.dirs.dir[d][i] \in Page
  BY <1>1 DEF Orphans, States, Cells
<1>3. QED
  BY <1>1, <1>2

-----------------------------------------------------------------------------
(* pgdir_add_pgdir: R is S with a new directory n as entry i of d. *)
LinksNew(S, R, d, i, n) ==
  /\ R \in States /\ R.panicked = S.panicked /\ R.free = S.free \ {n} /\ R.lost = S.lost
  /\ \A y \in Page, z \in Index :
       R.dirs.dir[y][z] = IF y = n THEN None ELSE IF y = d /\ z = i THEN n ELSE S.dirs.dir[y][z]
  /\ \A y \in Page : R.dirs.entries[y] = IF y = n THEN 0
                                         ELSE IF y = d THEN S.dirs.entries[y] + 1 ELSE S.dirs.entries[y]

LEMMA LinkDir ==
  ASSUME NEW K, NEW S, NEW r, NEW B, Shape(K, S, r, B), r # None,
         NEW d \in Page, K[d] \in {"pgd", "pmd"}, NEW i \in Index, S.dirs.dir[d][i] = None,
         NEW n \in S.free, NEW R, LinksNew(S, R, d, i, n)
  PROVE  LET K2 == [K EXCEPT ![n] = Below(K[d])]
         IN /\ Shape(K2, R, r, B) /\ SameWalks(S, R, r)
            /\ \A x \in {None, d} : Filled(K, S, x) => Filled(K2, R, n)
<1> DEFINE K2 == [K EXCEPT ![n] = Below(K[d])]
<1>0. /\ S \in States /\ K \in [Page -> Kinds] /\ r \in Page /\ K[r] = "pgd" /\ ~S.panicked
      /\ S.free = Of(K, "free") /\ B = Of(K, "data") /\ S.lost = Lost(K) /\ Of(K, "pgd") = {r} \ {None}
      /\ Links(K, S) /\ Single(K, S) /\ Reached(K, S) /\ Counted(K, S) /\ Named(S, r)
      /\ Orphans(K, S)
  BY WalkKinds DEF Shape, Typed, Sorted, Of
<1>1. n \in Page /\ K[n] = "free" /\ n # d /\ n # r /\ n # None
  BY <1>0, NoneIs DEF Of
<1>2. /\ R \in States /\ ~R.panicked /\ R.free = S.free \ {n} /\ R.lost = S.lost
      /\ \A z \in Index : R.dirs.dir[n][z] = None
      /\ R.dirs.dir[d][i] = n
      /\ \A y \in Page, z \in Index : y # n /\ ~(y = d /\ z = i) => R.dirs.dir[y][z] = S.dirs.dir[y][z]
      /\ R.dirs.entries[n] = 0 /\ R.dirs.entries[d] = S.dirs.entries[d] + 1
      /\ \A y \in Page : y # n /\ y # d => R.dirs.entries[y] = S.dirs.entries[y]
  BY <1>0, <1>1 DEF LinksNew
<1>3. /\ K2 \in [Page -> Kinds] /\ K2[n] = Below(K[d]) /\ K2[n] \in {"pmd", "pte"}
      /\ \A y \in Page : y # n => K2[y] = K[y]
  BY <1>0, <1>1 DEF Below, Kinds
<1> HIDE DEF K2
<1>4. \A y \in Page, z \in Index : K[y] \in Inner \cup {"pte"} => S.dirs.dir[y][z] # n
  BY <1>0, <1>1 DEF Links, Below
<1>5. Typed(K2, R, r) /\ Sorted(K2, R, r, B)
  BY <1>0, <1>1, <1>2, <1>3 DEF Typed, Sorted, Lost, Of, Cells
<1>6. Links(K2, R)
  <2> SUFFICES ASSUME NEW y \in Page, NEW z \in Index, K2[y] \in Inner \cup {"pte"}, R.dirs.dir[y][z] # None
               PROVE  K2[R.dirs.dir[y][z]] = Below(K2[y])
    BY DEF Links
  <2>1. y # n
    BY <1>2
  <2>2. CASE y = d /\ z = i
    BY <1>1, <1>2, <1>3, <2>2
  <2>3. CASE ~(y = d /\ z = i)
    <3>1. R.dirs.dir[y][z] = S.dirs.dir[y][z] /\ K2[y] = K[y]
      BY <1>2, <1>3, <2>1, <2>3
    <3>2. S.dirs.dir[y][z] \in Page /\ S.dirs.dir[y][z] # n /\ K[S.dirs.dir[y][z]] = Below(K[y])
      BY <1>0, <1>4, <3>1 DEF Links, States, Cells
    <3>3. QED
      BY <1>3, <3>1, <3>2
  <2>4. QED
    BY <2>2, <2>3
<1>7. Single(K2, R)
  <2> SUFFICES ASSUME NEW y \in Page, NEW e \in Page, NEW z \in Index, NEW w \in Index,
                      K2[y] \in Inner, K2[e] \in Inner,
                      R.dirs.dir[y][z] # None, R.dirs.dir[y][z] = R.dirs.dir[e][w]
               PROVE  y = e /\ z = w
    BY DEF Single
  <2>1. y # n /\ e # n
    BY <1>2
  <2>2. K[y] \in Inner /\ K[e] \in Inner
    BY <1>3, <2>1
  <2>3. CASE y = d /\ z = i
    BY <1>2, <1>4, <2>1, <2>2, <2>3
  <2>4. CASE e = d /\ w = i
    BY <1>2, <1>4, <2>1, <2>2, <2>4
  <2>5. CASE ~(y = d /\ z = i) /\ ~(e = d /\ w = i)
    <3>1. R.dirs.dir[y][z] = S.dirs.dir[y][z] /\ R.dirs.dir[e][w] = S.dirs.dir[e][w]
      BY <1>2, <2>1, <2>5
    <3>2. S.dirs.dir[y][z] # None /\ S.dirs.dir[y][z] = S.dirs.dir[e][w]
      BY <3>1
    <3>3. Single(K, S)
      BY <1>0
    <3>4. QED
      BY <2>2, <3>2, <3>3 DEF Single
  <2>6. QED
    BY <2>3, <2>4, <2>5
<1>8. Reached(K2, R)
  <2> SUFFICES ASSUME NEW p \in Page, K2[p] \in {"pmd", "pte", "lostpte"}
               PROVE  \E e \in Page, w \in Index : K2[e] \in Inner /\ R.dirs.dir[e][w] = p
    BY DEF Reached
  <2>1. CASE p = n
    BY <1>1, <1>2, <1>3, <2>1 DEF Inner
  <2>2. CASE p # n
    <3>1. K[p] \in {"pmd", "pte", "lostpte"}
      BY <1>3, <2>2
    <3>2. PICK e \in Page, w \in Index : K[e] \in Inner /\ S.dirs.dir[e][w] = p
      BY <1>0, <3>1 DEF Reached
    <3>3. e # n /\ ~(e = d /\ w = i)
      BY <1>1, <3>2, NoneIs DEF Inner
    <3>4. QED
      BY <1>2, <1>3, <3>2, <3>3
  <2>3. QED
    BY <2>1, <2>2
<1>9. /\ Slot(R, n) = {} /\ Slot(R, d) = Slot(S, d) \cup {i} /\ i \notin Slot(S, d)
      /\ \A y \in Page : y # n /\ y # d => Slot(R, y) = Slot(S, y)
  BY <1>1, <1>2 DEF Slot
<1>10. Counted(K2, R)
  <2> SUFFICES ASSUME NEW y \in Page, K2[y] \in Live PROVE R.dirs.entries[y] = Cardinality(Slot(R, y))
    BY DEF Counted
  <2>1. CASE y = n
    <3>1. Cardinality(Slot(R, n)) = 0
      BY <1>9, FS_EmptySet
    <3>2. QED
      BY <1>2, <2>1, <3>1
  <2>2. CASE y = d
    <3>1. S.dirs.entries[d] = Cardinality(Slot(S, d))
      BY <1>0 DEF Counted, Live
    <3>2. Slot(S, d) \in SUBSET Index
      BY DEF Slot
    <3>3. Cardinality(Slot(S, d) \cup {i}) = Cardinality(Slot(S, d)) + 1
      BY <1>9, <3>2, CountSlots
    <3>4. QED
      BY <1>2, <1>9, <2>2, <3>1, <3>3
  <2>3. CASE y # n /\ y # d
    BY <1>0, <1>2, <1>3, <1>9, <2>3 DEF Counted
  <2>4. QED
    BY <2>1, <2>2, <2>3
<1>11. SameWalks(S, R, r)
  <2> SUFFICES ASSUME NEW a \in Index, NEW b \in Index, NEW c \in Index
               PROVE  At3(R, r, a, b, c) = At3(S, r, a, b, c)
    BY DEF SameWalks
  <2> DEFINE m == At1(S, r, a)
             t == At2(S, r, a, b)
  <2>1. /\ m # None => m \in Page /\ K[m] = "pmd"
        /\ t # None => m # None /\ t \in Page /\ K[t] = "pte"
    BY WalkKinds
  <2>2. /\ m = S.dirs.dir[r][a] /\ At1(R, r, a) = R.dirs.dir[r][a]
        /\ t = IF m = None THEN None ELSE S.dirs.dir[m][b]
        /\ At3(S, r, a, b, c) = IF t = None THEN None ELSE S.dirs.dir[t][c]
        /\ At2(R, r, a, b) = IF At1(R, r, a) = None THEN None ELSE R.dirs.dir[At1(R, r, a)][b]
        /\ At3(R, r, a, b, c) = IF At2(R, r, a, b) = None THEN None ELSE R.dirs.dir[At2(R, r, a, b)][c]
    BY DEF At1, At2, At3
  <2> HIDE DEF m, t
  <2>3. CASE r = d /\ a = i
    <3>1. S.dirs.dir[r][a] = None /\ R.dirs.dir[r][a] = n
      BY <1>2, <2>3
    <3>2. m = None /\ t = None /\ At3(S, r, a, b, c) = None /\ At1(R, r, a) = n
      BY <2>2, <3>1
    <3>3. At2(R, r, a, b) = None
      BY <1>1, <1>2, <2>2, <3>2
    <3>4. QED
      BY <2>2, <3>2, <3>3
  <2>31. ASSUME ~(r = d /\ a = i) PROVE At1(R, r, a) = m
    <3>1. R.dirs.dir[r][a] = S.dirs.dir[r][a]
      BY <1>0, <1>1, <1>2, <2>31
    <3>2. QED
      BY <2>2, <3>1
  <2>4. CASE ~(r = d /\ a = i) /\ (m = None \/ ~(m = d /\ b = i))
    <3>1. At1(R, r, a) = m
      BY <2>31, <2>4
    <3>2. m # None => m # n
      BY <1>1, <2>1
    <3>3. m # None => R.dirs.dir[m][b] = S.dirs.dir[m][b]
      BY <1>2, <2>1, <2>4, <3>2
    <3>4. At2(R, r, a, b) = t
      BY <2>2, <3>1, <3>3
    <3>5. t # None => t # n /\ t # d
      BY <1>1, <2>1
    <3>6. t # None => R.dirs.dir[t][c] = S.dirs.dir[t][c]
      BY <1>2, <2>1, <3>5
    <3>7. QED
      BY <2>2, <3>4, <3>6
  <2>5. CASE ~(r = d /\ a = i) /\ m = d /\ b = i
    <3>1. At1(R, r, a) = m /\ m # None
      BY <2>31, <2>5, NoneIs
    <3>2. At2(R, r, a, b) = n /\ t = None
      BY <1>2, <2>2, <2>5, <3>1
    <3>3. QED
      BY <1>1, <1>2, <2>2, <3>2, ZenonT(30)
  <2>6. QED
    BY <2>3, <2>4, <2>5
<1>12. Named(R, r)
  BY <1>0, <1>11 DEF Named, SameWalks
<1>13. ASSUME NEW x \in {None, d}, Filled(K, S, x) PROVE Filled(K2, R, n)
  <2> SUFFICES ASSUME NEW y \in Page, K2[y] \in {"pmd", "pte"}, y # n PROVE Slot(R, y) # {}
    BY DEF Filled
  <2>1. CASE y = d
    BY <1>9, <2>1
  <2>2. CASE y # d
    <3>1. K[y] \in {"pmd", "pte"} /\ y # x
      BY <1>3, <2>2, NoneIs
    <3>2. QED
      BY <1>9, <1>13, <2>2, <3>1 DEF Filled
  <2>3. QED
    BY <2>1, <2>2
<1>14. Orphans(K2, R)
  BY <1>0, <1>1, <1>2, <1>3, OrphansKept
<1>15. QED
  BY <1>5, <1>6, <1>7, <1>8, <1>10, <1>11, <1>12, <1>13, <1>14 DEF Shape, K2

-----------------------------------------------------------------------------
(* pgdir_add_entry and pgdir_remove_entry: in R, entry i of d is x, and    *)
(* the entries of d are c more.                                            *)
Puts(S, R, d, i, x, c) ==
  /\ R \in States /\ R.panicked = S.panicked
  /\ \A y \in Page, z \in Index : R.dirs.dir[y][z] = IF y = d /\ z = i THEN x ELSE S.dirs.dir[y][z]
  /\ \A y \in Page : R.dirs.entries[y] = IF y = d THEN S.dirs.entries[y] + c ELSE S.dirs.entries[y]

LEMMA PutsCount ==
  ASSUME NEW S \in States, NEW d \in Page, NEW i \in Index, NEW x \in Cells, NEW c, NEW R, Puts(S, R, d, i, x, c),
         S.dirs.entries[d] = Cardinality(Slot(S, d)),
         \/ x # None /\ S.dirs.dir[d][i] = None /\ c = 1
         \/ x = None /\ S.dirs.dir[d][i] # None /\ c = -1
  PROVE  /\ R.dirs.entries[d] = Cardinality(Slot(R, d))
         /\ Slot(R, d) = IF x = None THEN Slot(S, d) \ {i} ELSE Slot(S, d) \cup {i}
         /\ \A y \in Page : y # d => Slot(R, y) = Slot(S, y)
<1>1. /\ \A z \in Index : R.dirs.dir[d][z] = IF z = i THEN x ELSE S.dirs.dir[d][z]
      /\ \A y \in Page, z \in Index : y # d => R.dirs.dir[y][z] = S.dirs.dir[y][z]
      /\ R.dirs.entries[d] = S.dirs.entries[d] + c
  BY DEF Puts
<1>2. \A y \in Page : y # d => Slot(R, y) = Slot(S, y)
  BY <1>1 DEF Slot
<1>3. Slot(S, d) \in SUBSET Index
  BY DEF Slot
<1>4. CASE x # None
  <2>1. i \notin Slot(S, d) /\ Slot(R, d) = Slot(S, d) \cup {i}
    BY <1>1, <1>4 DEF Slot
  <2>2. Cardinality(Slot(R, d)) = Cardinality(Slot(S, d)) + 1
    BY <1>3, <2>1, CountSlots
  <2>3. QED
    BY <1>1, <1>2, <1>4, <2>1, <2>2
<1>5. CASE x = None
  <2>1. i \in Slot(S, d) /\ Slot(R, d) = Slot(S, d) \ {i}
    BY <1>1, <1>5 DEF Slot
  <2>2. Cardinality(Slot(R, d)) = Cardinality(Slot(S, d)) - 1 /\ Cardinality(Slot(S, d)) \in Nat
    BY <1>3, <2>1, CountSlots
  <2>3. QED
    BY <1>1, <1>2, <1>5, <2>1, <2>2
<1>6. QED
  BY <1>4, <1>5

(* pgdir_remove_pgdir of an empty directory *)
LEMMA UnlinkDir ==
  ASSUME NEW K, NEW S, NEW r, NEW B, Shape(K, S, r, B), r # None,
         NEW d \in Page, K[d] \in {"pgd", "pmd"}, NEW i \in Index,
         NEW n, n = S.dirs.dir[d][i], n # None, Slot(S, n) = {},
         NEW R, Puts(S, R, d, i, None, -1), R.free = S.free \cup {n}, R.lost = S.lost
  PROVE  LET K2 == [K EXCEPT ![n] = "free"]
         IN /\ Shape(K2, R, r, B) /\ SameWalks(S, R, r)
            /\ Filled(K, S, n) => Filled(K2, R, d)
<1> DEFINE K2 == [K EXCEPT ![n] = "free"]
<1>0. /\ S \in States /\ K \in [Page -> Kinds] /\ r \in Page /\ K[r] = "pgd" /\ ~S.panicked
      /\ S.free = Of(K, "free") /\ B = Of(K, "data") /\ S.lost = Lost(K) /\ Of(K, "pgd") = {r} \ {None}
      /\ Links(K, S) /\ Single(K, S) /\ Reached(K, S) /\ Counted(K, S) /\ Named(S, r)
      /\ Orphans(K, S)
  BY WalkKinds DEF Shape, Typed, Sorted, Of
<1>1. /\ n \in Page /\ K[n] \in {"pmd", "pte"} /\ n # d /\ n # r
      /\ \A z \in Index : S.dirs.dir[n][z] = None
  <2>1. n \in Page
    BY <1>0 DEF States, Cells
  <2>2. K[n] = Below(K[d])
    BY <1>0 DEF Links, Inner
  <2>3. QED
    BY <1>0, <2>1, <2>2 DEF Below, Slot
<1>2. /\ R \in States /\ ~R.panicked
      /\ R.dirs.dir[d][i] = None
      /\ \A y \in Page, z \in Index : ~(y = d /\ z = i) => R.dirs.dir[y][z] = S.dirs.dir[y][z]
      /\ \A y \in Page : y # d => R.dirs.entries[y] = S.dirs.entries[y]
  BY <1>0 DEF Puts
<1>3. K2 \in [Page -> Kinds] /\ K2[n] = "free" /\ \A y \in Page : y # n => K2[y] = K[y]
  BY <1>0, <1>1 DEF Kinds
<1> HIDE DEF K2
<1>4. \A y \in Page, z \in Index : K[y] \in Inner \cup {"pte"} /\ ~(y = d /\ z = i) => S.dirs.dir[y][z] # n
  <2> SUFFICES ASSUME NEW y \in Page, NEW z \in Index, K[y] \in Inner \cup {"pte"}, S.dirs.dir[y][z] = n
               PROVE  y = d /\ z = i
    OBVIOUS
  <2>1. CASE K[y] \in Inner
    <3>1. K[d] \in Inner /\ Single(K, S)
      BY <1>0 DEF Inner
    <3>2. QED
      BY <2>1, <3>1 DEF Single
  <2>2. CASE K[y] = "pte"
    BY <1>0, <1>1, <2>2 DEF Links, Below
  <2>3. QED
    BY <2>1, <2>2
<1>5. Typed(K2, R, r) /\ Sorted(K2, R, r, B)
  BY <1>0, <1>1, <1>2, <1>3 DEF Typed, Sorted, Lost, Of, Cells
<1>6. Links(K2, R)
  <2> SUFFICES ASSUME NEW y \in Page, NEW z \in Index, K2[y] \in Inner \cup {"pte"}, R.dirs.dir[y][z] # None
               PROVE  K2[R.dirs.dir[y][z]] = Below(K2[y])
    BY DEF Links
  <2>1. y # n /\ ~(y = d /\ z = i) /\ K2[y] = K[y]
    BY <1>2, <1>3 DEF Inner
  <2>2. R.dirs.dir[y][z] = S.dirs.dir[y][z]
    BY <1>2, <2>1
  <2>3. S.dirs.dir[y][z] \in Page /\ S.dirs.dir[y][z] # n /\ K[S.dirs.dir[y][z]] = Below(K[y])
    BY <1>0, <1>4, <2>1, <2>2 DEF Links, States, Cells
  <2>4. QED
    BY <1>3, <2>1, <2>2, <2>3
<1>7. Single(K2, R)
  <2> SUFFICES ASSUME NEW y \in Page, NEW e \in Page, NEW z \in Index, NEW w \in Index,
                      K2[y] \in Inner, K2[e] \in Inner,
                      R.dirs.dir[y][z] # None, R.dirs.dir[y][z] = R.dirs.dir[e][w]
               PROVE  y = e /\ z = w
    BY DEF Single
  <2>1. y # n /\ e # n /\ K[y] \in Inner /\ K[e] \in Inner
    BY <1>3 DEF Inner
  <2>2. R.dirs.dir[y][z] = S.dirs.dir[y][z] /\ R.dirs.dir[e][w] = S.dirs.dir[e][w]
    BY <1>2
  <2>3. S.dirs.dir[y][z] # None /\ S.dirs.dir[y][z] = S.dirs.dir[e][w]
    BY <2>2
  <2>4. Single(K, S)
    BY <1>0
  <2>5. QED
    BY <2>1, <2>3, <2>4 DEF Single
<1>8. Reached(K2, R)
  <2> SUFFICES ASSUME NEW p \in Page, K2[p] \in {"pmd", "pte", "lostpte"}
               PROVE  \E e \in Page, w \in Index : K2[e] \in Inner /\ R.dirs.dir[e][w] = p
    BY DEF Reached
  <2>1. p # n /\ K[p] \in {"pmd", "pte", "lostpte"}
    BY <1>3
  <2>2. PICK e \in Page, w \in Index : K[e] \in Inner /\ S.dirs.dir[e][w] = p
    BY <1>0, <2>1 DEF Reached
  <2>3. e # n /\ ~(e = d /\ w = i)
    BY <1>1, <2>1, <2>2, NoneIs
  <2>4. QED
    BY <1>2, <1>3, <2>2, <2>3
<1>9. /\ R.dirs.entries[d] = Cardinality(Slot(R, d))
      /\ \A y \in Page : y # d => Slot(R, y) = Slot(S, y)
  <2>1. S.dirs.entries[d] = Cardinality(Slot(S, d)) /\ None \in Cells
    BY <1>0 DEF Counted, Live, Cells
  <2>2. QED
    BY <1>0, <2>1, PutsCount
<1>10. Counted(K2, R)
  <2> SUFFICES ASSUME NEW y \in Page, K2[y] \in Live PROVE R.dirs.entries[y] = Cardinality(Slot(R, y))
    BY DEF Counted
  <2>1. y # n /\ K[y] \in Live
    BY <1>3 DEF Live
  <2>2. QED
    BY <1>0, <1>2, <1>9, <2>1 DEF Counted
<1>11. SameWalks(S, R, r)
  <2> SUFFICES ASSUME NEW a \in Index, NEW b \in Index, NEW c \in Index
               PROVE  At3(R, r, a, b, c) = At3(S, r, a, b, c)
    BY DEF SameWalks
  <2> DEFINE m == At1(S, r, a)
             t == At2(S, r, a, b)
  <2>1. /\ m # None => m \in Page /\ K[m] = "pmd"
        /\ t # None => m # None /\ t \in Page /\ K[t] = "pte"
    BY WalkKinds
  <2>2. /\ m = S.dirs.dir[r][a] /\ At1(R, r, a) = R.dirs.dir[r][a]
        /\ t = IF m = None THEN None ELSE S.dirs.dir[m][b]
        /\ At3(S, r, a, b, c) = IF t = None THEN None ELSE S.dirs.dir[t][c]
        /\ At2(R, r, a, b) = IF At1(R, r, a) = None THEN None ELSE R.dirs.dir[At1(R, r, a)][b]
        /\ At3(R, r, a, b, c) = IF At2(R, r, a, b) = None THEN None ELSE R.dirs.dir[At2(R, r, a, b)][c]
    BY DEF At1, At2, At3
  <2> HIDE DEF m, t
  <2>3. CASE r = d /\ a = i
    <3>1. m = n /\ At1(R, r, a) = None
      BY <1>2, <2>2, <2>3
    <3>2. t = None
      BY <1>1, <2>2, <3>1
    <3>3. QED
      BY <2>2, <3>1, <3>2
  <2>4. ASSUME ~(r = d /\ a = i) PROVE At1(R, r, a) = m
    <3>1. R.dirs.dir[r][a] = S.dirs.dir[r][a]
      BY <1>0, <1>2, <2>4
    <3>2. QED
      BY <2>2, <3>1
  <2>5. CASE ~(r = d /\ a = i) /\ (m = None \/ ~(m = d /\ b = i))
    <3>1. At1(R, r, a) = m
      BY <2>4, <2>5
    <3>2. m # None => R.dirs.dir[m][b] = S.dirs.dir[m][b]
      BY <1>2, <2>1, <2>5
    <3>3. At2(R, r, a, b) = t
      BY <2>2, <3>1, <3>2
    <3>4. t # None => t # d
      BY <2>1
    <3>5. t # None => R.dirs.dir[t][c] = S.dirs.dir[t][c]
      BY <1>2, <2>1, <3>4
    <3>6. QED
      BY <2>2, <3>3, <3>5
  <2>6. CASE ~(r = d /\ a = i) /\ m = d /\ b = i
    <3>1. At1(R, r, a) = m /\ m # None
      BY <2>4, <2>6, NoneIs
    <3>2. At2(R, r, a, b) = None /\ t = n
      BY <1>2, <2>2, <2>6, <3>1
    <3>3. QED
      BY <1>1, <2>2, <3>2
  <2>7. QED
    BY <2>3, <2>5, <2>6
<1>12. Named(R, r)
  BY <1>0, <1>11 DEF Named, SameWalks
<1>13. ASSUME Filled(K, S, n) PROVE Filled(K2, R, d)
  <2> SUFFICES ASSUME NEW y \in Page, K2[y] \in {"pmd", "pte"}, y # d PROVE Slot(R, y) # {}
    BY DEF Filled
  <2>1. y # n /\ K[y] \in {"pmd", "pte"}
    BY <1>3
  <2>2. QED
    BY <1>9, <1>13, <2>1 DEF Filled
<1>14. Orphans(K2, R)
  BY <1>0, <1>1, <1>2, <1>3, OrphansKept
<1>15. QED
  BY <1>5, <1>6, <1>7, <1>8, <1>10, <1>11, <1>12, <1>13, <1>14 DEF Shape, K2

(* A PMD below i is lost: R holds the pages K2, and S's walks but those of i. *)
Loses(K, K2, S, R, r, B, i) ==
  /\ Shape(K2, R, r, B)
  /\ \A a, b, c \in Index : At3(R, r, a, b, c) = IF a = i THEN None ELSE At3(S, r, a, b, c)
  /\ Filled(K, S, None) => Filled(K2, R, None)

(* pgdir_remove_pgdir of a PMD in use: it is lost, with its page tables. *)
LEMMA LosePmd ==
  ASSUME NEW K, NEW S, NEW r, NEW B, Shape(K, S, r, B), r # None, NEW i \in Index,
         NEW n, n = S.dirs.dir[r][i], n # None,
         NEW R, Puts(S, R, r, i, None, -1), R.free = S.free, R.lost = S.lost \cup {n}
  PROVE  \E K2 : Loses(K, K2, S, R, r, B, i)
<1> DEFINE kid(p) == \E j \in Index : S.dirs.dir[n][j] = p
           K2 == [p \in Page |-> IF p = n THEN "lostpmd" ELSE IF kid(p) THEN "lostpte" ELSE K[p]]
<1>0. /\ S \in States /\ K \in [Page -> Kinds] /\ r \in Page /\ K[r] = "pgd" /\ ~S.panicked
      /\ S.free = Of(K, "free") /\ B = Of(K, "data") /\ S.lost = Lost(K) /\ Of(K, "pgd") = {r} \ {None}
      /\ Links(K, S) /\ Single(K, S) /\ Reached(K, S) /\ Counted(K, S) /\ Named(S, r)
      /\ Orphans(K, S)
  BY WalkKinds DEF Shape, Typed, Sorted, Of
<1>1. n \in Page /\ K[n] = "pmd" /\ n # r
  BY <1>0 DEF Links, Below, Inner, States, Cells
<1>2. /\ R \in States /\ ~R.panicked
      /\ R.dirs.dir[r][i] = None
      /\ \A y \in Page, z \in Index : ~(y = r /\ z = i) => R.dirs.dir[y][z] = S.dirs.dir[y][z]
      /\ \A y \in Page : y # r => R.dirs.entries[y] = S.dirs.entries[y]
  BY <1>0 DEF Puts
<1>3. \A p \in Page : kid(p) => K[p] = "pte" /\ p # n
  BY <1>0, <1>1, NoneIs DEF Links, Below, Inner
<1>4. /\ K2 \in [Page -> Kinds] /\ K2[n] = "lostpmd"
      /\ \A p \in Page : kid(p) => K2[p] = "lostpte"
      /\ \A p \in Page : p # n /\ ~kid(p) => K2[p] = K[p]
  <2>1. \A p \in Page : (IF p = n THEN "lostpmd" ELSE IF kid(p) THEN "lostpte" ELSE K[p]) \in Kinds
    BY <1>0 DEF Kinds
  <2>2. K2 \in [Page -> Kinds]
    BY <2>1, Zenon
  <2>3. \A p \in Page : K2[p] = IF p = n THEN "lostpmd" ELSE IF kid(p) THEN "lostpte" ELSE K[p]
    OBVIOUS
  <2> HIDE DEF K2
  <2>4. QED
    BY <1>1, <1>3, <2>2, <2>3
<1>5. \A y \in Page, z \in Index : K[y] \in Inner /\ S.dirs.dir[y][z] = n => y = r /\ z = i
  BY <1>0 DEF Single, Inner
<1>6. \A y \in Page, z \in Index : K[y] \in Inner /\ S.dirs.dir[y][z] # None /\ kid(S.dirs.dir[y][z]) => y = n
  <2> SUFFICES ASSUME NEW y \in Page, NEW z \in Index, K[y] \in Inner, S.dirs.dir[y][z] # None,
                      NEW j \in Index, S.dirs.dir[n][j] = S.dirs.dir[y][z]
               PROVE  y = n
    OBVIOUS
  <2>1. K[n] \in Inner /\ Single(K, S)
    BY <1>0, <1>1 DEF Inner
  <2>2. QED
    BY <1>1, <2>1 DEF Single
<1>61. ASSUME NEW p \in Page, K2[p] # K[p] PROVE p = n \/ kid(p)
  BY <1>4, <1>61
<1>62. n # None /\ kid(n) = FALSE
  BY <1>1, <1>3
<1>63. \A j \in Index : S.dirs.dir[n][j] # None => kid(S.dirs.dir[n][j])
  OBVIOUS
<1> HIDE DEF K2, kid
<1>7. Typed(K2, R, r) /\ Sorted(K2, R, r, B)
  <2>1. Typed(K2, R, r)
    BY <1>0, <1>2, <1>4 DEF Typed, Cells
  <2>2. ASSUME NEW p \in Page
        PROVE  /\ K2[p] = "free" <=> K[p] = "free"
               /\ K2[p] = "data" <=> K[p] = "data"
               /\ K2[p] = "pgd" <=> K[p] = "pgd"
               /\ K2[p] = "lostpmd" <=> K[p] = "lostpmd" \/ p = n
               /\ K2[p] = "lostpgd" <=> K[p] = "lostpgd"
    BY <1>1, <1>3, <1>4
  <2>3. QED
    BY <1>0, <1>1, <2>1, <2>2 DEF Sorted, Lost, Of
<1>8. Links(K2, R)
  <2> SUFFICES ASSUME NEW y \in Page, NEW z \in Index, K2[y] \in Inner \cup {"pte"}, R.dirs.dir[y][z] # None
               PROVE  K2[R.dirs.dir[y][z]] = Below(K2[y])
    BY DEF Links
  <2> DEFINE x == S.dirs.dir[y][z]
  <2>1. ~(y = r /\ z = i) /\ R.dirs.dir[y][z] = x /\ x # None /\ x \in Page
    BY <1>0, <1>2 DEF States, Cells
  <2>2. CASE y = n
    <3>1. kid(x)
      BY <1>63, <2>1, <2>2
    <3>2. QED
      BY <1>4, <2>1, <2>2, <3>1 DEF Below
  <2>3. CASE y # n
    <3>1. ~kid(y) /\ K2[y] = K[y]
      BY <1>4, <2>3 DEF Inner
    <3>2. K[x] = Below(K[y])
      BY <1>0, <2>1, <3>1 DEF Links
    <3>3. x # n
      <4>1. CASE K[y] \in Inner
        BY <1>5, <2>1, <4>1
      <4>2. CASE K[y] = "pte"
        BY <1>1, <3>2, <4>2 DEF Below
      <4>3. QED
        BY <3>1, <4>1, <4>2
    <3>4. ~kid(x)
      <4>1. CASE K[y] \in Inner
        BY <1>6, <2>1, <2>3, <4>1
      <4>2. CASE K[y] = "pte"
        BY <1>3, <2>1, <3>2, <4>2 DEF Below
      <4>3. QED
        BY <3>1, <4>1, <4>2
    <3>5. QED
      BY <1>4, <2>1, <3>1, <3>2, <3>3, <3>4
  <2>4. QED
    BY <2>2, <2>3
<1>81. \A y \in Page : K2[y] \in Inner => K[y] \in Inner
  BY <1>1, <1>4 DEF Inner
<1>9. Single(K2, R)
  <2> SUFFICES ASSUME NEW y \in Page, NEW e \in Page, NEW z \in Index, NEW w \in Index,
                      K2[y] \in Inner, K2[e] \in Inner,
                      R.dirs.dir[y][z] # None, R.dirs.dir[y][z] = R.dirs.dir[e][w]
               PROVE  y = e /\ z = w
    BY DEF Single
  <2>1. K[y] \in Inner /\ K[e] \in Inner
    BY <1>81
  <2>2. R.dirs.dir[y][z] = S.dirs.dir[y][z] /\ R.dirs.dir[e][w] = S.dirs.dir[e][w]
    BY <1>2
  <2>3. S.dirs.dir[y][z] # None /\ S.dirs.dir[y][z] = S.dirs.dir[e][w]
    BY <2>2
  <2>4. Single(K, S)
    BY <1>0
  <2>5. QED
    BY <2>1, <2>3, <2>4 DEF Single
<1>10. Reached(K2, R)
  <2> SUFFICES ASSUME NEW p \in Page, K2[p] \in {"pmd", "pte", "lostpte"}
               PROVE  \E e \in Page, w \in Index : K2[e] \in Inner /\ R.dirs.dir[e][w] = p
    BY DEF Reached
  <2>1. p # n /\ K[p] \in {"pmd", "pte", "lostpte"}
    BY <1>3, <1>4
  <2>2. PICK e \in Page, w \in Index : K[e] \in Inner /\ S.dirs.dir[e][w] = p
    BY <1>0, <2>1 DEF Reached
  <2>3. ~(e = r /\ w = i)
    BY <2>1, <2>2
  <2>4. K2[e] \in Inner
    BY <1>1, <1>3, <1>4, <2>2 DEF Inner
  <2>5. QED
    BY <1>2, <2>2, <2>3, <2>4
<1>11. /\ R.dirs.entries[r] = Cardinality(Slot(R, r))
       /\ \A y \in Page : y # r => Slot(R, y) = Slot(S, y)
  <2>1. S.dirs.entries[r] = Cardinality(Slot(S, r)) /\ None \in Cells
    BY <1>0 DEF Counted, Live, Cells
  <2>2. QED
    BY <1>0, <2>1, PutsCount
<1>12. Counted(K2, R)
  <2> SUFFICES ASSUME NEW y \in Page, K2[y] \in Live PROVE R.dirs.entries[y] = Cardinality(Slot(R, y))
    BY DEF Counted
  <2>1. K[y] \in Live
    BY <1>4 DEF Live
  <2>2. QED
    BY <1>0, <1>2, <1>11, <2>1 DEF Counted
<1>13. ASSUME NEW a \in Index, NEW b \in Index, NEW c \in Index
       PROVE  At3(R, r, a, b, c) = IF a = i THEN None ELSE At3(S, r, a, b, c)
  <2> DEFINE m == At1(S, r, a)
             t == At2(S, r, a, b)
  <2>1. /\ m # None => m \in Page /\ K[m] = "pmd"
        /\ t # None => m # None /\ t \in Page /\ K[t] = "pte"
    BY WalkKinds
  <2>2. /\ m = S.dirs.dir[r][a] /\ At1(R, r, a) = R.dirs.dir[r][a]
        /\ t = IF m = None THEN None ELSE S.dirs.dir[m][b]
        /\ At3(S, r, a, b, c) = IF t = None THEN None ELSE S.dirs.dir[t][c]
        /\ At2(R, r, a, b) = IF At1(R, r, a) = None THEN None ELSE R.dirs.dir[At1(R, r, a)][b]
        /\ At3(R, r, a, b, c) = IF At2(R, r, a, b) = None THEN None ELSE R.dirs.dir[At2(R, r, a, b)][c]
    BY DEF At1, At2, At3
  <2> HIDE DEF m, t
  <2>3. CASE a = i
    BY <1>2, <2>2, <2>3
  <2>4. CASE a # i
    <3>1. At1(R, r, a) = m
      BY <1>0, <1>2, <2>2, <2>4
    <3>2. m # None => R.dirs.dir[m][b] = S.dirs.dir[m][b]
      BY <1>0, <1>2, <2>1
    <3>3. At2(R, r, a, b) = t
      BY <2>2, <3>1, <3>2
    <3>4. t # None => R.dirs.dir[t][c] = S.dirs.dir[t][c]
      BY <1>0, <1>2, <2>1
    <3>5. QED
      BY <2>2, <2>4, <3>3, <3>4
  <2>5. QED
    BY <2>3, <2>4
<1>14. Named(R, r)
  BY <1>0, <1>13 DEF Named
<1>15. ASSUME Filled(K, S, None) PROVE Filled(K2, R, None)
  <2> SUFFICES ASSUME NEW y \in Page, K2[y] \in {"pmd", "pte"} PROVE Slot(R, y) # {}
    BY DEF Filled
  <2>1. K[y] \in {"pmd", "pte"} /\ y # r /\ y # None
    BY <1>0, <1>4, NoneIs
  <2>2. QED
    BY <1>11, <1>15, <2>1 DEF Filled
<1>16. Orphans(K2, R)
  BY <1>0, <1>1, <1>2, <1>3, <1>4, OrphansKept
<1>17. Loses(K, K2, S, R, r, B, i)
  BY <1>7, <1>8, <1>9, <1>10, <1>12, <1>13, <1>14, <1>15, <1>16 DEF Shape, Loses
<1>18. QED
  BY <1>17

(* An entry of the page table at <<a, b>>, made or removed *)
LEMMA SetLeaf ==
  ASSUME NEW K, NEW S, NEW r, NEW B, Shape(K, S, r, B), NEW a \in Index, NEW b \in Index, NEW k \in Index,
         NEW t, t = At2(S, r, a, b), t # None, <<a, b, k>> \in Vaddr, NEW x \in B \cup {None}, NEW c,
         \/ x # None /\ S.dirs.dir[t][k] = None /\ c = 1
         \/ x = None /\ S.dirs.dir[t][k] # None /\ c = -1,
         NEW R, Puts(S, R, t, k, x, c), R.free = S.free, R.lost = S.lost
  PROVE  /\ Shape(K, R, r, B)
         /\ \A e, f, g \in Index : At3(R, r, e, f, g) = IF <<e, f, g>> = <<a, b, k>> THEN x ELSE At3(S, r, e, f, g)
         /\ At1(R, r, a) = At1(S, r, a) /\ At2(R, r, a, b) = t
         /\ Filled(K, S, t) => Filled(K, R, t)
         /\ x # None /\ Filled(K, S, t) => Filled(K, R, None)
<1>a. t # None => At1(S, r, a) # None
  BY WalkKinds
<1>b. r # None
  BY <1>a, WalkKinds
<1>0. /\ S \in States /\ K \in [Page -> Kinds] /\ r \in Page /\ K[r] = "pgd" /\ ~S.panicked
      /\ S.free = Of(K, "free") /\ B = Of(K, "data") /\ S.lost = Lost(K) /\ Of(K, "pgd") = {r} \ {None}
      /\ Links(K, S) /\ Single(K, S) /\ Reached(K, S) /\ Counted(K, S) /\ Named(S, r)
      /\ Orphans(K, S)
  BY <1>b, WalkKinds DEF Shape, Typed, Sorted, Of
<1>1. t \in Page /\ K[t] = "pte" /\ t # r /\ At1(S, r, a) # None
  BY <1>0, WalkKinds
<1>2. /\ R \in States /\ ~R.panicked
      /\ R.dirs.dir[t][k] = x
      /\ \A y \in Page, z \in Index : ~(y = t /\ z = k) => R.dirs.dir[y][z] = S.dirs.dir[y][z]
      /\ \A y \in Page : y # t => R.dirs.entries[y] = S.dirs.entries[y]
  BY <1>0, <1>1 DEF Puts
<1>3. \A y \in Page, z \in Index : K[y] \in Inner => R.dirs.dir[y][z] = S.dirs.dir[y][z]
  BY <1>1, <1>2 DEF Inner
<1>4. Typed(K, R, r) /\ Sorted(K, R, r, B)
  BY <1>0, <1>2 DEF Typed, Sorted, Cells
<1>5. Links(K, R)
  <2> SUFFICES ASSUME NEW y \in Page, NEW z \in Index, K[y] \in Inner \cup {"pte"}, R.dirs.dir[y][z] # None
               PROVE  K[R.dirs.dir[y][z]] = Below(K[y])
    BY DEF Links
  <2>1. CASE y = t /\ z = k
    BY <1>0, <1>1, <1>2, <2>1 DEF Of, Below
  <2>2. CASE ~(y = t /\ z = k)
    BY <1>0, <1>2, <2>2 DEF Links
  <2>3. QED
    BY <2>1, <2>2
<1>6. Single(K, R)
  <2> SUFFICES ASSUME NEW y \in Page, NEW e \in Page, NEW z \in Index, NEW w \in Index,
                      K[y] \in Inner, K[e] \in Inner,
                      R.dirs.dir[y][z] # None, R.dirs.dir[y][z] = R.dirs.dir[e][w]
               PROVE  y = e /\ z = w
    BY DEF Single
  <2>1. S.dirs.dir[y][z] # None /\ S.dirs.dir[y][z] = S.dirs.dir[e][w]
    BY <1>3
  <2>2. Single(K, S)
    BY <1>0
  <2>3. QED
    BY <2>1, <2>2 DEF Single
<1>7. Reached(K, R)
  BY <1>0, <1>3 DEF Reached
<1>8. x \in Cells
  BY <1>0 DEF Of, Cells
<1>9. /\ R.dirs.entries[t] = Cardinality(Slot(R, t))
      /\ Slot(R, t) = IF x = None THEN Slot(S, t) \ {k} ELSE Slot(S, t) \cup {k}
      /\ \A y \in Page : y # t => Slot(R, y) = Slot(S, y)
  <2>1. S.dirs.entries[t] = Cardinality(Slot(S, t))
    BY <1>0, <1>1 DEF Counted, Live
  <2>2. QED
    BY <1>0, <1>1, <1>8, <2>1, PutsCount
<1>10. Counted(K, R)
  BY <1>0, <1>2, <1>9 DEF Counted
<1>11. ASSUME NEW e \in Index, NEW f \in Index
       PROVE  At1(R, r, e) = At1(S, r, e) /\ At2(R, r, e, f) = At2(S, r, e, f)
  <2>1. At1(S, r, e) # None => At1(S, r, e) \in Page /\ K[At1(S, r, e)] = "pmd"
    BY WalkKinds
  <2>2. At1(R, r, e) = At1(S, r, e)
    BY <1>0, <1>3 DEF At1, Inner
  <2>3. At1(S, r, e) # None => R.dirs.dir[At1(S, r, e)][f] = S.dirs.dir[At1(S, r, e)][f]
    BY <1>3, <2>1 DEF Inner
  <2>4. QED
    BY <2>2, <2>3 DEF At2
<1>12. ASSUME NEW e \in Index, NEW f \in Index, NEW g \in Index
       PROVE  At3(R, r, e, f, g) = IF <<e, f, g>> = <<a, b, k>> THEN x ELSE At3(S, r, e, f, g)
  <2> DEFINE y == At2(S, r, e, f)
  <2>1. /\ y # None => y \in Page
        /\ At3(S, r, e, f, g) = IF y = None THEN None ELSE S.dirs.dir[y][g]
        /\ At3(R, r, e, f, g) = IF y = None THEN None ELSE R.dirs.dir[y][g]
    BY <1>11, WalkKinds DEF At3
  <2>2. y = t => e = a /\ f = b
    BY WalkUnique
  <2>3. e = a /\ f = b => y = t
    OBVIOUS
  <2> HIDE DEF y
  <2>4. CASE e = a /\ f = b /\ g = k
    BY <1>2, <2>1, <2>3, <2>4
  <2>5. CASE ~(e = a /\ f = b /\ g = k)
    <3>1. y # None => R.dirs.dir[y][g] = S.dirs.dir[y][g]
      BY <1>2, <2>1, <2>2, <2>5
    <3>2. <<e, f, g>> # <<a, b, k>>
      BY <2>5
    <3>3. QED
      BY <2>1, <3>1, <3>2
  <2>6. QED
    BY <2>4, <2>5
<1>13. Named(R, r)
  BY <1>0, <1>12 DEF Named
<1>131. Orphans(K, R)
  BY <1>0, <1>1, <1>2, OrphansKept
<1>14. Shape(K, R, r, B)
  BY <1>4, <1>5, <1>6, <1>7, <1>10, <1>13, <1>131 DEF Shape
<1>15. ASSUME Filled(K, S, t) PROVE Filled(K, R, t) /\ (x # None => Filled(K, R, None))
  BY <1>1, <1>9, <1>15, NoneIs DEF Filled
<1>16. QED
  BY <1>11, <1>12, <1>14, <1>15

-----------------------------------------------------------------------------
(* The functions of pgdir.c *)
LEMMA StateFields ==
  ASSUME NEW S \in States
  PROVE  /\ S.free \in SUBSET Page /\ S.lost \in SUBSET Page /\ S.panicked \in BOOLEAN
         /\ S.dirs \in [dir: [Page -> [Index -> Cells]], entries: [Page -> Int]]
         /\ S.dirs.dir \in [Page -> [Index -> Cells]] /\ S.dirs.entries \in [Page -> Int]
         /\ \A d \in Page, i \in Index : S.dirs.dir[d][i] \in Cells
BY DEF States

LEMMA AddEntry ==
  ASSUME NEW S \in States, NEW d \in Page, NEW i \in Index, NEW x \in Cells, S.dirs.dir[d][i] = None
  PROVE  /\ Puts(S, pgdir_add_entry(S, d, i, x), d, i, x, 1)
         /\ pgdir_add_entry(S, d, i, x).free = S.free /\ pgdir_add_entry(S, d, i, x).lost = S.lost
<1> DEFINE R == pgdir_add_entry(S, d, i, x)
           D == [S.dirs.dir EXCEPT ![d] = [S.dirs.dir[d] EXCEPT ![i] = x]]
           E == [S.dirs.entries EXCEPT ![d] = S.dirs.entries[d] + 1]
<1>1. R = [S EXCEPT !.dirs.dir[d][i] = x, !.dirs.entries[d] = @ + 1]
  BY DEF pgdir_add_entry
<1>2. R.dirs.dir = D /\ R.dirs.entries = E /\ R.free = S.free /\ R.lost = S.lost /\ R.panicked = S.panicked
  BY <1>1, ZenonT(30) DEF States
<1>3. R \in States
  <2>1. D \in [Page -> [Index -> Cells]] /\ E \in [Page -> Int]
    BY StateFields
  <2>2. R = [free |-> S.free, dirs |-> [dir |-> D, entries |-> E], lost |-> S.lost, panicked |-> S.panicked]
    BY <1>1, StateFields DEF States
  <2> HIDE DEF R, D, E
  <2>3. [dir |-> D, entries |-> E] \in [dir: [Page -> [Index -> Cells]], entries: [Page -> Int]]
    BY <2>1
  <2>4. QED
    BY <2>2, <2>3, StateFields DEF States
<1> HIDE DEF R
<1>4. QED
  BY <1>2, <1>3, StateFields DEF Puts, R

LEMMA RemoveEntry ==
  ASSUME NEW S \in States, NEW d \in Page, NEW i \in Index
  PROVE  /\ Puts(S, pgdir_remove_entry(S, d, i), d, i, None, -1)
         /\ pgdir_remove_entry(S, d, i).free = S.free /\ pgdir_remove_entry(S, d, i).lost = S.lost
<1> DEFINE R == pgdir_remove_entry(S, d, i)
           D == [S.dirs.dir EXCEPT ![d] = [S.dirs.dir[d] EXCEPT ![i] = None]]
           E == [S.dirs.entries EXCEPT ![d] = S.dirs.entries[d] - 1]
<1>1. R = [S EXCEPT !.dirs.dir[d][i] = None, !.dirs.entries[d] = @ - 1]
  BY DEF pgdir_remove_entry
<1>2. R.dirs.dir = D /\ R.dirs.entries = E /\ R.free = S.free /\ R.lost = S.lost /\ R.panicked = S.panicked
  BY <1>1, ZenonT(30) DEF States
<1>3. R \in States
  <2>1. D \in [Page -> [Index -> Cells]] /\ E \in [Page -> Int]
    BY StateFields DEF Cells
  <2>2. R = [free |-> S.free, dirs |-> [dir |-> D, entries |-> E], lost |-> S.lost, panicked |-> S.panicked]
    BY <1>1, StateFields DEF States
  <2> HIDE DEF R, D, E
  <2>3. [dir |-> D, entries |-> E] \in [dir: [Page -> [Index -> Cells]], entries: [Page -> Int]]
    BY <2>1
  <2>4. QED
    BY <2>2, <2>3, StateFields DEF States
<1> HIDE DEF R
<1>4. QED
  BY <1>2, <1>3, StateFields DEF Puts, R

LEMMA AddPgdir ==
  ASSUME NEW S \in States, NEW d \in Page, NEW i \in Index, S.dirs.dir[d][i] = None,
         NEW n \in S.free, n # d, S.free # {}, n = Min(S.free)
  PROVE  LinksNew(S, pgdir_add_pgdir(S, d, i), d, i, n)
<1> DEFINE S1 == [S EXCEPT !.free = @ \ {n}, !.dirs = pgdir_new(@, n)]
           R == pgdir_add_pgdir(S, d, i)
           D == [S.dirs.dir EXCEPT ![n] = [z \in Index |-> None]]
           E == [S.dirs.entries EXCEPT ![n] = 0]
<1>0. n \in Page
  BY StateFields
<1>1. R = pgdir_add_entry(S1, d, i, n)
  BY DEF pgdir_add_pgdir
<1>2. /\ S1.dirs.dir = D /\ S1.dirs.entries = E /\ S1.free = S.free \ {n} /\ S1.lost = S.lost
      /\ S1.panicked = S.panicked
  BY DEF States, pgdir_new
<1>3. S1 \in States
  <2>1. D \in [Page -> [Index -> Cells]] /\ E \in [Page -> Int]
    BY <1>0, StateFields DEF Cells
  <2>2. pgdir_new(S.dirs, n) \in [dir: [Page -> [Index -> Cells]], entries: [Page -> Int]]
    BY <2>1 DEF pgdir_new
  <2>3. QED
    BY <2>2, StateFields DEF States
<1> HIDE DEF S1
<1>4. \A y \in Page, z \in Index : S1.dirs.dir[y][z] = IF y = n THEN None ELSE S.dirs.dir[y][z]
  BY <1>0, <1>2, StateFields
<1>5. \A y \in Page : S1.dirs.entries[y] = IF y = n THEN 0 ELSE S.dirs.entries[y]
  BY <1>0, <1>2, StateFields
<1>6. Puts(S1, R, d, i, n, 1) /\ R.free = S1.free /\ R.lost = S1.lost
  <2>1. S1.dirs.dir[d][i] = None /\ n \in Cells
    BY <1>0, <1>4 DEF Cells
  <2>2. QED
    BY <1>1, <1>3, <2>1, AddEntry
<1> HIDE DEF R
<1>7. LinksNew(S, R, d, i, n)
  BY <1>2, <1>4, <1>5, <1>6 DEF LinksNew, Puts
<1>8. QED
  BY <1>7 DEF R

LEMMA RemovePgdir ==
  ASSUME NEW S \in States, NEW d \in Page, NEW i \in Index, NEW n \in Page, n = S.dirs.dir[d][i], n # d
  PROVE  LET R == pgdir_remove_pgdir(S, d, i)
         IN /\ Puts(S, R, d, i, None, -1)
            /\ IF S.dirs.entries[n] = 0 THEN R.free = S.free \cup {n} /\ R.lost = S.lost
               ELSE R.free = S.free /\ R.lost = S.lost \cup {n}
<1> DEFINE R1 == pgdir_remove_entry(S, d, i)
           R == pgdir_remove_pgdir(S, d, i)
<1>1. Puts(S, R1, d, i, None, -1) /\ R1.free = S.free /\ R1.lost = S.lost
  BY RemoveEntry
<1>2. R1 \in States /\ R1.dirs.entries[n] = S.dirs.entries[n]
  BY <1>1 DEF Puts
<1>3. R = IF R1.dirs.entries[n] = 0 THEN [R1 EXCEPT !.free = @ \cup {n}] ELSE [R1 EXCEPT !.lost = @ \cup {n}]
  BY DEF pgdir_remove_pgdir
<1> HIDE DEF R1, R
<1>4. /\ R \in States /\ R.dirs = R1.dirs /\ R.panicked = R1.panicked
      /\ IF S.dirs.entries[n] = 0 THEN R.free = R1.free \cup {n} /\ R.lost = R1.lost
         ELSE R.free = R1.free /\ R.lost = R1.lost \cup {n}
  <2>1. R1.free \cup {n} \in SUBSET Page /\ R1.lost \cup {n} \in SUBSET Page
    BY <1>2, StateFields
  <2>2. QED
    BY <1>2, <1>3, <2>1 DEF States
<1>5. Puts(S, R, d, i, None, -1)
  BY <1>1, <1>4 DEF Puts
<1>6. QED
  BY <1>1, <1>4, <1>5 DEF R

-----------------------------------------------------------------------------
LEMMA IndexOf ==
  ASSUME NEW v \in Vaddr
  PROVE  v[1] \in Index /\ v[2] \in Index /\ v[3] \in Index /\ v = <<v[1], v[2], v[3]>>
BY TableAssumption DEF Index

LEMMA CreatedIs ==
  ASSUME NEW S, NEW v
  PROVE  /\ Created(S, v) <=> At2(S, root, v[1], v[2]) # None
         /\ Entry(S.dirs, root, v[1]) = At1(S, root, v[1])
BY DEF Created, Entry, At1, At2

(* What the clean-up of pgtable_get may do: unmap all that shares the      *)
(* upper level entry i.                                                    *)
DropsWalks(S, R, r, i) ==
  \A a, b, c \in Index : At3(R, r, a, b, c) = IF a = i THEN None ELSE At3(S, r, a, b, c)

(* pgtable_get with @create: the page table of v exists, and only it may   *)
(* be empty; or there is no memory for it.                                 *)
GotTable(K, S, R, v) ==
  /\ At2(R, root, v[1], v[2]) # None
  /\ Filled(K, R, At2(R, root, v[1], v[2])) /\ SameWalks(S, R, root)

GotNone(K, S, R, v) ==
  /\ At2(R, root, v[1], v[2]) = None /\ At2(S, root, v[1], v[2]) = None
  /\ Filled(K, R, None)
  /\ SameWalks(S, R, root) \/ DropsWalks(S, R, root, v[1])

Gets(K, S, R, v) ==
  Shape(K, R, root, data) /\ (GotTable(K, S, R, v) \/ GotNone(K, S, R, v))

(* The second level: the PMD of v exists in S. *)
LEMMA GetLower ==
  ASSUME NEW v \in Vaddr, root # None, NEW K, NEW S, Shape(K, S, root, data),
         NEW m, m = At1(S, root, v[1]), m # None, Filled(K, S, m),
         At2(S, root, v[1], v[2]) = None
  PROVE  LET S2 == pgdir_add_pgdir(S, m, v[2])
         IN IF S.free = {} THEN S2 = S
            ELSE \E K2 : Shape(K2, S2, root, data) /\ GotTable(K2, S, S2, v)
<1> DEFINE n == Min(S.free)
           S2 == pgdir_add_pgdir(S, m, v[2])
<1>0. v[1] \in Index /\ v[2] \in Index /\ v[3] \in Index
  BY IndexOf
<1>1. S \in States /\ S.free = Of(K, "free")
  BY DEF Shape, Typed, Sorted
<1>2. m \in Page /\ K[m] = "pmd" /\ root \in Page /\ K[root] = "pgd"
  BY <1>0, WalkKinds
<1>3. CASE S.free = {}
  BY <1>3 DEF pgdir_add_pgdir
<1>4. CASE S.free # {}
  <2>1. n \in S.free
    <3>1. S.free \in SUBSET Nat
      BY <1>1, StateFields, NoneIs
    <3>2. QED
      BY <1>4, <3>1, MinIn
  <2>2. n # m /\ n # root /\ n \in Page
    BY <1>1, <1>2, <2>1 DEF Of
  <2>3. S.dirs.dir[m][v[2]] = None
    BY DEF At2
  <2>4. LinksNew(S, S2, m, v[2], n)
    BY <1>0, <1>1, <1>2, <1>4, <2>1, <2>2, <2>3, AddPgdir
  <2> DEFINE K2 == [K EXCEPT ![n] = Below(K[m])]
  <2> HIDE DEF n, S2
  <2>5. /\ Shape(K2, S2, root, data) /\ SameWalks(S, S2, root)
        /\ \A x \in {None, m} : Filled(K, S, x) => Filled(K2, S2, n)
    BY <1>0, <1>2, <2>1, <2>3, <2>4, LinkDir
  <2>6. At1(S2, root, v[1]) = m /\ At2(S2, root, v[1], v[2]) = n
    <3>1. /\ S2.dirs.dir[root][v[1]] = S.dirs.dir[root][v[1]] /\ S2.dirs.dir[m][v[2]] = n
      <4>1. root # m
        BY <1>2
      <4>2. QED
        BY <1>0, <1>2, <2>2, <2>4, <4>1 DEF LinksNew
    <3>2. At1(S2, root, v[1]) = m
      BY <3>1 DEF At1
    <3>3. QED
      BY <3>1, <3>2 DEF At2
  <2>7. n # None
    BY <2>2, NoneIs
  <2> HIDE DEF K2
  <2>8. GotTable(K2, S, S2, v)
    BY <2>5, <2>6, <2>7 DEF GotTable
  <2>9. QED
    BY <1>4, <2>5, <2>8 DEF S2
<1>5. QED
  BY <1>3, <1>4

LEMMA Get ==
  ASSUME NEW v \in Vaddr, root # None, NEW K, NEW S, Shape(K, S, root, data), Filled(K, S, None)
  PROVE  \E K2 : Gets(K2, S, pgtable_get(S, v), v)
<1> DEFINE i == v[1]
           j == v[2]
           S1 == IF S.dirs.dir[root][i] # None THEN S ELSE pgdir_add_pgdir(S, root, i)
           m == S1.dirs.dir[root][i]
           S2 == IF m = None \/ Created(S1, v) THEN S1 ELSE pgdir_add_pgdir(S1, m, j)
<1>0. i \in Index /\ j \in Index /\ v[3] \in Index
  BY IndexOf
<1>1. pgtable_get(S, v) = IF Created(S2, v) THEN S2 ELSE nomem(S2, v)
  BY Zenon DEF pgtable_get
<1>2. S \in States /\ S.free = Of(K, "free")
  BY DEF Shape, Typed, Sorted
<1>3. root \in Page /\ K[root] = "pgd"
  BY <1>0, WalkKinds
<1>4. SameWalks(S, S, root)
  BY DEF SameWalks
<1>a. \A x : Filled(K, S, x)
  <2> TAKE x
  <2>1. \A d \in Page : d # None
    BY NoneIs
  <2>2. QED
    BY <2>1 DEF Filled
<1>5. CASE S.dirs.dir[root][i] # None
  <2>1. S1 = S /\ m = At1(S, root, i) /\ m # None
    BY <1>5 DEF At1
  <2>11. m \in Page /\ K[m] = "pmd"
    BY <1>0, <2>1, WalkKinds
  <2>2. CASE Created(S, v)
    <3>1. S2 = S /\ At2(S, root, i, j) # None
      BY <2>1, <2>2, CreatedIs
    <3>2. pgtable_get(S, v) = S
      BY <1>1, <2>2, <3>1
    <3>3. Filled(K, S, At2(S, root, v[1], v[2]))
      BY <1>a
    <3>4. Gets(K, S, S, v)
      BY <1>4, <3>1, <3>3 DEF Gets, GotTable
    <3>5. QED
      BY <3>2, <3>4
  <2>3. CASE ~Created(S, v)
    <3>1. S2 = pgdir_add_pgdir(S, m, j) /\ At2(S, root, i, j) = None
      BY <2>1, <2>3, CreatedIs
    <3>2. Filled(K, S, m)
      BY <1>a
    <3>3. CASE S.free # {}
      <4>1. PICK K2 : Shape(K2, pgdir_add_pgdir(S, m, j), root, data) /\ GotTable(K2, S, pgdir_add_pgdir(S, m, j), v)
        <5> HIDE DEF m
        <5>1. QED
          BY <2>1, <3>1, <3>2, <3>3, GetLower
      <4>2. Created(S2, v)
        BY <3>1, <4>1, CreatedIs DEF GotTable
      <4>3. QED
        BY <1>1, <3>1, <4>1, <4>2 DEF Gets
    <3>4. CASE S.free = {}
      <4>1. S2 = S
        BY <3>1, <3>4 DEF pgdir_add_pgdir
      <4>2. pgtable_get(S, v) = pgdir_remove_pgdir(S, root, i)
        <5>1. pgtable_get(S, v) = nomem(S, v)
          BY <1>1, <2>3, <4>1
        <5>2. QED
          BY <2>1, <5>1, CreatedIs DEF nomem
      <4> DEFINE R == pgdir_remove_pgdir(S, root, i)
      <4> HIDE DEF m, S2, S1
      <4>3. m = S.dirs.dir[root][i] /\ m # root
        BY <1>3, <2>1, <2>11 DEF At1
      <4>4. S.dirs.entries[m] # 0
        <5>1. Slot(S, m) # {} /\ Slot(S, m) \in SUBSET Index
          BY <2>1, <2>11 DEF Filled, Slot
        <5>2. S.dirs.entries[m] = Cardinality(Slot(S, m))
          BY <2>11 DEF Shape, Counted, Live
        <5>3. QED
          BY <5>1, <5>2, CountSlots
      <4>5. Puts(S, R, root, i, None, -1) /\ R.free = S.free /\ R.lost = S.lost \cup {m}
        BY <1>0, <1>2, <1>3, <2>11, <4>3, <4>4, RemovePgdir
      <4> HIDE DEF R
      <4>6. PICK K2 : Loses(K, K2, S, R, root, data, i)
        BY <1>0, <2>1, <4>3, <4>5, LosePmd
      <4>7. At2(R, root, i, j) = None
        <5>1. R.dirs.dir[root][i] = None
          BY <1>0, <1>3, <4>5 DEF Puts
        <5>2. QED
          BY <5>1 DEF At1, At2
      <4>8. Gets(K2, S, R, v)
        BY <3>1, <4>6, <4>7 DEF Loses, Gets, GotNone, DropsWalks
      <4>9. QED
        BY <4>2, <4>8 DEF R
    <3>5. QED
      BY <3>3, <3>4
  <2>4. QED
    BY <2>2, <2>3
<1>6. CASE S.dirs.dir[root][i] = None /\ S.free = {}
  <2>1. S1 = S /\ m = None /\ S2 = S
    BY <1>6 DEF pgdir_add_pgdir
  <2>2. At1(S, root, i) = None /\ At2(S, root, i, j) = None
    BY <1>6 DEF At1, At2
  <2>3. pgtable_get(S, v) = S
    <3>1. ~Created(S, v) /\ Entry(S.dirs, root, v[1]) = None
      BY <2>2, CreatedIs
    <3>2. QED
      BY <1>1, <2>1, <3>1 DEF nomem
  <2>4. Gets(K, S, S, v)
    BY <1>4, <2>2 DEF Gets, GotNone
  <2>5. QED
    BY <2>3, <2>4
<1>7. CASE S.dirs.dir[root][i] = None /\ S.free # {}
  <2> DEFINE n == Min(S.free)
             N == pgdir_add_pgdir(S, root, i)
  <2>1. n \in S.free
    <3>1. S.free \in SUBSET Nat
      BY <1>2, StateFields, NoneIs
    <3>2. QED
      BY <1>7, <3>1, MinIn
  <2>2. n # root /\ n \in Page /\ n # None
    BY <1>2, <1>3, <2>1, NoneIs DEF Of
  <2>3. LinksNew(S, N, root, i, n)
    BY <1>0, <1>2, <1>3, <1>7, <2>1, <2>2, AddPgdir
  <2> DEFINE K1 == [K EXCEPT ![n] = Below(K[root])]
  <2>4. S1 = N
    BY <1>7
  <2> HIDE DEF N, n, S1
  <2>5. Shape(K1, N, root, data) /\ SameWalks(S, N, root) /\ Filled(K1, N, n)
    BY <1>0, <1>3, <1>7, <2>1, <2>3, LinkDir
  <2> HIDE DEF K1
  <2>6. /\ N \in States /\ N.dirs.dir[root][i] = n /\ \A z \in Index : N.dirs.dir[n][z] = None
        /\ N.dirs.entries[n] = 0 /\ N.free = S.free \ {n}
    BY <1>0, <1>3, <2>2, <2>3 DEF LinksNew
  <2>7. At1(N, root, i) = n /\ At2(N, root, i, j) = None /\ m = n
    BY <1>0, <2>2, <2>4, <2>6 DEF At1, At2
  <2>8. At2(S, root, i, j) = None
    BY <1>7 DEF At1, At2
  <2>9. S2 = pgdir_add_pgdir(N, n, j)
    <3>1. ~Created(N, v)
      BY <2>7, CreatedIs
    <3>2. QED
      BY <2>2, <2>4, <2>7, <3>1
  <2> HIDE DEF m, S2
  <2>10. CASE N.free # {}
    <3>1. PICK K2 : Shape(K2, S2, root, data) /\ GotTable(K2, N, S2, v)
      BY <2>2, <2>5, <2>7, <2>9, <2>10, GetLower
    <3>2. Created(S2, v)
      BY <3>1, CreatedIs DEF GotTable
    <3>3. GotTable(K2, S, S2, v)
      BY <2>5, <3>1 DEF GotTable, SameWalks
    <3>4. QED
      BY <1>1, <3>1, <3>2, <3>3 DEF Gets
  <2>11. CASE N.free = {}
    <3>1. S2 = N
      BY <2>9, <2>11 DEF pgdir_add_pgdir
    <3>2. pgtable_get(S, v) = pgdir_remove_pgdir(N, root, i)
      <4>1. ~Created(N, v) /\ Entry(N.dirs, root, v[1]) = n
        BY <2>7, CreatedIs
      <4>2. QED
        BY <1>1, <2>2, <3>1, <4>1 DEF nomem
    <3> DEFINE R == pgdir_remove_pgdir(N, root, i)
    <3>3. Puts(N, R, root, i, None, -1) /\ R.free = N.free \cup {n} /\ R.lost = N.lost
      BY <1>0, <1>3, <2>2, <2>6, RemovePgdir
    <3> HIDE DEF R
    <3> DEFINE K2 == [K1 EXCEPT ![n] = "free"]
    <3>4. K1[root] = "pgd" /\ Slot(N, n) = {}
      BY <1>0, <2>5, <2>6, WalkKinds DEF Slot
    <3>5. /\ Shape(K2, R, root, data) /\ SameWalks(N, R, root)
          /\ Filled(K2, R, root)
      BY <1>0, <1>3, <2>2, <2>5, <2>6, <3>3, <3>4, UnlinkDir
    <3> HIDE DEF K2
    <3>6. Filled(K2, R, None)
      <4>1. K2[root] = "pgd"
        BY <1>0, <3>5, WalkKinds
      <4>2. QED
        BY <1>3, <3>5, <4>1 DEF Filled
    <3>7. At2(R, root, i, j) = None
      <4>1. R.dirs.dir[root][i] = None
        BY <1>0, <1>3, <3>3 DEF Puts
      <4>2. QED
        BY <4>1 DEF At1, At2
    <3>8. SameWalks(S, R, root)
      BY <2>5, <3>5 DEF SameWalks
    <3>9. Gets(K2, S, R, v)
      BY <2>8, <3>5, <3>6, <3>7, <3>8 DEF Gets, GotNone
    <3>10. QED
      BY <3>2, <3>9 DEF R
  <2>12. QED
    BY <2>10, <2>11
<1>8. QED
  BY <1>5, <1>6, <1>7

-----------------------------------------------------------------------------
(* The inductive invariant *)
Holds(K, S, r, B) == Shape(K, S, r, B) /\ Filled(K, S, None)
Good(S, r, B) == \E K : Holds(K, S, r, B)
Inv == Good(State, root, data)

LEMMA LookupIs ==
  ASSUME NEW v
  PROVE  /\ pmd(v) = At1(State, root, v[1]) /\ pte(v) = At2(State, root, v[1], v[2])
         /\ Lookup(v) = At3(State, root, v[1], v[2], v[3])
<1>1. State.dirs = T
  BY DEF State
<1>2. pmd(v) = At1(State, root, v[1])
  BY <1>1 DEF pmd, Entry, At1
<1>3. pte(v) = At2(State, root, v[1], v[2])
  BY <1>1, <1>2 DEF pte, Entry, At2
<1>4. Lookup(v) = At3(State, root, v[1], v[2], v[3])
  BY <1>1, <1>3 DEF Lookup, Entry, At1, At2, At3
<1>5. QED
  BY <1>2, <1>3, <1>4

(* The entry at v is x, and no other walk changes. *)
SetsWalk(S, R, r, v, x) ==
  \A e, f, g \in Index : At3(R, r, e, f, g) = IF <<e, f, g>> = v THEN x ELSE At3(S, r, e, f, g)

(* A call of pgtable_insert does nothing, runs out of memory, or maps p.   *)
Inserts(S, R, v, p, replace) ==
  \/ SameWalks(S, R, root) /\ (v # Zero /\ replace => At3(S, root, v[1], v[2], v[3]) = None)
  \/ DropsWalks(S, R, root, v[1]) /\ At2(S, root, v[1], v[2]) = None
  \/ v # Zero /\ SetsWalk(S, R, root, v, p)

(* The page table t of v exists: an entry is made in it. *)
LEMMA FillLeaf ==
  ASSUME NEW v \in Vaddr, NEW K, NEW S, Shape(K, S, root, data), NEW p \in data,
         NEW t, t = At2(S, root, v[1], v[2]), t # None, Filled(K, S, t), S.dirs.dir[t][v[3]] = None
  PROVE  LET R == pgdir_add_entry(S, t, v[3], p)
         IN Holds(K, R, root, data) /\ SetsWalk(S, R, root, v, p)
<1> DEFINE R == pgdir_add_entry(S, t, v[3], p)
<1>0. v[1] \in Index /\ v[2] \in Index /\ v[3] \in Index /\ v = <<v[1], v[2], v[3]>>
  BY IndexOf
<1>1. S \in States /\ data = Of(K, "data")
  BY DEF Shape, Typed, Sorted
<1>2. t \in Page /\ p \in Page /\ p \in Cells /\ p # None
  BY <1>0, <1>1, WalkKinds, NoneIs DEF Of, Cells
<1>3. Puts(S, R, t, v[3], p, 1) /\ R.free = S.free /\ R.lost = S.lost
  BY <1>0, <1>1, <1>2, AddEntry
<1> HIDE DEF R
<1>4. p \in data \cup {None} /\ <<v[1], v[2], v[3]>> \in Vaddr
  BY <1>0
<1>5. /\ Shape(K, R, root, data) /\ Filled(K, R, None)
      /\ \A e, f, g \in Index :
           At3(R, root, e, f, g) = IF <<e, f, g>> = <<v[1], v[2], v[3]>> THEN p ELSE At3(S, root, e, f, g)
  BY <1>0, <1>2, <1>3, <1>4, SetLeaf
<1>6. QED
  BY <1>0, <1>5 DEF Holds, SetsWalk, R

(* The entry of v is removed. *)
LEMMA ClearLeaf ==
  ASSUME NEW v \in Vaddr, NEW K, NEW S, Shape(K, S, root, data),
         NEW t, t = At2(S, root, v[1], v[2]), t # None, Filled(K, S, t), S.dirs.dir[t][v[3]] # None
  PROVE  LET R == pgdir_remove_entry(S, t, v[3])
         IN /\ Shape(K, R, root, data) /\ Filled(K, R, t) /\ SetsWalk(S, R, root, v, None)
            /\ At1(R, root, v[1]) = At1(S, root, v[1]) /\ At2(R, root, v[1], v[2]) = t
            /\ R.dirs.dir[t][v[3]] = None
<1> DEFINE R == pgdir_remove_entry(S, t, v[3])
<1>0. v[1] \in Index /\ v[2] \in Index /\ v[3] \in Index /\ v = <<v[1], v[2], v[3]>>
  BY IndexOf
<1>1. S \in States
  BY DEF Shape, Typed
<1>2. t \in Page
  BY <1>0, WalkKinds
<1>3. Puts(S, R, t, v[3], None, -1) /\ R.free = S.free /\ R.lost = S.lost
  BY <1>0, <1>1, <1>2, RemoveEntry
<1> HIDE DEF R
<1>4. None \in data \cup {None} /\ <<v[1], v[2], v[3]>> \in Vaddr
  BY <1>0
<1>5. /\ Shape(K, R, root, data) /\ Filled(K, R, t)
      /\ At1(R, root, v[1]) = At1(S, root, v[1]) /\ At2(R, root, v[1], v[2]) = t
      /\ \A e, f, g \in Index :
           At3(R, root, e, f, g) = IF <<e, f, g>> = <<v[1], v[2], v[3]>> THEN None ELSE At3(S, root, e, f, g)
  BY <1>0, <1>3, <1>4, SetLeaf
<1>6. R.dirs.dir[t][v[3]] = None
  BY <1>0, <1>2, <1>3 DEF Puts
<1>7. QED
  BY <1>0, <1>5, <1>6 DEF SetsWalk, R

LEMMA InsertStep ==
  ASSUME Inv, root # None, NEW v \in Vaddr, NEW p \in data, NEW replace \in BOOLEAN, Lookup(v) # p
  PROVE  LET R == pgtable_insert(v, p, replace)
         IN Good(R, root, data) /\ Inserts(State, R, v, p, replace)
<1> DEFINE S == pgtable_get(State, v)
           d == S.dirs.dir[S.dirs.dir[root][v[1]]][v[2]]
           old == S.dirs.dir[d][v[3]]
           R == pgtable_insert(v, p, replace)
<1>0. v[1] \in Index /\ v[2] \in Index /\ v[3] \in Index /\ v = <<v[1], v[2], v[3]>>
  BY IndexOf
<1>1. R = IF v = Zero THEN State
          ELSE IF ~Created(S, v) THEN S
          ELSE IF old = p THEN pgdir_add_entry(S, d, v[3], p)
          ELSE IF old # None /\ ~replace THEN S
          ELSE pgdir_add_entry(Replaced(S, d, v[3]), d, v[3], p)
  BY Zenon DEF pgtable_insert
<1>2. PICK K : Shape(K, State, root, data) /\ Filled(K, State, None)
  BY DEF Inv, Good, Holds
<1>3. SameWalks(State, State, root)
  BY DEF SameWalks
<1>4. CASE v = Zero
  BY <1>1, <1>2, <1>3, <1>4 DEF Good, Holds, Inserts
<1>5. PICK K2 : Gets(K2, State, S, v)
  BY <1>2, Get
<1> HIDE DEF S, R
<1>6. CASE v # Zero /\ ~Created(S, v)
  <2>1. R = S
    BY <1>1, <1>6
  <2>2. GotNone(K2, State, S, v) /\ Shape(K2, S, root, data)
    BY <1>5, <1>6, CreatedIs DEF Gets, GotTable
  <2>3. At3(State, root, v[1], v[2], v[3]) = None
    BY <2>2 DEF GotNone, At3
  <2>4. Inserts(State, S, v, p, replace)
    BY <2>2, <2>3 DEF GotNone, Inserts
  <2>5. QED
    BY <2>1, <2>2, <2>4 DEF GotNone, Good, Holds, R
<1>7. CASE v # Zero /\ Created(S, v)
  <2>1. GotTable(K2, State, S, v) /\ Shape(K2, S, root, data)
    BY <1>5, <1>7, CreatedIs DEF Gets, GotNone
  <2>2. d = At2(S, root, v[1], v[2]) /\ d # None
    BY <1>7, CreatedIs DEF At1, At2
  <2>3. Filled(K2, S, d) /\ SameWalks(State, S, root)
    BY <2>1, <2>2 DEF GotTable
  <2>4. old = At3(S, root, v[1], v[2], v[3])
    BY <2>2 DEF At3
  <2>5. old = Lookup(v)
    BY <1>0, <2>3, <2>4, LookupIs DEF SameWalks
  <2> HIDE DEF d, old
  <2>6. old # p /\ old = S.dirs.dir[d][v[3]]
    BY <2>5 DEF old
  <2>7. CASE old # None /\ ~replace
    <3>1. R = S
      BY <1>1, <1>7, <2>6, <2>7
    <3>2. Filled(K2, S, None)
      <4>1. Slot(S, d) # {}
        BY <1>0, <2>6, <2>7 DEF Slot
      <4>2. QED
        BY <2>3, <4>1 DEF Filled
    <3>3. Inserts(State, S, v, p, replace)
      BY <2>3, <2>7 DEF Inserts
    <3>4. QED
      BY <2>1, <3>1, <3>2, <3>3 DEF Good, Holds, R
  <2>8. CASE old = None
    <3>1. R = pgdir_add_entry(S, d, v[3], p)
      BY <1>1, <1>7, <2>6, <2>8 DEF Replaced
    <3>2. Holds(K2, R, root, data) /\ SetsWalk(S, R, root, v, p)
      BY <2>1, <2>2, <2>3, <2>6, <2>8, <3>1, FillLeaf
    <3>3. SetsWalk(State, R, root, v, p)
      BY <2>3, <3>2 DEF SetsWalk, SameWalks
    <3>4. QED
      BY <1>7, <3>2, <3>3 DEF Good, Inserts, R
  <2>9. CASE old # None /\ replace
    <3> DEFINE S1 == pgdir_remove_entry(S, d, v[3])
    <3>1. R = pgdir_add_entry(S1, d, v[3], p)
      BY <1>1, <1>7, <2>6, <2>9 DEF Replaced
    <3>2. /\ Shape(K2, S1, root, data) /\ Filled(K2, S1, d) /\ SetsWalk(S, S1, root, v, None)
          /\ At2(S1, root, v[1], v[2]) = d /\ S1.dirs.dir[d][v[3]] = None
      BY <2>1, <2>2, <2>3, <2>6, <2>9, ClearLeaf
    <3> HIDE DEF S1
    <3>3. Holds(K2, R, root, data) /\ SetsWalk(S1, R, root, v, p)
      BY <2>2, <3>1, <3>2, FillLeaf
    <3>4. SetsWalk(State, R, root, v, p)
      BY <2>3, <3>2, <3>3 DEF SetsWalk, SameWalks
    <3>5. QED
      BY <1>7, <3>3, <3>4 DEF Good, Inserts, R
  <2>10. QED
    BY <2>7, <2>8, <2>9
<1>8. QED
  BY <1>4, <1>6, <1>7

-----------------------------------------------------------------------------
(* The entry of v is gone, and the PMD m of v alone may be empty. *)
Unset(K, R, m, v) ==
  /\ Shape(K, R, root, data) /\ Filled(K, R, m) /\ At1(R, root, v[1]) = m
  /\ SetsWalk(State, R, root, v, None)

(* A directory d without entries may be empty; with an entry it is not. *)
LEMMA EntriesTell ==
  ASSUME NEW K, NEW S, NEW r, NEW B, Shape(K, S, r, B), NEW d \in Page, K[d] \in Live
  PROVE  S.dirs.entries[d] = 0 <=> Slot(S, d) = {}
<1>1. S.dirs.entries[d] = Cardinality(Slot(S, d)) /\ Slot(S, d) \in SUBSET Index
  BY DEF Shape, Counted, Slot
<1>2. QED
  BY <1>1, CountSlots

LEMMA RemovePteStep ==
  ASSUME Inv, root # None, NEW v \in Vaddr
  PROVE  \E K : Unset(K, RemovePte(v), pmd(v), v)
<1> DEFINE m == At1(State, root, v[1])
           t == At2(State, root, v[1], v[2])
           S == IF Lookup(v) = None THEN State ELSE pgdir_remove_entry(State, t, v[3])
           R == RemovePte(v)
<1>0. v[1] \in Index /\ v[2] \in Index /\ v[3] \in Index /\ v = <<v[1], v[2], v[3]>>
  BY IndexOf
<1>1. pmd(v) = m /\ pte(v) = t /\ Lookup(v) = At3(State, root, v[1], v[2], v[3])
  BY LookupIs
<1>2. R = IF t # None /\ S.dirs.entries[t] = 0 THEN pgdir_remove_pgdir(S, m, v[2]) ELSE S
  <2> DEFINE S0 == IF Lookup(v) = None THEN State ELSE pgdir_remove_entry(State, pte(v), v[3])
  <2>1. R = IF pte(v) # None /\ S0.dirs.entries[pte(v)] = 0 THEN pgdir_remove_pgdir(S0, pmd(v), v[2]) ELSE S0
    BY Zenon DEF RemovePte
  <2>2. S0 = S
    BY <1>1
  <2> HIDE DEF S0, S, R, m, t
  <2>3. QED
    BY <1>1, <2>1, <2>2
<1>3. PICK K : Shape(K, State, root, data) /\ Filled(K, State, None)
  BY DEF Inv, Good, Holds
<1>4. \A x : Filled(K, State, x)
  <2> TAKE x
  <2>1. \A d \in Page : d # None
    BY NoneIs
  <2>2. QED
    BY <1>3, <2>1 DEF Filled
<1>5. CASE t = None
  <2>1. At3(State, root, v[1], v[2], v[3]) = None
    BY <1>5 DEF At3
  <2>2. R = State
    BY <1>1, <1>2, <1>5, <2>1
  <2>3. SetsWalk(State, State, root, v, None)
    BY <1>0, <2>1 DEF SetsWalk
  <2> HIDE DEF m, R
  <2>4. Unset(K, State, m, v)
    BY <1>3, <1>4, <2>3 DEF Unset, m
  <2>5. QED
    BY <1>1, <2>2, <2>4 DEF R
<1>6. CASE t # None
  <2>1. /\ Shape(K, S, root, data) /\ Filled(K, S, t) /\ SetsWalk(State, S, root, v, None)
        /\ At1(S, root, v[1]) = m /\ At2(S, root, v[1], v[2]) = t
    <3>1. Lookup(v) = State.dirs.dir[t][v[3]]
      BY <1>1, <1>6 DEF At3
    <3>2. CASE Lookup(v) = None
      <4>1. S = State
        BY <3>2
      <4>2. SetsWalk(State, State, root, v, None)
        <5>1. At3(State, root, v[1], v[2], v[3]) = None
          BY <1>1, <3>2
        <5>2. QED
          BY <1>0, <5>1 DEF SetsWalk
      <4> HIDE DEF S
      <4>3. QED
        BY <1>3, <1>4, <4>1, <4>2
    <3>3. CASE Lookup(v) # None
      <4>1. S = pgdir_remove_entry(State, t, v[3])
        BY <3>3
      <4> HIDE DEF S, t, m
      <4>2. QED
        BY <1>3, <1>4, <1>6, <3>1, <3>3, <4>1, ClearLeaf DEF t, m
    <3>4. QED
      BY <3>2, <3>3
  <2> HIDE DEF S
  <2>2. m # None /\ m \in Page /\ K[m] = "pmd" /\ t \in Page /\ K[t] = "pte" /\ t = S.dirs.dir[m][v[2]]
    <3>1. m # None /\ m \in Page /\ K[m] = "pmd" /\ t \in Page /\ K[t] = "pte"
      BY <1>0, <1>3, <1>6, WalkKinds
    <3>2. QED
      BY <2>1, <3>1 DEF At2
  <2>3. S \in States
    BY <2>1 DEF Shape, Typed
  <2>4. S.dirs.entries[t] = 0 <=> Slot(S, t) = {}
    BY <2>1, <2>2, EntriesTell DEF Live
  <2> HIDE DEF m, t, R
  <2>5. CASE S.dirs.entries[t] # 0
    <3>1. R = S
      BY <1>2, <2>5
    <3>2. Filled(K, S, m)
      BY <2>1, <2>4, <2>5 DEF Filled
    <3>3. Unset(K, S, m, v)
      BY <2>1, <3>2 DEF Unset
    <3>4. QED
      BY <1>1, <3>1, <3>3 DEF R
  <2>6. CASE S.dirs.entries[t] = 0
    <3>1. R = pgdir_remove_pgdir(S, m, v[2])
      BY <1>2, <1>6, <2>6
    <3>2. Puts(S, R, m, v[2], None, -1) /\ R.free = S.free \cup {t} /\ R.lost = S.lost
      <4>1. t # m
        BY <2>2
      <4>2. QED
        BY <1>0, <2>2, <2>3, <2>6, <3>1, <4>1, RemovePgdir
    <3> DEFINE K2 == [K EXCEPT ![t] = "free"]
    <3>3. Shape(K2, R, root, data) /\ SameWalks(S, R, root) /\ Filled(K2, R, m)
      BY <1>0, <1>6, <2>1, <2>2, <2>4, <2>6, <3>2, UnlinkDir
    <3> HIDE DEF K2
    <3>4. At1(R, root, v[1]) = m
      <4>1. root \in Page /\ K[root] = "pgd"
        BY <1>0, <1>3, WalkKinds
      <4>2. root # m
        BY <2>2, <4>1
      <4>3. R.dirs.dir[root][v[1]] = S.dirs.dir[root][v[1]]
        BY <1>0, <3>2, <4>1, <4>2 DEF Puts
      <4>4. QED
        BY <2>1, <4>3 DEF At1
    <3>5. SetsWalk(State, R, root, v, None)
      BY <2>1, <3>3 DEF SetsWalk, SameWalks
    <3>6. Unset(K2, R, m, v)
      BY <3>3, <3>4, <3>5 DEF Unset
    <3>7. QED
      BY <1>1, <3>6 DEF R
  <2>7. QED
    BY <2>5, <2>6
<1>7. QED
  BY <1>5, <1>6

LEMMA RemoveStep ==
  ASSUME Inv, root # None, NEW v \in Vaddr
  PROVE  Good(pgtable_remove(v), root, data) /\ SetsWalk(State, pgtable_remove(v), root, v, None)
<1> DEFINE S == RemovePte(v)
           m == pmd(v)
           R == pgtable_remove(v)
<1>0. v[1] \in Index /\ v[2] \in Index /\ v[3] \in Index
  BY IndexOf
<1>1. PICK K : Unset(K, S, m, v)
  BY RemovePteStep
<1>2. R = IF m # None /\ S.dirs.entries[m] = 0 THEN pgdir_remove_pgdir(S, root, v[1]) ELSE S
  BY Zenon DEF pgtable_remove
<1> HIDE DEF S, m, R
<1>3. /\ Shape(K, S, root, data) /\ Filled(K, S, m) /\ At1(S, root, v[1]) = m
      /\ SetsWalk(State, S, root, v, None)
  BY <1>1 DEF Unset
<1>4. S \in States /\ root \in Page /\ K[root] = "pgd" /\ (m # None => m \in Page /\ K[m] = "pmd")
  BY <1>0, <1>3, WalkKinds DEF Shape, Typed
<1>5. CASE m = None
  <2>1. R = S
    BY <1>2, <1>5
  <2>2. QED
    BY <1>3, <1>5, <2>1 DEF Good, Holds, R
<1>6. CASE m # None /\ S.dirs.entries[m] # 0
  <2>1. R = S
    BY <1>2, <1>6
  <2>2. Slot(S, m) # {}
    BY <1>3, <1>4, <1>6, EntriesTell DEF Live
  <2>3. Filled(K, S, None)
    BY <1>3, <2>2 DEF Filled
  <2>4. QED
    BY <1>3, <2>1, <2>3 DEF Good, Holds, R
<1>7. CASE m # None /\ S.dirs.entries[m] = 0
  <2>1. R = pgdir_remove_pgdir(S, root, v[1])
    BY <1>2, <1>7
  <2>2. m = S.dirs.dir[root][v[1]] /\ m # root
    BY <1>3, <1>4, <1>7 DEF At1
  <2>3. Puts(S, R, root, v[1], None, -1) /\ R.free = S.free \cup {m} /\ R.lost = S.lost
    BY <1>0, <1>4, <1>7, <2>1, <2>2, RemovePgdir
  <2>4. Slot(S, m) = {}
    BY <1>3, <1>4, <1>7, EntriesTell DEF Live
  <2> DEFINE K2 == [K EXCEPT ![m] = "free"]
  <2>5. Shape(K2, R, root, data) /\ SameWalks(S, R, root) /\ Filled(K2, R, root)
    BY <1>0, <1>3, <1>4, <1>7, <2>2, <2>3, <2>4, UnlinkDir
  <2> HIDE DEF K2
  <2>6. Filled(K2, R, None)
    <3>1. K2[root] = "pgd"
      BY <1>0, <2>5, WalkKinds
    <3>2. QED
      BY <1>4, <2>5, <3>1 DEF Filled
  <2>7. SetsWalk(State, R, root, v, None)
    BY <1>3, <2>5 DEF SetsWalk, SameWalks
  <2>8. QED
    BY <2>5, <2>6, <2>7 DEF Good, Holds, R
<1>8. QED
  BY <1>5, <1>6, <1>7

-----------------------------------------------------------------------------
(* Every entry of a page table under the PGD is that of an address in use. *)
LEMMA LeafWalk ==
  ASSUME NEW K, NEW S, NEW r, NEW B, Shape(K, S, r, B),
         NEW d \in Page, K[d] = "pte", NEW z \in Index, S.dirs.dir[d][z] # None
  PROVE  \E v \in Vaddr : At3(S, r, v[1], v[2], v[3]) = S.dirs.dir[d][z]
<1>0. S \in States /\ Of(K, "pgd") = {r} \ {None} /\ Links(K, S) /\ Reached(K, S) /\ Named(S, r)
  BY DEF Shape, Typed, Sorted
<1>1. PICK e \in Page, j \in Index : K[e] \in Inner /\ S.dirs.dir[e][j] = d
  BY <1>0 DEF Reached
<1>2. K[e] = "pmd"
  <2>1. K[d] = Below(K[e])
    BY <1>0, <1>1, NoneIs DEF Links
  <2>2. QED
    BY <1>1, <2>1 DEF Below, Inner
<1>3. PICK f \in Page, i \in Index : K[f] \in Inner /\ S.dirs.dir[f][i] = e
  BY <1>0, <1>2 DEF Reached
<1>4. f = r /\ r # None
  <2>1. K[e] = Below(K[f])
    BY <1>0, <1>3, NoneIs DEF Links
  <2>2. K[f] = "pgd"
    BY <1>2, <1>3, <2>1 DEF Below, Inner
  <2>3. QED
    BY <1>0, <2>2 DEF Of
<1>5. At1(S, r, i) = e
  BY <1>3, <1>4 DEF At1
<1>6. At2(S, r, i, j) = d
  BY <1>1, <1>5, NoneIs DEF At2
<1>7. At3(S, r, i, j, z) = S.dirs.dir[d][z]
  BY <1>6, NoneIs DEF At3
<1>8. <<i, j, z>> \in Vaddr
  BY <1>0, <1>7 DEF Named
<1>9. QED
  <2>1. LET v == <<i, j, z>> IN At3(S, r, v[1], v[2], v[3]) = S.dirs.dir[d][z]
    BY <1>7
  <2>2. QED
    BY <1>8, <2>1

(* A page that no directory refers to goes from a caller to the allocator, *)
(* or from the allocator to a caller.                                      *)
Unmapped(S, r, q) == \A v \in Vaddr : At3(S, r, v[1], v[2], v[3]) # q

Frees(S, R, F) ==
  R \in States /\ R.dirs = S.dirs /\ R.lost = S.lost /\ R.panicked = S.panicked /\ R.free = F

LEMMA Rekind ==
  ASSUME NEW S, NEW r, NEW B, Good(S, r, B), NEW q \in Page, NEW R, NEW C,
         \/ q \in B /\ Unmapped(S, r, q) /\ Frees(S, R, S.free \cup {q}) /\ C = B \ {q}
         \/ q \in S.free /\ Frees(S, R, S.free \ {q}) /\ C = B \cup {q}
  PROVE  Good(R, r, C)
<1>1. PICK K : Shape(K, S, r, B) /\ Filled(K, S, None)
  BY DEF Good, Holds
<1> DEFINE k == IF q \in B THEN "free" ELSE "data"
           K2 == [K EXCEPT ![q] = k]
<1>0. /\ S \in States /\ K \in [Page -> Kinds] /\ r \in Cells /\ ~S.panicked
      /\ S.free = Of(K, "free") /\ B = Of(K, "data") /\ S.lost = Lost(K) /\ Of(K, "pgd") = {r} \ {None}
      /\ Links(K, S) /\ Single(K, S) /\ Reached(K, S) /\ Counted(K, S) /\ Named(S, r)
      /\ Orphans(K, S)
  BY <1>1 DEF Shape, Typed, Sorted
<1>2. R \in States /\ R.dirs = S.dirs /\ R.lost = S.lost /\ R.panicked = S.panicked
  BY DEF Frees
<1>3. K[q] \in {"free", "data"} /\ (q \in B <=> K[q] = "data")
  BY <1>0 DEF Of
<1>4. K2[q] = k /\ \A y \in Page : y # q => K2[y] = K[y]
  BY <1>0
<1>5. K2 \in [Page -> Kinds]
  BY <1>0 DEF Kinds
<1>6. k \in {"free", "data"} /\ (k = "free" <=> q \in B)
  OBVIOUS
<1> HIDE DEF K2, k
<1>7. R.free = Of(K2, "free") /\ C = Of(K2, "data")
  BY <1>0, <1>3, <1>4, <1>6 DEF Of, Frees
<1>8. Lost(K2) = Lost(K) /\ Of(K2, "pgd") = Of(K, "pgd")
  BY <1>3, <1>4, <1>6 DEF Of, Lost
<1>9. Typed(K2, R, r) /\ Sorted(K2, R, r, C)
  BY <1>0, <1>2, <1>5, <1>7, <1>8 DEF Typed, Sorted
<1>10. \A y \in Page, x \in Inner \cup {"pte", "lostpte"} : K2[y] = x <=> K[y] = x
  BY <1>3, <1>4, <1>6 DEF Inner
<1>11. Links(K2, R)
  <2> SUFFICES ASSUME NEW y \in Page, NEW z \in Index, K2[y] \in Inner \cup {"pte"}, S.dirs.dir[y][z] # None
               PROVE  K2[S.dirs.dir[y][z]] = Below(K2[y])
    BY <1>2 DEF Links
  <2>1. K[y] = K2[y]
    BY <1>10
  <2>2. K[S.dirs.dir[y][z]] = Below(K[y]) /\ S.dirs.dir[y][z] \in Page
    BY <1>0, <2>1 DEF Links, States, Cells
  <2>3. S.dirs.dir[y][z] # q
    <3>1. CASE K[y] = "pte"
      <4>1. PICK v \in Vaddr : At3(S, r, v[1], v[2], v[3]) = S.dirs.dir[y][z]
        BY <1>1, <3>1, LeafWalk
      <4>2. K[S.dirs.dir[y][z]] = "data"
        BY <2>2, <3>1 DEF Below
      <4>3. CASE q \in B
        <5>1. Unmapped(S, r, q)
          BY <1>0, <4>3 DEF Of
        <5>2. QED
          BY <4>1, <5>1 DEF Unmapped
      <4>4. CASE q \notin B
        BY <1>3, <4>2, <4>4
      <4>5. QED
        BY <4>3, <4>4
    <3>2. CASE K[y] # "pte"
      BY <1>3, <2>1, <2>2, <3>2 DEF Below, Inner
    <3>3. QED
      BY <3>1, <3>2
  <2>4. QED
    BY <1>4, <2>1, <2>2, <2>3
<1>12. Single(K2, R)
  <2> SUFFICES ASSUME NEW y \in Page, NEW e \in Page, NEW z \in Index, NEW w \in Index,
                      K2[y] \in Inner, K2[e] \in Inner,
                      S.dirs.dir[y][z] # None, S.dirs.dir[y][z] = S.dirs.dir[e][w]
               PROVE  y = e /\ z = w
    BY <1>2 DEF Single
  <2>1. K[y] \in Inner /\ K[e] \in Inner
    BY <1>10
  <2>2. Single(K, S)
    BY <1>0
  <2>3. QED
    BY <2>1, <2>2, Zenon DEF Single
<1>13. Reached(K2, R)
  <2> SUFFICES ASSUME NEW p \in Page, K2[p] \in {"pmd", "pte", "lostpte"}
               PROVE  \E e \in Page, w \in Index : K2[e] \in Inner /\ S.dirs.dir[e][w] = p
    BY <1>2 DEF Reached
  <2>1. K[p] \in {"pmd", "pte", "lostpte"}
    BY <1>10 DEF Inner
  <2>2. PICK e \in Page, w \in Index : K[e] \in Inner /\ S.dirs.dir[e][w] = p
    BY <1>0, <2>1 DEF Reached
  <2>3. K2[e] \in Inner
    BY <1>10, <2>2
  <2>4. QED
    BY <2>2, <2>3
<1>14. \A y \in Page : Slot(R, y) = Slot(S, y)
  BY <1>2 DEF Slot
<1>15. Counted(K2, R)
  BY <1>0, <1>2, <1>10, <1>14 DEF Counted, Live, Inner
<1>16. \A e, f, g \in Index : At3(R, r, e, f, g) = At3(S, r, e, f, g)
  BY <1>2 DEF At1, At2, At3
<1>17. Named(R, r)
  BY <1>0, <1>16 DEF Named
<1>18. Filled(K2, R, None)
  BY <1>1, <1>10, <1>14 DEF Filled, Inner
<1>19. Orphans(K2, R)
  <2>1. \A y \in Page : K2[y] = "lostpgd" =>
          K[y] = "lostpgd" /\ \A z \in Index : R.dirs.dir[y][z] = S.dirs.dir[y][z]
    BY <1>2, <1>4, <1>6
  <2>2. \A y \in Page : K[y] = "lostpmd" => K2[y] = "lostpmd"
    BY <1>3, <1>4
  <2>3. S \in States /\ Orphans(K, S)
    BY <1>0
  <2>4. QED
    BY ONLY <2>1, <2>2, <2>3, OrphansKept
<1>20. QED
  BY <1>9, <1>11, <1>12, <1>13, <1>15, <1>17, <1>18, <1>19 DEF Good, Holds, Shape

(* A PGD is made of a free page. *)
LEMMA NewShape ==
  ASSUME NEW S, NEW B, Good(S, None, B), NEW n \in S.free, NEW R,
         R \in States, R.free = S.free \ {n}, R.lost = S.lost, R.panicked = S.panicked,
         R.dirs = pgdir_new(S.dirs, n)
  PROVE  Good(R, n, B) /\ \A v \in Vaddr : At3(R, n, v[1], v[2], v[3]) = None
<1>1. PICK K : Shape(K, S, None, B) /\ Filled(K, S, None)
  BY DEF Good, Holds
<1> DEFINE K2 == [K EXCEPT ![n] = "pgd"]
<1>0. /\ S \in States /\ K \in [Page -> Kinds] /\ ~S.panicked
      /\ S.free = Of(K, "free") /\ B = Of(K, "data") /\ S.lost = Lost(K) /\ Of(K, "pgd") = {}
      /\ Links(K, S) /\ Single(K, S) /\ Reached(K, S) /\ Orphans(K, S)
  BY <1>1 DEF Shape, Typed, Sorted
<1>2. n \in Page /\ K[n] = "free" /\ n # None
  BY <1>0, NoneIs DEF Of
<1>3. K2 \in [Page -> Kinds] /\ K2[n] = "pgd" /\ \A y \in Page : y # n => K2[y] = K[y]
  BY <1>0, <1>2 DEF Kinds
<1> HIDE DEF K2
<1>4. /\ \A z \in Index : R.dirs.dir[n][z] = None
      /\ \A y \in Page, z \in Index : y # n => R.dirs.dir[y][z] = S.dirs.dir[y][z]
      /\ R.dirs.entries[n] = 0
  <2>1. /\ R.dirs.dir = [S.dirs.dir EXCEPT ![n] = [i \in Index |-> None]]
        /\ R.dirs.entries = [S.dirs.entries EXCEPT ![n] = 0]
    BY DEF pgdir_new
  <2>2. QED
    BY <1>0, <1>2, <2>1, StateFields
<1>5. \A y \in Page : K[y] \notin {"pgd", "pmd", "pte"}
  <2>1. ASSUME NEW y \in Page PROVE K[y] # "pgd"
    BY <1>0 DEF Of
  <2>2. ASSUME NEW y \in Page, K[y] = "pmd" PROVE FALSE
    <3>1. PICK d \in Page, i \in Index : K[d] \in Inner /\ S.dirs.dir[d][i] = y
      BY <1>0, <2>2 DEF Reached
    <3>2. K[y] = Below(K[d])
      BY <1>0, <3>1, NoneIs DEF Links
    <3>3. QED
      BY <2>1, <2>2, <3>1, <3>2 DEF Below, Inner
  <2>3. ASSUME NEW y \in Page, K[y] = "pte" PROVE FALSE
    <3>1. PICK d \in Page, i \in Index : K[d] \in Inner /\ S.dirs.dir[d][i] = y
      BY <1>0, <2>3 DEF Reached
    <3>2. K[y] = Below(K[d])
      BY <1>0, <3>1, NoneIs DEF Links
    <3>3. QED
      BY <2>2, <2>3, <3>1, <3>2 DEF Below, Inner
  <2>4. QED
    BY <2>1, <2>2, <2>3
<1>6. Typed(K2, R, n) /\ Sorted(K2, R, n, B)
  BY <1>0, <1>2, <1>3, <1>5 DEF Typed, Sorted, Lost, Of, Cells
<1>7. Links(K2, R)
  <2> SUFFICES ASSUME NEW y \in Page, NEW z \in Index, K2[y] \in Inner \cup {"pte"}, R.dirs.dir[y][z] # None
               PROVE  K2[R.dirs.dir[y][z]] = Below(K2[y])
    BY DEF Links
  <2>1. y # n
    BY <1>4
  <2>2. R.dirs.dir[y][z] = S.dirs.dir[y][z] /\ K2[y] = K[y]
    BY <1>3, <1>4, <2>1
  <2>3. K[S.dirs.dir[y][z]] = Below(K[y]) /\ S.dirs.dir[y][z] \in Page
    BY <1>0, <2>2 DEF Links, States, Cells
  <2>4. S.dirs.dir[y][z] # n
    BY <1>2, <2>3 DEF Below
  <2>5. QED
    BY <1>3, <2>2, <2>3, <2>4
<1>8. Single(K2, R)
  <2> SUFFICES ASSUME NEW y \in Page, NEW e \in Page, NEW z \in Index, NEW w \in Index,
                      K2[y] \in Inner, K2[e] \in Inner,
                      R.dirs.dir[y][z] # None, R.dirs.dir[y][z] = R.dirs.dir[e][w]
               PROVE  y = e /\ z = w
    BY DEF Single
  <2>1. y # n /\ e # n
    BY <1>4
  <2>2. K[y] \in Inner /\ K[e] \in Inner /\ S.dirs.dir[y][z] # None /\ S.dirs.dir[y][z] = S.dirs.dir[e][w]
    BY <1>3, <1>4, <2>1
  <2>3. Single(K, S)
    BY <1>0
  <2>4. QED
    BY <2>2, <2>3 DEF Single
<1>9. Reached(K2, R)
  <2> SUFFICES ASSUME NEW p \in Page, K2[p] \in {"pmd", "pte", "lostpte"}
               PROVE  \E e \in Page, w \in Index : K2[e] \in Inner /\ R.dirs.dir[e][w] = p
    BY DEF Reached
  <2>1. K[p] \in {"pmd", "pte", "lostpte"}
    BY <1>3
  <2>2. PICK e \in Page, w \in Index : K[e] \in Inner /\ S.dirs.dir[e][w] = p
    BY <1>0, <2>1 DEF Reached
  <2>3. e # n
    BY <1>2, <2>2 DEF Inner
  <2>4. QED
    BY <1>3, <1>4, <2>2, <2>3
<1>10. Slot(R, n) = {}
  BY <1>4 DEF Slot
<1>11. Counted(K2, R)
  <2>1. Cardinality(Slot(R, n)) = 0
    BY <1>10, CountSlots
  <2>2. QED
    BY <1>3, <1>4, <1>5, <2>1 DEF Counted, Live
<1>12. \A i, j, k \in Index : At3(R, n, i, j, k) = None
  BY <1>2, <1>4 DEF At1, At2, At3
<1>13. Named(R, n) /\ \A v \in Vaddr : At3(R, n, v[1], v[2], v[3]) = None
  BY <1>12, IndexOf DEF Named
<1>14. Filled(K2, R, None)
  BY <1>3, <1>5 DEF Filled
<1>15. Orphans(K2, R)
  BY <1>0, <1>2, <1>3, <1>4, OrphansKept
<1>16. QED
  BY <1>6, <1>7, <1>8, <1>9, <1>11, <1>13, <1>14, <1>15 DEF Good, Holds, Shape

(* The PGD r is freed (f) or lost: what it refers to is lost in any case. *)
LEMMA DestroyShape ==
  ASSUME NEW S, NEW r, r # None, NEW B, Good(S, r, B), NEW R, NEW f \in BOOLEAN,
         R \in States, R.dirs = S.dirs, R.panicked = S.panicked,
         R.free = S.free \cup (IF f THEN {r} ELSE {}),
         R.lost = S.lost \cup (IF f THEN {} ELSE {r}) \cup ({S.dirs.dir[r][i] : i \in Index} \ {None})
  PROVE  Good(R, None, B)
<1>1. PICK K : Shape(K, S, r, B) /\ Filled(K, S, None)
  BY DEF Good, Holds
<1> DEFINE k == IF f THEN "free" ELSE "lostpgd"
           K2 == [p \in Page |-> IF p = r THEN k ELSE IF K[p] = "pmd" THEN "lostpmd"
                                 ELSE IF K[p] = "pte" THEN "lostpte" ELSE K[p]]
<1>0. /\ S \in States /\ K \in [Page -> Kinds] /\ ~S.panicked /\ r \in Cells
      /\ S.free = Of(K, "free") /\ B = Of(K, "data") /\ S.lost = Lost(K) /\ Of(K, "pgd") = {r} \ {None}
      /\ Links(K, S) /\ Single(K, S) /\ Reached(K, S) /\ Orphans(K, S)
  BY <1>1 DEF Shape, Typed, Sorted
<1>2. r \in Page /\ K[r] = "pgd" /\ \A y \in Page : K[y] = "pgd" => y = r
  BY <1>0 DEF Of
<1>3. \A p \in Page : K2[p] = IF p = r THEN k ELSE IF K[p] = "pmd" THEN "lostpmd"
                              ELSE IF K[p] = "pte" THEN "lostpte" ELSE K[p]
  OBVIOUS
<1>4. K2 \in [Page -> Kinds]
  BY <1>0 DEF Kinds
<1>41. k \in {"free", "lostpgd"} /\ (k = "free" <=> f)
  OBVIOUS
<1> HIDE DEF K2, k
<1>5. \A y \in Page : K2[y] \notin {"pgd", "pmd", "pte"}
  BY <1>2, <1>3, <1>41
<1>6. {S.dirs.dir[r][i] : i \in Index} \ {None} = Of(K, "pmd")
  <2>1. ASSUME NEW i \in Index, S.dirs.dir[r][i] # None PROVE S.dirs.dir[r][i] \in Of(K, "pmd")
    BY <1>0, <1>2, <2>1 DEF Links, Inner, Below, Of, States, Cells
  <2>2. ASSUME NEW y \in Of(K, "pmd") PROVE y # None /\ \E i \in Index : S.dirs.dir[r][i] = y
    <3>1. y \in Page /\ K[y] = "pmd" /\ y # None
      BY NoneIs DEF Of
    <3>2. PICK d \in Page, i \in Index : K[d] \in Inner /\ S.dirs.dir[d][i] = y
      BY <1>0, <3>1 DEF Reached
    <3>3. K[y] = Below(K[d])
      BY <1>0, <3>1, <3>2 DEF Links
    <3>4. d = r
      BY <1>2, <3>1, <3>2, <3>3 DEF Below, Inner
    <3>5. QED
      BY <3>1, <3>2, <3>4
  <2>3. QED
    BY <2>1, <2>2
<1>7. Lost(K2) = Lost(K) \cup (IF f THEN {} ELSE {r}) \cup Of(K, "pmd")
  BY <1>2, <1>3, <1>41 DEF Of, Lost
<1>8. /\ Of(K2, "free") = Of(K, "free") \cup (IF f THEN {r} ELSE {})
      /\ Of(K2, "data") = Of(K, "data") /\ Of(K2, "pgd") = {}
  BY <1>2, <1>3, <1>41 DEF Of
<1>9. Typed(K2, R, None) /\ Sorted(K2, R, None, B)
  BY <1>0, <1>4, <1>6, <1>7, <1>8 DEF Typed, Sorted, Cells
<1>10. \A y \in Page : K2[y] \in Inner => K2[y] = "lostpmd" /\ K[y] \in {"pmd", "lostpmd"} /\ K[y] \in Inner
  BY <1>3, <1>41, <1>5 DEF Inner
<1>11. Links(K2, R)
  <2> SUFFICES ASSUME NEW y \in Page, NEW z \in Index, K2[y] \in Inner \cup {"pte"}, S.dirs.dir[y][z] # None
               PROVE  K2[S.dirs.dir[y][z]] = Below(K2[y])
    BY DEF Links
  <2>1. K2[y] = "lostpmd" /\ K[y] \in {"pmd", "lostpmd"} /\ K[y] \in Inner
    BY <1>5, <1>10
  <2>2. K[S.dirs.dir[y][z]] = Below(K[y]) /\ S.dirs.dir[y][z] \in Page
    BY <1>0, <2>1 DEF Links, States, Cells
  <2>3. K[S.dirs.dir[y][z]] \in {"pte", "lostpte"}
    BY <2>1, <2>2 DEF Below
  <2>4. QED
    BY <1>2, <1>3, <2>1, <2>2, <2>3 DEF Below
<1>12. Single(K2, R)
  <2> SUFFICES ASSUME NEW y \in Page, NEW e \in Page, NEW z \in Index, NEW w \in Index,
                      K2[y] \in Inner, K2[e] \in Inner,
                      S.dirs.dir[y][z] # None, S.dirs.dir[y][z] = S.dirs.dir[e][w]
               PROVE  y = e /\ z = w
    BY DEF Single
  <2>1. K[y] \in Inner /\ K[e] \in Inner
    BY <1>10
  <2>2. Single(K, S)
    BY <1>0
  <2>3. QED
    BY <2>1, <2>2 DEF Single
<1>13. Reached(K2, R)
  <2> SUFFICES ASSUME NEW p \in Page, K2[p] = "lostpte"
               PROVE  \E e \in Page, w \in Index : K2[e] \in Inner /\ S.dirs.dir[e][w] = p
    BY <1>5 DEF Reached
  <2>1. K[p] \in {"pte", "lostpte"}
    BY <1>3, <1>41
  <2>2. PICK e \in Page, w \in Index : K[e] \in Inner /\ S.dirs.dir[e][w] = p
    BY <1>0, <2>1 DEF Reached
  <2>3. K[p] = Below(K[e])
    BY <1>0, <2>2, NoneIs DEF Links
  <2>4. K[e] \in {"pmd", "lostpmd"}
    BY <2>1, <2>2, <2>3 DEF Below, Inner
  <2>5. K2[e] = "lostpmd"
    BY <1>2, <1>3, <2>4
  <2>6. QED
    BY <2>2, <2>5 DEF Inner
<1>14. Counted(K2, R) /\ Filled(K2, R, None)
  BY <1>5 DEF Counted, Filled, Live
<1>15. Named(R, None)
  BY DEF Named, At1, At2, At3
<1>16. Orphans(K2, R)
  <2> SUFFICES ASSUME NEW y \in Page, NEW z \in Index, K2[y] = "lostpgd", S.dirs.dir[y][z] # None
               PROVE  K2[S.dirs.dir[y][z]] = "lostpmd"
    BY DEF Orphans
  <2>1. y = r \/ K[y] = "lostpgd"
    BY <1>3
  <2>2. S.dirs.dir[y][z] \in Page
    BY <1>0 DEF States, Cells
  <2>3. K[S.dirs.dir[y][z]] \in {"pmd", "lostpmd"}
    BY <1>0, <1>2, <2>1 DEF Links, Orphans, Inner, Below
  <2>4. QED
    BY <1>2, <1>3, <2>2, <2>3
<1>17. QED
  BY <1>9, <1>11, <1>12, <1>13, <1>14, <1>15, <1>16 DEF Good, Holds, Shape

LEMMA InitInv == Init => Inv
<1> SUFFICES ASSUME Init PROVE Inv
  OBVIOUS
<1> DEFINE K == [p \in Page |-> "free"]
<1>1. /\ State.free = Page /\ State.lost = {} /\ State.panicked = FALSE /\ root = None /\ data = {}
      /\ State.dirs = [dir |-> [p \in Page |-> [i \in Index |-> None]], entries |-> [p \in Page |-> 0]]
  BY DEF Init, State
<1>2. State \in States
  <2>1. [p \in Page |-> [i \in Index |-> None]] \in [Page -> [Index -> Cells]]
    BY DEF Cells
  <2>2. [p \in Page |-> 0] \in [Page -> Int]
    OBVIOUS
  <2>3. T \in [dir: [Page -> [Index -> Cells]], entries: [Page -> Int]]
    BY <2>1, <2>2 DEF Init
  <2>4. free \in SUBSET Page /\ lost \in SUBSET Page /\ panicked \in BOOLEAN
    BY DEF Init
  <2>5. QED
    BY <2>3, <2>4 DEF State, States
<1>3. K \in [Page -> Kinds] /\ \A p \in Page : K[p] = "free"
  BY DEF Kinds
<1> HIDE DEF K
<1>4. Typed(K, State, root) /\ Sorted(K, State, root, data)
  BY <1>1, <1>2, <1>3 DEF Typed, Sorted, Lost, Of, Cells
<1>5. /\ Links(K, State) /\ Single(K, State) /\ Orphans(K, State) /\ Reached(K, State)
      /\ Counted(K, State) /\ Filled(K, State, None)
  BY <1>3 DEF Links, Single, Orphans, Reached, Counted, Filled, Inner, Live
<1>6. Named(State, root)
  BY <1>1 DEF Named, At1, At2, At3
<1>7. QED
  BY <1>4, <1>5, <1>6 DEF Inv, Good, Holds, Shape

-----------------------------------------------------------------------------
(* The steps, each with what it does to the map that Lookup reads *)
MapsTo(v, x) == \A w \in Vaddr : Lookup(w)' = IF w = v THEN x ELSE Lookup(w)
MapSame == \A w \in Vaddr : Lookup(w)' = Lookup(w)
MapDrops(v) ==
  /\ \A w \in Vaddr : w[1] = v[1] /\ w[2] = v[2] => Lookup(w) = None
  /\ \A w \in Vaddr : Lookup(w)' = IF w[1] = v[1] THEN None ELSE Lookup(w)

LEMMA LookupNext ==
  ASSUME NEW v
  PROVE  Lookup(v)' = At3(State', root', v[1], v[2], v[3])
<1>1. State'.dirs = T'
  BY DEF State
<1>2. pmd(v)' = At1(State', root', v[1])
  BY <1>1 DEF pmd, Entry, At1
<1>3. pte(v)' = At2(State', root', v[1], v[2])
  BY <1>1, <1>2 DEF pte, Entry, At2
<1>4. QED
  BY <1>1, <1>3 DEF Lookup, Entry, At1, At2, At3

LEMMA Becoming ==
  ASSUME NEW R \in States, Becomes(R)
  PROVE  State' = R
BY DEF Becomes, State, States

LEMMA GoodStates ==
  ASSUME NEW S, NEW r, NEW B, Good(S, r, B)
  PROVE  S \in States /\ S.free \in SUBSET Page /\ S.free \in SUBSET Nat /\ B \in SUBSET Page /\ ~S.panicked
<1>1. PICK K : Shape(K, S, r, B)
  BY DEF Good, Holds
<1>2. S \in States /\ ~S.panicked /\ S.free = Of(K, "free") /\ B = Of(K, "data")
  BY <1>1 DEF Shape, Typed, Sorted
<1>3. QED
  BY <1>2, NoneIs DEF Of

(* The walks that a call changes, as changes of the map *)
LEMMA WalkMap ==
  ASSUME NEW R, State' = R, root' = root, NEW v \in Vaddr, NEW x
  PROVE  /\ SameWalks(State, R, root) => MapSame
         /\ SetsWalk(State, R, root, v, x) => MapsTo(v, x)
         /\ DropsWalks(State, R, root, v[1]) /\ At2(State, root, v[1], v[2]) = None => MapDrops(v)
<1>1. ASSUME NEW w \in Vaddr
      PROVE  /\ w[1] \in Index /\ w[2] \in Index /\ w[3] \in Index /\ w = <<w[1], w[2], w[3]>>
             /\ Lookup(w) = At3(State, root, w[1], w[2], w[3])
             /\ Lookup(w)' = At3(R, root, w[1], w[2], w[3])
  <2>1. Lookup(w)' = At3(State', root', w[1], w[2], w[3])
    BY LookupNext
  <2>2. QED
    BY <2>1, IndexOf, LookupIs
<1>2. ASSUME SameWalks(State, R, root) PROVE MapSame
  BY <1>1, <1>2 DEF SameWalks, MapSame
<1>3. ASSUME SetsWalk(State, R, root, v, x) PROVE MapsTo(v, x)
  <2>1. ASSUME NEW w \in Vaddr PROVE Lookup(w)' = IF w = v THEN x ELSE Lookup(w)
    <3>1. At3(R, root, w[1], w[2], w[3]) = IF <<w[1], w[2], w[3]>> = v THEN x ELSE At3(State, root, w[1], w[2], w[3])
      BY <1>1, <1>3 DEF SetsWalk
    <3>2. QED
      BY <1>1, <3>1
  <2>2. QED
    BY <2>1 DEF MapsTo
<1>4. ASSUME DropsWalks(State, R, root, v[1]), At2(State, root, v[1], v[2]) = None PROVE MapDrops(v)
  <2>1. \A w \in Vaddr : Lookup(w)' = IF w[1] = v[1] THEN None ELSE Lookup(w)
    BY <1>1, <1>4 DEF DropsWalks
  <2>2. ASSUME NEW w \in Vaddr, w[1] = v[1], w[2] = v[2] PROVE Lookup(w) = None
    BY <1>1, <1>4, <2>2 DEF At3
  <2>3. QED
    BY <2>1, <2>2 DEF MapDrops
<1>5. QED
  BY <1>2, <1>3, <1>4

LEMMA InsertInv ==
  ASSUME Inv, NEW v \in Vaddr, NEW p \in Page, Insert(v, p)
  PROVE  Inv' /\ (MapSame \/ MapsTo(v, p) \/ MapDrops(v)) /\ root # None /\ root' = root
<1> DEFINE R == pgtable_insert(v, p, FALSE)
<1>1. root # None /\ p \in data /\ Lookup(v) # p /\ Becomes(R) /\ root' = root /\ data' = data
  BY DEF Insert
<1>2. Good(R, root, data) /\ Inserts(State, R, v, p, FALSE)
  BY <1>1, InsertStep
<1> HIDE DEF R
<1>3. State' = R
  BY <1>1, <1>2, GoodStates, Becoming
<1>4. MapSame \/ MapsTo(v, p) \/ MapDrops(v)
  <2>1. /\ SameWalks(State, R, root) => MapSame
        /\ SetsWalk(State, R, root, v, p) => MapsTo(v, p)
        /\ DropsWalks(State, R, root, v[1]) /\ At2(State, root, v[1], v[2]) = None => MapDrops(v)
    BY <1>1, <1>3, WalkMap
  <2>2. QED
    BY <1>2, <2>1 DEF Inserts
<1>5. Inv'
  BY <1>1, <1>2, <1>3 DEF Inv
<1>6. QED
  BY <1>1, <1>4, <1>5

LEMMA MapPageInv ==
  ASSUME Inv, NEW v \in Vaddr, NEW p \in Page, arch_map_page(v, p)
  PROVE  Inv' /\ (MapSame \/ MapsTo(v, p) \/ MapDrops(v)) /\ root # None /\ root' = root
<1> DEFINE R == pgtable_insert(v, p, TRUE)
           Q == [R EXCEPT !.free = @ \cup Old(v)]
           q == Lookup(v)
<1>0. v[1] \in Index /\ v[2] \in Index /\ v[3] \in Index /\ v = <<v[1], v[2], v[3]>>
  BY IndexOf
<1>1. /\ root # None /\ p \in data /\ p \notin Mapped /\ root' = root /\ data' = data \ Old(v) /\ Becomes(Q)
      /\ \A w \in Vaddr \ {v} : q # None => Lookup(w) # q
  BY DEF arch_map_page, FreeReplaced
<1>2. q # p
  BY <1>1, NoneIs DEF Mapped
<1>3. Good(R, root, data) /\ Inserts(State, R, v, p, TRUE)
  BY <1>1, <1>2, InsertStep
<1>4. q = At3(State, root, v[1], v[2], v[3])
  BY LookupIs
<1>5. q # None => q \in data /\ q \in Page
  <2>1. PICK K : Shape(K, State, root, data)
    BY DEF Inv, Good, Holds
  <2>2. q # None => q \in Page /\ K[q] = "data"
    BY <1>0, <1>4, <2>1, WalkKinds
  <2>3. data = Of(K, "data")
    BY <2>1 DEF Shape, Sorted
  <2>4. QED
    BY <2>2, <2>3 DEF Of
<1>6. R \in States /\ R.free \in SUBSET Page
  BY <1>3, GoodStates
<1> HIDE DEF R
<1>7. Old(v) \in SUBSET Page
  BY <1>5 DEF Old
<1>8. /\ Q \in States /\ Q.dirs = R.dirs /\ Q.lost = R.lost /\ Q.panicked = R.panicked
      /\ Q.free = R.free \cup Old(v)
  BY <1>6, <1>7 DEF States
<1> HIDE DEF Q
<1>9. State' = Q
  BY <1>1, <1>8, Becoming
<1>10. \A e, f, g \in Index : At3(Q, root, e, f, g) = At3(R, root, e, f, g)
  BY <1>8 DEF At1, At2, At3
<1>11. Inserts(State, Q, v, p, TRUE)
  <2>1. SameWalks(State, R, root) => SameWalks(State, Q, root)
    BY <1>10 DEF SameWalks
  <2>2. DropsWalks(State, R, root, v[1]) => DropsWalks(State, Q, root, v[1])
    BY <1>10 DEF DropsWalks
  <2>3. SetsWalk(State, R, root, v, p) => SetsWalk(State, Q, root, v, p)
    BY <1>10 DEF SetsWalk
  <2>4. QED
    BY <1>3, <2>1, <2>2, <2>3 DEF Inserts
<1>12. MapSame \/ MapsTo(v, p) \/ MapDrops(v)
  <2>1. /\ SameWalks(State, Q, root) => MapSame
        /\ SetsWalk(State, Q, root, v, p) => MapsTo(v, p)
        /\ DropsWalks(State, Q, root, v[1]) /\ At2(State, root, v[1], v[2]) = None => MapDrops(v)
    BY <1>1, <1>9, WalkMap
  <2>2. QED
    BY <1>11, <2>1 DEF Inserts
<1>13. Good(Q, root, data \ Old(v))
  <2>1. CASE Old(v) = {}
    <3>1. Q = R
      <4>1. R.free \cup Old(v) = R.free
        BY <2>1
      <4>2. QED
        BY <1>6, <4>1 DEF Q, States
    <3>2. data \ Old(v) = data
      BY <2>1
    <3>3. QED
      BY <1>3, <3>1, <3>2
  <2>2. CASE Old(v) # {}
    <3>1. v # Zero /\ q # None /\ Old(v) = {q}
      BY <2>2 DEF Old
    <3>2. SetsWalk(State, R, root, v, p)
      <4>1. At3(State, root, v[1], v[2], v[3]) # None /\ At2(State, root, v[1], v[2]) # None
        BY <1>4, <3>1 DEF At3
      <4>2. QED
        BY <1>3, <3>1, <4>1 DEF Inserts
    <3>3. Unmapped(R, root, q)
      <4> SUFFICES ASSUME NEW w \in Vaddr PROVE At3(R, root, w[1], w[2], w[3]) # q
        BY DEF Unmapped
      <4>1. w[1] \in Index /\ w[2] \in Index /\ w[3] \in Index /\ w = <<w[1], w[2], w[3]>>
        BY IndexOf
      <4>2. At3(R, root, w[1], w[2], w[3]) = IF <<w[1], w[2], w[3]>> = v THEN p ELSE At3(State, root, w[1], w[2], w[3])
        BY <3>2, <4>1 DEF SetsWalk
      <4>3. Lookup(w) = At3(State, root, w[1], w[2], w[3])
        BY LookupIs
      <4>4. CASE w = v
        BY <1>2, <4>1, <4>2, <4>4
      <4>5. CASE w # v
        <5>1. Lookup(w) # q
          BY <1>1, <3>1, <4>5
        <5>2. QED
          BY <4>1, <4>2, <4>3, <4>5, <5>1
      <4>6. QED
        BY <4>4, <4>5
    <3>4. Frees(R, Q, R.free \cup {q})
      BY <1>8, <3>1 DEF Frees
    <3> HIDE DEF q
    <3>5. QED
      BY <1>3, <1>5, <3>1, <3>3, <3>4, Rekind
  <2>3. QED
    BY <2>1, <2>2
<1>14. Inv'
  BY <1>1, <1>9, <1>13 DEF Inv
<1>15. QED
  BY <1>1, <1>12, <1>14

LEMMA UnmapInv ==
  ASSUME Inv, NEW v \in Vaddr, arch_unmap_page(v)
  PROVE  Inv' /\ MapsTo(v, None) /\ root # None /\ root' = root
<1> DEFINE R == pgtable_remove(v)
<1>1. root # None /\ Becomes(R) /\ root' = root /\ data' = data
  BY DEF arch_unmap_page
<1>2. Good(R, root, data) /\ SetsWalk(State, R, root, v, None)
  BY <1>1, RemoveStep
<1> HIDE DEF R
<1>3. State' = R
  BY <1>1, <1>2, GoodStates, Becoming
<1>4. MapsTo(v, None)
  BY <1>1, <1>2, <1>3, WalkMap
<1>5. Inv'
  BY <1>1, <1>2, <1>3 DEF Inv
<1>6. QED
  BY <1>1, <1>4, <1>5

LEMMA AllocInv ==
  ASSUME Inv, Alloc
  PROVE  Inv' /\ MapSame /\ root' = root
<1> DEFINE n == Min(free)
           R == [State EXCEPT !.free = @ \ {n}]
<1>1. /\ free # {} /\ free' = free \ {n} /\ data' = data \cup {n}
      /\ T' = T /\ root' = root /\ lost' = lost /\ panicked' = panicked
  BY DEF Alloc
<1>2. State \in States /\ State.free \in SUBSET Page /\ State.free \in SUBSET Nat /\ State.free = free
  BY GoodStates DEF Inv, State
<1>3. n \in free /\ n \in Page
  BY <1>1, <1>2, MinIn
<1> HIDE DEF n
<1>4. State' = R /\ Frees(State, R, State.free \ {n})
  <2>1. State' = R
    BY <1>1 DEF State
  <2>2. R \in States
    BY <1>2 DEF States
  <2>3. QED
    BY <2>1, <2>2 DEF State, Frees
<1> HIDE DEF R
<1>5. Good(R, root, data \cup {n})
  BY <1>2, <1>3, <1>4, Rekind DEF Inv
<1>6. MapSame
  BY <1>1 DEF MapSame, Lookup, pte, pmd, Entry
<1>7. QED
  BY <1>1, <1>4, <1>5, <1>6 DEF Inv

LEMMA ReleaseInv ==
  ASSUME Inv, NEW p \in Page, Release(p)
  PROVE  Inv' /\ MapSame /\ root' = root
<1> DEFINE R == [State EXCEPT !.free = @ \cup {p}]
<1>1. /\ p \in data /\ p \notin Mapped /\ free' = free \cup {p} /\ data' = data \ {p}
      /\ T' = T /\ root' = root /\ lost' = lost /\ panicked' = panicked
  BY DEF Release
<1>2. State \in States /\ State.free \in SUBSET Page /\ State.free = free
  BY GoodStates DEF Inv, State
<1>3. State' = R /\ Frees(State, R, State.free \cup {p})
  <2>1. State' = R
    BY <1>1 DEF State
  <2>2. R \in States
    BY <1>2 DEF States
  <2>3. QED
    BY <2>1, <2>2 DEF State, Frees
<1> HIDE DEF R
<1>4. Unmapped(State, root, p)
  <2> SUFFICES ASSUME NEW v \in Vaddr, At3(State, root, v[1], v[2], v[3]) = p PROVE FALSE
    BY DEF Unmapped
  <2>1. Lookup(v) = p
    BY LookupIs
  <2>2. QED
    BY <1>1, <2>1, NoneIs DEF Mapped
<1>5. Good(R, root, data \ {p})
  BY <1>1, <1>3, <1>4, Rekind DEF Inv
<1>6. MapSame
  BY <1>1 DEF MapSame, Lookup, pte, pmd, Entry
<1>7. QED
  BY <1>1, <1>3, <1>5, <1>6 DEF Inv

(* What a table that is given up leaves *)
LEMMA PmdsAre ==
  ASSUME Inv
  PROVE  /\ root # None => root \in Page /\ Pmds = {State.dirs.dir[root][i] : i \in Index} \ {None}
         /\ root = None => Pmds = {}
         /\ Pmds \in SUBSET Page
<1>1. PICK K : Shape(K, State, root, data)
  BY DEF Inv, Good, Holds
<1>2. State \in States /\ State.dirs = T /\ root \in Cells
  BY <1>1 DEF Shape, Typed, State
<1>3. root # None => root \in Page
  BY <1>2 DEF Cells
<1>4. root # None => {T.dir[root][i] : i \in Index} \ {None} \in SUBSET Page
  BY <1>2, <1>3, StateFields DEF Cells
<1>5. QED
  BY <1>2, <1>3, <1>4 DEF Pmds

LEMMA NewInv ==
  ASSUME Inv, NewTable
  PROVE  Inv' /\ (\A w \in Vaddr : Lookup(w)' = None) /\ root' \in Page \ {root}
<1> DEFINE n == Min(free)
           L == lost \cup ({root} \ {None}) \cup Pmds
           Q == [free |-> free, dirs |-> T, lost |-> L, panicked |-> panicked]
           R == [free |-> free \ {n}, dirs |-> pgdir_new(T, n), lost |-> L, panicked |-> panicked]
<1>1. /\ free # {} /\ root' = n /\ free' = free \ {n} /\ T' = pgdir_new(T, n)
      /\ data' = data /\ lost' = L /\ panicked' = panicked
  BY DEF NewTable
<1>2. /\ State \in States /\ State.free \in SUBSET Page /\ State.free \in SUBSET Nat
      /\ State.free = free /\ State.dirs = T /\ State.lost = lost /\ State.panicked = panicked
  BY GoodStates DEF Inv, State
<1>3. n \in free /\ n \in Page /\ n # None
  BY <1>1, <1>2, MinIn, NoneIs
<1>31. L \in SUBSET Page
  BY <1>2, PmdsAre, StateFields
<1>32. root = None => L = lost
  BY PmdsAre
<1>33. root # None => L = State.lost \cup {root} \cup ({State.dirs.dir[root][i] : i \in Index} \ {None})
  BY <1>2, PmdsAre
<1> HIDE DEF n, L
<1>4. State' = R
  BY <1>1 DEF State
<1>41. Q \in States /\ Q.free = free /\ Q.dirs = T /\ Q.lost = L /\ Q.panicked = panicked
  BY <1>2, <1>31, StateFields DEF States
<1>42. Good(Q, None, data)
  <2>1. CASE root = None
    <3>1. Q = State
      BY <1>32, <2>1 DEF State
    <3>2. QED
      BY <2>1, <3>1 DEF Inv
  <2>2. CASE root # None
    <3> DEFINE f == FALSE
    <3>1. /\ Q.dirs = State.dirs /\ Q.panicked = State.panicked
          /\ Q.free = State.free \cup (IF f THEN {root} ELSE {})
          /\ Q.lost = State.lost \cup (IF f THEN {} ELSE {root})
                       \cup ({State.dirs.dir[root][i] : i \in Index} \ {None})
      BY <1>2, <1>33, <1>41, <2>2
    <3>2. f \in BOOLEAN
      OBVIOUS
    <3>3. Good(State, root, data) /\ Q \in States
      BY <1>41 DEF Inv
    <3> HIDE DEF f, Q
    <3>4. QED
      BY <2>2, <3>1, <3>2, <3>3, DestroyShape
  <2>3. QED
    BY <2>1, <2>2
<1>5. R \in States
  <2>1. pgdir_new(T, n) \in [dir: [Page -> [Index -> Cells]], entries: [Page -> Int]]
    <3>1. T.dir \in [Page -> [Index -> Cells]] /\ T.entries \in [Page -> Int]
      BY <1>2, StateFields
    <3>2. [T.dir EXCEPT ![n] = [i \in Index |-> None]] \in [Page -> [Index -> Cells]]
      BY <1>3, <3>1 DEF Cells
    <3>3. [T.entries EXCEPT ![n] = 0] \in [Page -> Int]
      BY <1>3, <3>1
    <3>4. QED
      BY <3>2, <3>3 DEF pgdir_new
  <2>2. QED
    BY <1>2, <1>31, <2>1, StateFields DEF States
<1>6. /\ R.free = Q.free \ {n} /\ R.lost = Q.lost /\ R.panicked = Q.panicked
      /\ R.dirs = pgdir_new(Q.dirs, n) /\ n \in Q.free
  BY <1>3
<1> HIDE DEF Q, R
<1>7. Good(R, n, data) /\ \A v \in Vaddr : At3(R, n, v[1], v[2], v[3]) = None
  BY <1>42, <1>5, <1>6, NewShape
<1>8. ASSUME NEW w \in Vaddr PROVE Lookup(w)' = None
  <2>1. Lookup(w)' = At3(State', root', w[1], w[2], w[3])
    BY LookupNext
  <2>2. QED
    BY <1>1, <1>4, <1>7, <2>1
<1>9. n # root
  <2>1. PICK K : Sorted(K, State, root, data)
    BY DEF Inv, Good, Holds, Shape
  <2>2. K[n] = "free" /\ (root # None => K[root] = "pgd")
    BY <1>2, <1>3, <2>1 DEF Sorted, Of
  <2>3. QED
    BY <1>3, <2>2
<1>10. QED
  BY <1>1, <1>3, <1>4, <1>7, <1>8, <1>9 DEF Inv

LEMMA DestroyInv ==
  ASSUME Inv, DestroyTable
  PROVE  Inv' /\ (\A w \in Vaddr : Lookup(w)' = None) /\ root # None /\ root' = None
<1> DEFINE R == [free |-> free \cup {root}, dirs |-> T, lost |-> lost \cup Pmds, panicked |-> panicked]
           f == TRUE
<1>1. /\ root # None /\ free' = free \cup {root} /\ root' = None /\ lost' = lost \cup Pmds
      /\ T' = T /\ data' = data /\ panicked' = panicked
  BY DEF DestroyTable
<1>2. /\ State \in States /\ State.free = free /\ State.dirs = T /\ State.lost = lost /\ State.panicked = panicked
  BY GoodStates DEF Inv, State
<1>3. root \in Page /\ Pmds = {State.dirs.dir[root][i] : i \in Index} \ {None} /\ Pmds \in SUBSET Page
  BY <1>1, PmdsAre
<1>6. State' = R
  BY <1>1 DEF State
<1>7. R \in States
  <2>1. free \cup {root} \in SUBSET Page /\ lost \cup Pmds \in SUBSET Page
    BY <1>2, <1>3, StateFields
  <2>2. QED
    BY <1>2, <2>1, StateFields DEF States
<1>8. /\ R.dirs = State.dirs /\ R.panicked = State.panicked
      /\ R.free = State.free \cup (IF f THEN {root} ELSE {})
      /\ R.lost = State.lost \cup (IF f THEN {} ELSE {root})
                   \cup ({State.dirs.dir[root][i] : i \in Index} \ {None})
  BY <1>2, <1>3
<1>81. f \in BOOLEAN /\ Good(State, root, data)
  BY DEF Inv
<1> HIDE DEF R, f
<1>9. Good(R, None, data)
  BY <1>1, <1>7, <1>8, <1>81, DestroyShape
<1>10. \A w \in Vaddr : Lookup(w)' = None
  BY <1>1 DEF Lookup
<1>11. QED
  BY <1>1, <1>6, <1>9, <1>10 DEF Inv

(* A step, and what it is for the map *)
StepsAs ==
  \/ root' = root /\ MapSame
  \/ root' \in Page \ {root} /\ \A w \in Vaddr : Lookup(w)' = None
  \/ root # None /\ root' = None /\ \A w \in Vaddr : Lookup(w)' = None
  \/ /\ root # None /\ root' = root
     /\ \E v \in Vaddr : (\E p \in Page : MapsTo(v, p)) \/ MapsTo(v, None) \/ MapDrops(v)

LEMMA NextInv == Inv /\ [Next]_vars => Inv' /\ StepsAs
<1> SUFFICES ASSUME Inv, [Next]_vars PROVE Inv' /\ StepsAs
  OBVIOUS
<1>1. CASE NewTable
  BY <1>1, NewInv DEF StepsAs
<1>2. CASE DestroyTable
  BY <1>2, DestroyInv DEF StepsAs
<1>3. CASE Alloc
  BY <1>3, AllocInv DEF StepsAs
<1>4. ASSUME NEW p \in Page, Release(p) PROVE Inv' /\ StepsAs
  BY <1>4, ReleaseInv DEF StepsAs
<1>5. ASSUME NEW v \in Vaddr, NEW p \in Page, Insert(v, p) PROVE Inv' /\ StepsAs
  BY <1>5, InsertInv DEF StepsAs
<1>6. ASSUME NEW v \in Vaddr, NEW p \in Page, arch_map_page(v, p) PROVE Inv' /\ StepsAs
  BY <1>6, MapPageInv DEF StepsAs
<1>7. ASSUME NEW v \in Vaddr, arch_unmap_page(v) PROVE Inv' /\ StepsAs
  BY <1>7, UnmapInv DEF StepsAs
<1>8. CASE UNCHANGED vars
  BY <1>8 DEF vars, Inv, State, StepsAs, MapSame, Lookup, pte, pmd, Entry
<1>9. QED
  BY <1>1, <1>2, <1>3, <1>4, <1>5, <1>6, <1>7, <1>8 DEF Next

LEMMA AlwaysInv == Spec => []Inv
<1>1. Init => Inv
  BY InitInv
<1>2. Inv /\ [Next]_vars => Inv'
  BY NextInv
<1>3. QED
  BY <1>1, <1>2, PTL DEF Spec

-----------------------------------------------------------------------------
(* What the kinds say of the directories that are in use, and lost *)
LEMMA TablesAre ==
  ASSUME NEW K, Shape(K, State, root, data)
  PROVE  /\ \A d \in Page : Slots(d) = Slot(State, d)
         /\ Tables = {p \in Page : K[p] \in Live}
         /\ LostTables = {p \in Page : K[p] \in {"lostpgd", "lostpmd", "lostpte"}}
<1>0. /\ State \in States /\ K \in [Page -> Kinds] /\ root \in Cells /\ State.dirs = T /\ State.lost = lost
      /\ lost = Lost(K) /\ Of(K, "pgd") = {root} \ {None}
      /\ Links(K, State) /\ Orphans(K, State) /\ Reached(K, State)
  BY DEF Shape, Typed, Sorted, State
<1>1. \A d \in Page : Slots(d) = Slot(State, d)
  BY <1>0 DEF Slots, Slot
<1>2. \A d \in Page : Children(d) = {T.dir[d][i] : i \in Index} \ {None}
  BY DEF Children
<1>3. ASSUME NEW d \in Page, K[d] \in Inner, NEW c \in Children(d)
      PROVE  c \in Page /\ K[c] = Below(K[d])
  <2>1. PICK i \in Index : c = T.dir[d][i] /\ c # None
    BY <1>2
  <2>2. QED
    BY <1>0, <1>3, <2>1, StateFields DEF Links, Cells
<1>31. ASSUME NEW d \in Page, K[d] = "lostpgd", NEW c \in Children(d)
       PROVE  c \in Page /\ K[c] = "lostpmd"
  <2>1. PICK i \in Index : c = T.dir[d][i] /\ c # None
    BY <1>2
  <2>2. QED
    BY <1>0, <1>31, <2>1, StateFields DEF Orphans, Cells
<1>4. ASSUME NEW p \in Page, K[p] \in {"pmd", "pte", "lostpte"}
      PROVE  \E d \in Page : K[d] \in Inner /\ K[p] = Below(K[d]) /\ p \in Children(d)
  <2>1. PICK d \in Page, i \in Index : K[d] \in Inner /\ T.dir[d][i] = p
    BY <1>0, <1>4 DEF Reached
  <2>2. K[p] = Below(K[d])
    BY <1>0, <2>1, NoneIs DEF Links
  <2>3. p \in Children(d)
    BY <1>2, <2>1, NoneIs
  <2>4. QED
    BY <2>1, <2>2, <2>3
<1>5. /\ \A p \in Page : K[p] = "pgd" <=> p = root
      /\ root # None => root \in Page
  BY <1>0, NoneIs DEF Of, Cells
<1>6. ASSUME root = None PROVE Tables = {p \in Page : K[p] \in Live}
  <2>1. \A p \in Page : K[p] # "pgd"
    BY <1>5, <1>6, NoneIs
  <2>2. \A p \in Page : K[p] # "pmd"
    BY <1>4, <2>1 DEF Inner, Below
  <2>3. \A p \in Page : K[p] # "pte"
    BY <1>4, <2>2 DEF Inner, Below
  <2>4. Tables = {}
    BY <1>6 DEF Tables
  <2>5. QED
    BY <2>1, <2>2, <2>3, <2>4 DEF Live
<1>7. ASSUME root # None PROVE Tables = {p \in Page : K[p] \in Live}
  <2>0. root \in Page /\ K[root] = "pgd"
    BY <1>5, <1>7
  <2>1. Tables = {root} \cup Children(root) \cup UNION {Children(m) : m \in Children(root)}
    BY <1>7 DEF Tables, Under
  <2>2. ASSUME NEW p \in Tables PROVE p \in Page /\ K[p] \in Live
    <3>1. CASE p = root
      BY <2>0, <3>1 DEF Live
    <3>2. ASSUME NEW m \in Children(root) PROVE m \in Page /\ K[m] = "pmd"
      BY <1>3, <2>0 DEF Inner, Below
    <3>3. CASE p \in Children(root)
      BY <3>2, <3>3 DEF Live
    <3>4. CASE p \in UNION {Children(m) : m \in Children(root)}
      <4>1. PICK m \in Children(root) : p \in Children(m)
        BY <3>4
      <4>2. QED
        BY <1>3, <3>2, <4>1 DEF Inner, Below, Live
    <3>5. QED
      BY <2>1, <3>1, <3>3, <3>4
  <2>3. ASSUME NEW p \in Page, K[p] = "pmd" PROVE p \in Children(root)
    <3>1. PICK d \in Page : K[d] \in Inner /\ K[p] = Below(K[d]) /\ p \in Children(d)
      BY <1>4, <2>3
    <3>2. K[d] = "pgd"
      BY <2>3, <3>1 DEF Inner, Below
    <3>3. QED
      BY <1>5, <3>1, <3>2
  <2>4. ASSUME NEW p \in Page, K[p] = "pte" PROVE p \in UNION {Children(m) : m \in Children(root)}
    <3>1. PICK d \in Page : K[d] \in Inner /\ K[p] = Below(K[d]) /\ p \in Children(d)
      BY <1>4, <2>4
    <3>2. K[d] = "pmd"
      BY <2>4, <3>1 DEF Inner, Below
    <3>3. QED
      BY <2>3, <3>1, <3>2
  <2>5. QED
    BY <1>5, <2>1, <2>2, <2>3, <2>4 DEF Live
<1>8. LostTables = {p \in Page : K[p] \in {"lostpgd", "lostpmd", "lostpte"}}
  <2>1. LostTables = UNION {{m} \cup Children(m) : m \in lost}
    BY DEF LostTables, Under
  <2>2. ASSUME NEW p \in LostTables PROVE p \in Page /\ K[p] \in {"lostpgd", "lostpmd", "lostpte"}
    <3>1. PICK m \in lost : p \in {m} \cup Children(m)
      BY <2>1
    <3>2. m \in Page /\ K[m] \in {"lostpmd", "lostpgd"}
      BY <1>0 DEF Of, Lost
    <3>3. CASE p = m
      BY <3>2, <3>3
    <3>4. CASE p \in Children(m)
      BY <1>3, <1>31, <3>2, <3>4 DEF Inner, Below
    <3>5. QED
      BY <3>1, <3>3, <3>4
  <2>3. ASSUME NEW p \in Page, K[p] \in {"lostpmd", "lostpgd"} PROVE p \in LostTables
    BY <1>0, <2>1, <2>3 DEF Of, Lost
  <2>4. ASSUME NEW p \in Page, K[p] = "lostpte" PROVE p \in LostTables
    <3>1. PICK d \in Page : K[d] \in Inner /\ K[p] = Below(K[d]) /\ p \in Children(d)
      BY <1>4, <2>4
    <3>2. K[d] = "lostpmd"
      BY <2>4, <3>1 DEF Inner, Below
    <3>3. QED
      BY <1>0, <2>1, <3>1, <3>2 DEF Of, Lost
  <2>5. QED
    BY <2>2, <2>3, <2>4
<1>9. QED
  BY <1>1, <1>6, <1>7, <1>8

LEMMA InvImplies == Inv => EntriesExact /\ TreeExact /\ NoDangling
<1> SUFFICES ASSUME Inv PROVE EntriesExact /\ TreeExact /\ NoDangling
  OBVIOUS
<1>1. PICK K : Shape(K, State, root, data) /\ Filled(K, State, None)
  BY DEF Inv, Good, Holds
<1>2. /\ \A d \in Page : Slots(d) = Slot(State, d)
      /\ Tables = {p \in Page : K[p] \in Live}
      /\ LostTables = {p \in Page : K[p] \in {"lostpgd", "lostpmd", "lostpte"}}
  BY <1>1, TablesAre
<1>3. /\ State \in States /\ State.dirs = T /\ State.free = free /\ State.panicked = panicked
      /\ K \in [Page -> Kinds] /\ ~panicked /\ root \in Cells
      /\ free = Of(K, "free") /\ data = Of(K, "data") /\ Of(K, "pgd") = {root} \ {None}
      /\ Links(K, State) /\ Single(K, State) /\ Counted(K, State)
  BY <1>1 DEF Shape, Typed, Sorted, State
<1>4. EntriesExact
  <2> SUFFICES ASSUME NEW d \in Tables
               PROVE  T.entries[d] = Cardinality(Slots(d)) /\ (d # root => Slots(d) # {})
    BY DEF EntriesExact
  <2>1. d \in Page /\ K[d] \in Live /\ Slots(d) = Slot(State, d)
    BY <1>2
  <2>2. T.entries[d] = Cardinality(Slots(d))
    BY <1>3, <2>1 DEF Counted
  <2>3. ASSUME d # root PROVE Slots(d) # {}
    <3>1. K[d] \in {"pmd", "pte"}
      BY <1>3, <2>1, <2>3, NoneIs DEF Live, Of
    <3>2. QED
      BY <1>1, <2>1, <3>1, NoneIs DEF Filled
  <2>4. QED
    BY <2>2, <2>3
<1>5. TreeExact
  <2>1. ASSUME NEW d \in Tables, NEW e \in Tables, NEW i \in Index, NEW j \in Index,
               T.dir[d][i] \in Tables, T.dir[d][i] = T.dir[e][j]
        PROVE  d = e /\ i = j
    <3>1. d \in Page /\ e \in Page /\ K[d] \in Live /\ K[e] \in Live
      BY <1>2
    <3>2. T.dir[d][i] \in Page /\ K[T.dir[d][i]] \in Live /\ T.dir[d][i] # None
      BY <1>2, <2>1, NoneIs
    <3>3. K[T.dir[d][i]] = Below(K[d]) /\ K[T.dir[d][i]] = Below(K[e])
      BY <1>3, <2>1, <3>1, <3>2 DEF Links, Live, Inner
    <3>4. K[d] \in Inner /\ K[e] \in Inner
      BY <3>1, <3>2, <3>3 DEF Below, Live, Inner
    <3>5. Single(K, State)
      BY <1>3
    <3>6. QED
      BY <1>3, <2>1, <3>1, <3>2, <3>4, <3>5 DEF Single
  <2>2. Page \ free = Tables \cup LostTables \cup data
    BY <1>2, <1>3 DEF Of, Kinds, Live
  <2>3. Tables \cap data = {} /\ Tables \cap LostTables = {}
    BY <1>2, <1>3 DEF Of, Live
  <2>4. QED
    BY <1>3, <2>1, <2>2, <2>3 DEF TreeExact
<1>6. NoDangling
  <2> SUFFICES ASSUME NEW v \in Vaddr, Lookup(v) # None PROVE Lookup(v) \in data
    BY DEF NoDangling, Mapped
  <2>1. v[1] \in Index /\ v[2] \in Index /\ v[3] \in Index
    BY IndexOf
  <2>2. Lookup(v) = At3(State, root, v[1], v[2], v[3])
    BY LookupIs
  <2>3. Lookup(v) \in Page /\ K[Lookup(v)] = "data"
    BY <1>1, <2>1, <2>2, WalkKinds
  <2>4. QED
    BY <1>3, <2>3 DEF Of
<1>7. QED
  BY <1>4, <1>5, <1>6

(* The count that pgdir.c keeps in every directory is right, and           *)
(* pgtable_remove never leaves an empty directory behind nor frees one     *)
(* that has an entry: the count it tests is the number of entries.         *)
THEOREM EntryCountsAreExact == Spec => []EntriesExact
BY AlwaysInv, InvImplies, PTL

(* The directories always form a tree, and pgdir_add_entry never panics.   *)
(* A page that is not free is in the tree, held by a caller, or lost with  *)
(* a directory unlinked while in use, by pgtable_get's clean-up,           *)
(* arch_mm_destroy_pgtable, or a second arch_mm_new_pgtable for the same   *)
(* mm: no call of pgtable.c leaks a directory in another way.              *)
THEOREM DirectoriesFormATree == Spec => []TreeExact
BY AlwaysInv, InvImplies, PTL

(* No entry refers to a page that arch_map_page, arch_unmap_page or a      *)
(* caller has freed.                                                       *)
THEOREM NoEntryDangles == Spec => []NoDangling
BY AlwaysInv, InvImplies, PTL

-----------------------------------------------------------------------------
(* The refinement: the map that Lookup reads changes as PageMap says. *)
LEMMA StepIsAbstract ==
  ASSUME StepsAs
  PROVE  [Abstract!Next]_<<root, [v \in Vaddr |-> Lookup(v)]>>
<1> DEFINE map == [v \in Vaddr |-> Lookup(v)]
           next == [v \in Vaddr |-> Lookup(v)']
<1>0. map' = next
  OBVIOUS
<1>1. CASE root' = root /\ MapSame
  <2>1. next = map
    BY <1>1, Zenon DEF MapSame
  <2>2. root' = root
    BY <1>1
  <2>3. QED
    BY <1>0, <2>1, <2>2
<1>2. CASE root' \in Page \ {root} /\ \A w \in Vaddr : Lookup(w)' = None
  <2>1. next = Abstract!Empty
    BY <1>2, Zenon DEF Abstract!Empty
  <2>2. Abstract!Create
    BY <1>0, <1>2, <2>1 DEF Abstract!Create
  <2>3. QED
    BY <2>2 DEF Abstract!Next
<1>3. CASE root # None /\ root' = None /\ \A w \in Vaddr : Lookup(w)' = None
  <2>1. next = Abstract!Empty
    BY <1>3, Zenon DEF Abstract!Empty
  <2>2. Abstract!Destroy
    BY <1>0, <1>3, <2>1 DEF Abstract!Destroy
  <2>3. QED
    BY <2>2 DEF Abstract!Next
<1>4. ASSUME root # None, root' = root, NEW v \in Vaddr, NEW x, MapsTo(v, x)
      PROVE  next = [map EXCEPT ![v] = x]
  BY <1>4 DEF MapsTo
<1>5. ASSUME root # None, root' = root, NEW v \in Vaddr, NEW p \in Page, MapsTo(v, p)
      PROVE  Abstract!Next
  <2>1. Abstract!Insert(v, p)
    BY <1>0, <1>4, <1>5 DEF Abstract!Insert
  <2>2. QED
    BY <1>5, <2>1 DEF Abstract!Next, Abstract!Change
<1>6. ASSUME root # None, root' = root, NEW v \in Vaddr, MapsTo(v, None)
      PROVE  Abstract!Next
  <2>1. Abstract!Remove(v)
    BY <1>0, <1>4, <1>6 DEF Abstract!Remove
  <2>2. QED
    BY <1>6, <2>1 DEF Abstract!Next, Abstract!Change
<1>7. ASSUME root # None, root' = root, NEW v \in Vaddr, MapDrops(v)
      PROVE  Abstract!Next
  <2>1. \A w \in Abstract!Lower(v) : map[w] = None
    BY <1>7 DEF Abstract!Lower, Abstract!Upper, MapDrops
  <2>2. next = [w \in Vaddr |-> IF w \in Abstract!Upper(v) THEN None ELSE map[w]]
    BY <1>7 DEF Abstract!Upper, MapDrops
  <2>3. Abstract!Drop(v)
    BY <1>0, <2>1, <2>2 DEF Abstract!Drop
  <2>4. QED
    BY <1>7, <2>3 DEF Abstract!Next, Abstract!Change
<1>8. QED
  BY <1>1, <1>2, <1>3, <1>5, <1>6, <1>7 DEF StepsAs

(* Walked from the PGD down, the directories of pgtable.c are a map from   *)
(* addresses to pages: every call changes it at its own address only, or   *)
(* is the clean-up after ENOMEM.  PageTable implements PageMap.            *)
THEOREM WalksAreAMap == Spec => Implements
<1>1. Init => Abstract!Init
  <2> SUFFICES ASSUME Init PROVE Abstract!Init
    OBVIOUS
  <2>1. root = None
    BY DEF Init
  <2>2. [v \in Vaddr |-> Lookup(v)] = Abstract!Empty
    BY <2>1 DEF Lookup, Abstract!Empty
  <2>3. QED
    BY <2>1, <2>2 DEF Abstract!Init
<1>2. Inv /\ [Next]_vars => [Abstract!Next]_<<root, [v \in Vaddr |-> Lookup(v)]>>
  BY NextInv, StepIsAbstract
<1>3. QED
  BY <1>1, <1>2, AlwaysInv, PTL DEF Spec, Implements, Abstract!Spec
=============================================================================
