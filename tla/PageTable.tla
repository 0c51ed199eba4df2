----------------------------- MODULE PageTable ------------------------------
(***************************************************************************)
(* The hierarchical page table: arch/mips/mm/hier/pgtable.c and pgdir.c,   *)
(* with three levels (CONFIG_3LEVEL_PT), on top of the page allocator as   *)
(* PageSets describes it.                                                  *)
(*                                                                         *)
(* A virtual page is the triple <<pgx, pmx, ptx>> VADDR_SPLIT makes of it. *)
(* One page table is in use; its directories and the pages that are mapped *)
(* come from the same memory.  Permissions and ASIDs are left out.  The    *)
(* functions take no lock and are never interrupted: a call is one step.   *)
(***************************************************************************)
EXTENDS Integers, FiniteSets, FiniteSetsExt

CONSTANTS NPages,   \* pages that can be allocated
          Vaddr,    \* bound: the virtual pages in use
          MaxData   \* bound: how many pages callers hold at once

ASSUME TableAssumption ==
  /\ NPages \in Nat \ {0} /\ MaxData \in Nat
  /\ Vaddr \subseteq Nat \X Nat \X Nat /\ IsFiniteSet(Vaddr)

Page == 1..NPages
None == 0         \* NULL, and an empty entry
Zero == <<0, 0, 0>>
Index == UNION {{v[1], v[2], v[3]} : v \in Vaddr}

VARIABLES free,     \* free pages
          T,        \* the directories: [dir, entries], by page
          root,     \* arch_mm->pgd
          data,     \* pages that callers have allocated, to be mapped
          lost,     \* history: PGDs and PMDs unlinked while in use
          panicked

vars == <<free, T, root, data, lost, panicked>>

Entry(D, d, i) == IF d = None THEN None ELSE D.dir[d][i]

(* pgtable_get without @create, and what the PTE it finds holds *)
pmd(v) == Entry(T, root, v[1])
pte(v) == Entry(T, pmd(v), v[2])
Lookup(v) == IF root = None THEN None ELSE Entry(T, pte(v), v[3])
Mapped == {Lookup(v) : v \in Vaddr} \ {None}

-----------------------------------------------------------------------------
(* States in the middle of a call are records                              *)
(* S = [free, dirs, lost, panicked]; each function below gives the next.   *)
State == [free |-> free, dirs |-> T, lost |-> lost, panicked |-> panicked]

Becomes(S) ==
  free' = S.free /\ T' = S.dirs /\ lost' = S.lost /\ panicked' = S.panicked

pgdir_add_entry(S, d, i, p) ==
  IF S.dirs.dir[d][i] # None THEN [S EXCEPT !.panicked = TRUE]
  ELSE [S EXCEPT !.dirs.dir[d][i] = p, !.dirs.entries[d] = @ + 1]

pgdir_remove_entry(S, d, i) ==
  [S EXCEPT !.dirs.dir[d][i] = None, !.dirs.entries[d] = @ - 1]

(* pgdir_new clears the page n it gets *)
pgdir_new(D, n) ==
  [dir |-> [D.dir EXCEPT ![n] = [i \in Index |-> None]],
   entries |-> [D.entries EXCEPT ![n] = 0]]

(* A failure is recognised by the entry, which stays empty. *)
pgdir_add_pgdir(S, d, i) ==
  IF S.free = {} THEN S
  ELSE LET n == Min(S.free)
       IN pgdir_add_entry([S EXCEPT !.free = @ \ {n}, !.dirs = pgdir_new(@, n)], d, i, n)

(* Mutant: the directory is unlinked but never freed *)
pgdir_remove_pgdir_leak(S, d, i) == pgdir_remove_entry(S, d, i)

(* A directory that is not empty is unlinked all the same. *)
pgdir_remove_pgdir(S, d, i) ==
  LET n == S.dirs.dir[d][i]
      R == pgdir_remove_entry(S, d, i)
  IN IF R.dirs.entries[n] = 0 THEN [R EXCEPT !.free = @ \cup {n}]
                              ELSE [R EXCEPT !.lost = @ \cup {n}]

(* Mutant: what was created is left when memory runs out *)
nomem_keep(S, v) == S

(* The clean-up of pgtable_get.  The entry of the PMD is empty in every    *)
(* case that leads here, so only the one of the PGD is removed.            *)
nomem(S, v) ==
  IF Entry(S.dirs, root, v[1]) = None THEN S
  ELSE pgdir_remove_pgdir(S, root, v[1])

(* pgtable_get with @create: the state after it, in which the page table   *)
(* of v exists exactly if it succeeded.                                    *)
Created(S, v) == Entry(S.dirs, Entry(S.dirs, root, v[1]), v[2]) # None

pgtable_get(S, v) ==
  LET S1 == IF S.dirs.dir[root][v[1]] # None THEN S ELSE pgdir_add_pgdir(S, root, v[1])
      m  == S1.dirs.dir[root][v[1]]
      S2 == IF m = None \/ Created(S1, v) THEN S1 ELSE pgdir_add_pgdir(S1, m, v[2])
  IN IF Created(S2, v) THEN S2 ELSE nomem(S2, v)

Replaced(S, d, i) == IF S.dirs.dir[d][i] = None THEN S ELSE pgdir_remove_entry(S, d, i)

(* pgtable_insert: EINVAL, ENOMEM, EEXIST, or the entry is made, after     *)
(* removing the one of another page.                                       *)
pgtable_insert(v, p, replace) ==
  LET S == pgtable_get(State, v)
      d == S.dirs.dir[S.dirs.dir[root][v[1]]][v[2]]
      old == S.dirs.dir[d][v[3]]
  IN IF v = Zero THEN State
     ELSE IF ~Created(S, v) THEN S
     ELSE IF old = p THEN pgdir_add_entry(S, d, v[3], p)
     ELSE IF old # None /\ ~replace THEN S
     ELSE pgdir_add_entry(Replaced(S, d, v[3]), d, v[3], p)

(* v's entry is removed, then its page table if that leaves it empty *)
RemovePte(v) ==
  LET S == IF Lookup(v) = None THEN State ELSE pgdir_remove_entry(State, pte(v), v[3])
  IN IF pte(v) # None /\ S.dirs.entries[pte(v)] = 0
     THEN pgdir_remove_pgdir(S, pmd(v), v[2]) ELSE S

(* Mutant: the PMD goes with any page table *)
pgtable_remove_all(v) ==
  IF pmd(v) = None THEN RemovePte(v) ELSE pgdir_remove_pgdir(RemovePte(v), root, v[1])

(* pgtable_remove: then its PMD likewise *)
pgtable_remove(v) ==
  LET S == RemovePte(v)
  IN IF pmd(v) # None /\ S.dirs.entries[pmd(v)] = 0
     THEN pgdir_remove_pgdir(S, root, v[1]) ELSE S

-----------------------------------------------------------------------------
Init ==
  /\ free = Page
  /\ T = [dir |-> [p \in Page |-> [i \in Index |-> None]],
          entries |-> [p \in Page |-> 0]]
  /\ root = None /\ data = {} /\ lost = {} /\ panicked = FALSE

(* The PMDs in use *)
Pmds == IF root = None THEN {} ELSE {T.dir[root][i] : i \in Index} \ {None}

(* arch_mm_new_pgtable, also for an mm that has a page table, whose PGD it *)
(* forgets: task_setup_mm calls it for what mm_new returns.                *)
NewTable ==
  /\ free # {}
  /\ LET n == Min(free)
     IN root' = n /\ free' = free \ {n} /\ T' = pgdir_new(T, n)
  /\ lost' = lost \cup ({root} \ {None}) \cup Pmds
  /\ UNCHANGED <<data, panicked>>

(* arch_mm_destroy_pgtable frees the PGD, whatever it still refers to *)
DestroyTable ==
  /\ root # None
  /\ free' = free \cup {root} /\ root' = None
  /\ lost' = lost \cup Pmds
  /\ UNCHANGED <<T, data, panicked>>

(* A caller allocates a page, or frees one that is not mapped *)
Alloc ==
  /\ free # {} /\ Cardinality(data) < MaxData
  /\ free' = free \ {Min(free)} /\ data' = data \cup {Min(free)}
  /\ UNCHANGED <<T, root, lost, panicked>>

Release(p) ==
  /\ p \in data \ Mapped
  /\ free' = free \cup {p} /\ data' = data \ {p}
  /\ UNCHANGED <<T, root, lost, panicked>>

(* pgtable_insert without @replace, of a page that may be mapped elsewhere *)
Insert(v, p) ==
  /\ root # None /\ p \in data /\ Lookup(v) # p
  /\ Becomes(pgtable_insert(v, p, FALSE))
  /\ UNCHANGED <<root, data>>

(* The page that an arch_map_page at v replaces, as a set *)
Old(v) == IF v = Zero THEN {} ELSE {Lookup(v)} \ {None}

(* Mutant: the new page is freed, not the old one *)
FreeReplaced_new(S, v, p) ==
  IF Old(v) = {} THEN Becomes(S) /\ UNCHANGED data
  ELSE Becomes([S EXCEPT !.free = @ \cup {p}]) /\ data' = data \ {p}

FreeReplaced(S, v, p) ==
  Becomes([S EXCEPT !.free = @ \cup Old(v)]) /\ data' = data \ Old(v)

(* arch_map_page: callers pass a page that is not mapped; the page that it *)
(* replaces, if any, is freed, so it must not be mapped elsewhere.         *)
arch_map_page(v, p) ==
  /\ root # None /\ p \in data \ Mapped
  /\ \A w \in Vaddr \ {v} : Lookup(v) # None => Lookup(w) # Lookup(v)
  /\ FreeReplaced(pgtable_insert(v, p, TRUE), v, p)
  /\ UNCHANGED root

(* arch_unmap_page: the page goes back to the caller *)
arch_unmap_page(v) ==
  /\ root # None
  /\ Becomes(pgtable_remove(v))
  /\ UNCHANGED <<root, data>>

Next ==
  /\ ~panicked
  /\ \/ NewTable \/ DestroyTable \/ Alloc
     \/ \E p \in Page : Release(p)
     \/ \E v \in Vaddr, p \in Page : Insert(v, p) \/ arch_map_page(v, p)
     \/ \E v \in Vaddr : arch_unmap_page(v)

Spec == Init /\ [][Next]_vars

-----------------------------------------------------------------------------
Children(d) == {T.dir[d][i] : i \in Index} \ {None}
Slots(d) == {i \in Index : T.dir[d][i] # None}

(* The directories under directory d of level n: 2 a PGD, 1 a PMD *)
Under(d, n) ==
  CASE n = 0 -> {d}
    [] n = 1 -> {d} \cup Children(d)
    [] n = 2 -> {d} \cup Children(d) \cup UNION {Children(m) : m \in Children(d)}

Tables == IF root = None THEN {} ELSE Under(root, 2)
LostTables == UNION {Under(m, 1) : m \in lost}

(* entries is the number of entries of every directory in use, and no      *)
(* directory but the PGD is empty: pgtable_remove frees a directory at the *)
(* moment its last entry goes, never before.                               *)
EntriesExact ==
  \A d \in Tables : /\ T.entries[d] = Cardinality(Slots(d))
                    /\ d # root => Slots(d) # {}

(* The directories form a tree: no two entries refer to the same one.      *)
(* Together with the pages callers hold they are all the pages that are    *)
(* not free, but for those that a call has unlinked while in use: the      *)
(* clean-up of pgtable_get, the destruction of a page table that maps      *)
(* something, and a second arch_mm_new_pgtable, as task_setup_mm does it.  *)
(* No call leaks a directory in another way, none is freed in use, and no  *)
(* entry is ever added where there is one, which would be a panic.         *)
TreeExact ==
  /\ ~panicked
  /\ \A d, e \in Tables, i, j \in Index :
       /\ T.dir[d][i] \in Tables /\ T.dir[d][i] = T.dir[e][j]
       => d = e /\ i = j
  /\ Page \ free = Tables \cup LostTables \cup data
  /\ Tables \cap data = {} /\ Tables \cap LostTables = {}

(* A page that is mapped is never free, so that an address never leads to  *)
(* memory that has been given to somebody else.                            *)
NoDangling == Mapped \subseteq data

Abstract == INSTANCE PageMap WITH table <- root,
                                  map <- [v \in Vaddr |-> Lookup(v)]

(* Walked from the PGD down, the directories are a map from addresses to   *)
(* pages; a call changes it at its own address only, whichever directories *)
(* it creates or frees, but for the clean-up after ENOMEM.                 *)
Implements == Abstract!Spec

(* include/mm/pgtable.h: pgtable_insert inserts a page with virtual        *)
(* address @vaddr.  It leaves every other address alone.                   *)
InsertKeepsOthers ==
  [][\A v \in Vaddr, p \in Page :
       Insert(v, p) => \A w \in Vaddr \ {v} : Lookup(w)' = Lookup(w)]_vars
=============================================================================
