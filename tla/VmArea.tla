------------------------------- MODULE VmArea --------------------------------
(***************************************************************************)
(* Virtual memory areas: kern/mm/vm.c with include/mm/vmm.h, on top of the *)
(* page table as PageMap describes it, of kmalloc and of alloc_pages.      *)
(*                                                                         *)
(* Addresses are virtual page numbers (all arguments that reach the area   *)
(* list are page aligned).  Areas are structures from kmalloc, named by    *)
(* Id, so that a freed one can be handed out again while a pointer to it   *)
(* remains.  A call is one step: nothing interrupts it.  status tells what *)
(* became of the mm:                                                       *)
(*   "run"   in use;                                                       *)
(*   "none"  not created, or destroyed;                                    *)
(*   "freed" a loop has taken its next area from one it had just unlinked  *)
(*           and freed: it would free the same structure for ever;         *)
(*   "dangling" a mapping failed: its area was freed and stays in the list;*)
(*   "twice" that area has been found, unlinked and freed again;           *)
(*   "assert" an assert has stopped the kernel.                            *)
(* The page directories are those of PageTable; their pages are not among  *)
(* the ones counted here.                                                  *)
(***************************************************************************)
EXTENDS Integers, Sequences, FiniteSets, SequencesExt

CONSTANTS NV,       \* virtual pages 0 .. NV - 1
          NPages,   \* pages that can be allocated
          NIds,     \* area structures kmalloc can have handed out at once
          PtPages,  \* pages that one page table maps,
          PmdPages, \* and one page middle directory
          Fail,     \* where memory may run out: "map", "dir", "unmap"
          Walks     \* callers may unmap over any areas, and destroy an
                    \* mm that has areas

ASSUME VmAssumption ==
  /\ NV \in Nat \ {0} /\ NPages \in Nat /\ NIds \in Nat
  /\ PtPages \in Nat \ {0} /\ PmdPages \in Nat \ {0} /\ PmdPages % PtPages = 0
  /\ Fail \subseteq {"map", "dir", "unmap"}
  /\ Walks \in BOOLEAN

V == 0..(NV - 1)
Page == 1..NPages
Id == 1..NIds
None == 0

VARIABLES area,     \* vm_area_t: [start, end, flags], by Id
          live,     \* the structures that are allocated
          list,     \* mm->mmap_list, without the area that stale describes
          stale,    \* the freed area in mmap_list: its end, and what has
                    \* become of its start
          cache,    \* mm->vma_last_accessed
          map,      \* the page table: [page, perm] by virtual page
          free,     \* free pages
          bare,     \* history: pages mapped by calls that got no area
          dropped,  \* history: addresses in areas that lost their mapping
                    \* to the failure of another one
          gone,     \* history: pages that nothing refers to any more
          status

vars == <<area, live, list, stale, cache, map, free, bare, dropped, gone, status>>

(* The contents of a structure that is not allocated; they are forgotten   *)
(* here when it is freed, as nothing reads them (AreasOrdered and          *)
(* CacheLinked).                                                           *)
Blank == [start |-> 0, end |-> 0, flags |-> {}]
NoStale == [end |-> 0, start |-> "none"]
Unmapped == [page |-> None, perm |-> {}]

(* VMA_READ, VMA_WRITE, VMA_EXEC *)
Flags == SUBSET {"r", "w", "x"}

(* The bits of the page table entry; PTE_NOEXEC is set in any case. *)
page_perm(f) ==
  {"valid", "noexec"} \cup (IF "w" \in f THEN {"dirty"} ELSE {})
                     \cup (IF "x" \in f THEN {} ELSE {"noexec"})

-----------------------------------------------------------------------------
vm_area_fit(k, a) == area[k].start <= a /\ a < area[k].end

(* vm_area_find when vma_last_accessed is c: the area, and what            *)
(* vma_last_accessed is then                                               *)
vm_area_find(c, a) ==
  LET fit == {j \in DOMAIN list : vm_area_fit(list[j], a)}
  IN IF c # None /\ vm_area_fit(c, a) THEN [vma |-> c, cache |-> c]
     ELSE IF fit = {} THEN [vma |-> None, cache |-> c]
     ELSE LET k == list[Min(fit)] IN [vma |-> k, cache |-> k]

(* Mutant: at the end of the list *)
vm_area_insert_last(A, l, k) == IF k = None THEN l ELSE Append(l, k)

(* The list l with area k put before the first area that does not end      *)
(* before it (A: the areas).  The assert in the loop, that k does not      *)
(* overlap an area it is put behind, never fails.                          *)
vm_area_insert(A, l, k) ==
  IF k = None THEN l
  ELSE LET behind == {j \in DOMAIN l : ~(A[l[j]].end <= A[k].start)}
       IN IF behind = {} THEN Append(l, k) ELSE InsertAt(l, Min(behind), k)

(* The j-th smallest element *)
Nth(S, j) == CHOOSE x \in S : Cardinality({y \in S : y < x}) = j - 1

(* alloc_pages: the lowest free ones *)
Pages(n) == [j \in 1..n |-> Nth(free, j)]

-----------------------------------------------------------------------------
Init ==
  /\ area = [k \in Id |-> Blank]
  /\ live = {} /\ list = << >> /\ cache = None
  /\ map = [a \in V |-> Unmapped]
  /\ free = Page /\ bare = {} /\ dropped = {} /\ gone = {}
  /\ stale = NoStale /\ status = "none"

mm_new ==
  /\ status = "none"
  /\ status' = "run" /\ cache' = None
  /\ UNCHANGED <<area, live, list, stale, map, free, bare, dropped, gone>>

(* The pages mapped at the addresses of R *)
At(R) == {map[a].page : a \in R} \ {None}

(* mm_destroy: the page table goes, and with it what is still mapped.      *)
(* Each area is unlinked, which makes it its own successor, and only then  *)
(* asked for its successor.                                                *)
mm_destroy ==
  /\ status = "run" /\ (Walks \/ list = << >>)
  /\ status' = IF list = << >> THEN "none" ELSE "freed"
  /\ map' = [a \in V |-> Unmapped] /\ bare' = {} /\ dropped' = {}
  /\ gone' = gone \cup At(V)
  /\ UNCHANGED <<area, live, list, stale, cache, free>>

-----------------------------------------------------------------------------
(* map_pages of the pages pgs at a, in an area k (None if kmalloc failed,  *)
(* which vm_area_insert takes for success); a page that is mapped there is *)
(* freed.                                                                  *)
Mapping(a, pgs, f, k) ==
  LET R == a..(a + Len(pgs) - 1)
      A == IF k = None THEN area
           ELSE [area EXCEPT ![k] = [start |-> a, end |-> a + Len(pgs), flags |-> f]]
  IN /\ area' = A
     /\ live' = live \cup ({k} \ {None})
     /\ list' = vm_area_insert(A, list, k)
     /\ map' = [b \in V |-> IF b \in R THEN [page |-> pgs[b - a + 1], perm |-> page_perm(f)]
                             ELSE map[b]]
     /\ free' = (free \ Range(pgs)) \cup At(R)
     /\ bare' = IF k = None THEN bare \cup R ELSE bare \ R
     /\ UNCHANGED <<stale, cache, dropped, gone, status>>

(* The addresses under the same page table, and the same page middle       *)
(* directory, as b                                                         *)
UnderPt(b) == {c \in V : c \div PtPages = b \div PtPages}
UnderPmd(b) == {c \in V : c \div PmdPages = b \div PmdPages}

(* There is no page table for b, once a..(b-1) are mapped *)
NoPt(a, b) == \A c \in UnderPt(b) : map[c] = Unmapped /\ ~(a <= c /\ c < b)

(* map_pages of n pages at a when arch_map_page cannot get the page table  *)
(* for b: pgtable_get takes the page middle directory out, with all that   *)
(* is mapped below it.  Then all n addresses are unmapped, the area is     *)
(* freed but not unlinked, and mm_create_uvm frees the new pages.  kfree   *)
(* writes the index of the slab's first free chunk over the area's start:  *)
(* 0, an address that is not page aligned ("odd"), or INDEX_INVALID, which *)
(* is above its end.  vma: kmalloc had given an area.                      *)
MappingFails(a, n, b, vma) ==
  LET R == a..(a + n - 1)
      others == UnderPmd(b) \ R
  IN /\ map' = [c \in V |-> IF c \in R \/ c \in others THEN Unmapped ELSE map[c]]
     /\ free' = free \cup At(a..(b - 1))
     /\ gone' = gone \cup At(b..(a + n - 1) \cup others)
     /\ dropped' = dropped \cup {c \in others : map[c] # Unmapped /\ c \notin bare}
     /\ bare' = bare \ (R \cup others)
     /\ IF vma THEN /\ status' = "dangling"
                    /\ \E s \in {"zero", "odd", "invalid"} : stale' = [end |-> a + n, start |-> s]
        ELSE UNCHANGED <<stale, status>>
     /\ UNCHANGED <<area, live, list, cache>>

(* The virtual pages from a to b are in no area *)
Vacant(a, b) == \A j \in DOMAIN list : area[list[j]].end <= a \/ b < area[list[j]].start

(* Memory for an area or a page directory runs out only when no page is    *)
(* left, here when the call has taken the last one; bound: there is one    *)
(* mapping without an area.                                                *)
OutOfMemory(kind, n) == kind \in Fail /\ n = Cardinality(free)

(* A call for address 0, or for more pages than there are, changes         *)
(* nothing.  Callers ask for addresses outside all areas; no check in the  *)
(* code enforces it.                                                       *)
Creatable(a, n) ==
  /\ status = "run"
  /\ a # 0 /\ a + n <= NV /\ n <= Cardinality(free)
  /\ Vacant(a, a + n - 1)

Creates(a, n, f) ==
  /\ Creatable(a, n)
  /\ \/ live # Id /\ Mapping(a, Pages(n), f, Nth(Id \ live, 1))
     \/ OutOfMemory("map", n) /\ bare \cup gone = {} /\ Mapping(a, Pages(n), f, None)

(* ENOMEM *)
CreateFails(a, n) ==
  /\ Creatable(a, n) /\ OutOfMemory("dir", n)
  /\ \E b \in a..(a + n - 1), vma \in BOOLEAN :
       /\ NoPt(a, b)
       /\ IF vma THEN live # Id ELSE "map" \in Fail
       /\ MappingFails(a, n, b, vma)

mm_create_uvm(a, n, f) == Creates(a, n, f) \/ CreateFails(a, n)

-----------------------------------------------------------------------------
(* Mutant: the pages stay allocated *)
Unmap_keep(a, b) ==
  /\ map' = [c \in V |-> IF a <= c /\ c < b THEN Unmapped ELSE map[c]]
  /\ bare' = bare \ a..(b - 1) /\ dropped' = dropped \ a..(b - 1)
  /\ UNCHANGED <<free, gone>>

(* The last loop of unmap_pages: unmap and free what is mapped in a..(b-1) *)
Unmap(a, b) ==
  /\ map' = [c \in V |-> IF a <= c /\ c < b THEN Unmapped ELSE map[c]]
  /\ free' = free \cup At(a..(b - 1))
  /\ bare' = bare \ a..(b - 1) /\ dropped' = dropped \ a..(b - 1)
  /\ UNCHANGED gone

(* What remains of area k without a..(b-1): head and tail *)
Rest(k, a, b) ==
  << [area[k] EXCEPT !.end = a], [area[k] EXCEPT !.start = b] >>

(* Mutant: the cached area is forgotten only if another one goes *)
Forget_other(c, k) == IF k # c THEN None ELSE c

Forget(c, k) == IF k = c THEN None ELSE c

(* The structures for what remains of area k *)
Needed(k, a, b) == (IF area[k].start < a THEN 1 ELSE 0) + (IF b < area[k].end THEN 1 ELSE 0)

(* The region is inside area k: the area is replaced by what remains of    *)
(* it.  Bound: there are structures for it.                                *)
UnmapInside(k, a, b, c) ==
  LET r == Rest(k, a, b)
      h == IF area[k].start < a THEN Nth(Id \ live, 1) ELSE None
      t == IF b < area[k].end THEN Nth(Id \ live, Needed(k, a, b)) ELSE None
      A == [x \in Id |-> IF x = h THEN r[1] ELSE IF x = t THEN r[2]
                       ELSE IF x = k THEN Blank ELSE area[x]]
      l == RemoveAt(list, Min({j \in DOMAIN list : list[j] = k}))
  IN \/ (* ENOMEM for the head or the tail *)
        /\ OutOfMemory("unmap", 0) /\ Needed(k, a, b) > 0
        /\ cache' = c
        /\ UNCHANGED <<area, live, list, stale, map, free, bare, dropped, gone, status>>
     \/ /\ Needed(k, a, b) <= Cardinality(Id \ live)
        /\ area' = A
        /\ live' = (live \ {k}) \cup ({h, t} \ {None})
        /\ list' = vm_area_insert(A, vm_area_insert(A, l, h), t)
        /\ cache' = Forget(c, k)
        /\ Unmap(a, b)
        /\ UNCHANGED <<stale, status>>

Neighbours(k, e) == \E j \in 1..(Len(list) - 1) : list[j] = k /\ list[j + 1] = e

(* The region ends in two neighbouring areas and leaves something of both. *)
(* Taken from the start of the first, or to the end of the last, it leaves *)
(* an area without pages in the list, which the caller must not ask for.   *)
Shortens(k, e, a, b) == Neighbours(k, e) /\ area[k].start < a /\ b < area[e].end

(* Mutant: the last area keeps its start *)
Cut_first(k, e, a, b) == [area EXCEPT ![k].end = a]

(* The areas once a region from k to its neighbour e has gone *)
Cut(k, e, a, b) == [area EXCEPT ![k].end = a, ![e].start = b]

(* The region goes from area k to another area e.  An area between them is *)
(* unlinked and freed, and then asked for its successor.                   *)
UnmapAcross(k, e, a, b, c) ==
  IF ~Neighbours(k, e)
  THEN /\ status' = "freed"
       /\ UNCHANGED <<area, live, list, stale, cache, map, free, bare, dropped, gone>>
  ELSE /\ area' = Cut(k, e, a, b)
       /\ cache' = c
       /\ Unmap(a, b)
       /\ UNCHANGED <<live, list, stale, status>>

(* ENOENT, with nothing done but the searches, unless the first and the    *)
(* last address of a..(b-1) are in areas                                   *)
unmap_from(c, a, b) ==
  LET first == vm_area_find(c, a)
      last  == vm_area_find(first.cache, b - 1)
  IN IF first.vma = None \/ last.vma = None
     THEN /\ cache' = last.cache
          /\ UNCHANGED <<area, live, list, stale, map, free, bare, dropped, gone, status>>
     ELSE IF first.vma = last.vma THEN UnmapInside(first.vma, a, b, last.cache)
     ELSE /\ Walks \/ Shortens(first.vma, last.vma, a, b)
          /\ UnmapAcross(first.vma, last.vma, a, b, last.cache)

unmap_pages(a, n) == status = "run" /\ a + n <= NV /\ unmap_from(cache, a, a + n)

(* vm_area_find comes to the freed area: mmap_list has it before the areas *)
(* that start behind its end.                                              *)
StaleReached(a) ==
  /\ status = "dangling" /\ ~(cache # None /\ vm_area_fit(cache, a))
  /\ \A k \in Range(list) : vm_area_fit(k, a) => stale.end <= area[k].start

(* It contains a.  It begins inside page 0 if its start is "odd": there,   *)
(* above tells whether the address is above it.                            *)
StaleFits(a, above) == a < stale.end /\ (stale.start = "zero" \/ a > 0 \/ above)

(* vm_area_fit asserts that an area ends behind its start, and unmap_pages *)
(* that it is asked for a page-aligned address.                            *)
AssertFails(a, above) == stale.start = "invalid" \/ (stale.start = "odd" /\ StaleFits(a, above))

(* The freed area is taken for one that begins at 0: it is unlinked and    *)
(* freed again, and with it all pages below its end, of whichever area.    *)
UnmapStale ==
  LET R == 0..(stale.end - 1)
  IN /\ status' = "twice" /\ stale' = NoStale /\ cache' = None
     /\ map' = [c \in V |-> IF c \in R THEN Unmapped ELSE map[c]]
     /\ free' = free \cup At(R)
     /\ dropped' = dropped \cup {c \in R : map[c] # Unmapped /\ c \notin bare}
     /\ bare' = bare \ R
     /\ UNCHANGED <<area, live, list, gone>>

(* The whole area that contains a.  After a failed mapping this is the     *)
(* only call that is made, by the loader that gives up.                    *)
mm_destroy_uvm(a, above) ==
  LET found == vm_area_find(cache, a)
  IN /\ status \in {"run", "dangling", "twice"}
     /\ IF StaleReached(a) /\ AssertFails(a, above)
        THEN /\ status' = "assert"
             /\ UNCHANGED <<area, live, list, stale, cache, map, free, bare, dropped, gone>>
        ELSE IF StaleReached(a) /\ StaleFits(a, above) THEN UnmapStale
        ELSE IF found.vma = None THEN UNCHANGED vars
        ELSE unmap_from(found.cache, area[found.vma].start, area[found.vma].end)

(* Bound: which flags are asked for depends on the address *)
FlagsAt(a) == IF a % 2 = 0 THEN {"r", "x"} ELSE {"r", "w"}

Next ==
  \/ mm_new \/ mm_destroy
  \/ \E a \in V, n \in 1..NV : mm_create_uvm(a, n, FlagsAt(a))
  \/ \E a \in V, n \in 1..NV : unmap_pages(a, n)
  \/ \E a \in V, above \in BOOLEAN : mm_destroy_uvm(a, above)

Spec == Init /\ [][Next]_vars

-----------------------------------------------------------------------------
(* The areas of an mm are not empty, in ascending order and disjoint, as   *)
(* the asserts of vmm.h and vm_area_insert have it, and no structure is    *)
(* leaked or freed while in the list, but for the one area of a mapping    *)
(* that failed (stale).                                                    *)
AreasOrdered ==
  /\ \A j \in DOMAIN list : area[list[j]].start < area[list[j]].end
  /\ \A i, j \in DOMAIN list : i < j => area[list[i]].end <= area[list[j]].start
  /\ Range(list) = live

(* The area list and the page table tell the same story: a page is mapped  *)
(* if it is in an area, with the permissions of the area however it was    *)
(* split before, or if map_pages got no structure for its area.  The only  *)
(* pages missing from an area are those that the failure of another        *)
(* mapping took away.                                                      *)
MapsMatchAreas ==
  \A a \in V :
    LET in == {k \in Range(list) : vm_area_fit(k, a)}
    IN /\ map[a] # Unmapped <=> (in # {} /\ a \notin dropped) \/ a \in bare
       /\ in = {} \/ a \notin bare
       /\ a \notin dropped => \A k \in in : map[a].perm = page_perm(area[k].flags)

(* vma_last_accessed is never a pointer to an area that has gone, which    *)
(* kmalloc may have handed out again, nor to the one of a failed mapping.  *)
CacheLinked == cache = None \/ cache \in Range(list)

(* A page is free or mapped, at one address: none is given to two owners,  *)
(* and none leaks but those whose mapping was dropped without an area, or  *)
(* with the page directory when another mapping failed.                    *)
PagesExact ==
  /\ Page \ free = At(V) \cup gone
  /\ free \cap (At(V) \cup gone) = {} /\ At(V) \cap gone = {}
  /\ \A a, b \in V : a # b /\ map[a] # Unmapped => map[a].page # map[b].page

(* unmap_pages says that the region may span several areas, and mm_destroy *)
(* that it traverses the list and frees each node: both loops end.         *)
WalksEnd == status # "freed"

=============================================================================
