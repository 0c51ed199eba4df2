-------------------------------- MODULE Slab ---------------------------------
(***************************************************************************)
(* kmalloc and kfree: kern/mm/kmalloc.c and the slab allocator             *)
(* kern/mm/slab.c, on top of the page allocator as PageSets describes it.  *)
(*                                                                         *)
(* The slab structure lives in the page structure, so a slab is its page.  *)
(* The avail and full queues of a cache are rings of slabs with a pointer  *)
(* to a first one.  The kernel is not preemptible: a call is one step.     *)
(***************************************************************************)
EXTENDS Integers, Sequences, FiniteSets, DList

CONSTANTS NPages,     \* pages that can be allocated
          Requests,   \* bound: the sizes, in bytes, that callers ask for
          MaxOwn      \* bound: how many allocations callers hold at once

ASSUME SlabAssumption ==
  NPages \in Nat \ {0} /\ Requests \subseteq Nat \ {0} /\ MaxOwn \in Nat

PGSIZE == 16384
LARGE_CHUNK == PGSIZE \div 2
Page == 1..NPages
NULL == 0
INDEX_INVALID == -1
InUse == -2           \* what a caller may have written over a free index

(* tiny_sizes, then doubling up to LARGE_CHUNK; the least request of each  *)
size == <<8, 16, 32, 64, 96, 128, 192, 256, 512, 1024, 2048, 4096, 8192>>
lbound == <<8, 16, 24, 40, 72, 104, 136, 200>>
Cache == DOMAIN size
LBOUND(c) == IF size[c] > 256 THEN size[c] \div 2 + 8 ELSE lbound[c]
capacity(c) == PGSIZE \div size[c]

VARIABLES free,           \* free pages
          type,           \* page type: "slab", or anything else
          cache, index, count,  \* slab fields
          chunk,          \* the first word of every chunk of a slab
          q,              \* slab->node (n, v) and cache->avail, cache->full
          last_accessed,
          own,            \* what callers hold: [page, index, bytes]
          halted          \* an assert failed or panic was called

slabVars == <<free, type, cache, index, count, chunk, q, last_accessed, own, halted>>

-----------------------------------------------------------------------------
ROUNDUP(x, d) == ((x + d - 1) \div d) * d

(* Mutant: too small a chunk fits *)
ALMOST_FIT_low(n, c) == c # NULL /\ n >= LBOUND(c)

ALMOST_FIT(n, c) == c # NULL /\ n >= LBOUND(c) /\ n <= size[c]

(* The cache for a request, NULL where the code panics *)
find_kmcache(n) ==
  IF ALMOST_FIT(n, last_accessed) THEN last_accessed
  ELSE IF \E c \in Cache : ALMOST_FIT(n, c)
  THEN CHOOSE c \in Cache : ALMOST_FIT(n, c) /\ \A d \in 1..(c - 1) : ~ALMOST_FIT(n, d)
  ELSE NULL

(* Mutant: a slab alone in its queue stays the first one *)
LeaveAlone(Q, head, s) == IF head # s THEN head ELSE Q.n[s]

(* Queue states are records Q = [n, v, avail, full].  What a queue whose    *)
(* first slab is head becomes when s leaves it:                            *)
Leave(Q, head, s) == IF head # s THEN head ELSE IF Q.n[s] = s THEN NULL ELSE Q.n[s]

(* list_del_init(s), then list_add_before(head, s) or a queue of s alone *)
Hook(Q, head, s) ==
  [n |-> IF head = NULL THEN DelNext(Q.n, Q.v, s) ELSE MoveNext(Q.n, Q.v, head, s),
   v |-> IF head = NULL THEN DelPrev(Q.n, Q.v, s) ELSE MovePrev(Q.n, Q.v, head, s),
   head |-> IF head = NULL THEN s ELSE head]

set_slab_available(Q, c, s) ==
  LET h == Hook(Q, Q.avail[c], s) IN
  [n |-> h.n, v |-> h.v, avail |-> [Q.avail EXCEPT ![c] = h.head],
   full |-> [Q.full EXCEPT ![c] = Leave(Q, @, s)]]

(* Mutant: a slab without free chunks stays available *)
set_slab_full_not(Q, c, s) == Q

set_slab_full(Q, c, s) ==
  LET h == Hook(Q, Q.full[c], s) IN
  [n |-> h.n, v |-> h.v, avail |-> [Q.avail EXCEPT ![c] = Leave(Q, @, s)],
   full |-> [Q.full EXCEPT ![c] = h.head]]

set_slab_empty(Q, c, s) ==
  [n |-> DelNext(Q.n, Q.v, s), v |-> DelPrev(Q.n, Q.v, s),
   avail |-> [Q.avail EXCEPT ![c] = Leave(Q, @, s)], full |-> Q.full]

(* Mutant: the chain has no end *)
fill_slab_open(c) == [k \in 0..(capacity(c) - 1) |-> k + 1]

fill_slab(c) == [k \in 0..(capacity(c) - 1) |->
                   IF k = capacity(c) - 1 THEN INDEX_INVALID ELSE k + 1]

-----------------------------------------------------------------------------
(* slab_bootstrap *)
SlabInit ==
  /\ free = Page
  /\ type = [p \in Page |-> "generic"]
  /\ cache = [p \in Page |-> NULL]
  /\ index = [p \in Page |-> 0]
  /\ count = [p \in Page |-> 0]
  /\ chunk = [p \in Page |-> << >>]
  /\ q = [n |-> [p \in Page |-> p], v |-> [p \in Page |-> p],
          avail |-> [c \in Cache |-> NULL], full |-> [c \in Cache |-> NULL]]
  /\ last_accessed = NULL
  /\ own = {}
  /\ halted = FALSE

Halt == halted' = TRUE /\ UNCHANGED <<free, type, cache, index, count, chunk, q,
                                      last_accessed, own>>

(* slab_alloc from slab s of cache c, whose free chain starts at i: take   *)
(* the first chunk, and leave the avail queue if it was the last one.      *)
Pop(c, s, i, cnt, chunks, Q, bytes) ==
  IF i < 0 THEN Halt
  ELSE /\ own' = own \cup {[page |-> s, index |-> i, bytes |-> bytes]}
       /\ index' = [index EXCEPT ![s] = chunks[i]]
       /\ chunk' = [chunk EXCEPT ![s] = [chunks EXCEPT ![i] = InUse]]
       /\ count' = [count EXCEPT ![s] = cnt - 1]
       /\ q' = IF cnt = 1 THEN set_slab_full(Q, c, s) ELSE Q
       /\ last_accessed' = c
       /\ UNCHANGED halted

(* slab_new, on the page alloc_pages(1) returns, and the first chunk of it *)
PopNew(c, s, bytes) ==
  /\ free' = free \ {s}
  /\ type' = [type EXCEPT ![s] = "slab"]
  /\ cache' = [cache EXCEPT ![s] = c]
  /\ Pop(c, s, 0, capacity(c), fill_slab(c), set_slab_available(q, c, s), bytes)

slab_alloc(bytes) ==
  LET c == find_kmcache(bytes)
      s == q.avail[c]
  IN IF c = NULL THEN Halt
     ELSE IF s # NULL
     THEN /\ Pop(c, s, index[s], count[s], chunk[s], q, bytes)
          /\ UNCHANGED <<free, type, cache>>
     ELSE IF free # {}
     THEN PopNew(c, CHOOSE p \in free : \A r \in free : p <= r, bytes)
     ELSE /\ last_accessed' = c
          /\ UNCHANGED <<free, type, cache, index, count, chunk, q, own, halted>>

(* kmalloc_large: any run alloc_cont_pages may return *)
kmalloc_large(bytes) ==
  \E p \in Page :
    LET run == p..(p + (bytes + PGSIZE - 1) \div PGSIZE - 1) IN
    /\ run \subseteq free
    /\ free' = free \ run
    /\ type' = [r \in Page |-> IF r = p THEN "generic"
                               ELSE IF r \in run THEN "tail" ELSE type[r]]
    /\ own' = own \cup {[page |-> p, index |-> NULL, bytes |-> bytes]}
    /\ UNCHANGED <<cache, index, count, chunk, q, last_accessed, halted>>

kmalloc(n) ==
  LET bytes == ROUNDUP(n, 8) IN
  /\ ~halted /\ Cardinality(own) < MaxOwn
  /\ IF bytes > LARGE_CHUNK THEN kmalloc_large(bytes) ELSE slab_alloc(bytes)

-----------------------------------------------------------------------------
(* Chunk i of slab s becomes the first of the free chain *)
Push(s, i) ==
  /\ chunk' = [chunk EXCEPT ![s][i] = index[s]]
  /\ index' = [index EXCEPT ![s] = i]

(* slab_free: the index is put on the slab's chain; a full slab becomes    *)
(* available; an empty one gives its page back at once.                    *)
slab_free(o) ==
  LET s == o.page
      c == cache[s]
      q1 == IF count[s] = 0 THEN set_slab_available(q, c, s) ELSE q
  IN /\ own' = own \ {o}
     /\ UNCHANGED <<type, last_accessed>>
     /\ IF count[s] + 1 < capacity(c)
        THEN /\ Push(s, o.index)
             /\ count' = [count EXCEPT ![s] = @ + 1]
             /\ q' = q1
             /\ UNCHANGED <<free, cache, halted>>
        ELSE (* slab_delete: nothing reads the slab fields of a freed page *)
             /\ halted' = (q1.full[c] = s)
             /\ q' = set_slab_empty(q1, c, s)
             /\ free' = free \cup {s}
             /\ cache' = [cache EXCEPT ![s] = NULL]
             /\ index' = [index EXCEPT ![s] = 0]
             /\ count' = [count EXCEPT ![s] = 0]
             /\ chunk' = [chunk EXCEPT ![s] = << >>]

(* Mutant: only the first page is given back *)
kfree_large_one(o) ==
  /\ own' = own \ {o}
  /\ free' = free \cup {o.page}
  /\ UNCHANGED <<type, cache, index, count, chunk, q, last_accessed, halted>>

(* free_all_pages of a large chunk *)
kfree_large(o) ==
  /\ own' = own \ {o}
  /\ free' = free \cup o.page..(o.page + (o.bytes + PGSIZE - 1) \div PGSIZE - 1)
  /\ UNCHANGED <<type, cache, index, count, chunk, q, last_accessed, halted>>

kfree(o) ==
  /\ ~halted
  /\ IF type[o.page] = "slab" THEN slab_free(o) ELSE kfree_large(o)

SlabNext == (\E n \in Requests : kmalloc(n)) \/ (\E o \in own : kfree(o))

SlabSpec == SlabInit /\ [][SlabNext]_slabVars

-----------------------------------------------------------------------------
Slabs == {s \in Page : cache[s] # NULL}
Chunks(s) == 0..(capacity(cache[s]) - 1)
Small == {o \in own : o.bytes <= LARGE_CHUNK}
Held(s) == {o.index : o \in {x \in Small : x.page = s}}
LargeRun(o) == o.page..(o.page + (o.bytes + PGSIZE - 1) \div PGSIZE - 1)

(* The first n entries of the free chain of slab s *)
Chain(s, n) ==
  LET f[k \in 1..n] == IF k = 1 THEN index[s]
                       ELSE IF f[k - 1] \in Chunks(s) THEN chunk[s][f[k - 1]]
                       ELSE INDEX_INVALID
  IN f

(* The slabs of the ring that starts at head *)
Ring(head) ==
  LET f[k \in 0..NPages] == IF k = 0 THEN head ELSE q.n[f[k - 1]]
  IN IF head = NULL THEN {} ELSE {f[k] : k \in 0..NPages}

(* The free chain of a slab runs through exactly the chunks no caller      *)
(* holds, each once, and ends; count is its length.  So slab_alloc never   *)
(* hands out a chunk twice, whatever the order of the frees.               *)
ChainExact ==
  \A s \in Slabs :
    LET f == Chain(s, count[s] + 1)
    IN /\ {f[k] : k \in 1..count[s]} = Chunks(s) \ Held(s)
       /\ count[s] = Cardinality(Chunks(s) \ Held(s))
       /\ f[count[s] + 1] = INDEX_INVALID

(* The avail queue of a cache holds its slabs with a free chunk, the full  *)
(* queue those without, and no slab is left with all chunks free.          *)
QueuesExact ==
  /\ \A c \in Cache :
       /\ Ring(q.avail[c]) = {s \in Slabs : cache[s] = c /\ count[s] > 0}
       /\ Ring(q.full[c]) = {s \in Slabs : cache[s] = c /\ count[s] = 0}
  /\ \A s \in Slabs : count[s] < capacity(cache[s])
  /\ \A p \in Page : q.v[q.n[p]] = p

(* What a caller holds is large enough for its request, lies in pages      *)
(* nobody else has, and kfree will recognise by the page type which        *)
(* allocator it came from, also on pages that had another use before.      *)
OwnedExact ==
  /\ \A o \in Small : /\ o.page \in Slabs /\ o.index \in Chunks(o.page)
                       /\ size[cache[o.page]] >= o.bytes
                       /\ type[o.page] = "slab"
  /\ \A o \in own \ Small : /\ LargeRun(o) \cap (free \cup Slabs) = {}
                             /\ type[o.page] # "slab"
  /\ \A o, x \in own : o # x => IF {o, x} \subseteq Small
                                THEN o.page # x.page \/ o.index # x.index
                                ELSE o.page # x.page
  /\ Slabs \cap free = {}

(* No page leaks: a page is free, a slab with a chunk in use, or part of a *)
(* large chunk; when callers have freed everything, all pages are free.    *)
NoLeak == Page = free \cup {s \in Slabs : Held(s) # {}}
                  \cup UNION {LargeRun(o) : o \in own \ Small}

(* No assert or panic of the slab allocator is reached. *)
NoHalt == ~halted
=============================================================================
