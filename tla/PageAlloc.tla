------------------------------ MODULE PageAlloc ------------------------------
(***************************************************************************)
(* The physical page allocator: kern/mm/pgalloc.c, with the page structure *)
(* and its macros (include/mm/mmap.h), the linked lists                    *)
(* (include/ds/list.h) and the boot-time list (kern/mm/init.c).            *)
(*                                                                         *)
(* A page is its index in page_array, so pointer comparison and p + 1 are  *)
(* integer comparison and addition.  End is the sentinel of the free list  *)
(* (end_free_page()) and also stands for NULL in a local variable.  All    *)
(* lists are rings through nxt and prv; an allocated list has no sentinel. *)
(* The sentinel is also given the fields of a page (the memory next to     *)
(* free_page_set, were it used as one); no property depends on them.       *)
(*                                                                         *)
(* Each function runs with interrupts off on the one running CPU, so only  *)
(* one call is in progress: pc is the loop it is in.  Each iteration of a  *)
(* loop is a step.  A failed assert or a panic sets pc to                  *)
(* "panic"; "wild" is a call about to use the sentinel as a page.          *)
(***************************************************************************)
EXTENDS Integers, FiniteSets, DList

CONSTANTS NPages,     \* pages in page_array
          NOccupied,  \* its first pages, which hold page_array itself
          SizeMax,    \* the largest size_t, where --i on 0 wraps to
          Typed       \* bound: the pages whose owner may change their type

ASSUME PageAssumption ==
  /\ NPages \in Nat /\ NOccupied \in Nat /\ SizeMax \in Nat
  /\ 1 <= NOccupied /\ NOccupied < NPages /\ NPages + 2 < SizeMax
  /\ Typed \subseteq 1..NPages

End == 0
Page == 1..NPages
Node == 0..NPages
PgType == {"tail", "generic", "slab", "pgstruct"}

VARIABLES nxt, prv,   \* list_node of every page and of the sentinel
          reserved,   \* the pages whose PAGE_RESERVED bit is set
          type, first_page_of, page_count_of,
          nr_free_pages,
          pc,
          num, i, p, np, first,             \* locals; first is also pfirst
          base, last, head_len, total, seg, \* of free_pages; seg: the section
                                            \* update_page_list works on
          freep                             \* of free_all_pages

meta == <<type, first_page_of, page_count_of>>
heap == <<nxt, prv, reserved, nr_free_pages, meta>>
section == <<base, last, head_len, total, seg>>
locals == <<num, i, p, np, first, section, freep>>
vars == <<heap, pc, locals>>

-----------------------------------------------------------------------------
(* Page macros *)

is_tail(q) == type[q] = "tail"
first_page(q) == IF is_tail(q) THEN first_page_of[q] ELSE q

(* Mutants: the count is read from the page given; the list is read from its end *)
page_count_own(q) == page_count_of[q]
last_free_page == prv[End]

page_count(q) == page_count_of[first_page(q)]
first_free_page == nxt[End]

-----------------------------------------------------------------------------
NoLocals ==
  /\ num = 0 /\ i = 0 /\ p = End /\ np = End /\ first = End
  /\ base = End /\ last = End /\ head_len = 0 /\ total = 0 /\ seg = 1
  /\ freep = End

Call(where) == pc = "idle" /\ pc' = where /\ UNCHANGED heap
Return ==
  /\ pc' = "idle"
  /\ num' = 0 /\ i' = 0 /\ p' = End /\ np' = End /\ first' = End
  /\ base' = End /\ last' = End /\ head_len' = 0 /\ total' = 0 /\ seg' = 1
  /\ freep' = End
Stop(how) == pc' = how /\ UNCHANGED <<heap, locals>>

(* init_page_array, init_free_page_list *)
Init ==
  /\ nxt = [q \in Node |-> IF q = End THEN NOccupied + 1
                           ELSE IF q <= NOccupied THEN q
                           ELSE IF q = NPages THEN End ELSE q + 1]
  /\ prv = [q \in Node |-> IF q = End THEN NPages
                           ELSE IF q <= NOccupied THEN q
                           ELSE IF q = NOccupied + 1 THEN End ELSE q - 1]
  /\ reserved = 1..NOccupied
  /\ type = [q \in Node |-> IF q \in 1..NOccupied THEN "pgstruct" ELSE "generic"]
  /\ first_page_of = [q \in Node |-> End]
  /\ page_count_of = [q \in Node |-> 0]
  /\ nr_free_pages = NPages - NOccupied
  /\ pc = "idle" /\ NoLocals

-----------------------------------------------------------------------------
(* alloc_pages.  A call that finds nr_free_pages < num returns NULL and    *)
(* changes nothing, so it is no step.                                      *)
alloc_pages(n) ==
  /\ Call("take") /\ nr_free_pages >= n
  /\ num' = n /\ i' = n /\ p' = first_free_page
  /\ UNCHANGED <<np, first, section, freep>>

Take ==
  /\ pc = "take"
  /\ IF i = 0
     THEN /\ type' = [type EXCEPT ![first] = "generic"]
          /\ page_count_of' = [page_count_of EXCEPT ![first] = num]
          /\ Return
          /\ UNCHANGED <<nxt, prv, reserved, first_page_of, nr_free_pages>>
     ELSE IF p = End THEN Stop("wild")
     ELSE IF p \in reserved THEN Stop("panic")
     ELSE /\ reserved' = reserved \cup {p}
          /\ IF first = End
             THEN /\ nxt' = DelNext(nxt, prv, p) /\ prv' = DelPrev(nxt, prv, p)
                  /\ first' = p
                  /\ UNCHANGED <<type, first_page_of>>
             ELSE /\ nxt' = MoveNext(nxt, prv, first, p)
                  /\ prv' = MovePrev(nxt, prv, first, p)
                  /\ type' = [type EXCEPT ![p] = "tail"]
                  /\ first_page_of' = [first_page_of EXCEPT ![p] = first]
                  /\ UNCHANGED first
          /\ i' = i - 1 /\ nr_free_pages' = nr_free_pages - 1
          /\ p' = nxt[p]
          /\ UNCHANGED <<page_count_of, pc, num, np, section, freep>>

-----------------------------------------------------------------------------
(* alloc_cont_pages *)
alloc_cont_pages(n) ==
  /\ Call("scan") /\ nr_free_pages >= n
  /\ num' = n /\ i' = n /\ np' = first_free_page
  /\ UNCHANGED <<p, first, section, freep>>

Adjacent(a, b) == a # End /\ a + 1 = b

(* The search loop, whose condition is (i > 0) || (np == end_free_page()). *)
(* It is left only with i = 0, so the "return NULL" after it is dead.      *)
Scan ==
  /\ pc = "scan"
  /\ IF i > 0 \/ np = End
     THEN /\ p' = np /\ np' = nxt[np]
          /\ i' = IF i > 1 /\ ~Adjacent(np, nxt[np]) /\ nxt[np] # End
                  THEN num
                  ELSE (i - 1) % (SizeMax + 1)
          /\ UNCHANGED <<heap, pc, num, first, section, freep>>
     ELSE IF p = End THEN Stop("wild")
     ELSE Stop("takecont")

(* Reserve the run, from its last page down *)
TakeCont ==
  /\ pc = "takecont"
  /\ UNCHANGED <<meta, num, np, section, freep>>
  /\ IF i = num
     THEN /\ pc' = "marktail" /\ p' = nxt[first] /\ i' = 1
          /\ UNCHANGED <<nxt, prv, reserved, nr_free_pages, first>>
     ELSE IF p = End THEN Stop("wild")
     ELSE /\ reserved' = reserved \cup {p}
          /\ nxt' = IF first = End THEN DelNext(nxt, prv, p)
                                   ELSE MoveNext(nxt, prv, first, p)
          /\ prv' = IF first = End THEN DelPrev(nxt, prv, p)
                                   ELSE MovePrev(nxt, prv, first, p)
          /\ first' = p /\ p' = p - 1 /\ i' = i + 1
          /\ nr_free_pages' = nr_free_pages - 1
          /\ UNCHANGED pc

MarkTail ==
  /\ pc = "marktail"
  /\ UNCHANGED <<nxt, prv, reserved, nr_free_pages>>
  /\ IF i < num
     THEN /\ type' = [type EXCEPT ![p] = "tail"]
          /\ first_page_of' = [first_page_of EXCEPT ![p] = first]
          /\ i' = i + 1 /\ p' = nxt[p]
          /\ UNCHANGED <<page_count_of, pc, num, np, first, section, freep>>
     ELSE IF p # first THEN Stop("panic")
     ELSE /\ type' = [type EXCEPT ![first] = "generic"]
          /\ page_count_of' = [page_count_of EXCEPT ![first] = num]
          /\ Return
          /\ UNCHANGED first_page_of

-----------------------------------------------------------------------------
(* The owner of a new block gives it its type (slab_new in kern/mm/slab.c, *)
(* pgdir_new in arch/mips/mm/hier/pgdir.c).                                *)
Owned == {q \in reserved : q > NOccupied}
IsFirst(q) == q \in Owned /\ ~is_tail(q)

SetType(f) ==
  /\ pc = "idle" /\ IsFirst(f) /\ page_count_of[f] = 1
  /\ type' = [type EXCEPT ![f] = "slab"]
  /\ UNCHANGED <<nxt, prv, reserved, first_page_of, page_count_of,
                 nr_free_pages, pc, locals>>

-----------------------------------------------------------------------------
(* free_pages: a caller frees n pages of a list it owns, from page b on *)
Owns(b, n) ==
  /\ b \in Owned
  /\ n <= Cardinality({q \in Owned : first_page(q) = first_page(b) /\ q >= b})

free_pages(b, n) ==
  /\ Call("head") /\ Owns(b, n)
  /\ base' = b /\ num' = n /\ total' = page_count(b)
  /\ first' = first_page(b) /\ p' = first_page(b)
  /\ UNCHANGED <<i, np, last, head_len, seg, freep>>

(* The length of the head list *)
HeadWalk ==
  /\ pc = "head"
  /\ UNCHANGED <<heap, num, i, np, first, base, total, seg, freep>>
  /\ IF p = base
     THEN pc' = "last" /\ last' = base /\ UNCHANGED <<p, head_len>>
     ELSE IF p \notin reserved THEN pc' = "panic" /\ UNCHANGED <<p, last, head_len>>
     ELSE head_len' = head_len + 1 /\ p' = nxt[p] /\ UNCHANGED <<pc, last>>

(* The page after the freed section, and the types of the three first pages *)
LastWalk ==
  /\ pc = "last"
  /\ UNCHANGED <<nxt, prv, reserved, first_page_of, page_count_of, nr_free_pages,
                 num, np, first, base, head_len, total, seg, freep>>
  /\ IF i = num
     THEN /\ type' = [type EXCEPT ![base] = type[first], ![last] = type[first]]
          /\ p' = first
          /\ pc' = "update"
          /\ UNCHANGED <<i, last>>
     ELSE IF ~((last # first \/ last = base) /\ last \in reserved)
     THEN pc' = "panic" /\ UNCHANGED <<type, i, p, last>>
     ELSE /\ i' = i + 1 /\ last' = nxt[last]
          /\ UNCHANGED <<type, pc, p>>

(* Mutants: the freed section taken for consecutive pages; lists taken for *)
(* NULL-terminated; the tail's length without regard to the head.          *)
FromIndex(s) == IF s = 1 THEN first ELSE IF s = 2 THEN base ELSE base + num
ToNull(s) == IF s = 1 THEN base ELSE IF s = 2 THEN last ELSE End
CountNoHead(s) == IF s = 1 THEN head_len ELSE IF s = 2 THEN num ELSE total - num

(* update_page_list on the head, the freed and the tail section *)
From(s) == IF s = 1 THEN first ELSE IF s = 2 THEN base ELSE last
To(s) == IF s = 1 THEN base ELSE IF s = 2 THEN last ELSE first
Count(s) == IF s = 1 THEN head_len
            ELSE IF s = 2 THEN num
            ELSE total - head_len - num

UpdateList ==
  /\ pc = "update"
  /\ UNCHANGED <<nxt, prv, reserved, type, nr_free_pages,
                 num, i, np, first, base, last, head_len, total, freep>>
  /\ IF p # To(seg)
     THEN /\ IF is_tail(p)
             THEN /\ first_page_of' = [first_page_of EXCEPT ![p] = From(seg)]
                  /\ UNCHANGED page_count_of
             ELSE /\ page_count_of' = [page_count_of EXCEPT ![p] = Count(seg)]
                  /\ UNCHANGED first_page_of
          /\ p' = nxt[p]
          /\ UNCHANGED <<pc, seg>>
     ELSE /\ IF seg < 3
             THEN seg' = seg + 1 /\ p' = From(seg + 1) /\ UNCHANGED pc
             ELSE pc' = "split" /\ UNCHANGED <<p, seg>>
          /\ UNCHANGED <<first_page_of, page_count_of>>

(* The two page_splits, then the call of free_all_pages(base).  The        *)
(* callee's locals start afresh; what free_pages still needs is last, the  *)
(* page it returns, which no caller in the kernel uses.                    *)
Split ==
  /\ pc = "split"
  /\ LET n1 == IF last # first THEN SplitNext(nxt, prv, first, last) ELSE nxt
         v1 == IF last # first THEN SplitPrev(nxt, prv, first, last) ELSE prv
     IN /\ nxt' = IF base # first THEN SplitNext(n1, v1, first, base) ELSE n1
        /\ prv' = IF base # first THEN SplitPrev(n1, v1, first, base) ELSE v1
  /\ pc' = "enter"
  /\ first' = End /\ last' = End /\ head_len' = 0 /\ total' = 0 /\ seg' = 1
  /\ num' = 0 /\ i' = 0 /\ p' = End
  /\ UNCHANGED <<reserved, nr_free_pages, meta, np, base, freep>>

(* free_all_pages *)
free_all_pages(fp) ==
  /\ Call("enter") /\ fp \in Owned
  /\ base' = fp
  /\ UNCHANGED <<num, i, p, np, first, last, head_len, total, seg, freep>>

FreeEnter ==
  /\ pc = "enter" /\ pc' = "free"
  /\ num' = page_count(base) /\ p' = first_page(base) /\ freep' = first_free_page
  /\ UNCHANGED <<heap, i, np, first, section>>

FreeDelete ==
  /\ pc = "free"
  /\ UNCHANGED <<reserved, nr_free_pages, meta>>
  /\ IF i = num
     THEN Return /\ UNCHANGED <<nxt, prv>>
     ELSE /\ nxt' = DelNext(nxt, prv, p) /\ prv' = DelPrev(nxt, prv, p)
          /\ np' = nxt[p]
          /\ pc' = "seek"
          /\ UNCHANGED <<num, i, p, first, section, freep>>

(* Find the place in the free list and put the page there *)
FreeInsert ==
  /\ pc = "seek"
  /\ UNCHANGED <<meta, num, np, first, section>>
  /\ IF freep # End /\ freep < p
     THEN /\ freep' = nxt[freep]
          /\ UNCHANGED <<nxt, prv, reserved, nr_free_pages, pc, i, p>>
     ELSE IF freep = p \/ p \notin reserved THEN Stop("panic")
     ELSE /\ reserved' = reserved \ {p}
          /\ nxt' = AddNext(nxt, prv, freep, p)
          /\ prv' = AddPrev(nxt, prv, freep, p)
          /\ nr_free_pages' = nr_free_pages + 1
          /\ p' = np /\ i' = i + 1
          /\ pc' = "free"
          /\ UNCHANGED freep

-----------------------------------------------------------------------------
AllocStep == Take \/ Scan \/ TakeCont \/ MarkTail
FreeStep == HeadWalk \/ LastWalk \/ UpdateList \/ Split
              \/ FreeEnter \/ FreeDelete \/ FreeInsert

Request ==
  \/ \E n \in Page : alloc_pages(n)
  \/ \E n \in Page : alloc_cont_pages(n)
  \/ \E f \in Typed : SetType(f)
  \/ \E b, n \in Page : free_pages(b, n)
  \/ \E fp \in Page : free_all_pages(fp)

Next == Request \/ AllocStep \/ FreeStep

Spec == Init /\ [][Next]_vars /\ WF_vars(AllocStep \/ FreeStep)

-----------------------------------------------------------------------------
(* What the lists mean *)

Free == Page \ reserved
Block(f) == {q \in Owned : first_page(q) = f}

Least(S, q) == q \in S /\ \A r \in S : q <= r

(* r follows q in the ring that holds S in ascending order *)
RingNext(S, q, r) ==
  \/ q < r /\ r \in S /\ ~\E s \in S : q < s /\ s < r
  \/ ~(\E s \in S : q < s) /\ Least(S, r)

(* The types of the state: every pointer is a page or the sentinel. *)
TypeOK ==
  /\ nxt \in [Node -> Node] /\ prv \in [Node -> Node]
  /\ reserved \subseteq Page
  /\ type \in [Node -> PgType]
  /\ first_page_of \in [Node -> Node]
  /\ page_count_of \in [Node -> Int]
  /\ nr_free_pages \in Int
  /\ pc \in {"idle", "take", "scan", "takecont", "marktail", "head", "last",
             "update", "split", "enter", "free", "seek", "panic", "wild"}
  /\ num \in Int /\ i \in Int /\ head_len \in Int /\ total \in Int /\ seg \in 1..3
  /\ p \in Node /\ np \in Node /\ first \in Node
  /\ base \in Node /\ last \in Node /\ freep \in Node

(* Every node is the prev of its next and the next of its prev, between    *)
(* any two loop iterations: list_del_init, list_add_before and list_split  *)
(* are only ever used where they keep all rings closed.                    *)
Linked == \A n \in Node : nxt[prv[n]] = n /\ prv[nxt[n]] = n

(* The free list holds exactly the pages whose PAGE_RESERVED bit is clear, *)
(* in ascending order, and nr_free_pages counts them: free_all_pages' one  *)
(* pass with a freep that never goes back puts every page in its place.    *)
FreeListExact ==
  /\ nr_free_pages = Cardinality(Free)
  /\ \A q \in Free \cup {End} :
       IF \E s \in Free : q < s THEN RingNext(Free, q, nxt[q]) ELSE nxt[q] = End

(* Between calls every owned page belongs to the list of one first page,   *)
(* found through first_page_of; the list is an ascending ring, its first   *)
(* page is its least and has the list's length: alloc_pages builds this    *)
(* and free_pages' splits keep it for the head, the tail and all others.   *)
BlocksExact ==
  pc = "idle" =>
    \A q \in Owned :
      LET f == first_page(q) IN
        /\ IsFirst(f)
        /\ Least(Block(f), f)
        /\ RingNext(Block(f), q, nxt[q])
        /\ page_count_of[f] = Cardinality(Block(f))

(* No assert of the allocator fails and no panic is reached; only          *)
(* alloc_cont_pages' search can run into the sentinel.                     *)
NoPanic == [][pc' # "panic" /\ (pc' = "wild" => pc = "scan")]_vars

(* A call of alloc_pages, free_pages or free_all_pages returns, and so     *)
(* does alloc_cont_pages once it has found a run.                          *)
CallsReturn == pc \notin {"idle", "scan", "wild"} ~> pc = "idle"

(* alloc_cont_pages returns, with a run or with the NULL of its line 111.  *)
ContReturns == pc = "scan" ~> pc = "idle"

=============================================================================
