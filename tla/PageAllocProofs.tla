--------------------------- MODULE PageAllocProofs ---------------------------
(***************************************************************************)
(* Proofs about the page allocator, for any number of pages; the last part *)
(* shows that PageAlloc implements PageSets: every call, run loop by loop  *)
(* on page structures and rings, changes the set of free pages and the set *)
(* of blocks as PageSets says, when it returns.                            *)
(***************************************************************************)
EXTENDS PageAllocImpl, FiniteSetTheorems, TLAPS

-----------------------------------------------------------------------------
(* The list operations keep pointers inside the nodes, and keep rings closed. *)

Pointers(n, v, S) == n \in [S -> S] /\ v \in [S -> S]
Closed(n, v, S) == \A x \in S : n[v[x]] = x /\ v[n[x]] = x

(* list_del_init keeps every ring closed and leaves x a ring of its own. *)
LEMMA DelClosed ==
  ASSUME NEW S, NEW n, NEW v, Pointers(n, v, S), Closed(n, v, S), NEW x \in S
  PROVE  /\ Pointers(DelNext(n, v, x), DelPrev(n, v, x), S)
         /\ Closed(DelNext(n, v, x), DelPrev(n, v, x), S)
         /\ DelNext(n, v, x)[x] = x /\ DelPrev(n, v, x)[x] = x
  BY DEF Pointers, Closed, DelNext, DelPrev

(* list_add_before keeps every ring closed if x was a ring of its own. *)
LEMMA AddClosed ==
  ASSUME NEW S, NEW n, NEW v, Pointers(n, v, S), Closed(n, v, S),
         NEW x \in S, NEW at \in S, at # x, n[x] = x, v[x] = x
  PROVE  /\ Pointers(AddNext(n, v, at, x), AddPrev(n, v, at, x), S)
         /\ Closed(AddNext(n, v, at, x), AddPrev(n, v, at, x), S)
  BY DEF Pointers, Closed, AddNext, AddPrev

(* Moving a node before another one keeps every ring closed. *)
LEMMA MoveClosed ==
  ASSUME NEW S, NEW n, NEW v, Pointers(n, v, S), Closed(n, v, S),
         NEW x \in S, NEW at \in S, at # x
  PROVE  /\ Pointers(MoveNext(n, v, at, x), MovePrev(n, v, at, x), S)
         /\ Closed(MoveNext(n, v, at, x), MovePrev(n, v, at, x), S)
  BY DelClosed, AddClosed DEF MoveNext, MovePrev

(* list_split cuts one ring into two closed ones. *)
LEMMA SplitClosed ==
  ASSUME NEW S, NEW n, NEW v, Pointers(n, v, S), Closed(n, v, S),
         NEW f \in S, NEW at \in S, f # at
  PROVE  /\ Pointers(SplitNext(n, v, f, at), SplitPrev(n, v, f, at), S)
         /\ Closed(SplitNext(n, v, f, at), SplitPrev(n, v, f, at), S)
  BY DEF Pointers, Closed, SplitNext, SplitPrev

-----------------------------------------------------------------------------
(* Types *)

(* The list operations used by a step give pointers again. *)
LEMMA ListTypes ==
  ASSUME NEW n \in [Node -> Node], NEW v \in [Node -> Node],
         NEW x \in Node, NEW at \in Node
  PROVE  /\ DelNext(n, v, x) \in [Node -> Node] /\ DelPrev(n, v, x) \in [Node -> Node]
         /\ AddNext(n, v, at, x) \in [Node -> Node] /\ AddPrev(n, v, at, x) \in [Node -> Node]
         /\ MoveNext(n, v, at, x) \in [Node -> Node] /\ MovePrev(n, v, at, x) \in [Node -> Node]
         /\ SplitNext(n, v, at, x) \in [Node -> Node] /\ SplitPrev(n, v, at, x) \in [Node -> Node]
  BY DEF DelNext, DelPrev, AddNext, AddPrev, MoveNext, MovePrev, SplitNext, SplitPrev

(* The page array and the free list are built with pointers to nodes. *)
LEMMA InitType == Init => TypeOK
  BY PageAssumption DEF Init, TypeOK, NoLocals, End, Page, Node, PgType

(* Every step keeps the types. *)
LEMMA TypeStep == TypeOK /\ [Next]_vars => TypeOK'
<1> SUFFICES ASSUME TypeOK, [Next]_vars PROVE TypeOK'
  OBVIOUS
<1> USE PageAssumption
<1>1. End \in Node /\ Page \subseteq Node /\ Node \subseteq Page \cup {End}
  BY DEF End, Page, Node
<1>2. ASSUME NEW n \in Page, alloc_pages(n) \/ alloc_cont_pages(n) PROVE TypeOK'
  <2>1. n \in Int
    BY DEF Page
  <2>2. QED
    BY <1>1, <1>2, <2>1 DEF alloc_pages, alloc_cont_pages, Call, heap, meta, section, TypeOK,
     first_free_page
<1>3. ASSUME NEW f \in Typed, SetType(f) PROVE TypeOK'
  BY <1>3 DEF SetType, TypeOK, PgType, locals, section
<1>4. ASSUME NEW b \in Page, NEW n \in Page, free_pages(b, n) PROVE TypeOK'
  <2>1. n \in Int
    BY DEF Page
  <2>2. QED
    BY <1>1, <1>4, <2>1 DEF free_pages, Call, heap, meta, TypeOK, first_page, is_tail,
     page_count
<1>5. ASSUME NEW fp \in Page, free_all_pages(fp) PROVE TypeOK'
  BY <1>1, <1>5 DEF free_all_pages, Call, heap, meta, TypeOK
<1>6. CASE Take
  <2>1. /\ DelNext(nxt, prv, p) \in [Node -> Node] /\ DelPrev(nxt, prv, p) \in [Node -> Node]
        /\ MoveNext(nxt, prv, first, p) \in [Node -> Node]
        /\ MovePrev(nxt, prv, first, p) \in [Node -> Node]
    BY ListTypes DEF TypeOK
  <2>2. QED
    BY <1>1, <1>6, <2>1 DEF Take, Stop, Return, heap, meta, locals, section, TypeOK,
     PgType
<1>7. CASE Scan
  BY <1>1, <1>7 DEF Scan, Stop, heap, meta, locals, section, TypeOK
<1>8. CASE TakeCont
  <2>1. p # End => p - 1 \in Node
    BY DEF TypeOK, End, Node
  <2>2. /\ DelNext(nxt, prv, p) \in [Node -> Node] /\ DelPrev(nxt, prv, p) \in [Node -> Node]
        /\ MoveNext(nxt, prv, first, p) \in [Node -> Node]
        /\ MovePrev(nxt, prv, first, p) \in [Node -> Node]
    BY ListTypes DEF TypeOK
  <2>3. QED
    BY <1>1, <1>8, <2>1, <2>2 DEF TakeCont, Stop, heap, meta, locals, section, TypeOK
<1>9. CASE MarkTail
  BY <1>1, <1>9 DEF MarkTail, Stop, Return, heap, meta, locals, section, TypeOK, PgType
<1>10. CASE HeadWalk
  BY <1>1, <1>10 DEF HeadWalk, heap, meta, TypeOK
<1>11. CASE LastWalk
  BY <1>1, <1>11 DEF LastWalk, TypeOK
<1>12. CASE UpdateList
  BY <1>1, <1>12 DEF UpdateList, From, To, Count, TypeOK
<1>13. CASE Split
  <2> DEFINE n1 == IF last # first THEN SplitNext(nxt, prv, first, last) ELSE nxt
             v1 == IF last # first THEN SplitPrev(nxt, prv, first, last) ELSE prv
  <2>1. n1 \in [Node -> Node] /\ v1 \in [Node -> Node]
    BY ListTypes DEF TypeOK
  <2>2. SplitNext(n1, v1, first, base) \in [Node -> Node] /\
        SplitPrev(n1, v1, first, base) \in [Node -> Node]
    BY <2>1, ListTypes DEF TypeOK
  <2>3. nxt' \in [Node -> Node] /\ prv' \in [Node -> Node]
    BY <1>13, <2>1, <2>2 DEF Split
  <2>4. QED
    BY <1>1, <1>13, <2>3 DEF Split, meta, TypeOK
<1>14. CASE FreeEnter
  BY <1>1, <1>14 DEF FreeEnter, heap, meta, section, TypeOK, first_free_page, first_page,
     page_count, is_tail
<1>15. CASE FreeDelete
  <2>1. DelNext(nxt, prv, p) \in [Node -> Node] /\ DelPrev(nxt, prv, p) \in [Node -> Node]
    BY ListTypes DEF TypeOK
  <2>2. QED
    BY <1>1, <1>15, <2>1 DEF FreeDelete, Return, meta, section, TypeOK
<1>16. CASE FreeInsert
  <2>1. /\ AddNext(nxt, prv, freep, p) \in [Node -> Node]
        /\ AddPrev(nxt, prv, freep, p) \in [Node -> Node]
    BY ListTypes DEF TypeOK
  <2>2. QED
    BY <1>1, <1>16, <2>1 DEF FreeInsert, Stop, heap, meta, locals, section, TypeOK
<1>17. CASE UNCHANGED vars
  BY <1>17 DEF vars, heap, meta, locals, section, TypeOK
<1>18. QED
  BY <1>2, <1>3, <1>4, <1>5, <1>6, <1>7, <1>8, <1>9, <1>10, <1>11, <1>12,
     <1>13, <1>14, <1>15, <1>16, <1>17 DEF Next, Request, AllocStep, FreeStep

(* Every pointer of the allocator is always a page or the sentinel. *)
THEOREM TypeCorrect == Spec => []TypeOK
<1>1. QED
  BY InitType, TypeStep, PTL DEF Spec

-----------------------------------------------------------------------------
(* Linked.  list_add_before needs a node that is a ring of its own and     *)
(* another node to put it before; the conjuncts say where the loops that   *)
(* use it get them from.                                                   *)
LinkInv ==
  /\ Linked
  /\ pc \in {"idle", "scan"} => first = End
  /\ pc = "take" /\ first # End => first \in reserved
  /\ pc = "takecont" => first = End \/ p = first - 1
  /\ pc = "seek" => nxt[p] = p /\ prv[p] = p

LEMMA InitLink == Init => LinkInv
  BY PageAssumption DEF Init, NoLocals, LinkInv, Linked, End, Node

LEMMA LinkStep == TypeOK /\ LinkInv /\ [Next]_vars => LinkInv'
<1> SUFFICES ASSUME TypeOK, LinkInv, [Next]_vars PROVE LinkInv'
  OBVIOUS
<1>1. Pointers(nxt, prv, Node) /\ Closed(nxt, prv, Node)
  BY DEF TypeOK, LinkInv, Linked, Pointers, Closed
<1>2. Closed(nxt', prv', Node) <=> Linked'
  BY DEF Linked, Closed
<1>3. ASSUME NEW n \in Page, alloc_pages(n) \/ alloc_cont_pages(n) PROVE LinkInv'
  BY <1>3 DEF alloc_pages, alloc_cont_pages, Call, heap, meta, section, LinkInv, Linked
<1>4. ASSUME NEW f \in Typed, SetType(f) PROVE LinkInv'
  BY <1>4 DEF SetType, locals, section, LinkInv, Linked
<1>5. ASSUME NEW b \in Page, NEW n \in Page, free_pages(b, n) PROVE LinkInv'
  BY <1>5 DEF free_pages, Call, heap, meta, LinkInv, Linked
<1>6. ASSUME NEW fp \in Page, free_all_pages(fp) PROVE LinkInv'
  BY <1>6 DEF free_all_pages, Call, heap, meta, LinkInv, Linked
<1>7. CASE Take
  <2>1. CASE i = 0 \/ p = End \/ p \in reserved
    BY <1>7, <2>1 DEF Take, Return, Stop, heap, meta, locals, section, LinkInv, Linked
  <2>2. CASE ~(i = 0 \/ p = End \/ p \in reserved) /\ first = End
    <3>1. Closed(nxt', prv', Node)
      BY <1>1, <1>7, <2>2, DelClosed DEF Take, TypeOK
    <3>2. QED
      BY <1>2, <1>7, <2>2, <3>1 DEF Take, LinkInv
  <2>3. CASE ~(i = 0 \/ p = End \/ p \in reserved) /\ first # End
    <3>1. first # p
      BY <1>7, <2>3 DEF Take, LinkInv
    <3>2. Closed(nxt', prv', Node)
      BY <1>1, <1>7, <2>3, <3>1, MoveClosed DEF Take, TypeOK
    <3>3. QED
      BY <1>2, <1>7, <2>3, <3>2 DEF Take, LinkInv
  <2>4. QED
    BY <2>1, <2>2, <2>3
<1>8. CASE Scan
  BY <1>8 DEF Scan, Stop, heap, meta, locals, section, LinkInv, Linked
<1>9. CASE TakeCont
  <2>1. CASE i = num \/ p = End
    BY <1>9, <2>1 DEF TakeCont, Stop, heap, meta, locals, section, LinkInv, Linked
  <2>2. CASE ~(i = num \/ p = End)
    <3>1. first = End \/ first # p
      BY <1>9 DEF TakeCont, LinkInv, TypeOK, Node
    <3>2. Closed(nxt', prv', Node)
      <4>1. p \in Node /\ first \in Node
        BY DEF TypeOK
      <4>2. CASE first = End
        <5>1. nxt' = DelNext(nxt, prv, p) /\ prv' = DelPrev(nxt, prv, p)
          BY <1>9, <2>2, <4>2 DEF TakeCont
        <5>2. QED
          BY <1>1, <4>1, <5>1, DelClosed
      <4>3. CASE first # End
        <5>1. nxt' = MoveNext(nxt, prv, first, p) /\ prv' = MovePrev(nxt, prv, first, p)
          BY <1>9, <2>2, <4>3 DEF TakeCont
        <5>2. QED
          BY <1>1, <3>1, <4>1, <4>3, <5>1, MoveClosed
      <4>4. QED
        BY <4>2, <4>3
    <3>3. QED
      BY <1>2, <1>9, <2>2, <3>2 DEF TakeCont, LinkInv
  <2>3. QED
    BY <2>1, <2>2
<1>10. CASE MarkTail
  BY <1>10 DEF MarkTail, Stop, Return, heap, meta, locals, section, LinkInv, Linked
<1>11. CASE HeadWalk
  BY <1>11 DEF HeadWalk, heap, meta, LinkInv, Linked
<1>12. CASE LastWalk
  BY <1>12 DEF LastWalk, LinkInv, Linked
<1>13. CASE UpdateList
  BY <1>13 DEF UpdateList, LinkInv, Linked
<1>14. CASE Split
  <2> DEFINE n1 == IF last # first THEN SplitNext(nxt, prv, first, last) ELSE nxt
             v1 == IF last # first THEN SplitPrev(nxt, prv, first, last) ELSE prv
  <2>1. Pointers(n1, v1, Node) /\ Closed(n1, v1, Node)
    BY <1>1, SplitClosed DEF TypeOK
  <2>2. base # first => Closed(SplitNext(n1, v1, first, base),
                               SplitPrev(n1, v1, first, base), Node)
    BY <2>1, SplitClosed DEF TypeOK
  <2>3. Closed(nxt', prv', Node)
    BY <1>14, <2>1, <2>2 DEF Split
  <2>4. QED
    BY <1>2, <1>14, <2>3 DEF Split, LinkInv
<1>15. CASE FreeEnter
  BY <1>15 DEF FreeEnter, heap, LinkInv, Linked
<1>16. CASE FreeDelete
  <2>1. CASE i = num
    BY <1>16, <2>1 DEF FreeDelete, Return, LinkInv, Linked
  <2>2. CASE i # num
    <3>1. p \in Node /\ nxt' = DelNext(nxt, prv, p) /\ prv' = DelPrev(nxt, prv, p)
      BY <1>16, <2>2 DEF FreeDelete, TypeOK
    <3>2. Closed(nxt', prv', Node)
      BY <1>1, <3>1, DelClosed
    <3>3. nxt'[p] = p /\ prv'[p] = p
      BY <1>1, <3>1 DEF DelNext, DelPrev, Pointers
    <3>4. QED
      BY <1>2, <1>16, <2>2, <3>2, <3>3 DEF FreeDelete, LinkInv
  <2>3. QED
    BY <2>1, <2>2
<1>17. CASE FreeInsert
  <2>1. CASE (freep # End /\ freep < p) \/ freep = p \/ p \notin reserved
    BY <1>17, <2>1 DEF FreeInsert, Stop, heap, locals, section, LinkInv, Linked
  <2>2. CASE ~((freep # End /\ freep < p) \/ freep = p \/ p \notin reserved)
    <3>1. Closed(nxt', prv', Node)
      BY <1>1, <1>17, <2>2, AddClosed DEF FreeInsert, LinkInv, TypeOK
    <3>2. QED
      BY <1>2, <1>17, <2>2, <3>1 DEF FreeInsert, LinkInv
  <2>3. QED
    BY <2>1, <2>2
<1>18. CASE UNCHANGED vars
  BY <1>18 DEF vars, heap, locals, LinkInv, Linked
<1>19. QED
  BY <1>3, <1>4, <1>5, <1>6, <1>7, <1>8, <1>9, <1>10, <1>11, <1>12, <1>13,
     <1>14, <1>15, <1>16, <1>17, <1>18 DEF Next, Request, AllocStep, FreeStep

(* For any number of pages, prev and next are inverse on all nodes between *)
(* any two loop iterations: no list of pages is ever broken or half linked. *)
THEOREM AlwaysLinked == Spec => []Linked
<1>1. Spec => []LinkInv
  BY InitLink, LinkStep, TypeCorrect, PTL DEF Spec
<1>2. LinkInv => Linked
  BY DEF LinkInv
<1>3. QED
  BY <1>1, <1>2, PTL
-----------------------------------------------------------------------------
(* The lists hold what they should.  A list is a ring that holds the pages *)
(* of a set in ascending order: Free with the sentinel, and every block.   *)
(* The operators below take the fields they read as parameters, so that    *)
(* one lemma serves the states before and after a step.                    *)

(* The nodes of S are a ring in ascending order. *)
Ring(n, v, S) == \A q \in S : RingNext(S, q, n[q]) /\ v[q] \in S

(* first_page of q *)
FirstOf(ty, fp, q) == IF ty[q] = "tail" THEN fp[q] ELSE q

(* The page structures say that S is a list with the first page f. *)
Tails(f, S, ty, fp) == \A q \in S \ {f} : ty[q] = "tail" /\ fp[q] = f
Headed(f, S, ty, fp, cn) ==
  /\ Least(S, f) /\ ty[f] # "tail" /\ cn[f] = Cardinality(S)
  /\ Tails(f, S, ty, fp)

(* The pages of R whose first page is f; every page of R is in such a list. *)
Group(R, ty, fp, f) == {q \in R : FirstOf(ty, fp, q) = f}
Settled(R, n, v, ty, fp, cn) ==
  \A q \in R : LET f == FirstOf(ty, fp, q)
                   S == Group(R, ty, fp, f)
               IN f \in R /\ Headed(f, S, ty, fp, cn) /\ Ring(n, v, S)

(* C is the list a call works on; all other pages are on lists in order. *)
Steady(C) ==
  /\ C \subseteq Owned /\ 1..NOccupied \subseteq reserved
  /\ nr_free_pages = Cardinality(Free)
  /\ Ring(nxt, prv, Free \cup {End})
  /\ Settled(Owned \ C, nxt, prv, type, first_page_of, page_count_of)

IdleAt(C) == pc = "idle" => C = {} /\ NoLocals

(* alloc_pages has the lowest num - i pages, and p is the lowest free one. *)
TakeAt(C) == pc = "take" =>
  /\ num > 0 /\ i \in 0..num /\ i <= nr_free_pages /\ p = nxt[End]
  /\ Cardinality(C) = num - i /\ \A q \in C, r \in Free : q < r
  /\ IF first = End THEN C = {}
     ELSE Least(C, first) /\ Ring(nxt, prv, C) /\ Tails(first, C, type, first_page_of)

(* alloc_cont_pages' search: the run that ends in p has num - i pages, or  *)
(* i has wrapped and the next End sets it back before it can reach 0.      *)
Running ==
  /\ i \in 0..num
  /\ p = End => i \in {0, num}
  /\ p # End => p - (num - i) + 1 .. p \subseteq Free
  /\ p # End /\ 0 < i /\ i < num => np \in {p + 1, End}
Wrapped == i + p >= SizeMax /\ i <= SizeMax
ScanAt(C) == pc = "scan" =>
  /\ C = {} /\ first = End /\ num > 0 /\ num <= nr_free_pages
  /\ p \in Free \cup {End} /\ np = nxt[p]
  /\ Running \/ Wrapped

(* The run is taken from its end; the rest of it is free. *)
ContAt(C) == pc = "takecont" =>
  /\ num > 0 /\ i \in 0..num
  /\ p - (num - i) + 1 .. p \subseteq Free
  /\ IF first = End THEN i = 0 /\ C = {}
     ELSE i > 0 /\ first = p + 1 /\ C = first .. first + i - 1 /\ Ring(nxt, prv, C)

MarkAt(C) == pc = "marktail" =>
  /\ i \in 1..num /\ first # End /\ C = first .. first + num - 1
  /\ Ring(nxt, prv, C)
  /\ p = IF i < num THEN first + i ELSE first
  /\ Tails(first, first .. first + i - 1, type, first_page_of)

(* free_pages works on the list C, cut into the pages before base, the     *)
(* pages to free and those from Top on, where the walk has come so far.    *)
Top == IF i > 0 /\ last = first THEN NPages + 1 ELSE last
Before(C) == {q \in C : q < base}
Freed(C) == {q \in C : base <= q /\ q < Top}
After(C) == {q \in C : Top <= q}
Sect(s, C) == IF s = 1 THEN Before(C) ELSE IF s = 2 THEN Freed(C) ELSE After(C)

Cut(C) ==
  /\ base \in C /\ Least(C, first) /\ Ring(nxt, prv, C)
  /\ total = Cardinality(C) /\ num > 0

HeadAt(C) == pc = "head" =>
  /\ Cut(C) /\ Headed(first, C, type, first_page_of, page_count_of)
  /\ num <= Cardinality({q \in C : base <= q}) /\ i = 0 /\ seg = 1
  /\ p \in C /\ p <= base /\ head_len = Cardinality({q \in C : q < p})

LastAt(C) == pc = "last" =>
  /\ Cut(C) /\ Headed(first, C, type, first_page_of, page_count_of)
  /\ num <= Cardinality({q \in C : base <= q}) /\ seg = 1
  /\ head_len = Cardinality(Before(C))
  /\ last \in C /\ base <= Top /\ i \in 0..num /\ i = Cardinality(Freed(C))

(* The three sections when update_page_list has been through those before  *)
(* seg and through the pages of seg before p.                              *)
Sections(C) ==
  /\ Cut(C) /\ i = num /\ last \in C /\ base <= Top
  /\ head_len = Cardinality(Before(C)) /\ num = Cardinality(Freed(C))
  /\ \A q \in C : type[q] # "tail" <=> q \in {first, base, last}
SectDone(s, C) ==
  Sect(s, C) # {} => Headed(From(s), Sect(s, C), type, first_page_of, page_count_of)
UpdateAt(C) == pc = "update" =>
  /\ Sections(C)
  /\ base = first /\ last = first =>
       p = first /\ Headed(first, C, type, first_page_of, page_count_of)
  /\ \A s \in 1..3 : s < seg => SectDone(s, C)
  /\ p \in Sect(seg, C) \cup {To(seg)}
  /\ \A q \in Sect(seg, C) : p = To(seg) \/ q < p =>
       IF q = From(seg) THEN page_count_of[q] = Count(seg) ELSE first_page_of[q] = From(seg)
SplitAt(C) == pc = "split" => Sections(C) /\ \A s \in 1..3 : SectDone(s, C)

(* free_all_pages has C to free, which is a list, or what is left of it. *)
EnterAt(C) == pc = "enter" =>
  /\ base \in C /\ i = 0 /\ Ring(nxt, prv, C)
  /\ Headed(first_page(base), C, type, first_page_of, page_count_of)

(* All free pages that freep has passed are before C. *)
Passed(C) ==
  /\ freep \in Free \cup {End}
  /\ \A r \in Free, q \in C : freep = End \/ r < freep => r < q
FreeAt(C) == pc = "free" =>
  /\ Ring(nxt, prv, C) /\ i = num - Cardinality(C) /\ Passed(C)
  /\ C # {} => Least(C, p)
SeekAt(C) == pc = "seek" =>
  /\ Least(C, p) /\ nxt[p] = p /\ prv[p] = p /\ i = num - Cardinality(C) /\ Passed(C)
  /\ Ring(nxt, prv, C \ {p}) /\ (C # {p} => Least(C \ {p}, np))

Working(C) ==
  /\ IdleAt(C) /\ TakeAt(C) /\ ScanAt(C) /\ ContAt(C) /\ MarkAt(C)
  /\ HeadAt(C) /\ LastAt(C) /\ UpdateAt(C) /\ SplitAt(C)
  /\ EnterAt(C) /\ FreeAt(C) /\ SeekAt(C)

(* The allocator's inductive invariant *)
Good(C) == C \in SUBSET Page /\ Steady(C) /\ Working(C)
ListInv == pc # "panic" /\ \E C \in SUBSET Page : Good(C)

(* The ring of S after list_del_init of one of its nodes; no other moves. *)
LEMMA RingDel ==
  ASSUME NEW n, NEW v, Pointers(n, v, Node), Closed(n, v, Node),
         NEW S \in SUBSET Node, Ring(n, v, S), NEW x \in S
  PROVE  /\ Ring(DelNext(n, v, x), DelPrev(n, v, x), S \ {x})
         /\ \A q \in Node \ S : DelNext(n, v, x)[q] = n[q] /\ DelPrev(n, v, x)[q] = v[q]
<1> DEFINE m == DelNext(n, v, x)
           w == DelPrev(n, v, x)
<1>1. n[x] \in S /\ v[x] \in S /\ n[v[x]] = x /\ v[n[x]] = x
  BY DEF Ring, RingNext, Least, Closed
<1>2. \A q \in Node : /\ m[q] = IF q = x THEN x ELSE IF q = v[x] THEN n[x] ELSE n[q]
                      /\ w[q] = IF q = x THEN x ELSE IF q = n[x] THEN v[x] ELSE v[q]
  BY <1>1 DEF DelNext, DelPrev, Pointers
<1> HIDE DEF m, w
<1>3. ASSUME NEW q \in S \ {x} PROVE w[q] \in S \ {x}
  BY <1>1, <1>2 DEF Ring, Closed
<1>4. ASSUME NEW q \in S \ {x} PROVE RingNext(S \ {x}, q, m[q])
  <2>1. RingNext(S, q, n[q]) /\ RingNext(S, x, n[x]) /\ S \subseteq Int
    BY DEF Ring, Node
  <2>2. CASE q = v[x]
    <3>1. m[q] = n[x] /\ n[q] = x /\ n[x] # x
      BY <1>1, <1>2, <2>2
    <3>2. q \in Int /\ x \in Int /\ n[x] \in Int /\ q \in S /\ q # x
      BY <1>1, <2>1
    <3>3. RingNext(S, q, x) /\ RingNext(S, x, n[x]) /\ n[x] \in S \ {x}
      BY <1>1, <2>1, <3>1
    <3>4. CASE q < x
      <4>1. ~\E s \in S : q < s /\ s < x
        BY <2>1, <3>2, <3>3, <3>4 DEF RingNext
      <4>2. QED
        BY <2>1, <3>1, <3>2, <3>3, <3>4, <4>1 DEF RingNext, Least
    <3>5. CASE x < q
      <4>1. Least(S, x) /\ ~\E s \in S : q < s
        BY <2>1, <3>2, <3>3, <3>5 DEF RingNext
      <4>2. x < n[x] /\ \A s \in S \ {x} : n[x] <= s
        BY <2>1, <3>2, <3>3, <3>5, <4>1 DEF RingNext, Least
      <4>3. QED
        BY <2>1, <3>1, <3>2, <3>3, <4>1, <4>2 DEF RingNext, Least
    <3>6. QED
      BY <3>2, <3>4, <3>5
  <2>3. CASE q # v[x]
    <3>1. m[q] = n[q] /\ n[q] # x
      BY <1>1, <1>2, <2>3 DEF Closed
    <3>2. QED
      BY <2>1, <3>1 DEF RingNext, Least
  <2>4. QED
    BY <2>2, <2>3
<1>5. QED
  BY <1>1, <1>2, <1>3, <1>4 DEF Ring, m, w

(* The ring of S after a page is put before the node that follows it in S. *)
Adds(n, v, m, w, S, x) ==
  /\ Ring(m, w, S \cup {x})
  /\ \A q \in Node \ (S \cup {x}) : m[q] = n[q] /\ w[q] = v[q]
LEMMA RingAdd ==
  ASSUME NEW n, NEW v, Pointers(n, v, Node), Closed(n, v, Node),
         NEW S \in SUBSET Node, Ring(n, v, S), NEW x \in Node \ S, n[x] = x, v[x] = x,
         NEW at \in S, RingNext(S, x, at)
  PROVE  Adds(n, v, AddNext(n, v, at, x), AddPrev(n, v, at, x), S, x)
<1> DEFINE m == AddNext(n, v, at, x)
           w == AddPrev(n, v, at, x)
           T == S \cup {x}
<1>1. v[at] \in S /\ n[v[at]] = at /\ at # x
  BY DEF Ring, Closed
<1>2. \A q \in Node : /\ m[q] = IF q = v[at] THEN x ELSE IF q = x THEN at ELSE n[q]
                      /\ w[q] = IF q = at THEN x ELSE IF q = x THEN v[at] ELSE v[q]
  BY <1>1 DEF AddNext, AddPrev, Pointers
<1> HIDE DEF m, w
<1>3. ASSUME NEW q \in T PROVE w[q] \in T
  BY <1>1, <1>2 DEF Ring
<1>4. ASSUME NEW q \in T PROVE RingNext(T, q, m[q])
  <2>1. S \subseteq Int /\ x \in Int
    BY DEF Node
  <2>2. CASE q = x
    <3>1. m[q] = at
      BY <1>1, <1>2, <2>2
    <3>2. QED
      BY <2>1, <2>2, <3>1 DEF RingNext, Least
  <2>3. CASE q = v[at]
    <3>1. m[q] = x /\ RingNext(S, q, at)
      BY <1>1, <1>2, <2>3 DEF Ring
    <3>2. QED
      BY <1>1, <2>1, <2>3, <3>1 DEF RingNext, Least
  <2>4. CASE q # v[at] /\ q # x
    <3>1. m[q] = n[q] /\ n[q] # at /\ RingNext(S, q, n[q])
      BY <1>2, <2>4 DEF Closed, Ring
    <3>2. q \in S /\ q \in Int /\ n[q] \in S /\ n[q] \in Int /\ at \in Int /\ q # x /\ n[q] # x
      BY <2>1, <2>4, <3>1 DEF RingNext, Least
    <3>3. CASE q < n[q]
      <4>1. ~\E s \in S : q < s /\ s < n[q]
        BY <2>1, <3>1, <3>2, <3>3 DEF RingNext, Least
      <4>2. ~(q < x /\ x < n[q])
        <5>1. CASE x < at /\ ~\E s \in S : x < s /\ s < at
          BY <2>1, <3>1, <3>2, <4>1, <5>1
        <5>2. CASE ~\E s \in S : x < s
          BY <3>2, <5>2
        <5>3. QED
          BY <5>1, <5>2 DEF RingNext
      <4>3. QED
        BY <2>1, <3>1, <3>2, <3>3, <4>1, <4>2 DEF RingNext
    <3>4. CASE n[q] <= q
      <4>1. Least(S, n[q]) /\ ~\E s \in S : q < s
        BY <2>1, <3>1, <3>2, <3>4 DEF RingNext
      <4>2. at <= q /\ n[q] < at
        BY <2>1, <3>1, <3>2, <4>1 DEF Least
      <4>3. ~(q < x)
        BY <2>1, <3>2, <4>1, <4>2 DEF RingNext, Least
      <4>4. ~(x < n[q])
        BY <2>1, <3>2, <4>1, <4>2 DEF RingNext, Least
      <4>5. QED
        BY <2>1, <3>1, <3>2, <4>1, <4>3, <4>4 DEF RingNext, Least
    <3>5. QED
      BY <3>2, <3>3, <3>4
  <2>5. QED
    BY <2>2, <2>3, <2>4
<1>5. QED
  BY <1>1, <1>2, <1>3, <1>4 DEF Ring, Adds, m, w

(* list_split of the ring of S before at. *)
Splits(n, v, m, w, S, at) ==
  /\ Ring(m, w, {q \in S : q < at}) /\ Ring(m, w, {q \in S : at <= q})
  /\ \A q \in Node \ S : m[q] = n[q] /\ w[q] = v[q]
LEMMA RingSplit ==
  ASSUME NEW n, NEW v, Pointers(n, v, Node), Closed(n, v, Node),
         NEW S \in SUBSET Node, Ring(n, v, S), NEW f \in S, Least(S, f), NEW at \in S, at # f
  PROVE  Splits(n, v, SplitNext(n, v, f, at), SplitPrev(n, v, f, at), S, at)
<1> DEFINE m == SplitNext(n, v, f, at)
           w == SplitPrev(n, v, f, at)
           a == v[at]
           z == v[f]
<1>1. a \in S /\ z \in S /\ n[a] = at /\ n[z] = f /\ a # z
  BY DEF Ring, Closed
<1>2. \A q \in Node : /\ m[q] = IF q = a THEN f ELSE IF q = z THEN at ELSE n[q]
                      /\ w[q] = IF q = f THEN a ELSE IF q = at THEN z ELSE v[q]
  BY <1>1 DEF SplitNext, SplitPrev, Pointers
<1>3. (\A s \in S : s \in Int) /\ f < at
  BY DEF Node, Least
<1>31. \A q \in S : Least(S, q) => q = f
  BY <1>3 DEF Least
<1> HIDE DEF m, w, a, z
<1>4. a < at /\ (\A s \in S : s < at => s <= a) /\ (\A s \in S : s <= z)
  BY <1>1, <1>3 DEF Ring, RingNext, Least
<1>5. ASSUME NEW q \in S, q # f, q # at
      PROVE  v[q] \in S /\ v[q] # a /\ v[q] # z /\ w[q] = v[q] /\ v[q] < q
  <2>1. v[q] \in S /\ n[v[q]] = q /\ w[q] = v[q]
    BY <1>2, <1>5 DEF Ring, Closed
  <2>2. RingNext(S, v[q], q) /\ ~Least(S, q)
    BY <1>31, <1>5, <2>1 DEF Ring
  <2>3. QED
    BY <1>1, <1>3, <1>5, <2>1, <2>2 DEF RingNext
<1>6. ASSUME NEW q \in S, q # a, q # z
      PROVE  m[q] = n[q] /\ n[q] # f /\ n[q] # at /\ q < n[q] /\ n[q] \in S
             /\ ~\E s \in S : q < s /\ s < n[q]
  <2>1. m[q] = n[q] /\ n[q] # f /\ n[q] # at
    BY <1>2, <1>6 DEF Closed, a, z
  <2>2. RingNext(S, q, n[q]) /\ ~Least(S, n[q])
    <3>1. RingNext(S, q, n[q])
      BY DEF Ring
    <3>2. n[q] \in S
      BY <3>1 DEF RingNext, Least
    <3>3. QED
      BY <1>31, <2>1, <3>1, <3>2
  <2>3. QED
    BY <1>3, <2>1, <2>2 DEF RingNext
<1>7. Ring(m, w, {q \in S : q < at})
  <2> SUFFICES ASSUME NEW q \in S, q < at
               PROVE  /\ RingNext({s \in S : s < at}, q, m[q])
                      /\ w[q] \in S /\ w[q] < at
    BY DEF Ring
  <2>1. w[q] \in S /\ w[q] < at
    <3>1. CASE q = f
      BY <1>1, <1>2, <1>4, <3>1
    <3>2. CASE q # f
      <4>1. q # at /\ q \in Int /\ at \in Int
        BY <1>3
      <4>2. w[q] \in S /\ w[q] < q
        BY <1>5, <3>2, <4>1
      <4>3. w[q] \in Int
        BY <1>3, <4>2
      <4>4. QED
        BY <4>1, <4>2, <4>3
    <3>3. QED
      BY <3>1, <3>2
  <2>2. RingNext({s \in S : s < at}, q, m[q])
    <3>1. CASE q = a
      BY <1>2, <1>3, <1>4, <3>1 DEF RingNext, Least
    <3>2. CASE q # a
      <4>1. q # z
        BY <1>1, <1>3, <1>4
      <4>2. m[q] < at
        <5>1. m[q] \in S /\ m[q] # at /\ ~\E s \in S : q < s /\ s < m[q]
          BY <1>6, <3>2, <4>1
        <5>2. QED
          BY <1>3, <5>1
      <4>3. QED
        BY <1>3, <1>6, <3>2, <4>1, <4>2 DEF RingNext
    <3>3. QED
      BY <3>1, <3>2
  <2>3. QED
    BY <2>1, <2>2
<1>8. Ring(m, w, {q \in S : at <= q})
  <2> SUFFICES ASSUME NEW q \in S, at <= q
               PROVE  /\ RingNext({s \in S : at <= s}, q, m[q])
                      /\ w[q] \in S /\ at <= w[q]
    BY DEF Ring
  <2>1. w[q] \in S /\ at <= w[q]
    <3>1. CASE q = at
      BY <1>1, <1>2, <1>3, <1>4, <3>1
    <3>2. CASE q # at
      <4>1. q # f
        BY <1>3
      <4>2. w[q] = v[q] /\ v[q] \in S /\ v[q] # a /\ n[v[q]] = q
        BY <1>5, <3>2, <4>1 DEF Closed
      <4>3. RingNext(S, v[q], q) /\ ~Least(S, q)
        BY <1>31, <4>1, <4>2 DEF Ring
      <4>4. ~(v[q] < at)
        BY <1>3, <3>2, <4>2, <4>3 DEF RingNext
      <4>5. QED
        BY <1>3, <4>2, <4>4
    <3>3. QED
      BY <3>1, <3>2
  <2>2. RingNext({s \in S : at <= s}, q, m[q])
    <3>0. q # a
      BY <1>1, <1>3, <1>4
    <3>1. CASE q = z
      BY <1>2, <1>3, <1>4, <3>0, <3>1 DEF RingNext, Least
    <3>2. CASE q # z
      <4>1. m[q] = n[q] /\ q < n[q] /\ n[q] \in S /\ ~\E s \in S : q < s /\ s < n[q]
        BY <1>6, <3>0, <3>2
      <4>2. QED
        BY <1>3, <4>1 DEF RingNext
    <3>3. QED
      BY <3>1, <3>2
  <2>3. QED
    BY <2>1, <2>2
<1>9. QED
  BY <1>1, <1>2, <1>7, <1>8 DEF Splits, m, w

(* A ring stays one where no pointer changes. *)
LEMMA RingSame ==
  ASSUME NEW n, NEW v, NEW m, NEW w, NEW S, Ring(n, v, S),
         \A q \in S : m[q] = n[q] /\ w[q] = v[q]
  PROVE  Ring(m, w, S)
  BY DEF Ring

(* A page moved from the ring of S to the ring of T. *)
Moves(n, v, m, w, S, T, x) ==
  /\ Ring(m, w, S \ {x}) /\ Ring(m, w, T \cup {x})
  /\ \A q \in Node \ (S \cup T) : m[q] = n[q] /\ w[q] = v[q]
LEMMA RingMove ==
  ASSUME NEW n, NEW v, Pointers(n, v, Node), Closed(n, v, Node),
         NEW S \in SUBSET Node, Ring(n, v, S), NEW x \in S,
         NEW T \in SUBSET Node, Ring(n, v, T), S \cap T = {}, NEW at \in T, RingNext(T, x, at)
  PROVE  Moves(n, v, MoveNext(n, v, at, x), MovePrev(n, v, at, x), S, T, x)
<1> DEFINE m == DelNext(n, v, x)
           w == DelPrev(n, v, x)
<1>1. /\ Pointers(m, w, Node) /\ Closed(m, w, Node) /\ m[x] = x /\ w[x] = x
  BY DelClosed
<1>2. /\ Ring(m, w, S \ {x})
      /\ \A q \in Node \ S : m[q] = n[q] /\ w[q] = v[q]
  BY RingDel
<1> HIDE DEF m, w
<1>3. Ring(m, w, T)
  <2>1. \A q \in T : m[q] = n[q] /\ w[q] = v[q]
    BY <1>2
  <2>2. QED
    BY <2>1, RingSame
<1>4. x \in Node \ T /\ T \in SUBSET Node
  OBVIOUS
<1>5. /\ Ring(AddNext(m, w, at, x), AddPrev(m, w, at, x), T \cup {x})
      /\ \A q \in Node \ (T \cup {x}) : AddNext(m, w, at, x)[q] = m[q] /\ AddPrev(m, w, at, x)[q] = w[q]
  BY <1>1, <1>3, <1>4, RingAdd DEF Adds
<1>6. Ring(AddNext(m, w, at, x), AddPrev(m, w, at, x), S \ {x})
  <2>1. \A q \in S \ {x} : AddNext(m, w, at, x)[q] = m[q] /\ AddPrev(m, w, at, x)[q] = w[q]
    BY <1>5
  <2>2. QED
    BY <1>2, <2>1, RingSame
<1>7. \A q \in Node \ (S \cup T) : AddNext(m, w, at, x)[q] = n[q] /\ AddPrev(m, w, at, x)[q] = v[q]
  BY <1>2, <1>5
<1>8. QED
  BY <1>5, <1>6, <1>7 DEF MoveNext, MovePrev, Moves, m, w

-----------------------------------------------------------------------------
(* Lists in order *)

(* What a list says of its pages depends on their fields only. *)
LEMMA HeadedSame ==
  ASSUME NEW f, NEW S, NEW ty, NEW fp, NEW cn, Headed(f, S, ty, fp, cn), NEW ty2, NEW fp2, NEW cn2,
         \A q \in S : (ty2[q] = "tail" <=> ty[q] = "tail") /\ fp2[q] = fp[q] /\ cn2[q] = cn[q]
  PROVE  Headed(f, S, ty2, fp2, cn2)
<1>1. f \in S
  BY DEF Headed, Least
<1>2. QED
  BY <1>1 DEF Headed, Tails

Keeps(R, n, v, ty, fp, cn, n2, v2, ty2, fp2, cn2) ==
  \A q \in R : /\ n2[q] = n[q] /\ v2[q] = v[q] /\ (ty2[q] = "tail" <=> ty[q] = "tail")
              /\ fp2[q] = fp[q] /\ cn2[q] = cn[q]
LEMMA SettledSame ==
  ASSUME NEW R, NEW n, NEW v, NEW ty, NEW fp, NEW cn, Settled(R, n, v, ty, fp, cn),
         NEW n2, NEW v2, NEW ty2, NEW fp2, NEW cn2, Keeps(R, n, v, ty, fp, cn, n2, v2, ty2, fp2, cn2)
  PROVE  Settled(R, n2, v2, ty2, fp2, cn2)
<1> USE DEF Keeps
<1> SUFFICES ASSUME NEW q \in R
             PROVE  LET f == FirstOf(ty2, fp2, q)
                        S == Group(R, ty2, fp2, f)
                    IN f \in R /\ Headed(f, S, ty2, fp2, cn2) /\ Ring(n2, v2, S)
  BY DEF Settled
<1> DEFINE f == FirstOf(ty, fp, q)
           S == Group(R, ty, fp, f)
<1>1. f \in R /\ Headed(f, S, ty, fp, cn) /\ Ring(n, v, S)
  BY DEF Settled
<1>2. \A r \in R : FirstOf(ty2, fp2, r) = FirstOf(ty, fp, r)
  BY DEF FirstOf
<1>3. \A g : Group(R, ty2, fp2, g) = Group(R, ty, fp, g)
  BY <1>2 DEF Group
<1>4. S \subseteq R
  BY DEF Group
<1>5. f = FirstOf(ty2, fp2, q) /\ S = Group(R, ty2, fp2, f)
  BY <1>2, <1>3
<1> HIDE DEF f, S
<1>6. Headed(f, S, ty2, fp2, cn2)
  BY <1>1, <1>4, HeadedSame
<1>7. Ring(n2, v2, S)
  BY <1>1, <1>4, RingSame
<1>8. QED
  BY <1>1, <1>5, <1>6, <1>7

(* The pages of a list have its first page. *)
LEMMA HeadedFirst ==
  ASSUME NEW f, NEW S, NEW ty, NEW fp, NEW cn, Headed(f, S, ty, fp, cn)
  PROVE  f \in S /\ \A q \in S : FirstOf(ty, fp, q) = f
  BY DEF Headed, Tails, Least, FirstOf

(* A new list among others. *)
LEMMA SettledIn ==
  ASSUME NEW R, NEW n, NEW v, NEW ty, NEW fp, NEW cn, Settled(R, n, v, ty, fp, cn),
         NEW D, D \cap R = {}, NEW f, Headed(f, D, ty, fp, cn), Ring(n, v, D)
  PROVE  Settled(R \cup D, n, v, ty, fp, cn)
<1>1. f \in D /\ \A q \in D : FirstOf(ty, fp, q) = f
  BY HeadedFirst
<1>2. \A q \in R : FirstOf(ty, fp, q) \in R
  BY DEF Settled
<1>3. Group(R \cup D, ty, fp, f) = D
  BY <1>1, <1>2 DEF Group
<1>4. \A g \in R : Group(R \cup D, ty, fp, g) = Group(R, ty, fp, g)
  BY <1>1 DEF Group
<1>5. ASSUME NEW q \in R \cup D
      PROVE  LET g == FirstOf(ty, fp, q)
                 S == Group(R \cup D, ty, fp, g)
             IN g \in R \cup D /\ Headed(g, S, ty, fp, cn) /\ Ring(n, v, S)
  <2>1. CASE q \in D
    BY <1>1, <1>3, <2>1
  <2>2. CASE q \in R
    BY <1>2, <1>4, <2>2 DEF Settled
  <2>3. QED
    BY <2>1, <2>2
<1>6. QED
  BY <1>5 DEF Settled

(* A list taken out from among others. *)
LEMMA SettledOut ==
  ASSUME NEW R, NEW n, NEW v, NEW ty, NEW fp, NEW cn, Settled(R, n, v, ty, fp, cn),
         NEW b \in R, NEW f, f = FirstOf(ty, fp, b), NEW D, D = Group(R, ty, fp, f)
  PROVE  /\ b \in D /\ D \subseteq R /\ Headed(f, D, ty, fp, cn) /\ Ring(n, v, D)
         /\ Settled(R \ D, n, v, ty, fp, cn)
<1>1. b \in D /\ D \subseteq R /\ Headed(f, D, ty, fp, cn) /\ Ring(n, v, D)
  BY DEF Settled, Group
<1>2. ASSUME NEW q \in R \ D
      PROVE  LET g == FirstOf(ty, fp, q)
                 S == Group(R \ D, ty, fp, g)
             IN g \in R \ D /\ Headed(g, S, ty, fp, cn) /\ Ring(n, v, S)
  <2> DEFINE g == FirstOf(ty, fp, q)
  <2>1. g # f
    BY DEF Group
  <2>2. g \in R /\ Headed(g, Group(R, ty, fp, g), ty, fp, cn) /\ Ring(n, v, Group(R, ty, fp, g))
    BY DEF Settled
  <2>3. FirstOf(ty, fp, g) = g
    BY <2>2 DEF Headed, FirstOf
  <2>4. g \notin D
    BY <2>1, <2>3 DEF Group
  <2>5. Group(R \ D, ty, fp, g) = Group(R, ty, fp, g)
    BY <2>1 DEF Group
  <2>6. QED
    BY <2>2, <2>4, <2>5
<1>3. QED
  BY <1>1, <1>2 DEF Settled

-----------------------------------------------------------------------------
(* Every step keeps the lists in order: one lemma for each action *)

(* What a step does besides: no panic, and only the search uses the sentinel. *)
(* Leads(D) says that the call works on D after the step.                   *)
Calm == pc' # "panic" /\ (pc' = "wild" => pc = "scan")
Leads(D) == Calm /\ Good(D)'

(* A node has one successor in a ring. *)
LEMMA OneNext ==
  ASSUME NEW S, \A s \in S : s \in Int, NEW q \in Int, NEW a, NEW b, RingNext(S, q, a), RingNext(S, q, b)
  PROVE  a = b
<1>1. a \in S /\ b \in S /\ a \in Int /\ b \in Int
  BY DEF RingNext, Least
<1>2. ~(a < b)
  BY <1>1 DEF RingNext, Least
<1>3. ~(b < a)
  BY <1>1 DEF RingNext, Least
<1>4. QED
  BY <1>1, <1>2, <1>3

(* The free list's pages, and where it starts. *)
LEMMA FreeIs ==
  ASSUME TypeOK, NEW C, Steady(C)
  PROVE  /\ Free \in SUBSET Page /\ Owned \in SUBSET Page /\ Free \cup {End} \in SUBSET Node
         /\ Owned \cap (Free \cup {End}) = {} /\ End \notin Page
         /\ IsFiniteSet(Free) /\ nr_free_pages = Cardinality(Free) /\ nr_free_pages \in Nat
         /\ nxt[End] \in Free \cup {End} /\ (nxt[End] = End => nr_free_pages = 0)
         /\ \A r \in Free : nxt[End] <= r /\ NOccupied < r
         /\ \A q \in Node : q \in Int
<1> USE PageAssumption
<1>1. /\ Free \in SUBSET Page /\ Owned \in SUBSET Page /\ Free \cup {End} \in SUBSET Node
      /\ Owned \cap (Free \cup {End}) = {} /\ End \notin Page /\ \A q \in Node : q \in Int
  <2>1. End \notin Page /\ End \in Node /\ Page \subseteq Node /\ \A q \in Node : q \in Int
    BY DEF Page, Node, End
  <2>2. Free \in SUBSET Page /\ Owned \in SUBSET Page /\ Owned \cap Free = {}
    BY DEF TypeOK, Free, Owned
  <2>3. QED
    BY <2>1, <2>2
<1>2. IsFiniteSet(Page)
  BY FS_Interval DEF Page
<1>3. IsFiniteSet(Free) /\ Cardinality(Free) \in Nat
  BY <1>1, <1>2, FS_Subset, FS_CardinalityType
<1>4. RingNext(Free \cup {End}, End, nxt[End])
  BY DEF Steady, Ring
<1>5. nxt[End] \in Free \cup {End} /\ \A r \in Free : nxt[End] <= r
  <2>1. End = 0 /\ \A r \in Free : r \in Int /\ 0 < r
    BY <1>1 DEF Page, End
  <2>2. QED
    BY <1>4, <2>1 DEF RingNext, Least
<1>6. nxt[End] = End => Free = {}
  <2>1. \A r \in Free : r \in Int /\ 0 < r
    BY <1>1 DEF Page
  <2>2. QED
    BY <1>4, <2>1 DEF RingNext, End
<1>7. \A r \in Free : NOccupied < r
  BY DEF Steady, Free, Page
<1>8. QED
  BY <1>1, <1>3, <1>5, <1>6, <1>7, FS_EmptySet DEF Steady

LEMMA InitGood == Init => ListInv
<1> SUFFICES ASSUME Init PROVE Good({}) /\ pc # "panic"
  BY DEF ListInv
<1> USE PageAssumption
<1>1. Owned = {} /\ Free = NOccupied + 1 .. NPages /\ 1..NOccupied \subseteq reserved
  BY DEF Init, Owned, Free, Page
<1>2. nr_free_pages = Cardinality(Free)
  BY <1>1, FS_Interval DEF Init
<1>3. Ring(nxt, prv, Free \cup {End})
  <2>1. \A q \in Free \cup {End} : q \in Node
    BY <1>1 DEF Node, End
  <2>2. ASSUME NEW q \in Free \cup {End}
        PROVE  /\ nxt[q] = IF q = 0 THEN NOccupied + 1 ELSE IF q = NPages THEN 0 ELSE q + 1
               /\ prv[q] = IF q = 0 THEN NPages ELSE IF q = NOccupied + 1 THEN 0 ELSE q - 1
    BY <1>1, <2>1 DEF Init, End
  <2>3. ASSUME NEW q \in Free \cup {End} PROVE RingNext(Free \cup {End}, q, nxt[q]) /\ prv[q] \in Free \cup {End}
    <3>1. q = 0 \/ q \in NOccupied + 1 .. NPages
      BY <1>1 DEF End
    <3>2. CASE q = 0
      BY <1>1, <2>2, <3>2 DEF RingNext, Least, End
    <3>3. CASE q = NPages
      BY <1>1, <2>2, <3>3 DEF RingNext, Least, End
    <3>4. CASE q # 0 /\ q # NPages
      BY <1>1, <2>2, <3>1, <3>4 DEF RingNext, Least, End
    <3>5. QED
      BY <3>2, <3>3, <3>4
  <2>4. QED
    BY <2>3 DEF Ring
<1>4. Steady({})
  BY <1>1, <1>2, <1>3 DEF Steady, Settled
<1>5. pc = "idle" /\ NoLocals
  BY DEF Init
<1>6. Working({})
  BY <1>5 DEF Working, IdleAt, TakeAt, ScanAt, ContAt, MarkAt, HeadAt, LastAt, UpdateAt, SplitAt, EnterAt, FreeAt, SeekAt
<1>7. QED
  BY <1>4, <1>5, <1>6 DEF Good

LEMMA AllocGood ==
  ASSUME TypeOK, NEW C, Good(C), NEW n \in Page, alloc_pages(n) PROVE Leads(C)
<1>1. pc = "idle" /\ C = {} /\ NoLocals /\ UNCHANGED heap /\ pc' = "take"
  BY DEF alloc_pages, Call, Good, Working, IdleAt
<1>2. Steady(C)'
  BY <1>1 DEF Good, Steady, heap, meta, Free, Owned
<1>3. n > 0 /\ n \in Int
  BY DEF Page
<1>4. TakeAt(C)'
  BY <1>1, <1>3, FS_EmptySet DEF alloc_pages, TakeAt, NoLocals, heap, first_free_page
<1>5. Working(C)'
  BY <1>1, <1>4 DEF Working, IdleAt, ScanAt, ContAt, MarkAt, HeadAt, LastAt, UpdateAt, SplitAt, EnterAt, FreeAt, SeekAt
<1>6. QED
  BY <1>1, <1>2, <1>5 DEF Leads, Calm, Good

LEMMA AllocContGood ==
  ASSUME TypeOK, NEW C, Good(C), NEW n \in Page, alloc_cont_pages(n) PROVE Leads(C)
<1>1. pc = "idle" /\ C = {} /\ NoLocals /\ UNCHANGED heap /\ pc' = "scan"
  BY DEF alloc_cont_pages, Call, Good, Working, IdleAt
<1>2. Steady(C)'
  BY <1>1 DEF Good, Steady, heap, meta, Free, Owned
<1>3. n > 0 /\ n \in Int
  BY DEF Page
<1>4. ScanAt(C)'
  BY <1>1, <1>3 DEF alloc_cont_pages, ScanAt, Running, NoLocals, heap, first_free_page
<1>5. Working(C)'
  BY <1>1, <1>4 DEF Working, IdleAt, TakeAt, ContAt, MarkAt, HeadAt, LastAt, UpdateAt, SplitAt, EnterAt, FreeAt, SeekAt
<1>6. QED
  BY <1>1, <1>2, <1>5 DEF Leads, Calm, Good

LEMMA SetTypeGood ==
  ASSUME TypeOK, NEW C, Good(C), NEW f \in Typed, SetType(f) PROVE Leads(C)
<1>1. pc = "idle" /\ C = {} /\ NoLocals /\ pc' = "idle" /\ UNCHANGED <<nxt, prv, reserved, first_page_of, page_count_of,
                 nr_free_pages, locals>>
  BY DEF SetType, Good, Working, IdleAt
<1>2. Owned' = Owned /\ Free' = Free
  BY <1>1 DEF Owned, Free
<1>3. Settled(Owned', nxt', prv', type', first_page_of', page_count_of')
  <2>1. \A q \in Owned : type'[q] = "tail" <=> type[q] = "tail"
    BY DEF SetType, IsFirst, is_tail, TypeOK, Owned
  <2>2. Settled(Owned, nxt, prv, type, first_page_of, page_count_of)
    <3>1. Owned \ C = Owned
      BY <1>1
    <3>2. QED
      BY <3>1 DEF Good, Steady
  <2>3. QED
    BY <1>1, <1>2, <2>1, <2>2, SettledSame DEF Keeps
<1>4. Steady(C)'
  <2>1. (Owned \ C)' = Owned'
    BY <1>1
  <2>2. QED
    BY <1>1, <1>2, <1>3, <2>1 DEF Good, Steady
<1>5. Working(C)'
  BY <1>1 DEF Working, IdleAt, TakeAt, ScanAt, ContAt, MarkAt, HeadAt, LastAt, UpdateAt, SplitAt, EnterAt, FreeAt, SeekAt,
     NoLocals, locals, section
<1>6. QED
  BY <1>1, <1>4, <1>5 DEF Leads, Calm, Good

(* The list of an owned page, when no call is in progress. *)
LEMMA BlockOut ==
  ASSUME TypeOK, Steady({}), NEW b \in Owned, NEW D, D = Block(first_page(b))
  PROVE  /\ b \in D /\ D \subseteq Owned /\ Ring(nxt, prv, D)
         /\ Headed(first_page(b), D, type, first_page_of, page_count_of)
         /\ Settled(Owned \ D, nxt, prv, type, first_page_of, page_count_of)
<1> DEFINE f == FirstOf(type, first_page_of, b)
<1>1. \A q : first_page(q) = FirstOf(type, first_page_of, q)
  BY DEF first_page, is_tail, FirstOf
<1>2. f = first_page(b) /\ D = Group(Owned, type, first_page_of, f)
  BY <1>1 DEF Block, Group
<1>3. Settled(Owned, nxt, prv, type, first_page_of, page_count_of)
  <2>1. Owned \ {} = Owned
    OBVIOUS
  <2>2. QED
    BY <2>1 DEF Steady
<1> HIDE DEF f
<1>4. /\ b \in D /\ D \subseteq Owned /\ Headed(f, D, type, first_page_of, page_count_of) /\ Ring(nxt, prv, D)
      /\ Settled(Owned \ D, nxt, prv, type, first_page_of, page_count_of)
  <2>1. f = FirstOf(type, first_page_of, b)
    BY DEF f
  <2>2. QED
    BY <1>2, <1>3, <2>1, SettledOut
<1>5. QED
  BY <1>2, <1>4

(* Any set of pages is finite. *)
LEMMA PagesFinite ==
  ASSUME NEW S \in SUBSET Page
  PROVE  IsFiniteSet(S) /\ Cardinality(S) \in Nat
<1>1. IsFiniteSet(Page)
  BY PageAssumption, FS_Interval DEF Page
<1>2. QED
  BY <1>1, FS_Subset, FS_CardinalityType

LEMMA FreeAllGood ==
  ASSUME TypeOK, NEW C, Good(C), NEW fp \in Page, free_all_pages(fp),
         NEW D, D = Block(first_page(fp))
  PROVE  Leads(D)
<1>1. pc = "idle" /\ C = {} /\ NoLocals /\ UNCHANGED heap /\ pc' = "enter" /\ fp \in Owned /\ base' = fp /\ i' = i
  BY DEF free_all_pages, Call, Good, Working, IdleAt
<1>2. D = Block(first_page(fp))
  OBVIOUS
<1>3. Steady({})
  BY <1>1 DEF Good
<1>4. /\ fp \in D /\ D \subseteq Owned /\ Ring(nxt, prv, D)
      /\ Headed(first_page(fp), D, type, first_page_of, page_count_of)
      /\ Settled(Owned \ D, nxt, prv, type, first_page_of, page_count_of)
  BY <1>1, <1>2, <1>3, BlockOut
<1>5. Steady(D)'
  BY <1>1, <1>3, <1>4 DEF Steady, heap, meta, Free, Owned
<1>6. EnterAt(D)'
  BY <1>1, <1>4 DEF EnterAt, NoLocals, heap, meta, first_page, is_tail
<1>7. Working(D)'
  BY <1>1, <1>6 DEF Working, IdleAt, TakeAt, ScanAt, ContAt, MarkAt, HeadAt, LastAt, UpdateAt, SplitAt, FreeAt, SeekAt
<1>8. D \in SUBSET Page
  BY <1>3, <1>4, FreeIs
<1>9. QED
  BY <1>1, <1>5, <1>7, <1>8 DEF Leads, Calm, Good

LEMMA FreePagesGood ==
  ASSUME TypeOK, NEW C, Good(C), NEW b \in Page, NEW n \in Page, free_pages(b, n),
         NEW D, D = Block(first_page(b))
  PROVE  Leads(D)
<1>1. /\ pc = "idle" /\ C = {} /\ NoLocals /\ UNCHANGED heap /\ pc' = "head" /\ b \in Owned
      /\ base' = b /\ num' = n /\ total' = page_count(b) /\ first' = first_page(b) /\ p' = first_page(b)
      /\ UNCHANGED <<i, last, head_len, seg>>
  BY DEF free_pages, Owns, Call, Good, Working, IdleAt
<1>2. D = Block(first_page(b))
  OBVIOUS
<1>3. Steady({})
  BY <1>1 DEF Good
<1>4. /\ b \in D /\ D \subseteq Owned /\ Ring(nxt, prv, D)
      /\ Headed(first_page(b), D, type, first_page_of, page_count_of)
      /\ Settled(Owned \ D, nxt, prv, type, first_page_of, page_count_of)
  BY <1>1, <1>2, <1>3, BlockOut
<1>5. Steady(D)'
  BY <1>1, <1>3, <1>4 DEF Steady, heap, meta, Free, Owned
<1>6. D \in SUBSET Page /\ n \in Int /\ n > 0 /\ \A q \in D : q \in Int
  <2>1. Owned \in SUBSET Page
    BY <1>3, FreeIs
  <2>2. D \in SUBSET Page
    BY <1>4, <2>1
  <2>3. \A q \in Page : q \in Int /\ q > 0
    BY DEF Page
  <2>4. QED
    BY <2>2, <2>3
<1>7. PICK f : f = first_page(b)
  OBVIOUS
<1>8. Least(D, f) /\ f \in D /\ f <= b /\ {q \in D : q < f} = {}
  <2>1. Least(D, f)
    BY <1>4, <1>7 DEF Headed
  <2>2. f \in D /\ f <= b /\ \A q \in D : ~(q < f)
    BY <1>4, <1>6, <2>1 DEF Least
  <2>3. QED
    BY <2>1, <2>2
<1>9. n <= Cardinality({q \in D : b <= q})
  <2>1. {q \in D : b <= q} = {q \in Owned : first_page(q) = first_page(b) /\ q >= b}
    BY <1>2, <1>6 DEF Block, Owned, Page
  <2>2. QED
    BY <2>1 DEF free_pages, Owns
<1>10. total' = Cardinality(D)
  BY <1>1, <1>4 DEF page_count, Headed
<1>11. HeadAt(D)'
  BY <1>1, <1>4, <1>6, <1>7, <1>8, <1>9, <1>10, FS_EmptySet DEF HeadAt, Cut, NoLocals, heap, meta
<1>12. Working(D)'
  BY <1>1, <1>11 DEF Working, IdleAt, TakeAt, ScanAt, ContAt, MarkAt, LastAt, UpdateAt, SplitAt, EnterAt, FreeAt, SeekAt
<1>13. QED
  BY <1>1, <1>5, <1>6, <1>12 DEF Leads, Calm, Good

(* A free page goes to the list C, before the page that follows it there.  *)
(* The fields of the pages on other lists stay as they are.                *)
Takes(C, x, at) ==
  /\ reserved' = reserved \cup {x} /\ nr_free_pages' = nr_free_pages - 1
  /\ IF at = End
     THEN /\ C = {} /\ nxt' = DelNext(nxt, prv, x) /\ prv' = DelPrev(nxt, prv, x)
     ELSE /\ at \in C /\ Ring(nxt, prv, C) /\ RingNext(C, x, at)
          /\ nxt' = MoveNext(nxt, prv, at, x) /\ prv' = MovePrev(nxt, prv, at, x)
  /\ \A q \in Owned \ C : /\ type'[q] = type[q] /\ first_page_of'[q] = first_page_of[q]
                          /\ page_count_of'[q] = page_count_of[q]
LEMMA TakeFree ==
  ASSUME TypeOK, Linked, NEW C, Steady(C), C \in SUBSET Page, NEW x \in Free, NEW at, Takes(C, x, at),
         NEW D, D = C \cup {x}
  PROVE  /\ Free' = Free \ {x} /\ D \in SUBSET Page /\ Steady(D)' /\ Ring(nxt', prv', D)
         /\ Cardinality(D) = Cardinality(C) + 1 /\ Cardinality(C) \in Nat
<1>1. C \subseteq Owned
  BY DEF Steady
<1>2. /\ Free \in SUBSET Page /\ Owned \in SUBSET Page /\ Free \cup {End} \in SUBSET Node
      /\ Owned \cap (Free \cup {End}) = {} /\ End \notin Page /\ Page \subseteq Node
      /\ IsFiniteSet(Free) /\ nr_free_pages = Cardinality(Free) /\ nr_free_pages \in Nat
      /\ NOccupied < x /\ x # End /\ x \in Int /\ x \in Page /\ x \in Node
  <2>1. Page \subseteq Node
    BY DEF Page, Node
  <2>2. QED
    BY <2>1, FreeIs
<1>3. /\ Free' = Free \ {x} /\ Owned' = Owned \cup {x} /\ Owned' \ D = Owned \ C /\ D \subseteq Owned'
      /\ Free' \cup {End} = (Free \cup {End}) \ {x} /\ D \in SUBSET Page
  <2>1. Free' = Free \ {x}
    BY DEF Free, Takes
  <2>2. Owned' = Owned \cup {x}
    BY <1>2 DEF Owned, Takes
  <2>3. QED
    BY <1>1, <1>2, <2>1, <2>2
<1>4. nr_free_pages' = Cardinality(Free') /\ Cardinality(D) = Cardinality(C) + 1 /\ Cardinality(C) \in Nat
  <2>1. Cardinality(Free \ {x}) = Cardinality(Free) - 1
    BY <1>2, FS_RemoveElement
  <2>2. x \notin C /\ IsFiniteSet(C) /\ Cardinality(C) \in Nat
    BY <1>1, <1>2, PagesFinite
  <2>3. Cardinality(C \cup {x}) = Cardinality(C) + 1
    BY <2>2, FS_AddElement
  <2>4. QED
    BY <1>2, <1>3, <2>1, <2>2, <2>3 DEF Takes
<1>5. Pointers(nxt, prv, Node) /\ Closed(nxt, prv, Node)
  BY DEF TypeOK, Linked, Pointers, Closed
<1>6. PICK F : F = Free \cup {End}
  OBVIOUS
<1>7. Ring(nxt, prv, F) /\ x \in F /\ F \in SUBSET Node /\ F \cap C = {} /\ C \in SUBSET Node
  BY <1>1, <1>2, <1>6 DEF Steady
<1>8. /\ Ring(nxt', prv', F \ {x}) /\ Ring(nxt', prv', D)
      /\ \A q \in Node \ (F \cup C) : nxt'[q] = nxt[q] /\ prv'[q] = prv[q]
  <2>1. CASE at = End
    <3>1. nxt' = DelNext(nxt, prv, x) /\ prv' = DelPrev(nxt, prv, x) /\ D = {x}
      BY <2>1 DEF Takes
    <3>2. nxt'[x] = x /\ prv'[x] = x
      BY <1>2, <1>5, <3>1, DelClosed
    <3>3. Ring(nxt', prv', D)
      BY <1>2, <3>1, <3>2 DEF Ring, RingNext, Least
    <3>4. /\ Ring(nxt', prv', F \ {x})
          /\ \A q \in Node \ F : nxt'[q] = nxt[q] /\ prv'[q] = prv[q]
      BY <1>5, <1>7, <3>1, RingDel
    <3>5. QED
      BY <3>3, <3>4
  <2>2. CASE at # End
    <3>1. /\ nxt' = MoveNext(nxt, prv, at, x) /\ prv' = MovePrev(nxt, prv, at, x)
          /\ Ring(nxt, prv, C) /\ RingNext(C, x, at) /\ at \in C
      BY <2>2 DEF Takes
    <3>2. Moves(nxt, prv, MoveNext(nxt, prv, at, x), MovePrev(nxt, prv, at, x), F, C, x)
      BY <1>5, <1>7, <3>1, RingMove
    <3>3. QED
      BY <3>1, <3>2 DEF Moves
  <2>3. QED
    BY <2>1, <2>2
<1>9. Settled(Owned' \ D, nxt', prv', type', first_page_of', page_count_of')
  <2>1. PICK R : R = Owned \ C
    OBVIOUS
  <2>2. \A q \in R : nxt'[q] = nxt[q] /\ prv'[q] = prv[q]
    BY <1>2, <1>6, <1>8, <2>1
  <2>3. Keeps(R, nxt, prv, type, first_page_of, page_count_of, nxt', prv', type', first_page_of', page_count_of')
    BY <2>1, <2>2 DEF Keeps, Takes
  <2>4. Settled(R, nxt, prv, type, first_page_of, page_count_of)
    BY <2>1 DEF Steady
  <2>5. Settled(R, nxt', prv', type', first_page_of', page_count_of')
    BY <2>3, <2>4, SettledSame
  <2>6. QED
    BY <1>3, <2>1, <2>5
<1>10. Steady(D)'
  <2>1. (Free \cup {End})' = F \ {x}
    BY <1>3, <1>6
  <2>2. QED
    BY <1>3, <1>4, <1>8, <1>9, <2>1 DEF Steady, Takes
<1>11. QED
  BY <1>3, <1>4, <1>8, <1>10

(* alloc_pages takes the lowest free page, p. *)
LEMMA TakePage ==
  ASSUME TypeOK, Linked, NEW C, Good(C), Take, i # 0, NEW D, D = C \cup {p} PROVE Leads(D)
<1>1. /\ pc = "take" /\ num > 0 /\ i \in 0..num /\ i <= nr_free_pages /\ p = nxt[End]
      /\ Cardinality(C) = num - i /\ (\A q \in C, r \in Free : q < r)
      /\ IF first = End THEN C = {}
         ELSE Least(C, first) /\ Ring(nxt, prv, C) /\ Tails(first, C, type, first_page_of)
  BY DEF Take, Good, Working, TakeAt
<1>2. Steady(C) /\ C \in SUBSET Page /\ C \subseteq Owned
  BY DEF Good, Steady
<1>3. /\ Free \in SUBSET Page /\ Owned \in SUBSET Page /\ Free \cup {End} \in SUBSET Node
      /\ Owned \cap (Free \cup {End}) = {} /\ End \notin Page /\ Page \subseteq Node
      /\ IsFiniteSet(Free) /\ nr_free_pages = Cardinality(Free) /\ nr_free_pages \in Nat
      /\ p \in Free /\ (\A r \in Free : p <= r /\ NOccupied < r)
      /\ \A q \in Node : q \in Int
  <2>1. Page \subseteq Node
    BY DEF Page, Node
  <2>2. i > 0 /\ i \in Int /\ num \in Int
    BY <1>1 DEF TypeOK
  <2>3. QED
    BY <1>1, <1>2, <2>1, <2>2, FreeIs
<1>4. p # End /\ p \notin reserved /\ p \in Page /\ p \in Int
  BY <1>3 DEF Free
<1>5. /\ reserved' = reserved \cup {p}
      /\ i' = i - 1 /\ nr_free_pages' = nr_free_pages - 1 /\ p' = nxt[p]
      /\ UNCHANGED <<page_count_of, pc, num, np, section, freep>>
      /\ IF first = End
         THEN /\ nxt' = DelNext(nxt, prv, p) /\ prv' = DelPrev(nxt, prv, p)
              /\ first' = p /\ UNCHANGED <<type, first_page_of>>
         ELSE /\ nxt' = MoveNext(nxt, prv, first, p) /\ prv' = MovePrev(nxt, prv, first, p)
              /\ type' = [type EXCEPT ![p] = "tail"]
              /\ first_page_of' = [first_page_of EXCEPT ![p] = first]
              /\ UNCHANGED first
  BY <1>4 DEF Take
<1>6. D = C \cup {p}
  OBVIOUS
<1>7. Takes(C, p, first)
  <2>1. \A q \in Owned \ C : q # p
    BY <1>3
  <2>2. CASE first = End
    BY <1>1, <1>5, <2>2 DEF Takes
  <2>3. CASE first # End
    <3>1. Least(C, first) /\ Ring(nxt, prv, C) /\ \A q \in C : q \in Int /\ q < p
      BY <1>1, <1>2, <1>3, <2>3
    <3>2. first \in C /\ RingNext(C, p, first)
      BY <1>4, <3>1 DEF RingNext, Least
    <3>3. QED
      BY <1>3, <1>5, <2>1, <2>3, <3>1, <3>2 DEF Takes, TypeOK
  <2>4. QED
    BY <2>2, <2>3
<1>8. /\ Free' = Free \ {p} /\ D \in SUBSET Page /\ Steady(D)' /\ Ring(nxt', prv', D)
      /\ Cardinality(D) = Cardinality(C) + 1 /\ Cardinality(C) \in Nat
  BY <1>2, <1>3, <1>6, <1>7, TakeFree
<1>9. Cardinality(D) = num' - i'
  BY <1>1, <1>5, <1>8 DEF TypeOK
<1>10. Ring(nxt, prv, Free \cup {End})
  BY <1>2 DEF Steady
<1>11. Ring(nxt', prv', Free' \cup {End})
  BY <1>8 DEF Steady
<1>13. p' = nxt'[End]
  <2>1. RingNext(Free' \cup {End}, End, nxt'[End])
    BY <1>11 DEF Ring
  <2>2. RingNext(Free \cup {End}, p, nxt[p])
    BY <1>3, <1>10 DEF Ring
  <2>3. \A r \in Free : r \in Int /\ 0 < r /\ p <= r
    BY <1>3 DEF Page
  <2>4. RingNext(Free' \cup {End}, End, nxt[p])
    <3>1. p \in Free /\ End = 0 /\ nxt[p] \in Free \cup {0}
      BY <1>3, <2>2 DEF RingNext, Least, End
    <3>2. CASE p < nxt[p]
      <4>1. nxt[p] \in Free' \cup {0} /\ 0 < nxt[p] /\ ~\E s \in Free \cup {0} : p < s /\ s < nxt[p]
        <5>1. nxt[p] \in Int /\ p > 0 /\ p # nxt[p]
          <6>1. nxt[p] \in Int
            BY <2>3, <3>1
          <6>2. p > 0
            BY <2>3, <3>1
          <6>3. QED
            BY <1>4, <3>2, <6>1, <6>2
        <5>2. RingNext(Free \cup {0}, p, nxt[p])
          BY <2>2 DEF End
        <5>3. ~\E s \in Free \cup {0} : p < s /\ s < nxt[p]
          BY <3>2, <5>1, <5>2 DEF RingNext, Least
        <5>4. nxt[p] \in Free' \cup {0} /\ 0 < nxt[p]
          BY <1>4, <1>8, <3>1, <3>2, <5>1
        <5>5. QED
          BY <5>3, <5>4
      <4>2. \A s \in Free' : p < s /\ s \in Int
        BY <1>4, <1>8, <2>3
      <4>3. nxt[p] \in Free' \cup {0} /\ ~\E s \in Free' \cup {0} : 0 < s /\ s < nxt[p]
        BY <1>8, <4>1, <4>2
      <4>4. QED
        BY <3>1, <4>1, <4>3 DEF RingNext
    <3>3. CASE ~(p < nxt[p])
      <4>1. Least(Free \cup {0}, nxt[p]) /\ ~\E s \in Free : p < s
        BY <2>2, <3>1, <3>3 DEF RingNext
      <4>2. nxt[p] = 0
        BY <2>3, <3>1, <4>1 DEF Least
      <4>3. Free' = {}
        BY <1>4, <1>8, <2>3, <4>1
      <4>4. QED
        BY <3>1, <4>2, <4>3 DEF RingNext, Least
    <3>4. QED
      BY <3>2, <3>3
  <2>5. (\A s \in Free' \cup {End} : s \in Int) /\ End \in Int
    BY <1>3, <1>8
  <2>6. QED
    BY <1>5, <2>1, <2>4, <2>5, OneNext
<1>14. \A q \in D, r \in Free' : q < r
  BY <1>1, <1>3, <1>4, <1>6, <1>8
<1>15. first' # End /\ Least(D, first') /\ Tails(first', D, type', first_page_of')
  <2>1. CASE first = End
    BY <1>1, <1>4, <1>5, <1>6, <2>1 DEF Least, Tails
  <2>2. CASE first # End
    <3>1. \A q \in C : q \in Int /\ q < p /\ q \in Node
      BY <1>1, <1>2, <1>3
    <3>2. first' = first /\ Least(C, first) /\ Tails(first, C, type, first_page_of)
      BY <1>1, <1>5, <2>2
    <3>3. Least(D, first)
      BY <1>4, <1>6, <3>1, <3>2 DEF Least
    <3>4. Tails(first, D, type', first_page_of')
      BY <1>3, <1>4, <1>5, <1>6, <2>2, <3>1, <3>2 DEF Tails, TypeOK
    <3>5. QED
      BY <2>2, <3>2, <3>3, <3>4
  <2>3. QED
    BY <2>1, <2>2
<1>17. TakeAt(D)'
  <2>1. i' \in 0..num' /\ i' <= nr_free_pages' /\ num' > 0
    BY <1>1, <1>3, <1>5 DEF TypeOK
  <2>2. QED
    BY <1>8, <1>9, <1>13, <1>14, <1>15, <2>1 DEF TakeAt
<1>18. pc' = "take"
  BY <1>1, <1>5
<1>19. Working(D)'
  BY <1>17, <1>18 DEF Working, IdleAt, ScanAt, ContAt, MarkAt, HeadAt, LastAt, UpdateAt, SplitAt, EnterAt, FreeAt, SeekAt
<1>20. QED
  BY <1>8, <1>18, <1>19 DEF Leads, Calm, Good

(* The list C is complete, and the call returns its first page. *)
LEMMA NewList ==
  ASSUME TypeOK, NEW C, Steady(C), C \in SUBSET Page, NEW f, f \in C, Least(C, f), Ring(nxt, prv, C),
         Tails(f, C, type, first_page_of), Cardinality(C) = num,
         type' = [type EXCEPT ![f] = "generic"], page_count_of' = [page_count_of EXCEPT ![f] = num],
         Return, UNCHANGED <<nxt, prv, reserved, first_page_of, nr_free_pages>>
  PROVE  Leads({})
<1>1. Owned' = Owned /\ Free' = Free /\ C \subseteq Owned
  BY DEF Owned, Free, Steady
<1>2. \A q \in Page : q \in Node
  BY DEF Page, Node
<1>3. \A q \in Page : /\ type'[q] = IF q = f THEN "generic" ELSE type[q]
                      /\ page_count_of'[q] = IF q = f THEN num ELSE page_count_of[q]
  BY <1>2 DEF TypeOK
<1>4. Headed(f, C, type', first_page_of', page_count_of')
  BY <1>3 DEF Headed, Tails
<1>5. Settled(Owned \ C, nxt', prv', type', first_page_of', page_count_of')
  <2>0. PICK R : R = Owned \ C
    OBVIOUS
  <2>1. Settled(R, nxt, prv, type, first_page_of, page_count_of) /\ R \subseteq Page
    BY <2>0 DEF Steady, Owned, TypeOK
  <2>2. \A q \in R : nxt'[q] = nxt[q] /\ prv'[q] = prv[q] /\ (type'[q] = "tail" <=> type[q] = "tail")
                     /\ first_page_of'[q] = first_page_of[q] /\ page_count_of'[q] = page_count_of[q]
    BY <1>3, <2>0, <2>1
  <2>21. Keeps(R, nxt, prv, type, first_page_of, page_count_of, nxt', prv', type', first_page_of', page_count_of')
    BY <2>2 DEF Keeps
  <2>3. Settled(R, nxt', prv', type', first_page_of', page_count_of')
    BY <2>1, <2>21, SettledSame
  <2>4. QED
    BY <2>0, <2>3
<1>6. Settled(Owned', nxt', prv', type', first_page_of', page_count_of')
  <2>1. Ring(nxt', prv', C)
    OBVIOUS
  <2>2. PICK R : R = Owned \ C
    OBVIOUS
  <2>3. C \cap R = {} /\ R \cup C = Owned
    BY <1>1, <2>2
  <2>4. Settled(R \cup C, nxt', prv', type', first_page_of', page_count_of')
    BY <1>4, <1>5, <2>1, <2>2, <2>3, SettledIn
  <2>5. QED
    BY <1>1, <2>3, <2>4
<1>7. Steady({})'
  <2>1. (Owned \ {})' = Owned'
    OBVIOUS
  <2>2. QED
    BY <1>1, <1>6, <2>1 DEF Steady
<1>8. Working({})'
  BY DEF Return, Working, IdleAt, NoLocals, TakeAt, ScanAt, ContAt, MarkAt, HeadAt, LastAt, UpdateAt, SplitAt,
     EnterAt, FreeAt, SeekAt
<1>9. Good({})' /\ pc' = "idle"
  BY <1>7, <1>8 DEF Good, Return
<1>10. QED
  BY <1>9 DEF Leads, Calm

(* alloc_pages has all its pages: they become a list of their own. *)
LEMMA TakeGood ==
  ASSUME TypeOK, Linked, NEW C, Good(C), Take, NEW D, D = IF i = 0 THEN {} ELSE C \cup {p}
  PROVE  Leads(D)
<1>1. CASE i # 0
  BY <1>1, TakePage
<1>2. CASE i = 0
  <2>1. /\ pc = "take" /\ num > 0 /\ Cardinality(C) = num - i
        /\ IF first = End THEN C = {}
           ELSE Least(C, first) /\ Ring(nxt, prv, C) /\ Tails(first, C, type, first_page_of)
    BY DEF Take, Good, Working, TakeAt
  <2>2. Steady(C) /\ C \in SUBSET Page /\ C \subseteq Owned
    BY DEF Good, Steady
  <2>3. Least(C, first) /\ first \in C /\ Ring(nxt, prv, C) /\ Tails(first, C, type, first_page_of) /\ Cardinality(C) = num
    <3>1. num \in Int
      BY DEF TypeOK
    <3>2. C # {}
      BY <1>2, <2>1, <3>1, FS_EmptySet
    <3>3. QED
      BY <1>2, <2>1, <3>1, <3>2 DEF Least
  <2>4. /\ type' = [type EXCEPT ![first] = "generic"]
        /\ page_count_of' = [page_count_of EXCEPT ![first] = num]
        /\ Return /\ UNCHANGED <<nxt, prv, reserved, first_page_of, nr_free_pages>>
    BY <1>2 DEF Take
  <2>5. QED
    BY <1>2, <2>2, <2>3, <2>4, NewList
<1>3. QED
  BY <1>1, <1>2

(* --i on a size_t, for an i it can hold. *)
LEMMA Decrement ==
  ASSUME NEW k \in Int, 0 <= k, k <= SizeMax
  PROVE  (k - 1) % (SizeMax + 1) = IF k = 0 THEN SizeMax ELSE k - 1
<1>1. SizeMax + 1 \in Nat /\ SizeMax + 1 > 0 /\ SizeMax \in Nat
  BY PageAssumption
<1>2. CASE k = 0
  BY <1>1, <1>2
<1>3. CASE k # 0
  BY <1>1, <1>3
<1>4. QED
  BY <1>2, <1>3

(* alloc_cont_pages' search ends with a run of num free pages, or at the sentinel. *)
LEMMA ScanGood ==
  ASSUME TypeOK, NEW C, Good(C), Scan PROVE Leads(C)
<1>1. /\ pc = "scan" /\ C = {} /\ first = End /\ num > 0 /\ num <= nr_free_pages
      /\ p \in Free \cup {End} /\ np = nxt[p] /\ (Running \/ Wrapped)
  BY DEF Scan, Good, Working, ScanAt
<1>2. Steady(C) /\ C \in SUBSET Page
  BY DEF Good
<1>3. num \in Int /\ i \in Int /\ p \in Int /\ np \in Int /\ End = 0
  BY DEF TypeOK, Node, End
<1>4. /\ Free \in SUBSET Page /\ nr_free_pages = Cardinality(Free) /\ nr_free_pages \in Nat
      /\ End \notin Page /\ nxt[End] # End /\ \A r \in Free : r \in Int /\ 0 < r /\ r <= NPages
  <2>1. \A r \in Page : r \in Int /\ 0 < r /\ r <= NPages
    BY PageAssumption DEF Page
  <2>2. QED
    BY <1>1, <1>2, <1>3, <2>1, FreeIs
<1>5. nr_free_pages <= NPages
  <2>1. IsFiniteSet(Page) /\ Cardinality(Page) = NPages
    BY PageAssumption, FS_Interval DEF Page
  <2>2. QED
    BY <1>4, <2>1, FS_Subset
<1>6. 0 <= i /\ i <= SizeMax /\ p <= NPages /\ SizeMax \in Int /\ NPages \in Int /\ NPages + 2 < SizeMax
      /\ (Wrapped => i > 2)
  BY <1>1, <1>3, <1>4, <1>5, PageAssumption DEF Running, Wrapped
<1>7. CASE ~(i > 0 \/ np = End)
  <2>1. UNCHANGED <<heap, locals>> /\ pc' = IF p = End THEN "wild" ELSE "takecont"
    BY <1>7 DEF Scan, Stop
  <2>2. Steady(C)'
    BY <1>2, <2>1 DEF Steady, heap, meta, Free, Owned
  <2>3. ContAt(C)'
    <3>1. SUFFICES ASSUME p # End PROVE ContAt(C)'
      BY <2>1 DEF ContAt
    <3>2. i = 0 /\ p - (num - i) + 1 .. p \subseteq Free
      BY <1>1, <1>3, <1>6, <1>7, <3>1 DEF Running
    <3>3. UNCHANGED <<reserved, num, i, p, first>>
      BY <2>1 DEF heap, locals
    <3>4. Free' = Free
      BY <3>3 DEF Free
    <3>5. QED
      BY <1>1, <1>3, <3>2, <3>3, <3>4 DEF ContAt
  <2>4. Working(C)'
    BY <2>1, <2>3 DEF Working, IdleAt, TakeAt, ScanAt, MarkAt, HeadAt, LastAt, UpdateAt, SplitAt, EnterAt, FreeAt, SeekAt
  <2>5. QED
    BY <1>1, <1>2, <2>1, <2>2, <2>4 DEF Leads, Calm, Good
<1>8. CASE i > 0 \/ np = End
  <2>1. /\ p' = np /\ np' = nxt[np] /\ pc' = "scan" /\ UNCHANGED <<heap, num, first>>
        /\ i' = IF i > 1 /\ ~Adjacent(np, nxt[np]) /\ nxt[np] # End THEN num
                ELSE IF i = 0 THEN SizeMax ELSE i - 1
    BY <1>1, <1>3, <1>6, <1>8, Decrement DEF Scan
  <2>2. Steady(C)'
    BY <1>2, <2>1 DEF Steady, heap, meta, Free, Owned
  <2>3. Free' = Free /\ nr_free_pages' = nr_free_pages /\ nxt' = nxt
    BY <2>1 DEF heap, Free
  <2>4. np \in Free \cup {End} /\ nxt[np] \in Free \cup {End} /\ (np # End => p < np)
    <3>1. Ring(nxt, prv, Free \cup {End})
      BY <1>2 DEF Steady
    <3>2. RingNext(Free \cup {End}, p, np)
      BY <1>1, <3>1 DEF Ring
    <3>3. np \in Free \cup {End}
      BY <3>2 DEF RingNext, Least
    <3>4. RingNext(Free \cup {End}, np, nxt[np])
      BY <3>1, <3>3 DEF Ring
    <3>5. nxt[np] \in Free \cup {End}
      BY <3>4 DEF RingNext, Least
    <3>6. ASSUME np # End PROVE p < np
      <4>1. ~Least(Free \cup {End}, np)
        BY <1>3, <1>4, <3>3, <3>6 DEF Least
      <4>2. QED
        BY <3>2, <4>1 DEF RingNext
    <3>7. QED
      BY <3>3, <3>5, <3>6
  <2>5. Running' \/ Wrapped'
    <3>1. CASE np = End
      <4>1. ~Adjacent(np, nxt[np]) /\ nxt[np] # End
        BY <1>4, <3>1 DEF Adjacent
      <4>2. CASE i > 1
        BY <1>1, <1>3, <2>1, <3>1, <4>1, <4>2 DEF Running
      <4>3. CASE i = 1
        BY <1>1, <1>3, <2>1, <3>1, <4>3 DEF Running
      <4>4. CASE i = 0
        BY <1>3, <1>6, <2>1, <3>1, <4>4 DEF Wrapped
      <4>5. QED
        BY <1>3, <1>6, <4>2, <4>3, <4>4
    <3>2. CASE np # End /\ i' = num
      <4>1. np - (num - num) + 1 .. np = {}
        BY <1>3
      <4>2. QED
        BY <1>1, <1>3, <2>1, <2>3, <3>2, <4>1 DEF Running
    <3>3. CASE np # End /\ i' # num
      <4>1. i > 0 /\ i' = i - 1 /\ (i > 1 => Adjacent(np, nxt[np]) \/ nxt[np] = End)
        BY <1>3, <1>6, <1>8, <2>1, <3>3
      <4>2. CASE Wrapped
        BY <1>3, <1>6, <2>1, <2>4, <3>3, <4>1, <4>2 DEF Wrapped
      <4>3. CASE Running
        <5>1. i' \in 0..num' /\ np # End
          BY <1>3, <2>1, <3>3, <4>1, <4>3 DEF Running
        <5>2. np - (num - i') + 1 .. np \subseteq Free
          <6>1. np \in Free
            BY <2>4, <3>3
          <6>2. CASE i = num
            BY <1>3, <4>1, <6>1, <6>2
          <6>3. CASE i # num
            <7>1. p # End /\ np = p + 1 /\ p - (num - i) + 1 .. p \subseteq Free
              BY <1>3, <3>3, <4>1, <4>3, <6>3 DEF Running
            <7>2. ASSUME NEW s \in np - (num - i') + 1 .. np PROVE s \in Free
              <8>1. s = np \/ s \in p - (num - i) + 1 .. p
                BY <1>3, <4>1, <7>1
              <8>2. QED
                BY <6>1, <7>1, <8>1
            <7>3. QED
              BY <7>2
          <6>4. QED
            BY <6>2, <6>3
        <5>3. 0 < i' => nxt[np] \in {np + 1, End}
          BY <1>3, <4>1 DEF Adjacent
        <5>4. QED
          BY <2>1, <2>3, <5>1, <5>2, <5>3 DEF Running
      <4>4. QED
        BY <1>1, <4>2, <4>3
    <3>4. QED
      BY <3>1, <3>2, <3>3
  <2>6. ScanAt(C)'
    BY <1>1, <2>1, <2>3, <2>4, <2>5 DEF ScanAt
  <2>7. Working(C)'
    BY <2>1, <2>6 DEF Working, IdleAt, TakeAt, ContAt, MarkAt, HeadAt, LastAt, UpdateAt, SplitAt, EnterAt, FreeAt, SeekAt
  <2>8. QED
    BY <1>2, <2>1, <2>2, <2>7 DEF Leads, Calm, Good
<1>9. QED
  BY <1>7, <1>8

(* In a run, the next page is the next one, and the last leads to the first. *)
LEMMA RunNext ==
  ASSUME NEW n, NEW v, NEW a \in Int, NEW b \in Int, Ring(n, v, a .. b), NEW q \in a .. b
  PROVE  n[q] = IF q < b THEN q + 1 ELSE a
<1>1. RingNext(a .. b, q, n[q]) /\ q \in Int /\ a <= b /\ a <= q /\ q <= b
  BY DEF Ring
<1>2. RingNext(a .. b, q, IF q < b THEN q + 1 ELSE a)
  BY <1>1 DEF RingNext, Least
<1>3. \A s \in a .. b : s \in Int
  OBVIOUS
<1>4. QED
  BY <1>1, <1>2, <1>3, OneNext

(* A step that changes the fields of C's pages alone. *)
LEMMA MetaSteady ==
  ASSUME NEW C, Steady(C), UNCHANGED <<nxt, prv, reserved, nr_free_pages>>,
         \A q \in Owned \ C : /\ type'[q] = type[q] /\ first_page_of'[q] = first_page_of[q]
                              /\ page_count_of'[q] = page_count_of[q]
  PROVE  Steady(C)' /\ Free' = Free
<1>1. Owned' = Owned /\ Free' = Free
  BY DEF Owned, Free
<1>2. PICK R : R = Owned \ C
  OBVIOUS
<1>3. Keeps(R, nxt, prv, type, first_page_of, page_count_of, nxt', prv', type', first_page_of', page_count_of')
  BY <1>2 DEF Keeps
<1>4. Settled(R, nxt, prv, type, first_page_of, page_count_of)
  BY <1>2 DEF Steady
<1>5. Settled(R, nxt', prv', type', first_page_of', page_count_of')
  BY <1>3, <1>4, SettledSame
<1>6. QED
  BY <1>1, <1>2, <1>5 DEF Steady

LEMMA TakeContGood ==
  ASSUME TypeOK, Linked, NEW C, Good(C), TakeCont, NEW D, D = IF i = num THEN C ELSE C \cup {p}
  PROVE  Leads(D)
<1>1. /\ pc = "takecont" /\ num > 0 /\ i \in 0..num /\ p - (num - i) + 1 .. p \subseteq Free
      /\ IF first = End THEN i = 0 /\ C = {}
         ELSE i > 0 /\ first = p + 1 /\ C = first .. first + i - 1 /\ Ring(nxt, prv, C)
  BY DEF TakeCont, Good, Working, ContAt
<1>2. Steady(C) /\ C \in SUBSET Page
  BY DEF Good
<1>3. num \in Int /\ i \in Int /\ p \in Int /\ first \in Int /\ End = 0
  BY DEF TypeOK, Node, End
<1>4. CASE i = num
  <2>1. /\ first # End /\ i > 0 /\ C = first .. first + num - 1 /\ Ring(nxt, prv, C)
    BY <1>1, <1>3, <1>4
  <2>2. /\ pc' = "marktail" /\ p' = nxt[first] /\ i' = 1
        /\ UNCHANGED <<nxt, prv, reserved, nr_free_pages, first, meta, num>>
    BY <1>4 DEF TakeCont
  <2>3. Steady(C)'
    BY <1>2, <2>2 DEF Steady, meta, Free, Owned
  <2>4. nxt[first] = IF 1 < num THEN first + 1 ELSE first
    <3>1. first \in first .. first + num - 1 /\ first + num - 1 \in Int
      BY <1>1, <1>3
    <3>2. nxt[first] = IF first < first + num - 1 THEN first + 1 ELSE first
      BY <1>3, <2>1, <3>1, RunNext
    <3>3. QED
      BY <1>3, <3>2
  <2>5. Tails(first, first .. first, type', first_page_of')
    BY <1>3 DEF Tails
  <2>6. MarkAt(C)'
    BY <1>1, <1>3, <2>1, <2>2, <2>4, <2>5 DEF MarkAt
  <2>7. Working(C)'
    BY <2>2, <2>6 DEF Working, IdleAt, TakeAt, ScanAt, ContAt, HeadAt, LastAt, UpdateAt, SplitAt, EnterAt, FreeAt, SeekAt
  <2>8. QED
    BY <1>2, <1>4, <2>2, <2>3, <2>7 DEF Leads, Calm, Good
<1>5. CASE i # num
  <2>1. p \in p - (num - i) + 1 .. p /\ i < num
    BY <1>1, <1>3, <1>5
  <2>2. p \in Free /\ p # End
    BY <1>1, <1>2, <2>1, FreeIs
  <2>3. /\ reserved' = reserved \cup {p} /\ nr_free_pages' = nr_free_pages - 1
        /\ nxt' = IF first = End THEN DelNext(nxt, prv, p) ELSE MoveNext(nxt, prv, first, p)
        /\ prv' = IF first = End THEN DelPrev(nxt, prv, p) ELSE MovePrev(nxt, prv, first, p)
        /\ first' = p /\ p' = p - 1 /\ i' = i + 1 /\ UNCHANGED <<pc, meta, num>>
    BY <1>5, <2>2 DEF TakeCont
  <2>4. Takes(C, p, first)
    <3>1. CASE first = End
      BY <1>1, <2>3, <3>1 DEF Takes, meta
    <3>2. CASE first # End
      <4>1. first \in C /\ Ring(nxt, prv, C) /\ RingNext(C, p, first)
        BY <1>1, <1>3, <3>2 DEF RingNext
      <4>2. QED
        BY <2>3, <3>2, <4>1 DEF Takes, meta
    <3>3. QED
      BY <3>1, <3>2
  <2>5. D = C \cup {p}
    BY <1>5
  <2>6. Free' = Free \ {p} /\ D \in SUBSET Page /\ Steady(D)' /\ Ring(nxt', prv', D)
    BY <1>2, <2>2, <2>4, <2>5, TakeFree
  <2>7. D = p .. p + (i + 1) - 1
    <3>1. CASE first = End
      <4>1. C = {} /\ i = 0 /\ p \in Int
        BY <1>1, <1>3, <3>1
      <4>2. D = {p} /\ p + (i + 1) - 1 = p
        BY <2>5, <4>1
      <4>3. p .. p = {p}
        BY <4>1
      <4>4. QED
        BY <4>2, <4>3
    <3>2. CASE first # End
      <4>1. \A q : q \in D <=> q = p \/ q \in p + 1 .. p + i
        BY <1>1, <1>3, <2>5, <3>2
      <4>2. \A q : q \in p .. p + (i + 1) - 1 <=> q = p \/ q \in p + 1 .. p + i
        BY <1>1, <1>3
      <4>3. QED
        BY <4>1, <4>2
    <3>3. QED
      BY <3>1, <3>2
  <2>8. (p - 1) - (num - (i + 1)) + 1 .. p - 1 \subseteq Free'
    <3>1. \A q \in (p - 1) - (num - (i + 1)) + 1 .. p - 1 : q \in p - (num - i) + 1 .. p /\ q # p
      BY <1>3
    <3>2. QED
      BY <1>1, <2>6, <3>1
  <2>9. ContAt(D)'
    <3>1. i' \in 0..num' /\ i' > 0 /\ num' > 0 /\ first' = p' + 1
      BY <1>1, <1>3, <2>1, <2>3
    <3>2. QED
      BY <2>2, <2>3, <2>6, <2>7, <2>8, <3>1 DEF ContAt
  <2>10. Working(D)'
    BY <1>1, <2>3, <2>9 DEF Working, IdleAt, TakeAt, ScanAt, MarkAt, HeadAt, LastAt, UpdateAt, SplitAt, EnterAt, FreeAt, SeekAt
  <2>11. QED
    BY <1>1, <2>3, <2>6, <2>10 DEF Leads, Calm, Good
<1>6. QED
  BY <1>4, <1>5

LEMMA MarkTailGood ==
  ASSUME TypeOK, NEW C, Good(C), MarkTail, NEW D, D = IF i < num THEN C ELSE {}
  PROVE  Leads(D)
<1>1. /\ pc = "marktail" /\ i \in 1..num /\ first # End /\ C = first .. first + num - 1
      /\ Ring(nxt, prv, C) /\ p = (IF i < num THEN first + i ELSE first)
      /\ Tails(first, first .. first + i - 1, type, first_page_of)
  BY DEF MarkTail, Good, Working, MarkAt
<1>2. Steady(C) /\ C \in SUBSET Page /\ Page \subseteq Node
  BY DEF Good, Page, Node
<1>3. num \in Int /\ i \in Int /\ p \in Int /\ first \in Int
  BY DEF TypeOK, Node
<1>4. CASE i < num
  <2>1. /\ type' = [type EXCEPT ![p] = "tail"]
        /\ first_page_of' = [first_page_of EXCEPT ![p] = first]
        /\ i' = i + 1 /\ p' = nxt[p] /\ pc' = pc
        /\ UNCHANGED <<nxt, prv, reserved, nr_free_pages, page_count_of, num, first>>
    BY <1>4 DEF MarkTail
  <2>2. p = first + i /\ p \in C /\ p \in Node
    BY <1>1, <1>2, <1>3, <1>4
  <2>3. Steady(C)'
    <3>1. \A q \in Owned \ C : /\ type'[q] = type[q] /\ first_page_of'[q] = first_page_of[q]
                               /\ page_count_of'[q] = page_count_of[q]
      <4>1. Owned \subseteq Node
        BY <1>2 DEF Owned, TypeOK
      <4>2. QED
        BY <2>1, <2>2, <4>1 DEF TypeOK
    <3>2. QED
      BY <1>2, <2>1, <3>1, MetaSteady
  <2>4. nxt[p] = IF i + 1 < num THEN first + (i + 1) ELSE first
    <3>1. nxt[p] = IF p < first + num - 1 THEN p + 1 ELSE first
      <4>1. first + num - 1 \in Int
        BY <1>3
      <4>2. QED
        BY <1>1, <1>3, <2>2, <4>1, RunNext
    <3>2. QED
      BY <1>3, <1>4, <2>2, <3>1
  <2>5. Tails(first, first .. first + (i + 1) - 1, type', first_page_of')
    <3>1. ASSUME NEW q \in (first .. first + (i + 1) - 1) \ {first} PROVE type'[q] = "tail" /\ first_page_of'[q] = first
      <4>1. q = p \/ (q # p /\ q \in (first .. first + i - 1) \ {first})
        BY <1>3, <2>2
      <4>2. q \in C
        BY <1>1, <1>3, <1>4
      <4>3. q \in Node
        BY <1>2, <4>2
      <4>4. QED
        BY <1>1, <2>1, <2>2, <4>1, <4>3 DEF Tails, TypeOK
    <3>2. QED
      BY <3>1 DEF Tails
  <2>6. MarkAt(C)'
    <3>1. i' \in 1..num'
      BY <1>1, <1>3, <1>4, <2>1
    <3>2. QED
      BY <1>1, <2>1, <2>4, <2>5, <3>1 DEF MarkAt
  <2>7. Working(C)'
    BY <1>1, <2>1, <2>6 DEF Working, IdleAt, TakeAt, ScanAt, ContAt, HeadAt, LastAt, UpdateAt, SplitAt, EnterAt, FreeAt, SeekAt
  <2>8. QED
    BY <1>1, <1>2, <1>4, <2>1, <2>3, <2>7 DEF Leads, Calm, Good
<1>5. CASE ~(i < num)
  <2>1. i = num /\ p = first /\ first \in C
    BY <1>1, <1>3, <1>5
  <2>2. /\ type' = [type EXCEPT ![first] = "generic"]
        /\ page_count_of' = [page_count_of EXCEPT ![first] = num]
        /\ Return /\ UNCHANGED <<nxt, prv, reserved, first_page_of, nr_free_pages>>
    BY <1>5, <2>1 DEF MarkTail
  <2>3. Least(C, first) /\ Tails(first, C, type, first_page_of)
    BY <1>1, <1>3, <2>1 DEF Least
  <2>4. Cardinality(C) = num
    <3>1. first + num - 1 \in Int
      BY <1>3
    <3>2. Cardinality(C) = IF first > first + num - 1 THEN 0 ELSE (first + num - 1) - first + 1
      BY <1>1, <1>3, <3>1, FS_Interval
    <3>3. QED
      BY <1>1, <1>3, <3>2
  <2>5. QED
    BY <1>1, <1>2, <1>5, <2>1, <2>2, <2>3, <2>4, NewList
<1>6. QED
  BY <1>4, <1>5

LEMMA FreeEnterGood ==
  ASSUME TypeOK, NEW C, Good(C), FreeEnter PROVE Leads(C)
<1>1. /\ pc = "enter" /\ base \in C /\ i = 0 /\ Ring(nxt, prv, C)
      /\ Headed(first_page(base), C, type, first_page_of, page_count_of)
  BY DEF FreeEnter, Good, Working, EnterAt
<1>2. /\ pc' = "free" /\ num' = page_count(base) /\ p' = first_page(base) /\ freep' = nxt[End]
      /\ UNCHANGED <<heap, i>>
  BY DEF FreeEnter, first_free_page
<1>3. Steady(C) /\ C \in SUBSET Page
  BY DEF Good
<1>4. Steady(C)' /\ Free' = Free
  BY <1>2, <1>3 DEF Steady, heap, meta, Free, Owned
<1>5. num' = Cardinality(C) /\ Least(C, p') /\ Cardinality(C) \in Nat
  BY <1>1, <1>2, <1>3, PagesFinite DEF page_count, Headed
<1>6. /\ nxt[End] \in Free \cup {End} /\ (nxt[End] = End => nr_free_pages = 0)
      /\ nr_free_pages = Cardinality(Free) /\ IsFiniteSet(Free)
      /\ \A r \in Free : nxt[End] <= r /\ r \in Int /\ nxt[End] \in Int
  <2>1. /\ nxt[End] \in Free \cup {End} /\ (nxt[End] = End => nr_free_pages = 0) /\ Free \cup {End} \in SUBSET Node
        /\ nr_free_pages = Cardinality(Free) /\ IsFiniteSet(Free)
        /\ (\A r \in Free : nxt[End] <= r) /\ \A q \in Node : q \in Int
    BY <1>3, FreeIs
  <2>2. QED
    BY <2>1
<1>7. nxt[End] = End => Free = {}
  BY <1>6, FS_EmptySet
<1>8. Passed(C)'
  BY <1>2, <1>4, <1>6, <1>7 DEF Passed
<1>9. FreeAt(C)'
  BY <1>1, <1>2, <1>5, <1>8 DEF FreeAt, heap
<1>10. Working(C)'
  BY <1>2, <1>9 DEF Working, IdleAt, TakeAt, ScanAt, ContAt, MarkAt, HeadAt, LastAt, UpdateAt, SplitAt, EnterAt, SeekAt
<1>11. QED
  BY <1>2, <1>3, <1>4, <1>10 DEF Leads, Calm, Good

(* A step that changes the pointers of C's pages alone. *)
LEMMA LinkSteady ==
  ASSUME TypeOK, NEW C, Steady(C), UNCHANGED <<reserved, nr_free_pages, type, first_page_of, page_count_of>>,
         \A q \in Node \ C : nxt'[q] = nxt[q] /\ prv'[q] = prv[q]
  PROVE  Steady(C)' /\ Free' = Free /\ Owned' = Owned
<1>1. Owned' = Owned /\ Free' = Free
  BY DEF Owned, Free
<1>2. PICK R, F : R = Owned \ C /\ F = Free \cup {End}
  OBVIOUS
<1>3. R \subseteq Node \ C /\ F \subseteq Node \ C
  <2>1. Page \subseteq Node
    BY DEF Page, Node
  <2>2. Owned \subseteq Page /\ C \subseteq Owned /\ F \subseteq Node /\ Owned \cap F = {}
    BY <1>2, FreeIs DEF Steady
  <2>3. QED
    BY <1>2, <2>1, <2>2
<1>4. Keeps(R, nxt, prv, type, first_page_of, page_count_of, nxt', prv', type', first_page_of', page_count_of')
  BY <1>3 DEF Keeps
<1>5. Settled(R, nxt, prv, type, first_page_of, page_count_of) /\ Ring(nxt, prv, F)
  BY <1>2 DEF Steady
<1>6. Settled(R, nxt', prv', type', first_page_of', page_count_of')
  BY <1>4, <1>5, SettledSame
<1>7. Ring(nxt', prv', F)
  <2>1. \A q \in F : nxt'[q] = nxt[q] /\ prv'[q] = prv[q]
    BY <1>3
  <2>2. QED
    BY <1>5, <2>1, RingSame
<1>8. QED
  BY <1>1, <1>2, <1>6, <1>7 DEF Steady

LEMMA FreeDeleteGood ==
  ASSUME TypeOK, Linked, NEW C, Good(C), FreeDelete PROVE Leads(C)
<1>1. /\ pc = "free" /\ Ring(nxt, prv, C) /\ i = num - Cardinality(C) /\ Passed(C)
      /\ (C # {} => Least(C, p))
  BY DEF FreeDelete, Good, Working, FreeAt
<1>2. Steady(C) /\ C \in SUBSET Page /\ IsFiniteSet(C) /\ Cardinality(C) \in Nat
  BY PagesFinite DEF Good
<1>3. i \in Int /\ num \in Int
  BY DEF TypeOK
<1>4. CASE i = num
  <2>1. C = {}
    BY <1>1, <1>2, <1>3, <1>4, FS_EmptySet
  <2>2. Return /\ UNCHANGED <<nxt, prv, reserved, nr_free_pages, meta>>
    BY <1>4 DEF FreeDelete
  <2>3. Steady(C)'
    BY <1>2, <2>2 DEF Steady, meta, Free, Owned
  <2>4. Working(C)'
    BY <2>1, <2>2 DEF Return, Working, IdleAt, NoLocals, TakeAt, ScanAt, ContAt, MarkAt, HeadAt, LastAt, UpdateAt, SplitAt,
       EnterAt, FreeAt, SeekAt
  <2>5. QED
    BY <1>2, <2>2, <2>3, <2>4 DEF Return, Leads, Calm, Good
<1>5. CASE i # num
  <2>1. C # {}
    BY <1>1, <1>2, <1>3, <1>5, FS_EmptySet
  <2>2. Least(C, p) /\ p \in C /\ C \in SUBSET Node /\ p \in Node /\ \A q \in C : q \in Int
    <3>1. Page \subseteq Node /\ \A q \in Page : q \in Int
      BY DEF Page, Node
    <3>2. Least(C, p) /\ p \in C
      BY <1>1, <2>1 DEF Least
    <3>3. QED
      BY <1>2, <3>1, <3>2
  <2>3. /\ nxt' = DelNext(nxt, prv, p) /\ prv' = DelPrev(nxt, prv, p) /\ np' = nxt[p] /\ pc' = "seek"
        /\ UNCHANGED <<reserved, nr_free_pages, meta, num, i, p, freep>>
    BY <1>5 DEF FreeDelete
  <2>4. Pointers(nxt, prv, Node) /\ Closed(nxt, prv, Node)
    BY DEF TypeOK, Linked, Pointers, Closed
  <2>5. /\ Ring(nxt', prv', C \ {p})
        /\ \A q \in Node \ C : nxt'[q] = nxt[q] /\ prv'[q] = prv[q]
    BY <1>1, <2>2, <2>3, <2>4, RingDel
  <2>6. nxt'[p] = p /\ prv'[p] = p
    BY <2>2, <2>3, <2>4, DelClosed
  <2>7. Steady(C)' /\ Free' = Free
    BY <1>2, <2>3, <2>5, LinkSteady DEF meta
  <2>8. ASSUME C # {p} PROVE Least(C \ {p}, nxt[p])
    <3>1. PICK s \in C : s # p
      BY <2>2, <2>8
    <3>2. RingNext(C, p, nxt[p]) /\ p < s
      BY <1>1, <2>2, <3>1 DEF Ring, Least
    <3>3. p < nxt[p] /\ nxt[p] \in C /\ ~\E r \in C : p < r /\ r < nxt[p]
      BY <3>2 DEF RingNext
    <3>4. QED
      BY <2>2, <3>3 DEF Least
  <2>9. Passed(C)'
    BY <1>1, <2>3, <2>7 DEF Passed
  <2>10. SeekAt(C)'
    BY <1>1, <2>2, <2>3, <2>5, <2>6, <2>8, <2>9 DEF SeekAt
  <2>11. Working(C)'
    BY <2>3, <2>10 DEF Working, IdleAt, TakeAt, ScanAt, ContAt, MarkAt, HeadAt, LastAt, UpdateAt, SplitAt, EnterAt, FreeAt
  <2>12. QED
    BY <1>2, <2>3, <2>7, <2>11 DEF Leads, Calm, Good
<1>6. QED
  BY <1>4, <1>5

LEMMA FreeInsertGood ==
  ASSUME TypeOK, Linked, NEW C, Good(C), FreeInsert,
         NEW D, D = IF freep # End /\ freep < p THEN C ELSE C \ {p}
  PROVE  Leads(D)
<1>1. /\ pc = "seek" /\ Least(C, p) /\ nxt[p] = p /\ prv[p] = p /\ i = num - Cardinality(C) /\ Passed(C)
      /\ Ring(nxt, prv, C \ {p}) /\ (C # {p} => Least(C \ {p}, np))
  BY DEF FreeInsert, Good, Working, SeekAt
<1>2. Steady(C) /\ C \in SUBSET Page /\ IsFiniteSet(C) /\ Cardinality(C) \in Nat
  BY PagesFinite DEF Good
<1>3. /\ Free \in SUBSET Page /\ Owned \in SUBSET Page /\ Free \cup {End} \in SUBSET Node
      /\ Owned \cap (Free \cup {End}) = {} /\ End \notin Page /\ Page \subseteq Node /\ End = 0
      /\ IsFiniteSet(Free) /\ nr_free_pages = Cardinality(Free) /\ nr_free_pages \in Nat
      /\ (\A q \in Node : q \in Int) /\ \A q \in Page : 0 < q
  <2>1. Page \subseteq Node /\ End = 0 /\ \A q \in Page : 0 < q
    BY DEF Page, Node, End
  <2>2. QED
    BY <1>2, <2>1, FreeIs
<1>4. /\ p \in C /\ p \in Owned /\ p \in reserved /\ p \in Int /\ p \in Node /\ p \notin Free /\ NOccupied < p /\ p \in Page
      /\ freep \in Free \cup {End} /\ freep \in Int /\ freep # p
  <2>1. p \in C /\ C \subseteq Owned /\ freep \in Free \cup {End}
    BY <1>1, <1>2 DEF Least, Steady, Passed
  <2>2. p \in Owned
    BY <2>1
  <2>3. p \in reserved /\ NOccupied < p
    BY <2>2 DEF Owned
  <2>4. QED
    BY <1>3, <2>1, <2>2, <2>3
<1>5. CASE freep # End /\ freep < p
  <2>1. freep' = nxt[freep] /\ pc' = pc /\ UNCHANGED <<nxt, prv, reserved, nr_free_pages, i, p, meta, num, np>>
    BY <1>5 DEF FreeInsert
  <2>2. Steady(C)' /\ Free' = Free
    BY <1>2, <2>1 DEF Steady, meta, Free, Owned
  <2>3. RingNext(Free \cup {End}, freep, nxt[freep])
    BY <1>2, <1>4 DEF Steady, Ring
  <2>4. nxt[freep] \in Free \cup {End}
    BY <2>3 DEF RingNext, Least
  <2>5. ASSUME NEW r \in Free, nxt[freep] = End \/ r < nxt[freep] PROVE r <= freep
    <3>1. r \in Int /\ 0 < r /\ nxt[freep] \in Int
      BY <1>3, <2>4
    <3>2. QED
      BY <1>3, <1>4, <2>3, <2>5, <3>1 DEF RingNext, Least
  <2>6. Passed(C)'
    <3>1. ASSUME NEW r \in Free, NEW q \in C, nxt[freep] = End \/ r < nxt[freep] PROVE r < q
      <4>1. r <= freep /\ p <= q /\ q \in Int /\ r \in Int
        BY <1>1, <1>2, <1>3, <2>5, <3>1 DEF Least
      <4>2. QED
        BY <1>4, <1>5, <4>1
    <3>2. QED
      BY <2>1, <2>2, <2>4, <3>1 DEF Passed
  <2>7. SeekAt(C)'
    BY <1>1, <2>1, <2>6 DEF SeekAt
  <2>8. Working(C)'
    BY <1>1, <2>1, <2>7 DEF Working, IdleAt, TakeAt, ScanAt, ContAt, MarkAt, HeadAt, LastAt, UpdateAt, SplitAt, EnterAt, FreeAt
  <2>9. QED
    BY <1>1, <1>2, <1>5, <2>1, <2>2, <2>8 DEF Leads, Calm, Good
<1>6. CASE ~(freep # End /\ freep < p)
  <2>1. /\ reserved' = reserved \ {p} /\ nr_free_pages' = nr_free_pages + 1 /\ p' = np /\ i' = i + 1 /\ pc' = "free"
        /\ nxt' = AddNext(nxt, prv, freep, p) /\ prv' = AddPrev(nxt, prv, freep, p)
        /\ UNCHANGED <<freep, meta, num>>
    BY <1>4, <1>6 DEF FreeInsert
  <2>2. PICK F, R : D = C \ {p} /\ F = Free \cup {End} /\ R = Owned \ C
    BY <1>6
  <2>3. Pointers(nxt, prv, Node) /\ Closed(nxt, prv, Node)
    BY DEF TypeOK, Linked, Pointers, Closed
  <2>4. RingNext(F, p, freep)
    <3>1. CASE freep = End
      <4>1. \A r \in Free : r \in Int /\ 0 < r /\ r < p
        BY <1>1, <1>3, <1>4, <3>1 DEF Passed
      <4>2. QED
        BY <1>3, <1>4, <2>2, <3>1, <4>1 DEF RingNext, Least
    <3>2. CASE freep # End
      <4>1. p < freep /\ freep \in F
        BY <1>4, <1>6, <2>2, <3>2
      <4>2. \A r \in Free : r \in Int /\ (r < freep => r < p)
        BY <1>1, <1>3, <1>4 DEF Passed
      <4>3. ~\E s \in F : p < s /\ s < freep
        BY <1>3, <1>4, <2>2, <4>2
      <4>4. QED
        BY <4>1, <4>3 DEF RingNext
    <3>3. QED
      BY <3>1, <3>2
  <2>5. p \in Node \ F /\ F \in SUBSET Node /\ Ring(nxt, prv, F) /\ freep \in F
    BY <1>2, <1>3, <1>4, <2>2 DEF Steady
  <2>6. /\ Ring(nxt', prv', F \cup {p})
        /\ \A q \in Node \ (F \cup {p}) : nxt'[q] = nxt[q] /\ prv'[q] = prv[q]
    <3>1. Adds(nxt, prv, AddNext(nxt, prv, freep, p), AddPrev(nxt, prv, freep, p), F, p)
      BY <1>1, <2>3, <2>4, <2>5, RingAdd
    <3>2. QED
      BY <2>1, <3>1 DEF Adds
  <2>7. /\ Free' = Free \cup {p} /\ Owned' = Owned \ {p} /\ Owned' \ D = R /\ D \subseteq Owned' /\ D \in SUBSET Page
        /\ Free' \cup {End} = F \cup {p} /\ C \subseteq Owned /\ 1..NOccupied \subseteq reserved'
    <3>1. Free' = Free \cup {p}
      BY <1>4, <2>1 DEF Free
    <3>2. Owned' = Owned \ {p}
      BY <2>1 DEF Owned
    <3>3. C \subseteq Owned /\ 1..NOccupied \subseteq reserved
      BY <1>2 DEF Steady
    <3>4. p \notin 1..NOccupied
      BY <1>4, PageAssumption
    <3>5. QED
      BY <1>2, <1>4, <2>1, <2>2, <3>1, <3>2, <3>3, <3>4
  <2>8. nr_free_pages' = Cardinality(Free') /\ Cardinality(D) = Cardinality(C) - 1
    <3>1. Cardinality(Free \cup {p}) = Cardinality(Free) + 1
      BY <1>3, <1>4, FS_AddElement
    <3>2. Cardinality(C \ {p}) = Cardinality(C) - 1
      BY <1>2, <1>4, FS_RemoveElement
    <3>3. QED
      BY <1>3, <2>1, <2>2, <2>7, <3>1, <3>2
  <2>9. (\A q \in R : q \in Node \ (F \cup {p})) /\ (\A q \in D : q \in Node \ (F \cup {p}))
    BY <1>3, <1>4, <2>2, <2>7
  <2>10. Settled(R, nxt', prv', type', first_page_of', page_count_of')
    <3>1. Keeps(R, nxt, prv, type, first_page_of, page_count_of, nxt', prv', type', first_page_of', page_count_of')
      BY <2>1, <2>6, <2>9 DEF Keeps, meta
    <3>2. Settled(R, nxt, prv, type, first_page_of, page_count_of)
      BY <1>2, <2>2 DEF Steady
    <3>3. QED
      BY <3>1, <3>2, SettledSame
  <2>11. Ring(nxt', prv', D)
    <3>1. Ring(nxt, prv, D)
      BY <1>1, <2>2
    <3>2. \A q \in D : nxt'[q] = nxt[q] /\ prv'[q] = prv[q]
      BY <2>6, <2>9
    <3>3. QED
      BY <3>1, <3>2, RingSame
  <2>12. Steady(D)'
    BY <2>6, <2>7, <2>8, <2>10 DEF Steady
  <2>13. Passed(D)'
    <3>1. ASSUME NEW r \in Free', NEW q \in D, freep = End \/ r < freep PROVE r < q
      <4>1. CASE r = p
        BY <1>1, <1>2, <1>3, <2>2, <4>1 DEF Least
      <4>2. CASE r # p
        BY <1>1, <2>2, <2>7, <3>1, <4>2 DEF Passed
      <4>3. QED
        BY <4>1, <4>2
    <3>2. QED
      BY <1>4, <2>1, <2>7, <3>1 DEF Passed
  <2>14. FreeAt(D)'
    <3>1. D # {} => Least(D, p')
      BY <1>1, <1>4, <2>1, <2>2
    <3>2. i' = num' - Cardinality(D)
      BY <1>1, <1>2, <2>1, <2>8 DEF TypeOK
    <3>3. QED
      BY <2>11, <2>13, <3>1, <3>2 DEF FreeAt
  <2>15. Working(D)'
    BY <2>1, <2>14 DEF Working, IdleAt, TakeAt, ScanAt, ContAt, MarkAt, HeadAt, LastAt, UpdateAt, SplitAt, EnterAt, SeekAt
  <2>16. QED
    BY <2>1, <2>7, <2>12, <2>15 DEF Leads, Calm, Good
<1>7. QED
  BY <1>5, <1>6

(* The next page of a ring, which is above unless the page is the last. *)
LEMMA NextAbove ==
  ASSUME NEW n, NEW v, NEW S, Ring(n, v, S), \A s \in S : s \in Int, NEW f, Least(S, f), NEW q \in S
  PROVE  /\ n[q] \in S /\ n[q] \in Int
         /\ IF \E s \in S : q < s THEN q < n[q] /\ \A s \in S : s < n[q] => s <= q
                                  ELSE n[q] = f /\ \A s \in S : s <= q
<1>1. RingNext(S, q, n[q])
  BY DEF Ring
<1>2. n[q] \in S /\ n[q] \in Int /\ f \in S
  BY <1>1 DEF RingNext, Least
<1>3. CASE \E s \in S : q < s
  <2>1. q < n[q] /\ ~\E s \in S : q < s /\ s < n[q]
    BY <1>1, <1>3 DEF RingNext
  <2>2. QED
    BY <1>2, <1>3, <2>1
<1>4. CASE ~\E s \in S : q < s
  <2>1. Least(S, n[q])
    BY <1>1, <1>4 DEF RingNext
  <2>2. n[q] = f
    BY <1>2, <2>1 DEF Least
  <2>3. QED
    BY <1>2, <1>4, <2>2
<1>5. QED
  BY <1>3, <1>4

LEMMA HeadWalkGood ==
  ASSUME TypeOK, NEW C, Good(C), HeadWalk PROVE Leads(C)
<1>1. /\ pc = "head" /\ Cut(C) /\ Headed(first, C, type, first_page_of, page_count_of)
      /\ num <= Cardinality({q \in C : base <= q}) /\ i = 0 /\ seg = 1
      /\ p \in C /\ p <= base /\ head_len = Cardinality({q \in C : q < p})
  BY DEF HeadWalk, Good, Working, HeadAt
<1>2. Steady(C) /\ C \in SUBSET Page /\ C \subseteq reserved /\ \A q \in C : q \in Int
  BY DEF Good, Steady, Owned, Page
<1>3. UNCHANGED <<heap, num, i, first, base, total, seg>>
  BY DEF HeadWalk
<1>4. Steady(C)'
  BY <1>2, <1>3 DEF Steady, heap, meta, Free, Owned
<1>5. Cut(C)' /\ Headed(first', C, type', first_page_of', page_count_of')
  BY <1>1, <1>3 DEF Cut, heap, meta
<1>6. base \in C /\ base \in Int /\ num \in Int /\ head_len \in Int /\ p \in Int /\ num > 0
  BY <1>1, <1>2 DEF Cut, TypeOK
<1>7. CASE p = base
  <2>1. pc' = "last" /\ last' = base /\ UNCHANGED head_len
    BY <1>7 DEF HeadWalk
  <2>2. Top' = base /\ base' = base /\ i' = 0 /\ num' = num
    BY <1>1, <1>3, <2>1 DEF Top
  <2>3. Before(C)' = {q \in C : q < p} /\ Freed(C)' = {}
    <3>1. Before(C)' = {q \in C : q < p}
      BY <1>7, <2>2 DEF Before
    <3>2. \A q \in C : ~(base <= q /\ q < base)
      BY <1>2, <1>6
    <3>3. Freed(C)' = {}
      BY <2>2, <3>2 DEF Freed
    <3>4. QED
      BY <3>1, <3>3
  <2>4. LastAt(C)'
    BY <1>1, <1>3, <1>5, <1>6, <2>1, <2>2, <2>3, FS_EmptySet DEF LastAt
  <2>5. Working(C)'
    BY <2>1, <2>4 DEF Working, IdleAt, TakeAt, ScanAt, ContAt, MarkAt, HeadAt, UpdateAt, SplitAt, EnterAt, FreeAt, SeekAt
  <2>6. QED
    BY <1>2, <1>4, <2>1, <2>5 DEF Leads, Calm, Good
<1>8. CASE p # base
  <2>1. pc' = pc /\ head_len' = head_len + 1 /\ p' = nxt[p]
    BY <1>1, <1>2, <1>8 DEF HeadWalk
  <2>2. Ring(nxt, prv, C) /\ Least(C, first) /\ p < base
    BY <1>1, <1>6, <1>8 DEF Cut
  <2>3. nxt[p] \in C /\ nxt[p] \in Int /\ p < nxt[p] /\ \A s \in C : s < nxt[p] => s <= p
    BY <1>1, <1>2, <1>6, <2>2, NextAbove
  <2>4. nxt[p] <= base
    BY <1>6, <2>2, <2>3
  <2>5. {q \in C : q < nxt[p]} = {q \in C : q < p} \cup {p} /\ p \notin {q \in C : q < p}
    <3>1. \A q \in C : q < nxt[p] <=> q < p \/ q = p
      <4>1. ASSUME NEW q \in C PROVE q < nxt[p] <=> q < p \/ q = p
        <5>1. q \in Int /\ (q < nxt[p] => q <= p)
          BY <1>2, <2>3
        <5>2. QED
          BY <1>6, <2>3, <5>1
      <4>2. QED
        BY <4>1
    <3>2. ~(p < p)
      BY <1>6
    <3>3. QED
      BY <1>1, <3>1, <3>2
  <2>6. Cardinality({q \in C : q < nxt[p]}) = Cardinality({q \in C : q < p}) + 1
    <3>1. IsFiniteSet({q \in C : q < p})
      BY <1>2, PagesFinite
    <3>2. QED
      BY <2>5, <3>1, FS_AddElement
  <2>7. HeadAt(C)'
    BY <1>1, <1>3, <1>5, <2>1, <2>3, <2>4, <2>6 DEF HeadAt
  <2>8. Working(C)'
    BY <1>1, <2>1, <2>7 DEF Working, IdleAt, TakeAt, ScanAt, ContAt, MarkAt, LastAt, UpdateAt, SplitAt, EnterAt, FreeAt, SeekAt
  <2>9. QED
    BY <1>1, <1>2, <1>4, <2>1, <2>8 DEF Leads, Calm, Good
<1>9. QED
  BY <1>7, <1>8

LEMMA LastWalkGood ==
  ASSUME TypeOK, NEW C, Good(C), LastWalk PROVE Leads(C)
<1>1. /\ pc = "last" /\ Cut(C) /\ Headed(first, C, type, first_page_of, page_count_of)
      /\ num <= Cardinality({q \in C : base <= q}) /\ seg = 1
      /\ head_len = Cardinality(Before(C))
      /\ last \in C /\ base <= Top /\ i \in 0..num /\ i = Cardinality(Freed(C))
  BY DEF LastWalk, Good, Working, LastAt
<1>2. /\ Steady(C) /\ C \in SUBSET Page /\ C \subseteq reserved /\ C \subseteq Node
      /\ \A q \in C : q \in Int /\ q <= NPages /\ q < NPages + 1
  <2>1. \A q \in Page : q \in Int /\ q \in Node /\ q <= NPages /\ q < NPages + 1
    BY PageAssumption DEF Page, Node
  <2>2. Steady(C) /\ C \in SUBSET Page /\ C \subseteq reserved
    BY DEF Good, Steady, Owned
  <2>3. QED
    BY <2>1, <2>2
<1>3. UNCHANGED <<nxt, prv, reserved, first_page_of, page_count_of, nr_free_pages, num, first, base, head_len, total, seg>>
  BY DEF LastWalk
<1>4. /\ base \in C /\ base \in Int /\ num \in Int /\ i \in Int /\ last \in Int /\ num > 0 /\ first \in C /\ first \in Int
      /\ Ring(nxt, prv, C) /\ Least(C, first) /\ \A q \in C : first <= q
  BY <1>1, <1>2 DEF Cut, TypeOK, Least
<1>5. Top \in Int /\ IsFiniteSet(Freed(C))
  <2>1. Top \in Int
    BY <1>4, PageAssumption DEF Top
  <2>2. Freed(C) \in SUBSET Page
    BY <1>2 DEF Freed
  <2>3. QED
    BY <2>1, <2>2, PagesFinite
<1>6. CASE i # num
  <2>1. i < num
    BY <1>1, <1>4, <1>6
  <2>2. ~(i > 0 /\ last = first)
    <3>1. SUFFICES ASSUME i > 0, last = first PROVE FALSE
      OBVIOUS
    <3>2. Top = NPages + 1
      BY <3>1 DEF Top
    <3>3. Freed(C) = {q \in C : base <= q}
      BY <1>2, <3>2 DEF Freed
    <3>4. QED
      BY <1>1, <1>4, <2>1, <3>3
  <2>3. Top = last /\ base <= last
    BY <1>1, <2>2 DEF Top
  <2>4. i = 0 => last = base
    <3>1. SUFFICES ASSUME i = 0, last # base PROVE FALSE
      OBVIOUS
    <3>2. base \in Freed(C)
      BY <1>4, <2>3, <3>1 DEF Freed
    <3>3. QED
      BY <1>1, <1>5, <3>1, <3>2, FS_EmptySet
  <2>5. (last # first \/ last = base) /\ last \in reserved
    BY <1>1, <1>2, <1>4, <2>2, <2>4
  <2>6. i' = i + 1 /\ last' = nxt[last] /\ pc' = pc /\ type' = type
    BY <1>6, <2>5 DEF LastWalk
  <2>7. /\ nxt[last] \in C /\ nxt[last] \in Int
        /\ IF \E s \in C : last < s THEN last < nxt[last] /\ \A s \in C : s < nxt[last] => s <= last
                                    ELSE nxt[last] = first /\ \A s \in C : s <= last
    BY <1>1, <1>2, <1>4, NextAbove
  <2>8. /\ \A q \in C : q < Top' <=> q <= last
        /\ base <= Top'
    <3>1. i' > 0 /\ first' = first
      BY <1>1, <1>3, <1>4, <2>6
    <3>2. CASE \E s \in C : last < s
      <4>1. last < nxt[last] /\ \A s \in C : s < nxt[last] => s <= last
        BY <2>7, <3>2
      <4>2. nxt[last] # first
        BY <1>1, <1>4, <2>7, <4>1
      <4>3. Top' = nxt[last]
        BY <2>6, <3>1, <4>2 DEF Top
      <4>4. QED
        BY <1>2, <1>4, <2>3, <2>7, <4>1, <4>3
    <3>3. CASE ~\E s \in C : last < s
      <4>1. nxt[last] = first /\ \A s \in C : s <= last
        BY <2>7, <3>3
      <4>2. Top' = NPages + 1
        BY <2>6, <3>1, <4>1 DEF Top
      <4>3. QED
        BY <1>2, <1>4, <4>1, <4>2, PageAssumption
    <3>4. QED
      BY <3>2, <3>3
  <2>9. Freed(C)' = Freed(C) \cup {last} /\ last \notin Freed(C)
    <3>1. Freed(C)' = {q \in C : base <= q /\ q <= last}
      BY <1>3, <2>8 DEF Freed
    <3>2. Freed(C) = {q \in C : base <= q /\ q < last}
      BY <2>3 DEF Freed
    <3>3. \A q \in C : base <= q /\ q <= last <=> (base <= q /\ q < last) \/ q = last
      BY <1>2, <1>4, <2>3
    <3>4. last \in C /\ ~(last < last)
      BY <1>1, <1>4
    <3>5. QED
      BY <3>1, <3>2, <3>3, <3>4
  <2>10. Cardinality(Freed(C)') = i'
    BY <1>1, <1>5, <2>6, <2>9, FS_AddElement
  <2>11. Steady(C)'
    BY <1>2, <1>3, <2>6 DEF Steady, Free, Owned
  <2>12. LastAt(C)'
    <3>1. Cut(C)' /\ Headed(first', C, type', first_page_of', page_count_of') /\ Before(C)' = Before(C)
      BY <1>1, <1>3, <2>6 DEF Cut, Before
    <3>2. i' \in 0..num' /\ base' <= Top' /\ last' \in C
      BY <1>1, <1>3, <1>4, <2>1, <2>6, <2>7, <2>8
    <3>3. QED
      BY <1>1, <1>3, <2>10, <3>1, <3>2 DEF LastAt
  <2>13. Working(C)'
    BY <1>1, <2>6, <2>12 DEF Working, IdleAt, TakeAt, ScanAt, ContAt, MarkAt, HeadAt, UpdateAt, SplitAt, EnterAt, FreeAt, SeekAt
  <2>14. QED
    BY <1>1, <1>2, <2>6, <2>11, <2>13 DEF Leads, Calm, Good
<1>7. CASE i = num
  <2>1. /\ type' = [type EXCEPT ![base] = type[first], ![last] = type[first]]
        /\ p' = first /\ pc' = "update" /\ UNCHANGED <<i, last>>
    BY <1>7 DEF LastWalk
  <2>2. type[first] # "tail" /\ \A q \in C : q # first => type[q] = "tail"
    BY <1>1 DEF Headed, Tails
  <2>3. \A q \in Node : type'[q] = IF q \in {base, last} THEN type[first] ELSE type[q]
    BY <1>1, <1>2, <1>4, <2>1 DEF TypeOK
  <2>4. \A q \in C : type'[q] # "tail" <=> q \in {first, base, last}
    BY <1>2, <2>2, <2>3
  <2>5. Steady(C)'
    <3>1. \A q \in Owned \ C : /\ type'[q] = type[q] /\ first_page_of'[q] = first_page_of[q]
                               /\ page_count_of'[q] = page_count_of[q]
      <4>0. Page \subseteq Node
        BY DEF Page, Node
      <4>1. Owned \subseteq Node
        BY <4>0 DEF Owned, TypeOK
      <4>2. QED
        BY <1>1, <1>3, <1>4, <2>3, <4>1
    <3>2. QED
      BY <1>2, <1>3, <3>1, MetaSteady
  <2>6. /\ Top' = Top /\ Before(C)' = Before(C) /\ Freed(C)' = Freed(C) /\ Cut(C)'
    BY <1>1, <1>3, <2>1 DEF Top, Before, Freed, Cut
  <2>7. Sections(C)'
    BY <1>1, <1>3, <1>7, <2>1, <2>4, <2>6 DEF Sections
  <2>8. ASSUME base = first, last = first PROVE Headed(first, C, type', first_page_of', page_count_of')
    <3>1. \A q \in C : (type'[q] = "tail" <=> type[q] = "tail") /\ first_page_of'[q] = first_page_of[q]
                       /\ page_count_of'[q] = page_count_of[q]
      BY <1>2, <1>3, <2>2, <2>3, <2>8
    <3>2. QED
      BY <1>1, <3>1, HeadedSame
  <2>9. Sect(seg, C)' = Before(C) /\ To(seg)' = base /\ seg' = 1
    BY <1>1, <1>3, <2>6 DEF Sect, To
  <2>10. p' \in Before(C) \cup {base} /\ \A q \in Before(C) : ~(p' = base \/ q < p')
    <3>1. \A q \in Before(C) : q \in C /\ q < base /\ first <= q /\ q \in Int
      BY <1>2, <1>4 DEF Before
    <3>2. first = base \/ first \in Before(C)
      BY <1>4 DEF Before
    <3>3. QED
      BY <1>4, <2>1, <3>1, <3>2
  <2>11. UpdateAt(C)'
    BY <1>3, <2>1, <2>7, <2>8, <2>9, <2>10 DEF UpdateAt
  <2>12. Working(C)'
    BY <2>1, <2>11 DEF Working, IdleAt, TakeAt, ScanAt, ContAt, MarkAt, HeadAt, LastAt, SplitAt, EnterAt, FreeAt, SeekAt
  <2>13. QED
    BY <1>2, <2>1, <2>5, <2>12 DEF Leads, Calm, Good
<1>8. QED
  BY <1>6, <1>7

(* The three sections: where they start, that they are apart and make up C. *)
LEMMA SectIs ==
  ASSUME TypeOK, NEW C \in SUBSET Page, Sections(C)
  PROVE  /\ \A q \in C : q \in Int /\ q \in Node /\ first <= q /\ q < NPages + 1
         /\ first \in C /\ base \in C /\ last \in C /\ Top \in Int /\ base < Top
         /\ IF last = first THEN Top = NPages + 1 /\ After(C) = {} ELSE Top = last /\ last \in After(C)
         /\ IF base = first THEN Before(C) = {} ELSE first \in Before(C)
         /\ base \in Freed(C) /\ C = Before(C) \cup Freed(C) \cup After(C)
         /\ Before(C) \cap Freed(C) = {} /\ Before(C) \cap After(C) = {} /\ Freed(C) \cap After(C) = {}
<1>1. /\ base \in C /\ Least(C, first) /\ num > 0 /\ i = num /\ last \in C /\ base <= Top
      /\ num = Cardinality(Freed(C))
  BY DEF Sections, Cut
<1>2. \A q \in C : q \in Int /\ q \in Node /\ first <= q /\ q < NPages + 1
  <2>1. \A q \in Page : q \in Int /\ q \in Node /\ q < NPages + 1
    BY PageAssumption DEF Page, Node
  <2>2. QED
    BY <1>1, <2>1 DEF Least
<1>3. first \in C /\ NPages + 1 \in Int /\ num \in Int
  BY <1>1, PageAssumption DEF Least, TypeOK
<1>4. Top = IF last = first THEN NPages + 1 ELSE last
  BY <1>1 DEF Top
<1>5. Top \in Int
  BY <1>1, <1>2, <1>3, <1>4
<1>6. base < Top
  <2>1. SUFFICES ASSUME base = Top PROVE FALSE
    BY <1>1, <1>2, <1>5
  <2>2. \A q \in C : ~(base <= q /\ q < Top)
    BY <1>1, <1>2, <1>5, <2>1
  <2>3. Freed(C) = {}
    BY <2>2 DEF Freed
  <2>4. QED
    BY <1>1, <1>3, <2>3, FS_EmptySet
<1>7. IF last = first THEN Top = NPages + 1 /\ After(C) = {} ELSE Top = last /\ last \in After(C)
  <2>1. CASE last = first
    <3>1. \A q \in C : ~(NPages + 1 <= q)
      BY <1>2, <1>3
    <3>2. QED
      BY <1>4, <2>1, <3>1 DEF After
  <2>2. CASE last # first
    <3>1. last <= last
      BY <1>1, <1>2
    <3>2. QED
      BY <1>1, <1>4, <2>2, <3>1 DEF After
  <2>3. QED
    BY <2>1, <2>2
<1>8. IF base = first THEN Before(C) = {} ELSE first \in Before(C)
  <2>1. \A q \in C : ~(q < first)
    BY <1>2, <1>3
  <2>2. base # first => first < base
    BY <1>1, <1>2, <1>3
  <2>3. QED
    BY <1>3, <2>1, <2>2 DEF Before
<1>9. base \in Freed(C)
  BY <1>1, <1>2, <1>6 DEF Freed
<1>10. \A q \in C : /\ q < base \/ (base <= q /\ q < Top) \/ Top <= q
                    /\ ~(q < base /\ base <= q) /\ ~(q < base /\ Top <= q) /\ ~(q < Top /\ Top <= q)
  BY <1>1, <1>2, <1>5, <1>6
<1>11. /\ C = Before(C) \cup Freed(C) \cup After(C)
       /\ Before(C) \cap Freed(C) = {} /\ Before(C) \cap After(C) = {} /\ Freed(C) \cap After(C) = {}
  BY <1>10 DEF Before, Freed, After
<1>12. QED
  BY <1>1, <1>2, <1>3, <1>5, <1>6, <1>7, <1>8, <1>9, <1>11

(* Every section has as many pages as free_pages counts. *)
LEMMA SectCount ==
  ASSUME TypeOK, NEW C \in SUBSET Page, Sections(C), NEW s \in 1..3
  PROVE  Cardinality(Sect(s, C)) = Count(s)
<1>1. /\ C = Before(C) \cup Freed(C) \cup After(C)
      /\ Before(C) \cap Freed(C) = {} /\ Before(C) \cap After(C) = {} /\ Freed(C) \cap After(C) = {}
  BY SectIs
<1>2. total = Cardinality(C) /\ head_len = Cardinality(Before(C)) /\ num = Cardinality(Freed(C))
  BY DEF Sections, Cut
<1>3. PICK A, M, Z : A = Before(C) /\ M = Freed(C) /\ Z = After(C)
  OBVIOUS
<1>4. /\ IsFiniteSet(A) /\ IsFiniteSet(M) /\ IsFiniteSet(Z)
      /\ Cardinality(A) \in Nat /\ Cardinality(M) \in Nat /\ Cardinality(Z) \in Nat
  <2>1. A \in SUBSET Page /\ M \in SUBSET Page /\ Z \in SUBSET Page
    BY <1>3 DEF Before, Freed, After
  <2>2. QED
    BY <2>1, PagesFinite
<1>5. IsFiniteSet(A \cup M) /\ Cardinality(A \cup M) = Cardinality(A) + Cardinality(M)
  <2>1. A \cap M = {}
    BY <1>1, <1>3
  <2>2. QED
    BY <1>4, <2>1, FS_Union, FS_EmptySet
<1>6. Cardinality((A \cup M) \cup Z) = Cardinality(A) + Cardinality(M) + Cardinality(Z)
  <2>1. PICK B : B = A \cup M
    OBVIOUS
  <2>2. B \cap Z = {} /\ IsFiniteSet(B)
    BY <1>1, <1>3, <1>5, <2>1
  <2>3. Cardinality(B \cup Z) = Cardinality(B) + Cardinality(Z) - Cardinality(B \cap Z)
    BY <1>4, <2>2, FS_Union
  <2>4. Cardinality(B \cap Z) = 0
    BY <2>2, FS_EmptySet
  <2>5. QED
    BY <1>4, <1>5, <2>1, <2>3, <2>4
<1>7. Cardinality(Z) = total - head_len - num
  <2>1. (A \cup M) \cup Z = C
    BY <1>1, <1>3
  <2>2. total = Cardinality(A) + Cardinality(M) + Cardinality(Z)
    BY <1>2, <1>6, <2>1
  <2>3. head_len = Cardinality(A) /\ num = Cardinality(M)
    BY <1>2, <1>3
  <2>4. QED
    BY <1>4, <2>2, <2>3
<1>8. QED
  BY <1>2, <1>3, <1>7 DEF Sect, Count

(* A section starts with its first page, the only one that is not a tail. *)
LEMMA SectHead ==
  ASSUME TypeOK, NEW C \in SUBSET Page, Sections(C), NEW s \in 1..3
  PROVE  /\ Sect(s, C) # {} => Least(Sect(s, C), From(s))
         /\ \A q \in Sect(s, C) : q \in C /\ (type[q] = "tail" <=> q # From(s))
<1>1. /\ \A q \in C : q \in Int /\ first <= q /\ q < NPages + 1
      /\ first \in C /\ base \in C /\ last \in C /\ Top \in Int /\ base < Top
      /\ IF last = first THEN Top = NPages + 1 /\ After(C) = {} ELSE Top = last /\ last \in After(C)
      /\ IF base = first THEN Before(C) = {} ELSE first \in Before(C)
      /\ base \in Freed(C)
  BY SectIs
<1>2. \A q \in C : type[q] # "tail" <=> q \in {first, base, last}
  BY DEF Sections
<1>3. CASE s = 1
  <2>1. Sect(s, C) = Before(C) /\ From(s) = first
    BY <1>3 DEF Sect, From
  <2>2. \A q \in Before(C) : q \in C /\ q < base /\ q # base /\ first <= q /\ (q = last => q = first)
    <3>1. \A q \in Before(C) : q \in C /\ q < base
      BY DEF Before
    <3>2. ASSUME NEW q \in Before(C) PROVE q # base /\ (q = last => q = first)
      BY <1>1, <3>1
    <3>3. QED
      BY <1>1, <3>1, <3>2
  <2>3. QED
    BY <1>1, <1>2, <2>1, <2>2 DEF Least
<1>4. CASE s = 2
  <2>1. Sect(s, C) = Freed(C) /\ From(s) = base
    BY <1>4 DEF Sect, From
  <2>2. \A q \in Freed(C) : q \in C /\ base <= q /\ (q = first => q = base) /\ (q = last => q = base)
    <3>1. \A q \in Freed(C) : q \in C /\ base <= q /\ q < Top
      BY DEF Freed
    <3>2. ASSUME NEW q \in Freed(C) PROVE (q = first => q = base) /\ (q = last => q = base)
      BY <1>1, <3>1
    <3>3. QED
      BY <3>1, <3>2
  <2>3. QED
    BY <1>1, <1>2, <2>1, <2>2 DEF Least
<1>5. CASE s = 3
  <2>1. Sect(s, C) = After(C) /\ From(s) = last
    BY <1>5 DEF Sect, From
  <2>2. \A q \in After(C) : q \in C /\ last <= q /\ q # base /\ (q = first => q = last) /\ last \in After(C)
    <3>1. \A q \in After(C) : q \in C /\ Top <= q
      BY DEF After
    <3>2. ASSUME NEW q \in After(C) PROVE last <= q /\ q # base /\ (q = first => q = last) /\ last \in After(C)
      <4>1. last # first /\ Top = last /\ last \in After(C) /\ q \in C /\ Top <= q
        BY <1>1, <3>1
      <4>2. QED
        BY <1>1, <4>1
    <3>3. QED
      BY <3>1, <3>2
  <2>3. QED
    BY <1>1, <1>2, <2>1, <2>2 DEF Least
<1>6. QED
  BY <1>3, <1>4, <1>5

(* From a page of a section, the walk comes to its next page or to its end. *)
LEMMA SectNext ==
  ASSUME TypeOK, NEW C \in SUBSET Page, Sections(C), NEW s \in 1..3, NEW x \in Sect(s, C), x # To(s)
  PROVE  /\ nxt[x] \in Sect(s, C) \cup {To(s)}
         /\ \A q \in Sect(s, C) : nxt[x] = To(s) \/ q < nxt[x] => q = x \/ q < x
<1>1. /\ \A q \in C : q \in Int /\ first <= q /\ q < NPages + 1
      /\ first \in C /\ base \in C /\ last \in C /\ Top \in Int /\ base < Top
      /\ IF last = first THEN Top = NPages + 1 /\ After(C) = {} ELSE Top = last /\ last \in After(C)
  BY SectIs
<1>2. x \in C /\ x \in Int
  BY <1>1, SectHead
<1>3. /\ nxt[x] \in C /\ nxt[x] \in Int
      /\ IF \E r \in C : x < r THEN x < nxt[x] /\ \A r \in C : r < nxt[x] => r <= x
                               ELSE nxt[x] = first /\ \A r \in C : r <= x
  <2>1. Ring(nxt, prv, C) /\ Least(C, first) /\ \A r \in C : r \in Int
    BY <1>1 DEF Sections, Cut
  <2>2. QED
    BY <1>2, <2>1, NextAbove
<1>4. \A q \in C : q <= x => q = x \/ q < x
  BY <1>1, <1>2
<1>5. \A q \in Sect(s, C) : q \in C
  BY SectHead
<1>6. CASE s = 1
  <2>1. Sect(s, C) = Before(C) /\ To(s) = base
    BY <1>6 DEF Sect, To
  <2>2. x < base
    BY <2>1 DEF Before
  <2>3. x < nxt[x] /\ (\A r \in C : r < nxt[x] => r <= x) /\ nxt[x] <= base
    BY <1>1, <1>2, <1>3, <2>2
  <2>4. nxt[x] = base \/ nxt[x] \in Before(C)
    BY <1>1, <1>3, <2>3 DEF Before
  <2>5. \A q \in Before(C) : nxt[x] = base \/ q < nxt[x] => q <= x
    BY <2>3 DEF Before
  <2>6. QED
    BY <1>4, <1>5, <2>1, <2>4, <2>5
<1>7. CASE s = 2 /\ last # first
  <2>1. Sect(s, C) = Freed(C) /\ To(s) = last /\ Top = last
    BY <1>1, <1>7 DEF Sect, To
  <2>2. x < last /\ base <= x
    BY <2>1 DEF Freed
  <2>3. x < nxt[x] /\ (\A r \in C : r < nxt[x] => r <= x) /\ nxt[x] <= last
    BY <1>1, <1>2, <1>3, <2>2
  <2>4. nxt[x] = last \/ nxt[x] \in Freed(C)
    BY <1>1, <1>2, <1>3, <2>1, <2>2, <2>3 DEF Freed
  <2>5. \A q \in Freed(C) : nxt[x] = last \/ q < nxt[x] => q <= x
    BY <2>1, <2>3 DEF Freed
  <2>6. QED
    BY <1>4, <1>5, <2>1, <2>4, <2>5
<1>8. CASE s = 2 /\ last = first
  <2>1. Sect(s, C) = Freed(C) /\ To(s) = first /\ Top = NPages + 1
    BY <1>1, <1>8 DEF Sect, To
  <2>2. base <= x
    BY <2>1 DEF Freed
  <2>3. nxt[x] = first \/ nxt[x] \in Freed(C)
    BY <1>1, <1>2, <1>3, <2>1, <2>2 DEF Freed
  <2>4. \A q \in C : nxt[x] = first \/ q < nxt[x] => q <= x
    BY <1>1, <1>2, <1>3
  <2>5. QED
    BY <1>4, <1>5, <2>1, <2>3, <2>4
<1>9. CASE s = 3
  <2>1. Sect(s, C) = After(C) /\ To(s) = first
    BY <1>9 DEF Sect, To
  <2>2. Top <= x
    BY <2>1 DEF After
  <2>3. nxt[x] = first \/ nxt[x] \in After(C)
    BY <1>1, <1>2, <1>3, <2>2 DEF After
  <2>4. \A q \in C : nxt[x] = first \/ q < nxt[x] => q <= x
    BY <1>1, <1>2, <1>3
  <2>5. QED
    BY <1>4, <1>5, <2>1, <2>3, <2>4
<1>10. QED
  BY <1>6, <1>7, <1>8, <1>9

(* update_page_list has been through the section s. *)
LEMMA SectEnd ==
  ASSUME TypeOK, NEW C \in SUBSET Page, Sections(C), NEW s \in 1..3,
         \A q \in Sect(s, C) :
           IF q = From(s) THEN page_count_of[q] = Count(s) ELSE first_page_of[q] = From(s)
  PROVE  SectDone(s, C)
<1> SUFFICES ASSUME Sect(s, C) # {}
             PROVE  Headed(From(s), Sect(s, C), type, first_page_of, page_count_of)
  BY DEF SectDone
<1>1. /\ Least(Sect(s, C), From(s))
      /\ \A q \in Sect(s, C) : q \in C /\ (type[q] = "tail" <=> q # From(s))
  BY SectHead
<1>2. From(s) \in Sect(s, C)
  BY <1>1 DEF Least
<1>3. Cardinality(Sect(s, C)) = Count(s)
  BY SectCount
<1>4. QED
  BY <1>1, <1>2, <1>3 DEF Headed, Tails

(* Two sections have no page in common. *)
LEMMA SectApart ==
  ASSUME TypeOK, NEW C \in SUBSET Page, Sections(C), NEW s \in 1..3, NEW t \in 1..3, s # t
  PROVE  Sect(s, C) \cap Sect(t, C) = {}
<1>1. Before(C) \cap Freed(C) = {} /\ Before(C) \cap After(C) = {} /\ Freed(C) \cap After(C) = {}
  BY SectIs
<1>2. QED
  BY <1>1 DEF Sect

(* update_page_list writes the fields of the page p of the section seg. *)
LEMMA UpdatePage ==
  ASSUME TypeOK, NEW C, Good(C), UpdateList, p # To(seg) PROVE Leads(C)
<1>1. /\ pc = "update" /\ Sections(C)
      /\ (base = first /\ last = first => p = first /\ Headed(first, C, type, first_page_of, page_count_of))
      /\ (\A s \in 1..3 : s < seg => SectDone(s, C))
      /\ p \in Sect(seg, C) \cup {To(seg)}
      /\ \A q \in Sect(seg, C) : p = To(seg) \/ q < p =>
           IF q = From(seg) THEN page_count_of[q] = Count(seg) ELSE first_page_of[q] = From(seg)
  BY DEF UpdateList, Good, Working, UpdateAt
<1>2. Steady(C) /\ C \in SUBSET Page /\ C \subseteq Owned /\ seg \in 1..3
  BY DEF Good, Steady, TypeOK
<1>3. p \in Sect(seg, C) /\ p \in C /\ p \in Node /\ (type[p] = "tail" <=> p # From(seg))
  <2>1. p \in Sect(seg, C)
    BY <1>1
  <2>2. p \in C /\ (type[p] = "tail" <=> p # From(seg))
    BY <1>1, <1>2, <2>1, SectHead
  <2>3. QED
    BY <2>1, <2>2 DEF TypeOK
<1>4. /\ UNCHANGED <<nxt, prv, reserved, type, nr_free_pages, num, i, first, base, last, head_len, total, pc, seg>>
      /\ p' = nxt[p]
      /\ first_page_of' = IF p # From(seg) THEN [first_page_of EXCEPT ![p] = From(seg)] ELSE first_page_of
      /\ page_count_of' = IF p # From(seg) THEN page_count_of ELSE [page_count_of EXCEPT ![p] = Count(seg)]
  BY <1>3 DEF UpdateList, is_tail
<1>5. /\ \A q \in Node : q # p => first_page_of'[q] = first_page_of[q] /\ page_count_of'[q] = page_count_of[q]
      /\ IF p = From(seg) THEN page_count_of'[p] = Count(seg) ELSE first_page_of'[p] = From(seg)
  BY <1>3, <1>4 DEF TypeOK
<1>6. /\ Top' = Top /\ (\A s : Sect(s, C)' = Sect(s, C)) /\ (\A s : From(s)' = From(s)) /\ (\A s : To(s)' = To(s))
      /\ (\A s : Count(s)' = Count(s)) /\ Sections(C)'
  <2>1. Top' = Top
    BY <1>4 DEF Top
  <2>2. Before(C)' = Before(C) /\ Freed(C)' = Freed(C) /\ After(C)' = After(C)
    BY <1>4, <2>1 DEF Before, Freed, After
  <2>3. (\A s : Sect(s, C)' = Sect(s, C)) /\ (\A s : From(s)' = From(s)) /\ (\A s : To(s)' = To(s))
        /\ (\A s : Count(s)' = Count(s))
    BY <1>4, <2>2 DEF Sect, From, To, Count
  <2>4. Sections(C)'
    BY <1>1, <1>4, <2>1, <2>2 DEF Sections, Cut
  <2>5. QED
    BY <2>1, <2>3, <2>4
<1>7. Steady(C)'
  <2>1. \A q \in Owned \ C : /\ type'[q] = type[q] /\ first_page_of'[q] = first_page_of[q]
                             /\ page_count_of'[q] = page_count_of[q]
    <3>0. Page \subseteq Node
      BY DEF Page, Node
    <3>1. Owned \subseteq Node
      BY <3>0 DEF Owned, TypeOK
    <3>2. QED
      BY <1>3, <1>4, <1>5, <3>1
  <2>2. QED
    BY <1>2, <1>4, <2>1, MetaSteady
<1>8. ~(base = first /\ last = first)
  BY <1>1 DEF To
<1>9. ASSUME NEW s \in 1..3, s < seg PROVE SectDone(s, C)'
  <2>1. SUFFICES ASSUME Sect(s, C) # {} PROVE Headed(From(s), Sect(s, C), type', first_page_of', page_count_of')
    BY <1>6 DEF SectDone
  <2>2. Headed(From(s), Sect(s, C), type, first_page_of, page_count_of)
    BY <1>1, <1>9, <2>1 DEF SectDone
  <2>3. p \notin Sect(s, C)
    <3>1. s # seg
      BY <1>2, <1>9
    <3>2. QED
      BY <1>1, <1>2, <1>3, <3>1, SectApart
  <2>4. \A q \in Sect(s, C) : q \in Node
    <3>1. \A q \in Sect(s, C) : q \in C
      BY <1>1, <1>2, SectHead
    <3>2. QED
      BY <1>1, <1>2, <3>1, SectIs
  <2>5. \A q \in Sect(s, C) : (type'[q] = "tail" <=> type[q] = "tail") /\ first_page_of'[q] = first_page_of[q]
                             /\ page_count_of'[q] = page_count_of[q]
    BY <1>4, <1>5, <2>3, <2>4
  <2>6. QED
    BY <2>2, <2>5, HeadedSame
<1>10. /\ p' \in Sect(seg, C) \cup {To(seg)}
       /\ \A q \in Sect(seg, C) : p' = To(seg) \/ q < p' => q = p \/ q < p
  BY <1>1, <1>2, <1>3, <1>4, SectNext
<1>11. ASSUME NEW q \in Sect(seg, C), p' = To(seg) \/ q < p'
       PROVE  IF q = From(seg) THEN page_count_of'[q] = Count(seg) ELSE first_page_of'[q] = From(seg)
  <2>1. q = p \/ (q # p /\ q < p)
    BY <1>10, <1>11
  <2>2. q \in Node
    <3>1. q \in C
      BY <1>1, <1>2, SectHead
    <3>2. QED
      BY <1>1, <1>2, <3>1, SectIs
  <2>3. CASE q = p
    BY <1>5, <2>3
  <2>4. CASE q # p /\ q < p
    BY <1>1, <1>5, <2>2, <2>4
  <2>5. QED
    BY <2>1, <2>3, <2>4
<1>12. UpdateAt(C)'
  BY <1>4, <1>6, <1>8, <1>9, <1>10, <1>11 DEF UpdateAt
<1>13. Working(C)'
  BY <1>1, <1>4, <1>12 DEF Working, IdleAt, TakeAt, ScanAt, ContAt, MarkAt, HeadAt, LastAt, SplitAt, EnterAt, FreeAt, SeekAt
<1>14. QED
  BY <1>1, <1>2, <1>4, <1>7, <1>13 DEF Leads, Calm, Good

LEMMA UpdateGood ==
  ASSUME TypeOK, NEW C, Good(C), UpdateList PROVE Leads(C)
<1>1. /\ pc = "update" /\ Sections(C)
      /\ (base = first /\ last = first => p = first /\ Headed(first, C, type, first_page_of, page_count_of))
      /\ (\A s \in 1..3 : s < seg => SectDone(s, C))
      /\ \A q \in Sect(seg, C) : p = To(seg) \/ q < p =>
           IF q = From(seg) THEN page_count_of[q] = Count(seg) ELSE first_page_of[q] = From(seg)
  BY DEF UpdateList, Good, Working, UpdateAt
<1>2. Steady(C) /\ C \in SUBSET Page /\ seg \in 1..3
  BY DEF Good, TypeOK
<1>3. CASE p # To(seg)
  BY <1>3, UpdatePage
<1>4. CASE p = To(seg)
  <2>1. /\ UNCHANGED <<nxt, prv, reserved, type, first_page_of, page_count_of, nr_free_pages,
                      num, i, first, base, last, head_len, total>>
        /\ IF seg < 3 THEN seg' = seg + 1 /\ p' = From(seg + 1) /\ pc' = "update" ELSE pc' = "split" /\ seg' = seg
    BY <1>1, <1>4 DEF UpdateList
  <2>2. Steady(C)'
    BY <1>2, <2>1 DEF Steady, Free, Owned
  <2>3. /\ (\A s : Sect(s, C)' = Sect(s, C)) /\ (\A s : From(s)' = From(s)) /\ (\A s : To(s)' = To(s))
        /\ (\A s : Count(s)' = Count(s)) /\ Sections(C)' /\ (\A s : SectDone(s, C)' <=> SectDone(s, C))
    <3>1. Top' = Top
      BY <2>1 DEF Top
    <3>2. Before(C)' = Before(C) /\ Freed(C)' = Freed(C) /\ After(C)' = After(C)
      BY <2>1, <3>1 DEF Before, Freed, After
    <3>3. (\A s : Sect(s, C)' = Sect(s, C)) /\ (\A s : From(s)' = From(s)) /\ (\A s : To(s)' = To(s))
          /\ (\A s : Count(s)' = Count(s))
      BY <2>1, <3>2 DEF Sect, From, To, Count
    <3>4. Sections(C)'
      BY <1>1, <2>1, <3>1, <3>2 DEF Sections, Cut
    <3>5. QED
      BY <2>1, <3>3, <3>4 DEF SectDone
  <2>4. SectDone(seg, C)
    BY <1>1, <1>2, <1>4, SectEnd
  <2>5. \A s \in 1..3 : s < seg + 1 => SectDone(s, C)
    <3>1. \A s \in 1..3 : s < seg + 1 => s < seg \/ s = seg
      BY <1>2
    <3>2. QED
      BY <1>1, <2>4, <3>1
  <2>6. CASE seg < 3
    <3>1. seg' = seg + 1 /\ p' = From(seg + 1) /\ pc' = "update" /\ seg' \in {2, 3}
      BY <1>2, <2>1, <2>6
    <3>2. /\ base \in C /\ last \in C /\ first \in C /\ (\A q \in C : q \in Int) /\ base \in Freed(C)
          /\ IF last = first THEN Top = NPages + 1 /\ After(C) = {} ELSE Top = last /\ last \in After(C)
          /\ (base = first => Before(C) = {}) /\ base < Top /\ C = Before(C) \cup Freed(C) \cup After(C)
      BY <1>1, <1>2, SectIs
    <3>3. ASSUME seg' = 2 PROVE UpdateAt(C)'
      <4>1. p' = base /\ Sect(seg, C)' = Freed(C) /\ To(seg)' = last /\ From(seg)' = base /\ Count(seg)' = num
        BY <2>3, <3>1, <3>3 DEF Sect, To, From, Count
      <4>2. \A q \in Freed(C) : q \in C /\ ~(q < base)
        BY <3>2 DEF Freed
      <4>3. ASSUME NEW q \in Freed(C), base = last
            PROVE  IF q = base THEN page_count_of'[q] = num ELSE first_page_of'[q] = base
        <5>1. last = first
          BY <3>2, <4>3
        <5>2. Freed(C) = C
          BY <3>2, <4>3, <5>1
        <5>3. Headed(first, C, type, first_page_of, page_count_of) /\ num = Cardinality(Freed(C))
          BY <1>1, <4>3, <5>1 DEF Sections
        <5>4. QED
          BY <2>1, <4>2, <4>3, <5>1, <5>2, <5>3 DEF Headed, Tails
      <4>4. UpdateAt(C)'
        <5>1. \A s \in 1..3 : s < seg' => SectDone(s, C)'
          BY <2>3, <2>5, <3>1
        <5>2. base' = first' /\ last' = first' =>
                p' = first' /\ Headed(first', C, type', first_page_of', page_count_of')
          BY <1>1, <2>1, <4>1
        <5>3. p' \in Sect(seg, C)' \cup {To(seg)'}
          BY <3>2, <4>1
        <5>4. \A q \in Sect(seg, C)' : p' = To(seg)' \/ q < p' =>
                 IF q = From(seg)' THEN page_count_of'[q] = Count(seg)' ELSE first_page_of'[q] = From(seg)'
          BY <4>1, <4>2, <4>3
        <5>5. QED
          BY <2>3, <5>1, <5>2, <5>3, <5>4 DEF UpdateAt
      <4>5. QED
        BY <4>4
    <3>4. ASSUME seg' = 3 PROVE UpdateAt(C)'
      <4>1. p' = last /\ Sect(seg, C)' = After(C) /\ To(seg)' = first
        BY <2>3, <3>1, <3>4 DEF Sect, To, From
      <4>2. \A q \in After(C) : ~(q < last) /\ last # first
        <5>1. \A q \in After(C) : q \in C /\ Top <= q
          BY DEF After
        <5>2. QED
          BY <3>2, <5>1
      <4>3. p' \in Sect(seg, C)' \cup {To(seg)'}
        BY <3>2, <4>1
      <4>4. UpdateAt(C)'
        <5>1. \A s \in 1..3 : s < seg' => SectDone(s, C)'
          BY <2>3, <2>5, <3>1
        <5>2. base' = first' /\ last' = first' =>
                p' = first' /\ Headed(first', C, type', first_page_of', page_count_of')
          BY <1>1, <2>1, <4>1
        <5>3. \A q \in Sect(seg, C)' : ~(p' = To(seg)' \/ q < p')
          BY <4>1, <4>2
        <5>4. QED
          BY <2>3, <4>3, <5>1, <5>2, <5>3 DEF UpdateAt
      <4>5. QED
        BY <4>4
    <3>5. Working(C)'
      BY <3>1, <3>3, <3>4 DEF Working, IdleAt, TakeAt, ScanAt, ContAt, MarkAt, HeadAt, LastAt, SplitAt, EnterAt, FreeAt, SeekAt
    <3>6. QED
      BY <1>2, <2>2, <3>1, <3>5 DEF Leads, Calm, Good
  <2>7. CASE ~(seg < 3)
    <3>1. pc' = "split" /\ \A s \in 1..3 : s < seg + 1
      BY <1>2, <2>1, <2>7
    <3>2. SplitAt(C)'
      BY <2>3, <2>5, <3>1 DEF SplitAt
    <3>3. Working(C)'
      BY <3>1, <3>2 DEF Working, IdleAt, TakeAt, ScanAt, ContAt, MarkAt, HeadAt, LastAt, UpdateAt, EnterAt, FreeAt, SeekAt
    <3>4. QED
      BY <1>2, <2>2, <3>1, <3>3 DEF Leads, Calm, Good
  <2>8. QED
    BY <2>6, <2>7
<1>5. QED
  BY <1>3, <1>4

(* The pointers after the two list_splits: each section is a ring. *)
LEMMA SplitRings ==
  ASSUME TypeOK, Linked, NEW C \in SUBSET Page, Sections(C), Split
  PROVE  /\ Ring(nxt', prv', Before(C)) /\ Ring(nxt', prv', Freed(C)) /\ Ring(nxt', prv', After(C))
         /\ \A q \in Node \ C : nxt'[q] = nxt[q] /\ prv'[q] = prv[q]
<1> DEFINE n1 == IF last # first THEN SplitNext(nxt, prv, first, last) ELSE nxt
           v1 == IF last # first THEN SplitPrev(nxt, prv, first, last) ELSE prv
<1>1. /\ nxt' = IF base # first THEN SplitNext(n1, v1, first, base) ELSE n1
      /\ prv' = IF base # first THEN SplitPrev(n1, v1, first, base) ELSE v1
  BY DEF Split
<1>2. /\ \A q \in C : q \in Int /\ q \in Node /\ first <= q /\ q < NPages + 1
      /\ first \in C /\ base \in C /\ last \in C /\ Top \in Int /\ base < Top
      /\ IF last = first THEN Top = NPages + 1 /\ After(C) = {} ELSE Top = last /\ last \in After(C)
      /\ IF base = first THEN Before(C) = {} ELSE first \in Before(C)
      /\ base \in Freed(C)
  BY SectIs
<1>3. Ring(nxt, prv, C) /\ Least(C, first) /\ C \in SUBSET Node
  BY <1>2 DEF Sections, Cut
<1>4. Pointers(nxt, prv, Node) /\ Closed(nxt, prv, Node)
  BY DEF TypeOK, Linked, Pointers, Closed
<1>5. PICK S : S = {q \in C : q < Top}
  OBVIOUS
<1>6. /\ Pointers(n1, v1, Node) /\ Closed(n1, v1, Node)
      /\ Ring(n1, v1, S) /\ Ring(n1, v1, After(C))
      /\ \A q \in Node \ C : n1[q] = nxt[q] /\ v1[q] = prv[q]
  <2>1. CASE last = first
    <3>1. S = C /\ After(C) = {} /\ n1 = nxt /\ v1 = prv
      BY <1>2, <1>5, <2>1
    <3>2. QED
      BY <1>3, <1>4, <3>1 DEF Ring
  <2>2. CASE last # first
    <3>1. n1 = SplitNext(nxt, prv, first, last) /\ v1 = SplitPrev(nxt, prv, first, last)
      BY <2>2
    <3> HIDE DEF n1, v1
    <3>2. Pointers(n1, v1, Node) /\ Closed(n1, v1, Node)
      BY <1>2, <1>4, <2>2, <3>1, SplitClosed
    <3>3. /\ Ring(n1, v1, {q \in C : q < last}) /\ Ring(n1, v1, {q \in C : last <= q})
          /\ \A q \in Node \ C : n1[q] = nxt[q] /\ v1[q] = prv[q]
      <4>1. Splits(nxt, prv, SplitNext(nxt, prv, first, last), SplitPrev(nxt, prv, first, last), C, last)
        BY <1>2, <1>3, <1>4, <2>2, RingSplit
      <4>2. QED
        BY <3>1, <4>1 DEF Splits
    <3>4. S = {q \in C : q < last} /\ After(C) = {q \in C : last <= q}
      BY <1>2, <1>5, <2>2 DEF After
    <3>5. QED
      BY <3>2, <3>3, <3>4
  <2>3. QED
    BY <2>1, <2>2
<1> HIDE DEF n1, v1
<1>7. S \subseteq C /\ S \cap After(C) = {} /\ Freed(C) = {q \in S : base <= q} /\ Before(C) = {q \in S : q < base}
  <2>1. \A q \in C : ~(q < Top /\ Top <= q) /\ (q < base => q < Top)
    BY <1>2
  <2>2. QED
    BY <1>5, <2>1 DEF Freed, Before, After
<1>8. first \in S /\ Least(S, first) /\ base \in S /\ S \in SUBSET Node
  <2>1. first < Top
    BY <1>2
  <2>2. QED
    BY <1>2, <1>5, <2>1 DEF Least
<1>9. CASE base = first
  <2>1. nxt' = n1 /\ prv' = v1 /\ Freed(C) = S /\ Before(C) = {}
    BY <1>1, <1>2, <1>5, <1>7, <1>9
  <2>2. QED
    BY <1>6, <2>1 DEF Ring
<1>10. CASE base # first
  <2>1. nxt' = SplitNext(n1, v1, first, base) /\ prv' = SplitPrev(n1, v1, first, base)
    BY <1>1, <1>10
  <2>2. /\ Ring(nxt', prv', {q \in S : q < base}) /\ Ring(nxt', prv', {q \in S : base <= q})
        /\ \A q \in Node \ S : nxt'[q] = n1[q] /\ prv'[q] = v1[q]
    <3>1. Splits(n1, v1, SplitNext(n1, v1, first, base), SplitPrev(n1, v1, first, base), S, base)
      BY <1>6, <1>8, <1>10, RingSplit
    <3>2. QED
      BY <2>1, <3>1 DEF Splits
  <2>3. Ring(nxt', prv', After(C))
    <3>1. \A q \in After(C) : nxt'[q] = n1[q] /\ prv'[q] = v1[q]
      <4>1. \A q \in After(C) : q \in C
        BY DEF After
      <4>2. QED
        BY <1>2, <1>7, <2>2, <4>1
    <3>2. QED
      BY <1>6, <3>1, RingSame
  <2>4. QED
    BY <1>6, <1>7, <2>2, <2>3
<1>11. QED
  BY <1>9, <1>10

LEMMA SplitGood ==
  ASSUME TypeOK, Linked, NEW C, Good(C), Split, NEW D, D = Freed(C) PROVE Leads(D)
<1>1. pc = "split" /\ Sections(C) /\ SectDone(1, C) /\ SectDone(2, C) /\ SectDone(3, C)
  BY DEF Split, Good, Working, SplitAt
<1>2. Steady(C) /\ C \in SUBSET Page
  BY DEF Good
<1>3. /\ pc' = "enter" /\ i' = 0 /\ base' = base
      /\ UNCHANGED <<reserved, nr_free_pages, type, first_page_of, page_count_of>>
  BY DEF Split, meta
<1>4. PICK A, M, Z, R : A = Before(C) /\ M = Freed(C) /\ Z = After(C) /\ R = Owned \ C
  OBVIOUS
<1>5. /\ Ring(nxt', prv', A) /\ Ring(nxt', prv', M) /\ Ring(nxt', prv', Z)
      /\ \A q \in Node \ C : nxt'[q] = nxt[q] /\ prv'[q] = prv[q]
  BY <1>1, <1>2, <1>4, SplitRings
<1>6. Steady(C)' /\ Free' = Free /\ Owned' = Owned
  BY <1>2, <1>3, <1>5, LinkSteady
<1>7. /\ base \in M /\ C = A \cup M \cup Z /\ A \cap M = {} /\ A \cap Z = {} /\ M \cap Z = {} /\ C \subseteq Owned
  BY <1>1, <1>2, <1>4, SectIs DEF Steady
<1>8. /\ A # {} => Headed(first, A, type', first_page_of', page_count_of')
      /\ Headed(base, M, type', first_page_of', page_count_of')
      /\ Z # {} => Headed(last, Z, type', first_page_of', page_count_of')
  <2>1. /\ A # {} => Headed(first, A, type, first_page_of, page_count_of)
        /\ M # {} => Headed(base, M, type, first_page_of, page_count_of)
        /\ Z # {} => Headed(last, Z, type, first_page_of, page_count_of)
    BY <1>1, <1>4 DEF SectDone, Sect, From
  <2>2. QED
    BY <1>3, <1>7, <2>1
<1>9. Settled(R, nxt', prv', type', first_page_of', page_count_of')
  <2>1. Settled(Owned' \ C, nxt', prv', type', first_page_of', page_count_of')
    BY <1>6 DEF Steady
  <2>2. QED
    BY <1>4, <1>6, <2>1
<1>10. Settled(R \cup A, nxt', prv', type', first_page_of', page_count_of')
  <2>1. CASE A = {}
    <3>1. R \cup A = R
      BY <2>1
    <3>2. QED
      BY <1>9, <3>1
  <2>2. CASE A # {}
    <3>1. A \cap R = {}
      BY <1>4, <1>7
    <3>2. QED
      BY <1>5, <1>8, <1>9, <2>2, <3>1, SettledIn
  <2>3. QED
    BY <2>1, <2>2
<1>11. Settled((R \cup A) \cup Z, nxt', prv', type', first_page_of', page_count_of')
  <2>0. PICK Q : Q = R \cup A
    OBVIOUS
  <2>1. CASE Z = {}
    <3>1. Q \cup Z = Q
      BY <2>1
    <3>2. QED
      BY <1>10, <2>0, <3>1
  <2>2. CASE Z # {}
    <3>1. Z \cap Q = {}
      BY <1>4, <1>7, <2>0
    <3>2. Settled(Q, nxt', prv', type', first_page_of', page_count_of')
      BY <1>10, <2>0
    <3>3. Settled(Q \cup Z, nxt', prv', type', first_page_of', page_count_of')
      BY <1>5, <1>8, <2>2, <3>1, <3>2, SettledIn
    <3>4. QED
      BY <2>0, <3>3
  <2>3. QED
    BY <2>1, <2>2
<1>12. Steady(M)'
  <2>1. (R \cup A) \cup Z = Owned' \ M /\ M \subseteq Owned'
    BY <1>4, <1>6, <1>7
  <2>2. Settled(Owned' \ M, nxt', prv', type', first_page_of', page_count_of')
    BY <1>11, <2>1
  <2>3. QED
    BY <1>6, <2>1, <2>2 DEF Steady
<1>13. first_page(base)' = base
  BY <1>3, <1>8 DEF first_page, is_tail, Headed
<1>14. EnterAt(M)'
  BY <1>3, <1>5, <1>7, <1>8, <1>13 DEF EnterAt
<1>15. Working(M)'
  BY <1>3, <1>14 DEF Working, IdleAt, TakeAt, ScanAt, ContAt, MarkAt, HeadAt, LastAt, UpdateAt, SplitAt, FreeAt, SeekAt
<1>16. M \in SUBSET Page
  BY <1>2, <1>7
<1>17. QED
  BY <1>3, <1>4, <1>12, <1>15, <1>16 DEF Leads, Calm, Good

(* Nothing is lost by a step that changes nothing. *)
LEMMA UnchangedGood ==
  ASSUME NEW C, Good(C),
         UNCHANGED <<nxt, prv, reserved, nr_free_pages, type, first_page_of, page_count_of, pc,
                     num, i, p, np, first, base, last, head_len, total, seg, freep>>
  PROVE  Good(C)'
<1>1. Free' = Free /\ Owned' = Owned /\ Top' = Top
  BY DEF Free, Owned, Top
<1>2. Steady(C)' /\ C \in SUBSET Page
  BY <1>1 DEF Good, Steady
<1>3. Before(C)' = Before(C) /\ Freed(C)' = Freed(C) /\ After(C)' = After(C)
  BY <1>1 DEF Before, Freed, After
<1>4. (\A s : Sect(s, C)' = Sect(s, C)) /\ (\A s : From(s)' = From(s)) /\ (\A s : To(s)' = To(s))
      /\ (\A s : Count(s)' = Count(s)) /\ (first_page(base))' = first_page(base)
  BY <1>3 DEF Sect, From, To, Count, first_page, is_tail
<1>5. IdleAt(C)' /\ TakeAt(C)' /\ ScanAt(C)' /\ ContAt(C)' /\ MarkAt(C)'
  BY <1>1 DEF Good, Working, IdleAt, NoLocals, TakeAt, ScanAt, Running, Wrapped, ContAt, MarkAt
<1>6. HeadAt(C)' /\ LastAt(C)' /\ EnterAt(C)' /\ FreeAt(C)' /\ SeekAt(C)'
  BY <1>1, <1>3, <1>4 DEF Good, Working, HeadAt, LastAt, Cut, EnterAt, FreeAt, SeekAt, Passed
<1>7. (Sections(C) => Sections(C)') /\ \A s : SectDone(s, C)' <=> SectDone(s, C)
  BY <1>1, <1>3, <1>4 DEF Sections, Cut, SectDone
<1>8. UpdateAt(C)' /\ SplitAt(C)'
  BY <1>1, <1>3, <1>4, <1>7 DEF Good, Working, UpdateAt, SplitAt
<1>9. QED
  BY <1>2, <1>5, <1>6, <1>8 DEF Good, Working

-----------------------------------------------------------------------------
(* Every step of the allocator keeps ListInv and raises no panic. *)
LEMMA ListStep ==
  TypeOK /\ LinkInv /\ ListInv /\ [Next]_vars =>
    ListInv' /\ (UNCHANGED vars \/ Calm)
<1> SUFFICES ASSUME TypeOK, LinkInv, ListInv, [Next]_vars
             PROVE  ListInv' /\ (UNCHANGED vars \/ Calm)
  OBVIOUS
<1>1. Linked
  BY DEF LinkInv
<1>2. PICK C : Good(C) /\ pc # "panic"
  BY DEF ListInv
<1>3. CASE UNCHANGED vars
  <2>1. UNCHANGED <<nxt, prv, reserved, nr_free_pages, type, first_page_of, page_count_of, pc,
                    num, i, p, np, first, base, last, head_len, total, seg, freep>>
    BY <1>3 DEF vars, heap, meta, locals, section
  <2>2. Good(C)'
    BY <1>2, <2>1, UnchangedGood
  <2>3. ListInv'
    BY <1>2, <2>1, <2>2 DEF ListInv, Good
  <2>4. QED
    BY <1>3, <2>3
<1>4. CASE Next
  <2>1. \E D : Leads(D)
    <3>1. CASE Request
      BY <1>2, <3>1, AllocGood, AllocContGood, SetTypeGood, FreePagesGood, FreeAllGood DEF Request
    <3>2. CASE AllocStep
      BY <1>1, <1>2, <3>2, TakeGood, ScanGood, TakeContGood, MarkTailGood DEF AllocStep
    <3>3. CASE FreeStep
      BY <1>1, <1>2, <3>3, HeadWalkGood, LastWalkGood, UpdateGood, SplitGood, FreeEnterGood, FreeDeleteGood,
         FreeInsertGood DEF FreeStep
    <3>4. QED
      BY <1>4, <3>1, <3>2, <3>3 DEF Next
  <2>2. ListInv'
    BY <2>1 DEF Leads, Calm, ListInv, Good
  <2>3. QED
    BY <2>1, <2>2 DEF Leads
<1>5. QED
  BY <1>3, <1>4

(* The inductive invariant of the lists holds for any number of pages. *)
LEMMA ListsHold == Spec => []ListInv
<1>1. Spec => []TypeOK /\ []LinkInv
  <2>1. Spec => []LinkInv
    BY InitLink, LinkStep, TypeCorrect, PTL DEF Spec
  <2>2. QED
    BY <2>1, TypeCorrect, PTL
<1>2. TypeOK /\ LinkInv /\ ListInv /\ [Next]_vars => ListInv'
  BY ListStep
<1>3. QED
  BY <1>1, <1>2, InitGood, PTL DEF Spec

(* The free list holds exactly the pages whose PAGE_RESERVED bit is clear, *)
(* in ascending order, and nr_free_pages counts them, between any two loop *)
(* iterations of alloc_pages, alloc_cont_pages, free_pages and             *)
(* free_all_pages.                                                         *)
THEOREM FreeListIsExact == Spec => []FreeListExact
<1>1. ASSUME TypeOK, ListInv PROVE FreeListExact
  <2>1. PICK C : Steady(C)
    BY <1>1 DEF ListInv, Good
  <2>2. Free \in SUBSET Page /\ nr_free_pages = Cardinality(Free) /\ \A q \in Node : q \in Int
    BY <1>1, <2>1, FreeIs
  <2>3. \A q \in Free : q \in Int /\ 0 < q
    BY <2>2 DEF Page
  <2>4. ASSUME NEW q \in Free \cup {End}
        PROVE  IF \E s \in Free : q < s THEN RingNext(Free, q, nxt[q]) ELSE nxt[q] = End
    <3>1. RingNext(Free \cup {End}, q, nxt[q]) /\ End = 0 /\ q \in Int /\ 0 <= q
      BY <2>1, <2>3 DEF Steady, Ring, End
    <3>2. nxt[q] \in Free \cup {End} /\ nxt[q] \in Int /\ 0 <= nxt[q]
      <4>1. nxt[q] \in Free \cup {End}
        BY <3>1 DEF RingNext, Least
      <4>2. CASE nxt[q] = End
        BY <3>1, <4>1, <4>2
      <4>3. CASE nxt[q] \in Free
        BY <2>3, <4>1, <4>3
      <4>4. QED
        BY <4>1, <4>2, <4>3
    <3>3. CASE \E s \in Free : q < s
      <4>1. q < nxt[q] /\ ~\E s \in Free \cup {End} : q < s /\ s < nxt[q]
        BY <3>1, <3>3 DEF RingNext
      <4>2. nxt[q] \in Free
        BY <3>1, <3>2, <4>1
      <4>3. QED
        BY <3>3, <4>1, <4>2 DEF RingNext
    <3>4. CASE ~\E s \in Free : q < s
      <4>1. ~(q < nxt[q])
        BY <3>1, <3>2, <3>4
      <4>2. Least(Free \cup {End}, nxt[q])
        BY <3>1, <4>1 DEF RingNext
      <4>3. nxt[q] = End
        BY <3>1, <3>2, <4>2 DEF Least
      <4>4. QED
        BY <3>4, <4>3
    <3>5. QED
      BY <3>3, <3>4
  <2>5. QED
    BY <2>2, <2>4 DEF FreeListExact
<1>2. QED
  BY <1>1, ListsHold, TypeCorrect, PTL

(* Between calls every owned page is in the list of one first page: an     *)
(* ascending ring whose first page is its least and has its length.  This  *)
(* is what alloc_pages and alloc_cont_pages build and free_pages' two      *)
(* splits keep, for the head, the tail and every other list.               *)
THEOREM BlocksAreExact == Spec => []BlocksExact
<1>1. ASSUME TypeOK, ListInv PROVE BlocksExact
  <2>1. SUFFICES ASSUME pc = "idle", NEW q \in Owned
                 PROVE  LET f == first_page(q) IN
                          /\ IsFirst(f) /\ Least(Block(f), f) /\ RingNext(Block(f), q, nxt[q])
                          /\ page_count_of[f] = Cardinality(Block(f))
    BY DEF BlocksExact
  <2>2. Steady({})
    BY <1>1, <2>1 DEF ListInv, Good, Working, IdleAt
  <2>3. PICK f, D : f = first_page(q) /\ D = Block(f)
    OBVIOUS
  <2>4. /\ q \in D /\ D \subseteq Owned /\ Ring(nxt, prv, D)
        /\ Headed(f, D, type, first_page_of, page_count_of)
    BY <1>1, <2>2, <2>3, BlockOut
  <2>5. IsFirst(f) /\ Least(D, f) /\ page_count_of[f] = Cardinality(D)
    BY <2>4 DEF Headed, IsFirst, is_tail, Least
  <2>6. RingNext(D, q, nxt[q])
    BY <2>4 DEF Ring
  <2>7. QED
    BY <2>3, <2>5, <2>6
<1>2. QED
  BY <1>1, ListsHold, TypeCorrect, PTL

(* No assert of the page allocator fails and no panic is reached, whatever *)
(* the pages asked for and given back; only alloc_cont_pages' search can   *)
(* come to use the sentinel of the free list as a page.                    *)
THEOREM NoAssertFails == Spec => NoPanic
<1>1. Spec => []TypeOK /\ []LinkInv
  <2>1. Spec => []LinkInv
    BY InitLink, LinkStep, TypeCorrect, PTL DEF Spec
  <2>2. QED
    BY <2>1, TypeCorrect, PTL
<1>2. TypeOK /\ LinkInv /\ ListInv /\ [Next]_vars
        => [pc' # "panic" /\ (pc' = "wild" => pc = "scan")]_vars
  BY ListStep DEF Calm
<1>3. QED
  BY <1>1, <1>2, ListsHold, PTL DEF Spec, NoPanic

-----------------------------------------------------------------------------
(* What is left to do of a call, in terms of what was so before it: C is   *)
(* the list it works on, and the pages of R are on other lists.            *)

(* The blocks that the page structures of the pages R describe *)
Lists(R, ty, fp) ==
  {[pages |-> Group(R, ty, fp, f), type |-> ty[f]] : f \in {q \in R : ty[q] # "tail"}}

(* fr2 and bl2 are fr and bl once the section S of the block b is free. *)
Gives(fr, bl, b, S, fr2, bl2) ==
  LET before == {q \in b.pages : \A s \in S : q < s}
      after  == {q \in b.pages : \A s \in S : s < q}
  IN /\ b \in bl /\ S \in SUBSET b.pages /\ S # {}
     /\ b.pages = before \cup S \cup after
     /\ fr2 = fr \cup S
     /\ bl2 = (bl \ {b}) \cup {[pages |-> T, type |-> b.type] : T \in {before, after} \ {{}}}

(* The calls that allocate have taken C from the free pages. *)
Taking(C) == pc \in {"idle", "take", "scan", "takecont", "marktail"} =>
  /\ done_free = Free \cup C
  /\ done_blocks = Lists(Owned \ C, type, first_page_of)

(* free_pages has freed nothing; its three sections get the type of the block. *)
Cutting(C) == pc \in {"head", "last", "update", "split"} =>
  /\ done_free = Free
  /\ done_blocks = Lists(Owned \ C, type, first_page_of) \cup {[pages |-> C, type |-> type[first]]}
  /\ pc \in {"update", "split"} => type[base] = type[first] /\ type[last] = type[first]

(* free_all_pages frees what is left of a section of a block. *)
Giving(C) == pc \in {"enter", "free", "seek"} =>
  \E b, S : Gives(done_free, done_blocks, b, S, Free \cup C, Lists(Owned \ C, type, first_page_of))

Pending(C) == Taking(C) /\ Cutting(C) /\ Giving(C)

(* The inductive invariant of the refinement *)
ImplInv == pc # "panic" /\ \E C \in SUBSET Page : Good(C) /\ Pending(C)

-----------------------------------------------------------------------------
(* Lists and groups *)

(* The first page of every page of R is in R. *)
Inside(R, ty, fp) == \A q \in R : FirstOf(ty, fp, q) \in R

(* Lists(R, ...) reads the page structures of R only. *)
LEMMA ListsSame ==
  ASSUME NEW R, NEW ty, NEW fp, NEW ty2, NEW fp2,
         \A q \in R : ty2[q] = ty[q] /\ fp2[q] = fp[q]
  PROVE  Lists(R, ty2, fp2) = Lists(R, ty, fp)
<1>1. \A q \in R : FirstOf(ty2, fp2, q) = FirstOf(ty, fp, q)
  BY DEF FirstOf
<1>2. ASSUME NEW f PROVE Group(R, ty2, fp2, f) = Group(R, ty, fp, f)
  BY <1>1 DEF Group
<1>3. {q \in R : ty2[q] # "tail"} = {q \in R : ty[q] # "tail"}
  OBVIOUS
<1>4. QED
  BY <1>2, <1>3 DEF Lists

(* A list apart from the pages of R is one more block. *)
LEMMA ListsJoin ==
  ASSUME NEW R, NEW S, NEW f \in S, NEW ty, NEW fp, R \cap S = {},
         ty[f] # "tail", Tails(f, S, ty, fp), Inside(R, ty, fp)
  PROVE  /\ Lists(R \cup S, ty, fp) = Lists(R, ty, fp) \cup {[pages |-> S, type |-> ty[f]]}
         /\ Inside(R \cup S, ty, fp)
<1>1. \A q \in S : FirstOf(ty, fp, q) = f
  BY DEF FirstOf, Tails
<1>2. \A q \in R : FirstOf(ty, fp, q) \in R
  BY DEF Inside
<1>3. \A g \in R : Group(R \cup S, ty, fp, g) = Group(R, ty, fp, g)
  BY <1>1, <1>2 DEF Group
<1>4. Group(R \cup S, ty, fp, f) = S
  BY <1>1, <1>2 DEF Group
<1>5. {q \in R \cup S : ty[q] # "tail"} = {q \in R : ty[q] # "tail"} \cup {f}
  BY DEF Tails
<1>6. Lists(R \cup S, ty, fp) = Lists(R, ty, fp) \cup {[pages |-> S, type |-> ty[f]]}
  <2>1. ASSUME NEW b \in Lists(R \cup S, ty, fp)
        PROVE  b \in Lists(R, ty, fp) \cup {[pages |-> S, type |-> ty[f]]}
    BY <1>3, <1>4, <1>5 DEF Lists
  <2>2. ASSUME NEW b \in Lists(R, ty, fp) PROVE b \in Lists(R \cup S, ty, fp)
    BY <1>3 DEF Lists
  <2>3. [pages |-> S, type |-> ty[f]] \in Lists(R \cup S, ty, fp)
    BY <1>4, <1>5 DEF Lists
  <2>4. QED
    BY <2>1, <2>2, <2>3
<1>7. QED
  BY <1>1, <1>2, <1>6 DEF Inside

(* The blocks of R hold pages of R. *)
LEMMA ListPages ==
  ASSUME NEW R, NEW ty, NEW fp, NEW b \in Lists(R, ty, fp)
  PROVE  b.pages \subseteq R
  BY DEF Lists, Group

(* A block that holds a page elsewhere is not one of R's. *)
LEMMA NotOfLists ==
  ASSUME NEW R, NEW ty, NEW fp, NEW S, NEW t, NEW x \in S, x \notin R
  PROVE  [pages |-> S, type |-> t] \notin Lists(R, ty, fp)
<1>1. SUFFICES ASSUME [pages |-> S, type |-> t] \in Lists(R, ty, fp) PROVE FALSE
  OBVIOUS
<1>2. [pages |-> S, type |-> t].pages \subseteq R
  BY <1>1, ListPages
<1>3. QED
  BY <1>2

LEMMA SettledInside ==
  ASSUME NEW C, Steady(C) PROVE Inside(Owned \ C, type, first_page_of)
  BY DEF Steady, Settled, Inside

(* Blocks is what the owned pages describe. *)
LEMMA BlocksAre == TypeOK => Blocks = Lists(Owned, type, first_page_of)
<1> SUFFICES ASSUME TypeOK PROVE Blocks = Lists(Owned, type, first_page_of)
  OBVIOUS
<1>1. {q \in Page : IsFirst(q)} = {q \in Owned : type[q] # "tail"}
  BY DEF Owned, IsFirst, is_tail, TypeOK
<1>2. \A f : Block(f) = Group(Owned, type, first_page_of, f)
  BY DEF Block, Group, first_page, is_tail, FirstOf
<1>3. QED
  BY <1>1, <1>2 DEF Blocks, Lists

-----------------------------------------------------------------------------
(* Steps in the middle of a call: PageSets sees nothing. *)

(* A page goes from the free list to the list C of the call or back, and   *)
(* no page structure outside C changes.                                    *)
Shift(C, D) ==
  /\ Free' \cup D = Free \cup C /\ Owned' \ D = Owned \ C
  /\ \A q \in Owned \ C : type'[q] = type[q] /\ first_page_of'[q] = first_page_of[q]
  /\ UNCHANGED <<done_free, done_blocks>>

LEMMA ShiftSame ==
  ASSUME NEW C, NEW D, Shift(C, D)
  PROVE  Lists(Owned' \ D, type', first_page_of') = Lists(Owned \ C, type, first_page_of)
<1>1. PICK R : R = Owned \ C
  OBVIOUS
<1>2. Lists(R, type', first_page_of') = Lists(R, type, first_page_of)
  BY <1>1, ListsSame DEF Shift
<1>3. QED
  BY <1>1, <1>2 DEF Shift

LEMMA ShiftTaking ==
  ASSUME NEW C, NEW D, Shift(C, D), Taking(C),
         pc \in {"idle", "take", "scan", "takecont", "marktail"},
         pc' \in {"take", "scan", "takecont", "marktail", "wild"}
  PROVE  Pending(D)'
<1>1. done_free = Free \cup C /\ done_blocks = Lists(Owned \ C, type, first_page_of)
  BY DEF Taking
<1>2. done_free' = Free' \cup D /\ done_blocks' = Lists(Owned' \ D, type', first_page_of')
  BY <1>1, ShiftSame DEF Shift
<1>3. QED
  BY <1>2 DEF Pending, Taking, Cutting, Giving

LEMMA ShiftGiving ==
  ASSUME NEW C, NEW D, Shift(C, D), Giving(C),
         pc \in {"enter", "free", "seek"}, pc' \in {"enter", "free", "seek"}
  PROVE  Pending(D)'
<1>1. PICK b, S : Gives(done_free, done_blocks, b, S, Free \cup C, Lists(Owned \ C, type, first_page_of))
  BY DEF Giving
<1>2. Gives(done_free', done_blocks', b, S, Free' \cup D, Lists(Owned' \ D, type', first_page_of'))
  BY <1>1, ShiftSame DEF Shift
<1>3. QED
  BY <1>2 DEF Pending, Taking, Cutting, Giving

LEMMA ShiftCutting ==
  ASSUME NEW C, Shift(C, C), Cutting(C), Free' = Free,
         pc \in {"head", "last", "update", "split"}, pc' \in {"head", "last", "update", "split"},
         first' = first, type'[first] = type[first],
         pc' \in {"update", "split"} => type'[base'] = type'[first] /\ type'[last'] = type'[first]
  PROVE  Pending(C)'
<1>1. done_free = Free /\ done_blocks = Lists(Owned \ C, type, first_page_of) \cup {[pages |-> C, type |-> type[first]]}
  BY DEF Cutting
<1>2. done_free' = Free' /\ done_blocks' = Lists(Owned' \ C, type', first_page_of') \cup {[pages |-> C, type |-> type'[first']]}
  BY <1>1, ShiftSame DEF Shift
<1>3. QED
  BY <1>2 DEF Pending, Taking, Cutting, Giving

(* The history variables record the state at a return. *)
Hist == IF pc' = "idle" THEN done_free' = Free' /\ done_blocks' = Blocks'
                        ELSE UNCHANGED <<done_free, done_blocks>>

LEMMA Returned ==
  ASSUME TypeOK', pc' = "idle", Hist PROVE Pending({})'
<1>1. (TypeOK => Blocks = Lists(Owned, type, first_page_of))'
  BY BlocksAre, PTL
<1>2. done_free' = Free' /\ done_blocks' = Lists(Owned', type', first_page_of')
  BY <1>1 DEF Hist
<1>3. QED
  BY <1>2 DEF Pending, Taking, Cutting, Giving

-----------------------------------------------------------------------------
(* One lemma for each action: what PageSets sees of it *)

Follows(D) == Pending(D)' /\ [Abstract!Next]_<<done_free, done_blocks>>

(* What happens to page structures while heap is unchanged *)
LEMMA HeapShift ==
  ASSUME NEW C, UNCHANGED heap, UNCHANGED <<done_free, done_blocks>>
  PROVE  Shift(C, C) /\ Free' = Free /\ Owned' = Owned /\ UNCHANGED <<type, first_page_of>>
  BY DEF Shift, heap, meta, Free, Owned

LEMMA AllocImpl ==
  ASSUME NEW C, Pending(C), NEW n, alloc_pages(n) \/ alloc_cont_pages(n), Hist
  PROVE  Follows(C)
<1>1. pc = "idle" /\ pc' \in {"take", "scan"} /\ UNCHANGED heap
  BY DEF alloc_pages, alloc_cont_pages, Call
<1>2. UNCHANGED <<done_free, done_blocks>>
  BY <1>1 DEF Hist
<1>3. Pending(C)'
  BY <1>1, <1>2, HeapShift, ShiftTaking DEF Pending
<1>4. QED
  BY <1>2, <1>3 DEF Follows

(* The block D of a page is one of the blocks, besides those of the others. *)
LEMMA OneBlock ==
  ASSUME TypeOK, Steady({}), NEW b \in Owned, NEW D, D = Block(first_page(b)), NEW f, f = first_page(b)
  PROVE  /\ b \in D /\ D \subseteq Owned /\ f \in D
         /\ type[f] # "tail" /\ Tails(f, D, type, first_page_of)
         /\ Inside(Owned \ D, type, first_page_of)
         /\ Lists(Owned, type, first_page_of)
              = Lists(Owned \ D, type, first_page_of) \cup {[pages |-> D, type |-> type[f]]}
         /\ [pages |-> D, type |-> type[f]] \notin Lists(Owned \ D, type, first_page_of)
<1>1. /\ b \in D /\ D \subseteq Owned /\ Headed(f, D, type, first_page_of, page_count_of)
      /\ Settled(Owned \ D, nxt, prv, type, first_page_of, page_count_of)
  BY BlockOut
<1>2. PICK R : R = Owned \ D
  OBVIOUS
<1>3. Inside(R, type, first_page_of)
  BY <1>1, <1>2 DEF Settled, Inside
<1>4. f \in D /\ type[f] # "tail" /\ Tails(f, D, type, first_page_of)
  BY <1>1 DEF Headed, Least
<1>5. Lists(R \cup D, type, first_page_of) = Lists(R, type, first_page_of) \cup {[pages |-> D, type |-> type[f]]}
  <2>1. R \cap D = {}
    BY <1>2
  <2>2. QED
    BY <1>3, <1>4, <2>1, ListsJoin
<1>6. R \cup D = Owned /\ f \notin R
  BY <1>1, <1>2, <1>4
<1>7. [pages |-> D, type |-> type[f]] \notin Lists(R, type, first_page_of)
  BY <1>4, <1>6, NotOfLists
<1>8. QED
  BY <1>1, <1>2, <1>3, <1>4, <1>5, <1>6, <1>7

LEMMA OwnedPages == ASSUME TypeOK PROVE Owned \subseteq Page
  BY DEF TypeOK, Owned

LEMMA IdleSteady ==
  ASSUME NEW C, Good(C), Pending(C), pc = "idle"
  PROVE  /\ C = {} /\ Steady({}) /\ NoLocals
         /\ done_free = Free /\ done_blocks = Lists(Owned, type, first_page_of)
<1>1. C = {} /\ Steady({}) /\ NoLocals
  BY DEF Good, Working, IdleAt
<1>2. Free \cup {} = Free /\ Owned \ {} = Owned
  OBVIOUS
<1>3. QED
  BY <1>1, <1>2 DEF Pending, Taking

LEMMA SetTypeImpl ==
  ASSUME TypeOK, TypeOK', NEW C, Good(C), Pending(C), NEW f, SetType(f), Hist
  PROVE  Follows(C)
<1>1. /\ pc = "idle" /\ pc' = "idle" /\ f \in Owned /\ type[f] # "tail" /\ Owned' = Owned /\ Free' = Free
      /\ type' = [type EXCEPT ![f] = "slab"] /\ first_page_of' = first_page_of
  BY DEF SetType, IsFirst, is_tail, Owned, Free
<1>2. C = {} /\ Steady({}) /\ done_free = Free /\ done_blocks = Lists(Owned, type, first_page_of)
  BY <1>1, IdleSteady
<1>3. Pending(C)'
  BY <1>1, <1>2, Returned
<1>4. PICK D : D = Block(first_page(f))
  OBVIOUS
<1>5. f = first_page(f)
  BY <1>1 DEF first_page, is_tail
<1>6. /\ f \in D /\ D \subseteq Owned /\ Tails(f, D, type, first_page_of)
      /\ Inside(Owned \ D, type, first_page_of)
      /\ done_blocks = Lists(Owned \ D, type, first_page_of) \cup {[pages |-> D, type |-> type[f]]}
      /\ [pages |-> D, type |-> type[f]] \notin Lists(Owned \ D, type, first_page_of)
  BY <1>1, <1>2, <1>4, <1>5, OneBlock
<1>7. PICK R : R = Owned \ D
  OBVIOUS
<1>8. \A q \in Owned : type'[q] = IF q = f THEN "slab" ELSE type[q]
  <2>1. Owned \subseteq Node
    BY OwnedPages DEF Page, Node
  <2>2. QED
    BY <1>1, <2>1 DEF TypeOK
<1>9. Lists(R, type', first_page_of') = Lists(R, type, first_page_of)
  <2>1. \A q \in R : type'[q] = type[q] /\ first_page_of'[q] = first_page_of[q]
    BY <1>1, <1>6, <1>7, <1>8
  <2>2. QED
    BY <2>1, ListsSame
<1>10. Lists(R \cup D, type', first_page_of') = Lists(R, type', first_page_of') \cup {[pages |-> D, type |-> type'[f]]}
  <2>1. type'[f] = "slab" /\ Tails(f, D, type', first_page_of')
    BY <1>1, <1>6, <1>8 DEF Tails
  <2>2. Inside(R, type', first_page_of')
    BY <1>1, <1>6, <1>7, <1>8 DEF Inside, FirstOf
  <2>3. R \cap D = {}
    BY <1>7
  <2>4. QED
    BY <1>6, <2>1, <2>2, <2>3, ListsJoin
<1>11. done_free' = Free' /\ done_blocks' = Lists(Owned', type', first_page_of')
  <2>1. (TypeOK => Blocks = Lists(Owned, type, first_page_of))'
    BY BlocksAre, PTL
  <2>2. QED
    BY <1>1, <2>1 DEF Hist
<1>12. R \cup D = Owned /\ type'[f] = "slab"
  BY <1>1, <1>6, <1>7, <1>8
<1>13. PICK b, L : b = [pages |-> D, type |-> type[f]] /\ L = Lists(R, type, first_page_of)
  OBVIOUS
<1>14. done_blocks = L \cup {b} /\ b \notin L /\ done_blocks' = L \cup {[b EXCEPT !.type = "slab"]}
  <2>1. [b EXCEPT !.type = "slab"] = [pages |-> D, type |-> "slab"]
    BY <1>13
  <2>2. done_blocks' = L \cup {[pages |-> D, type |-> "slab"]}
    BY <1>1, <1>9, <1>10, <1>11, <1>12, <1>13
  <2>3. QED
    BY <1>6, <1>7, <1>13, <2>1, <2>2
<1>15. done_blocks' = (done_blocks \ {b}) \cup {[b EXCEPT !.type = "slab"]} /\ b \in done_blocks
  BY <1>14
<1>16. Abstract!SetType
  BY <1>1, <1>2, <1>11, <1>15 DEF Abstract!SetType
<1>17. QED
  BY <1>3, <1>16 DEF Follows, Abstract!Next

LEMMA FreePagesImpl ==
  ASSUME TypeOK, NEW C, Good(C), Pending(C), NEW b, NEW n, free_pages(b, n), Hist,
         NEW D, D = Block(first_page(b))
  PROVE  Follows(D)
<1>1. /\ pc = "idle" /\ pc' = "head" /\ UNCHANGED heap /\ b \in Owned /\ first' = first_page(b)
  BY DEF free_pages, Owns, Call
<1>2. UNCHANGED <<done_free, done_blocks>>
  BY <1>1 DEF Hist
<1>3. Steady({}) /\ done_free = Free /\ done_blocks = Lists(Owned, type, first_page_of)
  BY <1>1, IdleSteady
<1>4. PICK f : f = first_page(b)
  OBVIOUS
<1>5. done_blocks = Lists(Owned \ D, type, first_page_of) \cup {[pages |-> D, type |-> type[f]]}
  BY <1>1, <1>3, <1>4, OneBlock
<1>6. Free' = Free /\ Owned' = Owned /\ UNCHANGED <<type, first_page_of>>
  BY <1>1, <1>2, HeapShift
<1>7. /\ done_free' = Free'
      /\ done_blocks' = Lists(Owned' \ D, type', first_page_of') \cup {[pages |-> D, type |-> type'[first']]}
  BY <1>1, <1>2, <1>3, <1>4, <1>5, <1>6
<1>8. Pending(D)'
  BY <1>1, <1>7 DEF Pending, Taking, Cutting, Giving
<1>9. QED
  BY <1>2, <1>8 DEF Follows

(* free_all_pages frees a block as a whole. *)
LEMMA FreeAllImpl ==
  ASSUME TypeOK, NEW C, Good(C), Pending(C), NEW fp, free_all_pages(fp), Hist,
         NEW D, D = Block(first_page(fp))
  PROVE  Follows(D)
<1>1. pc = "idle" /\ pc' = "enter" /\ UNCHANGED heap /\ fp \in Owned
  BY DEF free_all_pages, Call
<1>2. UNCHANGED <<done_free, done_blocks>>
  BY <1>1 DEF Hist
<1>3. Steady({}) /\ done_free = Free /\ done_blocks = Lists(Owned, type, first_page_of)
  BY <1>1, IdleSteady
<1>4. PICK f : f = first_page(fp)
  OBVIOUS
<1>5. PICK b, L : b = [pages |-> D, type |-> type[f]] /\ L = Lists(Owned \ D, type, first_page_of)
  OBVIOUS
<1>6. done_blocks = L \cup {b} /\ b \notin L /\ D # {} /\ \A q \in D : q \in Int
  <2>1. /\ fp \in D /\ D \subseteq Owned /\ done_blocks = L \cup {b} /\ b \notin L
    BY <1>1, <1>3, <1>4, <1>5, OneBlock
  <2>2. QED
    BY <2>1, OwnedPages DEF Page
<1>7. Gives(done_free, done_blocks, b, D, Free \cup D, L)
  <2>1. b.pages = D
    BY <1>5
  <2>2. {q \in b.pages : \A s \in D : q < s} = {} /\ {q \in b.pages : \A s \in D : s < q} = {}
    <3>1. \A q \in D : ~(q < q)
      BY <1>6
    <3>2. QED
      BY <2>1, <3>1
  <2>3. {{}, {}} \ {{}} = {}
    OBVIOUS
  <2>4. L = (done_blocks \ {b}) \cup {[pages |-> T, type |-> b.type] : T \in {}}
    BY <1>6
  <2>5. QED
    BY <1>3, <1>6, <2>1, <2>2, <2>3, <2>4 DEF Gives
<1>8. Free' = Free /\ Owned' = Owned /\ UNCHANGED <<type, first_page_of>>
  BY <1>1, <1>2, HeapShift
<1>9. Gives(done_free', done_blocks', b, D, Free' \cup D, Lists(Owned' \ D, type', first_page_of'))
  BY <1>2, <1>5, <1>7, <1>8
<1>10. Pending(D)'
  BY <1>1, <1>9 DEF Pending, Taking, Cutting, Giving
<1>11. QED
  BY <1>2, <1>10 DEF Follows

(* A page that a call reserves *)
LEMMA ReserveShift ==
  ASSUME TypeOK, NEW C, Steady(C), NEW x \in Free, reserved' = reserved \cup {x},
         \A q \in Owned \ C : type'[q] = type[q] /\ first_page_of'[q] = first_page_of[q],
         UNCHANGED <<done_free, done_blocks>>, NEW D, D = C \cup {x}
  PROVE  Shift(C, D)
<1>1. Free' = Free \ {x} /\ x \notin reserved
  BY DEF Free
<1>2. NOccupied < x
  BY PageAssumption DEF Steady, Free, Page
<1>3. Owned' = Owned \cup {x}
  BY <1>2 DEF Owned
<1>4. x \notin Owned
  BY <1>1 DEF Owned
<1>5. QED
  BY <1>1, <1>3, <1>4 DEF Shift

(* The list of a call that returns it is a new block. *)
LEMMA NewBlock ==
  ASSUME TypeOK, TypeOK', NEW C, Steady(C), NEW f \in C, Tails(f, C, type, first_page_of),
         type' = [type EXCEPT ![f] = "generic"], pc' = "idle",
         UNCHANGED <<reserved, first_page_of>>, Taking(C),
         pc \in {"idle", "take", "scan", "takecont", "marktail"}, Hist
  PROVE  /\ Pending({})'
         /\ C \subseteq done_free /\ C # {} /\ done_free' = done_free \ C /\ done_free' = Free
         /\ done_blocks' = done_blocks \cup {[pages |-> C, type |-> "generic"]}
<1>1. /\ Owned' = Owned /\ Free' = Free /\ C \subseteq Owned /\ Owned \cap Free = {} /\ Owned \subseteq Node
  <2>1. Owned \subseteq Node
    BY OwnedPages DEF Page, Node
  <2>2. QED
    BY <2>1 DEF Steady, Owned, Free
<1>2. \A q \in Owned : type'[q] = IF q = f THEN "generic" ELSE type[q]
  BY <1>1 DEF TypeOK
<1>3. PICK R : R = Owned \ C
  OBVIOUS
<1>4. done_free = Free \cup C /\ done_blocks = Lists(R, type, first_page_of)
  BY <1>3 DEF Taking
<1>5. Lists(R, type', first_page_of') = Lists(R, type, first_page_of)
  <2>1. \A q \in R : type'[q] = type[q] /\ first_page_of'[q] = first_page_of[q]
    BY <1>2, <1>3
  <2>2. PICK ty2, fp2 : ty2 = type' /\ fp2 = first_page_of'
    OBVIOUS
  <2>3. Lists(R, ty2, fp2) = Lists(R, type, first_page_of)
    <3>1. \A q \in R : ty2[q] = type[q] /\ fp2[q] = first_page_of[q]
      BY <2>1, <2>2
    <3>2. QED
      BY <3>1, ListsSame
  <2>4. QED
    BY <2>2, <2>3
<1>6. Lists(R \cup C, type', first_page_of') = Lists(R, type', first_page_of') \cup {[pages |-> C, type |-> type'[f]]}
  <2>1. Inside(R, type, first_page_of)
    BY <1>3, SettledInside
  <2>2. Inside(R, type', first_page_of')
    BY <1>2, <1>3, <2>1 DEF Inside, FirstOf
  <2>3. type'[f] # "tail" /\ Tails(f, C, type', first_page_of') /\ R \cap C = {}
    BY <1>1, <1>2, <1>3 DEF Tails
  <2>4. PICK ty2, fp2 : ty2 = type' /\ fp2 = first_page_of'
    OBVIOUS
  <2>5. Lists(R \cup C, ty2, fp2) = Lists(R, ty2, fp2) \cup {[pages |-> C, type |-> ty2[f]]}
    <3>1. ty2[f] # "tail" /\ Tails(f, C, ty2, fp2) /\ R \cap C = {} /\ Inside(R, ty2, fp2)
      BY <2>2, <2>3, <2>4
    <3>2. QED
      BY <3>1, ListsJoin
  <2>6. QED
    BY <2>4, <2>5
<1>7. done_free' = Free' /\ done_blocks' = Lists(Owned', type', first_page_of')
  <2>1. (TypeOK => Blocks = Lists(Owned, type, first_page_of))'
    BY BlocksAre, PTL
  <2>2. QED
    BY <2>1 DEF Hist
<1>8. R \cup C = Owned /\ type'[f] = "generic"
  BY <1>1, <1>2, <1>3
<1>9. QED
  BY <1>1, <1>4, <1>5, <1>6, <1>7, <1>8, Returned

(* alloc_pages takes the lowest free pages, one by one, and returns them. *)
LEMMA TakeImpl ==
  ASSUME TypeOK, TypeOK', NEW C, Good(C), Pending(C), Take, Calm, Hist,
         NEW D, D = IF i = 0 THEN {} ELSE C \cup {p}
  PROVE  Follows(D)
<1>1. /\ pc = "take" /\ num > 0 /\ Cardinality(C) = num - i /\ (\A q \in C, r \in Free : q < r)
      /\ IF first = End THEN C = {} ELSE Least(C, first) /\ Tails(first, C, type, first_page_of)
  BY DEF Take, Good, Working, TakeAt
<1>2. Steady(C) /\ Taking(C)
  BY DEF Good, Pending
<1>3. CASE i = 0
  <2>1. /\ type' = [type EXCEPT ![first] = "generic"] /\ pc' = "idle"
        /\ UNCHANGED <<reserved, first_page_of>>
    BY <1>3 DEF Take, Return
  <2>2. first \in C /\ Tails(first, C, type, first_page_of)
    <3>1. num \in Int
      BY DEF TypeOK
    <3>2. C # {}
      BY <1>1, <1>3, <3>1, FS_EmptySet
    <3>3. QED
      BY <1>1, <3>2 DEF Least
  <2>3. /\ Pending({})'
        /\ C \subseteq done_free /\ C # {} /\ done_free' = done_free \ C /\ done_free' = Free
        /\ done_blocks' = done_blocks \cup {[pages |-> C, type |-> "generic"]}
    BY <1>1, <1>2, <2>1, <2>2, NewBlock
  <2>4. Abstract!AllocPages
    <3>1. Abstract!Below(C, done_free \ C)
      BY <1>1, <2>3 DEF Abstract!Below
    <3>2. Abstract!Grant(C)
      BY <2>3 DEF Abstract!Grant
    <3>3. QED
      BY <2>3, <3>1, <3>2 DEF Abstract!AllocPages
  <2>5. QED
    BY <1>3, <2>3, <2>4 DEF Follows, Abstract!Next
<1>4. CASE i # 0
  <2>1. p # End /\ p \notin reserved
    BY <1>1, <1>4 DEF Take, Stop, Calm
  <2>2. p \in Free
    BY <2>1 DEF TypeOK, Free, Page, Node, End
  <2>3. /\ reserved' = reserved \cup {p} /\ pc' = pc
        /\ \/ UNCHANGED <<type, first_page_of>>
           \/ /\ type' = [type EXCEPT ![p] = "tail"]
              /\ first_page_of' = [first_page_of EXCEPT ![p] = first]
    BY <1>4, <2>1 DEF Take
  <2>4. UNCHANGED <<done_free, done_blocks>>
    BY <1>1, <2>3 DEF Hist
  <2>5. \A q \in Owned \ C : type'[q] = type[q] /\ first_page_of'[q] = first_page_of[q]
    <3>1. \A q \in Owned : q # p /\ q \in Node
      BY <2>1, OwnedPages DEF Owned, Page, Node
    <3>2. QED
      BY <2>3, <3>1 DEF TypeOK
  <2>6. D = C \cup {p}
    BY <1>4
  <2>7. Shift(C, D)
    BY <1>2, <2>2, <2>3, <2>4, <2>5, <2>6, ReserveShift
  <2>8. Pending(D)'
    BY <1>1, <1>2, <2>3, <2>7, ShiftTaking
  <2>9. QED
    BY <2>4, <2>8 DEF Follows
<1>5. QED
  BY <1>3, <1>4

LEMMA ScanImpl ==
  ASSUME NEW C, Pending(C), Scan, Calm, Hist
  PROVE  Follows(C)
<1>1. pc = "scan" /\ pc' \in {"scan", "takecont", "wild"} /\ UNCHANGED heap
  BY DEF Scan, Stop
<1>2. UNCHANGED <<done_free, done_blocks>>
  BY <1>1 DEF Hist
<1>3. Pending(C)'
  BY <1>1, <1>2, HeapShift, ShiftTaking DEF Pending
<1>4. QED
  BY <1>2, <1>3 DEF Follows

LEMMA TakeContImpl ==
  ASSUME TypeOK, NEW C, Good(C), Pending(C), TakeCont, Calm, Hist,
         NEW D, D = IF i = num THEN C ELSE C \cup {p}
  PROVE  Follows(D)
<1>1. /\ pc = "takecont" /\ pc' \in {"takecont", "marktail"} /\ UNCHANGED <<type, first_page_of>>
      /\ num > 0 /\ i \in 0..num /\ p - (num - i) + 1 .. p \subseteq Free
  BY DEF TakeCont, Stop, Calm, meta, Good, Working, ContAt
<1>2. Steady(C) /\ Taking(C) /\ UNCHANGED <<done_free, done_blocks>>
  BY <1>1 DEF Good, Pending, Hist
<1>3. Shift(C, D)
  <2>1. CASE i = num
    BY <1>1, <1>2, <2>1 DEF Shift, TakeCont, Free, Owned
  <2>2. CASE i # num
    <3>1. p \in Free
      BY <1>1, <2>2 DEF TypeOK, Node
    <3>2. reserved' = reserved \cup {p}
      BY <1>1, <2>2 DEF TakeCont, Stop, Calm
    <3>3. \A q \in Owned \ C : type'[q] = type[q] /\ first_page_of'[q] = first_page_of[q]
      BY <1>1
    <3>4. QED
      BY <1>2, <2>2, <3>1, <3>2, <3>3, ReserveShift
  <2>3. QED
    BY <2>1, <2>2
<1>4. Pending(D)'
  BY <1>1, <1>2, <1>3, ShiftTaking
<1>5. QED
  BY <1>2, <1>4 DEF Follows

(* alloc_cont_pages returns the run that it has found. *)
LEMMA MarkTailImpl ==
  ASSUME TypeOK, TypeOK', NEW C, Good(C), Pending(C), MarkTail, Calm, Hist,
         NEW D, D = IF i < num THEN C ELSE {}
  PROVE  Follows(D)
<1>1. /\ pc = "marktail" /\ i \in 1..num /\ C = first .. first + num - 1
      /\ p = (IF i < num THEN first + i ELSE first)
      /\ Tails(first, first .. first + i - 1, type, first_page_of)
  BY DEF MarkTail, Good, Working, MarkAt
<1>2. Steady(C) /\ Taking(C) /\ first \in Int /\ num \in Int /\ i \in Int
  BY DEF Good, Pending, TypeOK, Node
<1>3. CASE i < num
  <2>1. /\ type' = [type EXCEPT ![p] = "tail"]
        /\ first_page_of' = [first_page_of EXCEPT ![p] = first]
        /\ pc' = pc /\ reserved' = reserved
    BY <1>3 DEF MarkTail
  <2>2. p \in C
    BY <1>1, <1>2, <1>3
  <2>3. UNCHANGED <<done_free, done_blocks>>
    BY <1>1, <2>1 DEF Hist
  <2>4. \A q \in Owned \ C : type'[q] = type[q] /\ first_page_of'[q] = first_page_of[q]
    <3>1. \A q \in Owned : q \in Node
      BY OwnedPages DEF Page, Node
    <3>2. QED
      BY <2>1, <2>2, <3>1 DEF TypeOK
  <2>5. Shift(C, C)
    BY <2>1, <2>3, <2>4 DEF Shift, Free, Owned
  <2>6. Pending(C)'
    BY <1>1, <1>2, <2>1, <2>5, ShiftTaking
  <2>7. QED
    BY <1>3, <2>3, <2>6 DEF Follows
<1>4. CASE ~(i < num)
  <2>1. /\ type' = [type EXCEPT ![first] = "generic"] /\ pc' = "idle"
        /\ UNCHANGED <<reserved, first_page_of>>
    BY <1>4 DEF MarkTail, Stop, Calm, Return
  <2>2. first \in C /\ first + num - 1 \in C /\ Tails(first, C, type, first_page_of)
    BY <1>1, <1>2, <1>4
  <2>3. /\ Pending({})'
        /\ C \subseteq done_free /\ C # {} /\ done_free' = done_free \ C /\ done_free' = Free
        /\ done_blocks' = done_blocks \cup {[pages |-> C, type |-> "generic"]}
    BY <1>1, <1>2, <2>1, <2>2, NewBlock
  <2>4. Abstract!AllocContPages
    <3>1. PICK a, z : a = first /\ z = first + num - 1
      OBVIOUS
    <3>2. a \in done_free /\ z \in done_free /\ a <= z /\ a..z \subseteq done_free
      BY <1>1, <1>2, <2>2, <2>3, <3>1
    <3>3. Abstract!Grant(a..z)
      BY <1>1, <2>3, <3>1 DEF Abstract!Grant
    <3>4. QED
      BY <3>2, <3>3 DEF Abstract!AllocContPages
  <2>5. QED
    BY <1>4, <2>3, <2>4 DEF Follows, Abstract!Next
<1>5. QED
  BY <1>3, <1>4

LEMMA HeadWalkImpl ==
  ASSUME NEW C, Pending(C), HeadWalk, Calm, Hist
  PROVE  Follows(C)
<1>1. pc = "head" /\ pc' \in {"head", "last"} /\ UNCHANGED <<heap, first>>
  BY DEF HeadWalk, Calm
<1>2. UNCHANGED <<done_free, done_blocks>>
  BY <1>1 DEF Hist
<1>3. Pending(C)'
  BY <1>1, <1>2, HeapShift, ShiftCutting DEF Pending
<1>4. QED
  BY <1>2, <1>3 DEF Follows

(* The first pages of the freed section and of the tail get the type of the block. *)
LEMMA LastWalkImpl ==
  ASSUME TypeOK, NEW C, Good(C), Pending(C), LastWalk, Calm, Hist
  PROVE  Follows(C)
<1>1. /\ pc = "last" /\ pc' \in {"last", "update"} /\ base \in C /\ last \in C /\ C \subseteq Owned
      /\ UNCHANGED <<reserved, first_page_of, first, base>>
      /\ IF i = num
         THEN type' = [type EXCEPT ![base] = type[first], ![last] = type[first]] /\ last' = last
         ELSE pc' = "last" /\ type' = type
  BY DEF LastWalk, Calm, Good, Steady, Working, LastAt, Cut
<1>2. UNCHANGED <<done_free, done_blocks>> /\ Cutting(C)
  BY <1>1 DEF Hist, Pending
<1>3. \A q \in Node : type'[q] = IF i = num /\ q \in {base, last} THEN type[first] ELSE type[q]
  BY <1>1 DEF TypeOK
<1>4. first \in Node /\ base \in Node /\ last \in Node /\ \A q \in Owned : q \in Node
  BY OwnedPages DEF TypeOK, Page, Node
<1>5. Shift(C, C) /\ Free' = Free
  BY <1>1, <1>2, <1>3, <1>4 DEF Shift, Free, Owned
<1>6. /\ first' = first /\ type'[first] = type[first]
      /\ pc' \in {"update", "split"} => type'[base'] = type'[first] /\ type'[last'] = type'[first]
  BY <1>1, <1>3, <1>4
<1>7. Pending(C)'
  BY <1>1, <1>2, <1>5, <1>6, ShiftCutting
<1>8. QED
  BY <1>2, <1>7 DEF Follows

LEMMA UpdateImpl ==
  ASSUME TypeOK, NEW C, Good(C), Pending(C), UpdateList, Hist
  PROVE  Follows(C)
<1>1. /\ pc = "update" /\ pc' \in {"update", "split"} /\ UNCHANGED <<reserved, type, first, base, last>>
      /\ \/ first_page_of' = first_page_of
         \/ p # To(seg) /\ first_page_of' = [first_page_of EXCEPT ![p] = From(seg)]
  BY DEF UpdateList
<1>2. p \in Sect(seg, C) \cup {To(seg)} /\ Sect(seg, C) \subseteq C
  BY <1>1 DEF Good, Working, UpdateAt, Sect, Before, Freed, After
<1>3. UNCHANGED <<done_free, done_blocks>> /\ Cutting(C)
  BY <1>1 DEF Hist, Pending
<1>4. \A q \in Owned \ C : first_page_of'[q] = first_page_of[q]
  <2>1. \A q \in Owned : q \in Node
    BY OwnedPages DEF Page, Node
  <2>2. QED
    BY <1>1, <1>2, <2>1 DEF TypeOK
<1>5. Shift(C, C) /\ Free' = Free
  BY <1>1, <1>3, <1>4 DEF Shift, Free, Owned
<1>6. Pending(C)'
  BY <1>1, <1>3, <1>5, ShiftCutting DEF Cutting
<1>7. QED
  BY <1>3, <1>6 DEF Follows

(* ListsJoin for a section that may be empty *)
Part(S, t) == {[pages |-> T, type |-> t] : T \in {S} \ {{}}}
LEMMA PartJoin ==
  ASSUME NEW R, NEW S, NEW f, NEW t, NEW ty, NEW fp, R \cap S = {}, Inside(R, ty, fp),
         S # {} => f \in S /\ ty[f] # "tail" /\ ty[f] = t /\ Tails(f, S, ty, fp)
  PROVE  /\ Lists(R \cup S, ty, fp) = Lists(R, ty, fp) \cup Part(S, t)
         /\ Inside(R \cup S, ty, fp)
<1>1. CASE S = {}
  <2>1. R \cup S = R /\ Part(S, t) = {}
    BY <1>1 DEF Part
  <2>2. QED
    BY <2>1
<1>2. CASE S # {}
  <2>1. Part(S, t) = {[pages |-> S, type |-> t]}
    BY <1>2 DEF Part
  <2>2. QED
    BY <1>2, <2>1, ListsJoin
<1>3. QED
  BY <1>1, <1>2

(* page_split makes the sections what free_pages leaves and what it frees. *)
LEMMA SplitImpl ==
  ASSUME TypeOK, NEW C, Good(C), Pending(C), Split, Hist, NEW D, D = Freed(C)
  PROVE  Follows(D)
<1>1. /\ pc = "split" /\ pc' = "enter" /\ UNCHANGED <<reserved, type, first_page_of>>
      /\ Sections(C) /\ SectDone(1, C) /\ SectDone(3, C)
  BY DEF Split, meta, Good, Working, SplitAt
<1>2. /\ Steady(C) /\ C \in SUBSET Page /\ Cutting(C) /\ UNCHANGED <<done_free, done_blocks>>
      /\ Free' = Free /\ Owned' = Owned /\ C \subseteq Owned
  BY <1>1 DEF Good, Steady, Pending, Hist, Free, Owned
<1>3. PICK A, Z, R, t, b : A = Before(C) /\ Z = After(C) /\ R = Owned \ C /\ t = type[first] /\ b = [pages |-> C, type |-> t]
  OBVIOUS
<1>4. base \in D /\ C = A \cup D \cup Z /\ A \cap D = {} /\ A \cap Z = {} /\ D \cap Z = {}
  BY <1>1, <1>2, <1>3, SectIs
<1>5. /\ done_free = Free /\ done_blocks = Lists(R, type, first_page_of) \cup {b}
      /\ type[base] = t /\ type[last] = t
  BY <1>1, <1>2, <1>3 DEF Cutting
<1>6. /\ A # {} => first \in A /\ type[first] # "tail" /\ type[first] = t /\ Tails(first, A, type, first_page_of)
      /\ Z # {} => last \in Z /\ type[last] # "tail" /\ type[last] = t /\ Tails(last, Z, type, first_page_of)
  BY <1>1, <1>3, <1>5 DEF SectDone, Sect, From, Headed, Least
<1>7. Lists(R \cup A, type, first_page_of) = Lists(R, type, first_page_of) \cup Part(A, t)
      /\ Inside(R \cup A, type, first_page_of)
  <2>1. R \cap A = {} /\ Inside(R, type, first_page_of)
    BY <1>2, <1>3, <1>4, SettledInside
  <2>2. QED
    BY <1>6, <2>1, PartJoin
<1>8. Lists(Owned \ D, type, first_page_of) = Lists(R, type, first_page_of) \cup Part(A, t) \cup Part(Z, t)
  <2>1. PICK Q : Q = R \cup A
    OBVIOUS
  <2>2. Q \cap Z = {} /\ Q \cup Z = Owned \ D
    BY <1>2, <1>3, <1>4, <2>1
  <2>3. Lists(Q \cup Z, type, first_page_of) = Lists(Q, type, first_page_of) \cup Part(Z, t)
    BY <1>6, <1>7, <2>1, <2>2, PartJoin
  <2>4. QED
    BY <1>7, <2>1, <2>2, <2>3
<1>9. b \notin Lists(R, type, first_page_of)
  BY <1>3, <1>4, NotOfLists
<1>10. {q \in b.pages : \A s \in D : q < s} = A /\ {q \in b.pages : \A s \in D : s < q} = Z
  <2>1. b.pages = C /\ (\A q \in C : q \in Int) /\ base \in Int /\ Top \in Int
    BY <1>2, <1>3, PageAssumption DEF Page, TypeOK, Node, Top
  <2>2. \A q \in C : (\A s \in D : q < s) <=> q < base
    BY <1>4, <2>1 DEF Freed
  <2>3. \A q \in C : (\A s \in D : s < q) <=> Top <= q
    BY <1>4, <2>1 DEF Freed
  <2>4. QED
    BY <1>3, <2>1, <2>2, <2>3 DEF Before, After
<1>11. Gives(done_free, done_blocks, b, D, Free \cup D, Lists(Owned \ D, type, first_page_of))
  <2>1. b.pages = C /\ b.type = t /\ D # {} /\ D \in SUBSET C
    BY <1>3, <1>4
  <2>2. {[pages |-> T, type |-> b.type] : T \in {A, Z} \ {{}}} = Part(A, t) \cup Part(Z, t)
    BY <2>1 DEF Part
  <2>3. Lists(Owned \ D, type, first_page_of)
          = (done_blocks \ {b}) \cup {[pages |-> T, type |-> b.type] : T \in {A, Z} \ {{}}}
    BY <1>5, <1>8, <1>9, <2>2
  <2>4. QED
    BY <1>4, <1>5, <1>10, <2>1, <2>3 DEF Gives
<1>12. Gives(done_free', done_blocks', b, D, Free' \cup D, Lists(Owned' \ D, type', first_page_of'))
  BY <1>1, <1>2, <1>11
<1>13. Pending(D)'
  BY <1>1, <1>12 DEF Pending, Taking, Cutting, Giving
<1>14. QED
  BY <1>2, <1>13 DEF Follows

LEMMA FreeEnterImpl ==
  ASSUME NEW C, Pending(C), FreeEnter, Hist
  PROVE  Follows(C)
<1>1. pc = "enter" /\ pc' = "free" /\ UNCHANGED heap
  BY DEF FreeEnter
<1>2. UNCHANGED <<done_free, done_blocks>>
  BY <1>1 DEF Hist
<1>3. Pending(C)'
  BY <1>1, <1>2, HeapShift, ShiftGiving DEF Pending
<1>4. QED
  BY <1>2, <1>3 DEF Follows

(* free_all_pages returns when it has freed the section as a whole. *)
LEMMA FreeDeleteImpl ==
  ASSUME TypeOK', NEW C, Good(C), Pending(C), FreeDelete, Good(C)', Hist
  PROVE  Follows(C)
<1>1. pc = "free" /\ UNCHANGED <<reserved, type, first_page_of>> /\ pc' \in {"idle", "seek"}
  BY DEF FreeDelete, Return, meta
<1>2. Giving(C) /\ Free' = Free /\ Owned' = Owned
  BY <1>1 DEF Pending, Free, Owned
<1>3. CASE pc' = "seek"
  <2>1. Shift(C, C) /\ UNCHANGED <<done_free, done_blocks>>
    BY <1>1, <1>2, <1>3 DEF Shift, Hist
  <2>2. Pending(C)'
    BY <1>1, <1>2, <1>3, <2>1, ShiftGiving
  <2>3. QED
    BY <2>1, <2>2 DEF Follows
<1>4. CASE pc' = "idle"
  <2>1. C = {}
    BY <1>4 DEF Good, Working, IdleAt
  <2>2. Pending(C)'
    BY <1>4, <2>1, Returned
  <2>3. PICK b, S : Gives(done_free, done_blocks, b, S, Free \cup C, Lists(Owned \ C, type, first_page_of))
    BY <1>1, <1>2 DEF Giving
  <2>4. done_free' = Free \cup C /\ done_blocks' = Lists(Owned \ C, type, first_page_of)
    <3>1. (TypeOK => Blocks = Lists(Owned, type, first_page_of))'
      BY BlocksAre, PTL
    <3>2. Owned \ C = Owned /\ Free \cup C = Free
      BY <2>1
    <3>3. QED
      BY <1>1, <1>2, <1>4, <3>1, <3>2 DEF Hist
  <2>5. Gives(done_free, done_blocks, b, S, done_free', done_blocks')
    BY <2>3, <2>4
  <2>6. /\ {q \in b.pages : Abstract!Below({q}, S)} = {q \in b.pages : \A s \in S : q < s}
        /\ {q \in b.pages : Abstract!Below(S, {q})} = {q \in b.pages : \A s \in S : s < q}
    BY DEF Abstract!Below
  <2>7. Abstract!FreeSection(b, S) /\ b \in done_blocks /\ S \in SUBSET b.pages
    BY <2>5, <2>6 DEF Gives, Abstract!FreeSection
  <2>8. Abstract!FreePages
    BY <2>7 DEF Abstract!FreePages
  <2>9. QED
    BY <2>2, <2>8 DEF Follows, Abstract!Next
<1>5. QED
  BY <1>1, <1>3, <1>4

LEMMA FreeInsertImpl ==
  ASSUME TypeOK, NEW C, Good(C), Pending(C), FreeInsert, Calm, Hist,
         NEW D, D = IF freep # End /\ freep < p THEN C ELSE C \ {p}
  PROVE  Follows(D)
<1>1. /\ pc = "seek" /\ pc' \in {"seek", "free"} /\ UNCHANGED <<type, first_page_of>>
      /\ IF freep # End /\ freep < p THEN reserved' = reserved
         ELSE p \in reserved /\ reserved' = reserved \ {p}
  BY DEF FreeInsert, Stop, Calm, meta
<1>2. p \in C /\ C \subseteq Owned /\ Giving(C) /\ UNCHANGED <<done_free, done_blocks>>
  BY <1>1 DEF Good, Steady, Working, SeekAt, Least, Pending, Hist
<1>3. Shift(C, D)
  <2>1. CASE freep # End /\ freep < p
    BY <1>1, <1>2, <2>1 DEF Shift, Free, Owned
  <2>2. CASE ~(freep # End /\ freep < p)
    <3>1. Owned' = Owned \ {p} /\ p \in Page
      BY <1>1, <1>2, <2>2, OwnedPages DEF Owned
    <3>2. Free' = Free \cup {p}
      BY <1>1, <2>2, <3>1 DEF Free
    <3>3. QED
      BY <1>1, <1>2, <2>2, <3>1, <3>2 DEF Shift
  <2>3. QED
    BY <2>1, <2>2
<1>4. Pending(D)'
  BY <1>1, <1>2, <1>3, ShiftGiving
<1>5. QED
  BY <1>2, <1>4 DEF Follows

-----------------------------------------------------------------------------
(* PageAlloc implements PageSets. *)

LEMMA ImplInitial == ImplInit => ImplInv /\ Abstract!Init
<1> SUFFICES ASSUME ImplInit PROVE ImplInv /\ Abstract!Init
  OBVIOUS
<1>1. Init /\ done_free = Free /\ done_blocks = Blocks
  BY DEF ImplInit
<1>2. PICK C \in SUBSET Page : Good(C)
  BY <1>1, InitGood DEF ListInv
<1>3. pc = "idle" /\ C = {}
  BY <1>1, <1>2 DEF Init, Good, Working, IdleAt
<1>4. Owned = {} /\ Free = NOccupied + 1 .. NPages
  BY <1>1, PageAssumption DEF Init, Owned, Free, Page
<1>5. Blocks = Lists(Owned, type, first_page_of)
  BY <1>1, InitType, BlocksAre
<1>6. Owned \ C = Owned /\ Free \cup C = Free
  BY <1>3
<1>7. Pending(C)
  BY <1>1, <1>3, <1>5, <1>6 DEF Pending, Taking, Cutting, Giving
<1>8. Blocks = {}
  BY <1>4, <1>5 DEF Lists
<1>9. QED
  BY <1>1, <1>2, <1>3, <1>4, <1>7, <1>8 DEF ImplInv, Abstract!Init

LEMMA ImplStep ==
  ASSUME TypeOK, TypeOK', LinkInv, ImplInv, [ImplNext]_<<vars, done_free, done_blocks>>
  PROVE  ImplInv' /\ [Abstract!Next]_<<done_free, done_blocks>>
<1>1. Linked
  BY DEF LinkInv
<1>2. PICK C \in SUBSET Page : Good(C) /\ Pending(C) /\ pc # "panic"
  BY DEF ImplInv
<1>3. CASE UNCHANGED <<vars, done_free, done_blocks>>
  <2>1. UNCHANGED <<nxt, prv, reserved, nr_free_pages, type, first_page_of, page_count_of, pc,
                    num, i, p, np, first, base, last, head_len, total, seg, freep>>
    BY <1>3 DEF vars, heap, meta, locals, section
  <2>2. Good(C)'
    BY <1>2, <2>1, UnchangedGood
  <2>3. Free' = Free /\ Owned' = Owned
    BY <2>1 DEF Free, Owned
  <2>4. Pending(C)'
    BY <1>2, <1>3, <2>1, <2>3 DEF Pending, Taking, Cutting, Giving
  <2>5. QED
    BY <1>2, <1>3, <2>1, <2>2, <2>4 DEF ImplInv
<1>4. CASE ImplNext
  <2>1. Next /\ Hist
    BY <1>4 DEF ImplNext, Hist
  <2>2. SUFFICES \E D : Leads(D) /\ Follows(D)
    BY DEF Leads, Calm, Follows, ImplInv, Good
  <2>3. CASE Request
    <3>1. CASE \E n \in Page : alloc_pages(n) \/ alloc_cont_pages(n)
      BY <1>2, <2>1, <3>1, AllocGood, AllocContGood, AllocImpl
    <3>2. CASE \E f \in Typed : SetType(f)
      BY <1>2, <2>1, <3>2, SetTypeGood, SetTypeImpl
    <3>3. CASE \E b, n \in Page : free_pages(b, n)
      <4>1. PICK b \in Page, n \in Page : free_pages(b, n)
        BY <3>3
      <4>2. PICK D : D = Block(first_page(b))
        OBVIOUS
      <4>3. QED
        BY <1>2, <2>1, <4>1, <4>2, FreePagesGood, FreePagesImpl
    <3>4. CASE \E fp \in Page : free_all_pages(fp)
      <4>1. PICK fp \in Page : free_all_pages(fp)
        BY <3>4
      <4>2. PICK D : D = Block(first_page(fp))
        OBVIOUS
      <4>3. QED
        BY <1>2, <2>1, <4>1, <4>2, FreeAllGood, FreeAllImpl
    <3>5. QED
      BY <2>3, <3>1, <3>2, <3>3, <3>4 DEF Request
  <2>4. CASE AllocStep
    <3>1. CASE Take
      <4>1. PICK D : D = IF i = 0 THEN {} ELSE C \cup {p}
        OBVIOUS
      <4>2. Leads(D)
        BY <1>1, <1>2, <3>1, <4>1, TakeGood
      <4>3. Follows(D)
        BY <1>2, <2>1, <3>1, <4>1, <4>2, TakeImpl DEF Leads
      <4>4. QED
        BY <4>2, <4>3
    <3>2. CASE Scan
      BY <1>2, <2>1, <3>2, ScanGood, ScanImpl DEF Leads
    <3>3. CASE TakeCont
      <4>1. PICK D : D = IF i = num THEN C ELSE C \cup {p}
        OBVIOUS
      <4>2. Leads(D)
        BY <1>1, <1>2, <3>3, <4>1, TakeContGood
      <4>3. Follows(D)
        BY <1>2, <2>1, <3>3, <4>1, <4>2, TakeContImpl DEF Leads
      <4>4. QED
        BY <4>2, <4>3
    <3>4. CASE MarkTail
      <4>1. PICK D : D = IF i < num THEN C ELSE {}
        OBVIOUS
      <4>2. Leads(D)
        BY <1>2, <3>4, <4>1, MarkTailGood
      <4>3. Follows(D)
        BY <1>2, <2>1, <3>4, <4>1, <4>2, MarkTailImpl DEF Leads
      <4>4. QED
        BY <4>2, <4>3
    <3>5. QED
      BY <2>4, <3>1, <3>2, <3>3, <3>4 DEF AllocStep
  <2>5. CASE FreeStep
    <3>1. CASE HeadWalk
      BY <1>2, <2>1, <3>1, HeadWalkGood, HeadWalkImpl DEF Leads
    <3>2. CASE LastWalk
      BY <1>2, <2>1, <3>2, LastWalkGood, LastWalkImpl DEF Leads
    <3>3. CASE UpdateList
      BY <1>2, <2>1, <3>3, UpdateGood, UpdateImpl
    <3>4. CASE Split
      <4>1. PICK D : D = Freed(C)
        OBVIOUS
      <4>2. QED
        BY <1>1, <1>2, <2>1, <3>4, <4>1, SplitGood, SplitImpl
    <3>5. CASE FreeEnter
      BY <1>2, <2>1, <3>5, FreeEnterGood, FreeEnterImpl
    <3>6. CASE FreeDelete
      BY <1>1, <1>2, <2>1, <3>6, FreeDeleteGood, FreeDeleteImpl DEF Leads
    <3>7. CASE FreeInsert
      <4>1. PICK D : D = IF freep # End /\ freep < p THEN C ELSE C \ {p}
        OBVIOUS
      <4>2. Leads(D)
        BY <1>1, <1>2, <3>7, <4>1, FreeInsertGood
      <4>3. Follows(D)
        BY <1>2, <2>1, <3>7, <4>1, <4>2, FreeInsertImpl DEF Leads
      <4>4. QED
        BY <4>2, <4>3
    <3>8. QED
      BY <2>5, <3>1, <3>2, <3>3, <3>4, <3>5, <3>6, <3>7 DEF FreeStep
  <2>6. QED
    BY <2>1, <2>3, <2>4, <2>5 DEF Next
<1>5. QED
  BY <1>3, <1>4

(* Recording what a returned call leaves does not change the allocator. *)
LEMMA ImplIsSpec == ImplSpec => Spec
<1>1. ImplInit => Init
  BY DEF ImplInit
<1>2. [ImplNext]_<<vars, done_free, done_blocks>> => [Next]_vars
  BY DEF ImplNext
<1>3. QED
  BY <1>1, <1>2, PTL DEF ImplSpec, Spec

(* Every call of the allocator, seen when it returns, is one step of       *)
(* PageSets: alloc_pages hands out the lowest free pages, alloc_cont_pages *)
(* a run, free_pages gives back the section asked for and leaves the rest  *)
(* of its block as blocks of the same type, and nothing else changes.      *)
THEOREM PagesAreSets == ImplSpec => Implements
<1>1. ImplSpec => []TypeOK /\ []LinkInv
  <2>1. Spec => []LinkInv
    BY InitLink, LinkStep, TypeCorrect, PTL DEF Spec
  <2>2. QED
    BY <2>1, TypeCorrect, ImplIsSpec, PTL
<1>2. TypeOK /\ TypeOK' /\ LinkInv /\ ImplInv /\ [ImplNext]_<<vars, done_free, done_blocks>>
        => ImplInv' /\ [Abstract!Next]_<<done_free, done_blocks>>
  BY ImplStep
<1>3. QED
  BY <1>1, <1>2, ImplInitial, PTL DEF ImplSpec, Implements, Abstract!Spec
=============================================================================
