------------------------------ MODULE PageSets ------------------------------
(***************************************************************************)
(* What the page allocator promises its callers: a set of free pages and a *)
(* set of blocks, each a set of pages and the type its owner gave it.  A   *)
(* call takes effect at once.  PageAlloc implements this.                  *)
(***************************************************************************)
EXTENDS Integers, FiniteSets

CONSTANT Pages   \* the pages that can be allocated
VARIABLES free, blocks

Below(S, T) == \A s \in S, t \in T : s < t

Init == free = Pages /\ blocks = {}

Grant(S) ==
  /\ free' = free \ S
  /\ blocks' = blocks \cup {[pages |-> S, type |-> "generic"]}

(* alloc_pages: the lowest num free pages *)
AllocPages ==
  \E S \in SUBSET free : S # {} /\ Below(S, free \ S) /\ Grant(S)

(* alloc_cont_pages: a run of consecutive free pages *)
AllocContPages ==
  \E a, b \in free : a <= b /\ a..b \subseteq free /\ Grant(a..b)

(* free_pages: a section of a block; what is before it and what is after   *)
(* it become blocks of their own, of the same type.                        *)
FreeSection(b, S) ==
  LET before == {q \in b.pages : Below({q}, S)}
      after  == {q \in b.pages : Below(S, {q})}
  IN /\ S # {} /\ b.pages = before \cup S \cup after
     /\ free' = free \cup S
     /\ blocks' = (blocks \ {b}) \cup
                  {[pages |-> T, type |-> b.type] : T \in {before, after} \ {{}}}

FreePages == \E b \in blocks : \E S \in SUBSET b.pages : FreeSection(b, S)

SetType == \E b \in blocks :
  /\ blocks' = (blocks \ {b}) \cup {[b EXCEPT !.type = "slab"]}
  /\ UNCHANGED free

Next == AllocPages \/ AllocContPages \/ FreePages \/ SetType

Spec == Init /\ [][Next]_<<free, blocks>>
=============================================================================
