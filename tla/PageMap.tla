------------------------------ MODULE PageMap -------------------------------
(***************************************************************************)
(* What a page table promises: once created, and until it is destroyed, it *)
(* is a map from virtual pages to physical pages.  PageTable implements    *)
(* this.                                                                   *)
(***************************************************************************)
CONSTANTS Vaddr, Page, None
VARIABLES table,   \* the PGD in use
          map

(* The addresses that share an upper level entry with v, and those that    *)
(* share the lower level one too                                           *)
Upper(v) == {w \in Vaddr : w[1] = v[1]}
Lower(v) == {w \in Upper(v) : w[2] = v[2]}

Empty == [v \in Vaddr |-> None]

Init == table = None /\ map = Empty

(* A new table is empty, whatever was in the one before *)
Create == table' \in Page \ {table} /\ map' = Empty
Destroy == table # None /\ table' = None /\ map' = Empty

Insert(v, p) == map' = [map EXCEPT ![v] = p]
Remove(v) == map' = [map EXCEPT ![v] = None]

(* An insertion that would need a new page table and runs out of memory    *)
(* may drop what shares the upper level entry with its address (see        *)
(* InsertKeepsOthers in PageTable).                                        *)
Drop(v) ==
  /\ \A w \in Lower(v) : map[w] = None
  /\ map' = [w \in Vaddr |-> IF w \in Upper(v) THEN None ELSE map[w]]

Change ==
  /\ table # None /\ UNCHANGED table
  /\ \/ \E v \in Vaddr, p \in Page : Insert(v, p)
     \/ \E v \in Vaddr : Remove(v) \/ Drop(v)

Next == Create \/ Destroy \/ Change

Spec == Init /\ [][Next]_<<table, map>>
=============================================================================
