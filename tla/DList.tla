-------------------------------- MODULE DList --------------------------------
(***************************************************************************)
(* The circular doubly linked lists of include/ds/list.h.  A list is the   *)
(* ring through two functions on nodes, n (next) and v (prev).  Each       *)
(* operator gives one of them after a call, from both before it.           *)
(***************************************************************************)

(* list_del_init(x): x becomes a ring of its own *)
DelNext(n, v, x) == [n EXCEPT ![v[x]] = n[x], ![x] = x]
DelPrev(n, v, x) == [v EXCEPT ![n[x]] = v[x], ![x] = x]

(* Mutant: at->prev is not set *)
AddPrevOneWay(n, v, at, x) == [v EXCEPT ![x] = v[at]]

(* list_add_before(at, x) *)
AddNext(n, v, at, x) == [n EXCEPT ![x] = at, ![v[at]] = x]
AddPrev(n, v, at, x) == [v EXCEPT ![x] = v[at], ![at] = x]

(* list_split(fst, at->prev, at): the ring of fst is cut before at *)
SplitNext(n, v, fst, at) == [n EXCEPT ![v[at]] = fst, ![v[fst]] = at]
SplitPrev(n, v, fst, at) == [v EXCEPT ![fst] = v[at], ![at] = v[fst]]

(* list_del_init(x), then list_add_before(at, x) *)
MoveNext(n, v, at, x) == AddNext(DelNext(n, v, x), DelPrev(n, v, x), at, x)
MovePrev(n, v, at, x) == AddPrev(DelNext(n, v, x), DelPrev(n, v, x), at, x)
=============================================================================
