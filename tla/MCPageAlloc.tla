----------------------------- MODULE MCPageAlloc -----------------------------
(***************************************************************************)
(* Five pages, the first of which holds the page array: four can be        *)
(* allocated, so a list can have a head, a freed section and a tail, and   *)
(* the free list can have holes before, in and after a run.                *)
(***************************************************************************)
EXTENDS PageAllocImpl

MCTyped == {2, 4}
=============================================================================
