---------------------------- MODULE PageAllocImpl ----------------------------
(***************************************************************************)
(* PageAlloc implements PageSets.  done_free and done_blocks are history   *)
(* variables: what the page structures said when the last call returned.   *)
(***************************************************************************)
EXTENDS PageAlloc

VARIABLES done_free, done_blocks

Blocks == {[pages |-> Block(f), type |-> type[f]] : f \in {q \in Page : IsFirst(q)}}

ImplInit == Init /\ done_free = Free /\ done_blocks = Blocks

ImplNext ==
  /\ Next
  /\ IF pc' = "idle" THEN done_free' = Free' /\ done_blocks' = Blocks'
                     ELSE UNCHANGED <<done_free, done_blocks>>

ImplSpec == /\ ImplInit
            /\ [][ImplNext]_<<vars, done_free, done_blocks>>
            /\ WF_vars(AllocStep \/ FreeStep)

Abstract == INSTANCE PageSets WITH Pages <- NOccupied + 1 .. NPages,
                                   free <- done_free, blocks <- done_blocks

(* Every call does, as a whole, what PageSets says: alloc_pages hands out  *)
(* the lowest free pages, alloc_cont_pages a run, free_pages gives back    *)
(* the section asked for and leaves the rest of the block, and every other *)
(* block, to their owners.                                                 *)
Implements == Abstract!Spec
=============================================================================
