----------------------------- MODULE MCPageTable -----------------------------
(***************************************************************************)
(* Page table addresses for TLC: address 0, its neighbour in the same page *)
(* table, one that shares the PMD with them and one that shares the PGD.   *)
(***************************************************************************)
EXTENDS PageTable

MCVaddr == {<<0, 0, 0>>, <<0, 0, 1>>, <<0, 1, 0>>, <<1, 0, 0>>}
=============================================================================
