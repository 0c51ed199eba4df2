------------------------------- MODULE MCTrap --------------------------------
(* Two user tasks with different mappings: a pair of pages, half a pair,   *)
(* and one address that both have mapped, which only the first may write.  *)
EXTENDS Trap, TLC

MCMaps == "a" :> {0, 1, 2} @@ "b" :> {1, 3}
MCWritable == "a" :> {1, 2} @@ "b" :> {3}
=============================================================================
