------------------------------- MODULE MCSched -------------------------------
(***************************************************************************)
(* IDLE, init and three tasks started at any time later, two processors.   *)
(***************************************************************************)
EXTENDS Sched

CONSTANTS idle, init, task1, task2, task3, null
MCTask == {idle, init, task1, task2, task3}
MCCPUs == 0..1
=============================================================================
