--------------------------- MODULE MCRouterThread ---------------------------
(* A small thread for TLC: two tasks of different weight. *)
EXTENDS RouterThread

CONSTANTS from, to, t1, t2, fd

Strides == [t \in {from, to} |-> IF t = from THEN 1 ELSE 2]

InitialTasks == <<from, to>>
=============================================================================
