-------------------------- MODULE MCResultsServer ---------------------------
(* The results of two tests and a made-up one, of different lengths. *)
EXTENDS ResultsServer

CONSTANTS test, long, short

Posts == {test, long, short}

TestResults == {test, long}

Lengths == [p \in Posts |-> IF p = test THEN 2 ELSE IF p = long THEN 3 ELSE 1]
=============================================================================
