-------------------------- MODULE BehaviorLibrary ---------------------------
(***************************************************************************)
(* behavior_definitions, the library of behaviours the constructor         *)
(* Classifier::Classifier() builds, each a string of codes.  Most of the   *)
(* entries are chains: a behaviour and every longer one up to a recorded   *)
(* test run.                                                               *)
(***************************************************************************)
EXTENDS Integers, Sequences

(* The prefixes of a recorded behaviour, from a length on. *)
Chain(recorded, from) == {SubSeq(recorded, 1, n) : n \in from..Len(recorded)}

(* The prefixes of a recorded behaviour that have the lengths listed. *)
Pieces(recorded, lengths) == {SubSeq(recorded, 1, n) : n \in lengths}

IPerf3 ==
  Pieces(<<2,0,1,1,1,1,1,1,1,1,1,0,0,1>>, {5, 9, 11, 14})
    \cup Chain(<<2,1,1,1,1,1,1,1,1,1,1,1>>, 5)
    \cup {<<2,1,1,1,1,1,1,1,1,1,1,1,1,1,1,0>>}

FastCom ==
  Pieces(<<2,2,2,1,2,1,2,1,0,0,2,1,2,1,1,2,1>>, {6, 10, 12, 13, 15, 16, 17})

SpeedtestNet ==
  Pieces(<<2,1,0,1,1,0,0,0,1,2,1,1,1,1,1,1,0>>, {5, 7, 10, 13, 16, 17})
    \cup Pieces(<<2,1,0,1,1,0,0,0,1,2,1,1,1,1,1,1>>, {5} \cup 8..16)
    \cup Chain(<<2,1,1,1,1,1,2,0,0,0,1,1,1>>, 5)
    \cup Chain(<<2,0,0,0,1,1,0,0,1,2,0,1,1,0>>, 4)
    \cup Chain(<<2,0,2,1,1,1,2,1,1,1,0,1,1,1,0,0>>, 5)
    \cup Chain(<<2,0,1,1,1,2,1,1,2,1,0,2,1,0,0,1,1,1,1,1,1,1,1,1,0>>, 5)

(* Mutant of Library: each chain starts with its first code. *)
LibraryOfPrefixes ==
  UNION {Chain(b, 1) : b \in IPerf3 \cup FastCom \cup SpeedtestNet}

Library == IPerf3 \cup FastCom \cup SpeedtestNet

=============================================================================
