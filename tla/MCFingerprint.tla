--------------------------- MODULE MCFingerprint ----------------------------
(* The element and the tool with the thresholds of the code, and the       *)
(* element with its library.                                               *)
EXTENDS Fingerprint, BehaviorLibrary

CONSTANTS a, b, s, client

(* One download in packets of 9 and 41 half-megabits, headers included. *)
Download ==
  {[kind |-> "tcp", src |-> b, dst |-> a, hello |-> FALSE, size |-> n] : n \in {9, 41}}

(* Packets that take each of the return paths of push().  One of them is   *)
(* ARP, whose addresses the element reads from bytes of another meaning.   *)
AllPaths ==
  {[kind |-> "tcp", src |-> b, dst |-> a, hello |-> FALSE, size |-> 9],
   [kind |-> "tcp", src |-> b, dst |-> a, hello |-> TRUE, size |-> 25],
   [kind |-> "other", src |-> b, dst |-> b, hello |-> FALSE, size |-> 25],
   [kind |-> "udp", src |-> a, dst |-> s, hello |-> FALSE, size |-> 25]}

(* tcpdump prints a length for each of them. *)
LengthsPrinted ==
  [p \in Traffic |-> {"length"} \cup IF p.kind = "other" THEN {"ARP"} ELSE {}]

(* A frame of the other direction. *)
Reply == {[size |-> 24, text |-> {"length"}]}
=============================================================================
