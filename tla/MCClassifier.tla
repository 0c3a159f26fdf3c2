---------------------------- MODULE MCClassifier ----------------------------
(* Small instances of Classifier for TLC. *)
EXTENDS Classifier

CONSTANTS a, b, s, client, server

MCPacket(kind, src, dst, hello, size) ==
  [kind |-> kind, src |-> src, dst |-> dst, hello |-> hello, size |-> size]

(* One conversation in both directions: slow data and a fast TLS hello.   *)
Conversation ==
  {MCPacket("tcp", a, b, FALSE, 1), MCPacket("tcp", b, a, TRUE, 6)}

(* The same, with a packet of another protocol, UDP, and the iPerf3 server. *)
MixedTraffic ==
  {MCPacket("tcp", a, b, FALSE, 1), MCPacket("udp", b, a, FALSE, 6),
   MCPacket("tcp", a, b, TRUE, 6), MCPacket("other", a, b, FALSE, 1),
   MCPacket("udp", a, s, FALSE, 6)}

(* A burst followed by a constant second, or by a mild decrease. *)
Definitions == {<<2, 1>>, <<2, 0>>}

(* The burst alone, for windows of one second. *)
BurstDefinition == {<<2>>}
=============================================================================
