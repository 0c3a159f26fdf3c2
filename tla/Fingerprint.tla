---------------------------- MODULE Fingerprint -----------------------------
(***************************************************************************)
(* How the library is built and how it is used: the analysis tool prints   *)
(* the fingerprint of a capture, and that string becomes an entry of       *)
(* behavior_definitions, to be compared with the element's own string.     *)
(***************************************************************************)
EXTENDS Capture

CONSTANT AnalysisThreshold    \* THRESHOLD of parse_packets.py (15)

ASSUME AnalysisAssumption == AnalysisThreshold \in Nat

Tool == INSTANCE PcapStats WITH Threshold <- AnalysisThreshold

(* What parse_packets() makes of a capture, numbered from 0. *)
Parsed(lines) ==
  LET kept == SelectSeq(lines, Kept) IN [i \in 0..(Len(kept) - 1) |-> kept[i + 1]]

(* "A packet analysis tool was developed in order to assist our team with  *)
(* building fingerprints based on behavior" (README.md lines 101-102): the *)
(* fingerprint of the traffic an element has seen is the behaviour the     *)
(* element has recorded for it, when the behaviour starts with the capture *)
(* and has not been reset, and the two have the same seconds.              *)
FingerprintIsBehavior ==
  \A c \in Instance :
    /\ reset_time[c] = 0
    /\ ~found_first_burst[c]
    /\ Seconds(current_behavior_map[c]) = KeptSeconds(c)
    => BehaviorString(current_behavior_map[c]) = Tool!Slopes(Parsed(capture[c]))

=============================================================================
