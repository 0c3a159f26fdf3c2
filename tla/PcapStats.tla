----------------------------- MODULE PcapStats ------------------------------
(***************************************************************************)
(* The computation of get_stats() in pcap_analysis_tool/parse_packets.py:  *)
(* the fingerprint of a capture, one code for each second in which a       *)
(* packet was captured.  A capture is a dictionary from packet numbers to  *)
(* packets, as parse_packets() and separate_pcap_groups() build it.        *)
(* Sizes are counted in units, Mbit units to the megabit.                  *)
(***************************************************************************)
EXTENDS Integers, SequencesExt

CONSTANTS
  Mbit,                 \* units of data in one megabit
  Threshold             \* THRESHOLD (15 in the code)

DECREASE == 0
CONSTANT_RATE == 1
INCREASE == 2

(* The column "seconds" of the data frame: groupby sorts its keys. *)
Seconds(data) ==
  SetToSortSeq({data[i].time_elapsed - data[0].time_elapsed : i \in DOMAIN data}, <)

(* The column "m_bits": what was captured in one second. *)
MBits(data, second) ==
  MapThenSumSet(LAMBDA i : data[i].size,
    {i \in DOMAIN data : data[i].time_elapsed - data[0].time_elapsed = second})

(* Mutant of Slope: the difference itself is recorded. *)
SlopeRaw(prev_count, curr_count) == curr_count - prev_count

(* The code of a second, from the amounts of two neighbouring rows. *)
Slope(prev_count, curr_count) ==
  LET diff == curr_count - prev_count
      meets_threshold == (IF diff < 0 THEN -diff ELSE diff) > Threshold * Mbit
  IN IF diff > 0 /\ meets_threshold THEN INCREASE
     ELSE IF diff < 0 /\ meets_threshold THEN DECREASE
     ELSE CONSTANT_RATE

(* The fingerprint; the first second always counts as an increase. *)
Slopes(data) ==
  LET seconds == Seconds(data) IN
  [i \in DOMAIN seconds |->
     IF i = 1 THEN INCREASE
     ELSE Slope(MBits(data, seconds[i - 1]), MBits(data, seconds[i]))]

=============================================================================
