---------------------------- MODULE PcapAnalysis ----------------------------
(***************************************************************************)
(* The packet analysis tool, pcap_analysis_tool/parse_packets.py.  It      *)
(* reads the header lines tcpdump printed for a capture, computes the      *)
(* fingerprint of the traffic (module PcapStats) and appends it to the     *)
(* file "counts".  The packet grouping that main keeps in a disabled block *)
(* is switched on by Grouping: the capture is then also cut at its pauses  *)
(* and every group gets a fingerprint of its own.                          *)
(*                                                                         *)
(* The program is sequential; an action is one line of the capture, one    *)
(* iteration of the grouping loop or one call of get_stats().  The capture *)
(* is chosen line by line as it is read.  tcpdump prints the time of day,  *)
(* so that the times of a capture start again at 0 at midnight.            *)
(***************************************************************************)
EXTENDS PcapStats, FiniteSets

CONSTANTS
  Day,                  \* seconds in a day (86400)
  Pause,                \* pause (5 in the code)
  Sizes,                \* the lengths that occur
  Grouping,             \* whether main also analyses the groups
  Start,                \* bound: first second of the capture, counted from a midnight
  MaxClock,             \* bound: its last second
  MaxPackets            \* bound: its packets

ASSUME CaptureAssumption ==
  /\ Mbit \in Nat \ {0}
  /\ Threshold \in Nat
  /\ Day \in Nat \ {0}
  /\ Pause \in Nat \ {0}
  /\ Sizes \subseteq Nat
  /\ Grouping \in BOOLEAN
  /\ Start \in Nat /\ MaxClock \in Nat /\ Start <= MaxClock
  /\ MaxPackets \in Nat

VARIABLES
  clock,                \* when the next line of the capture was recorded
  arrived,              \* history: the packets with the second they arrived in
  bad_line,             \* history: a line that does not parse was met
  phase,                \* where main() is
  parsed_packets,       \* what parse_packets() has built
  packet_num,           \* the next packet the grouping loop looks at
  last_time,
  start_packet_number,
  curr_group,
  pcap_groups,
  counts                \* the lines of the file "counts"

vars == <<clock, arrived, bad_line, phase, parsed_packets, packet_num,
          last_time, start_packet_number, curr_group, pcap_groups, counts>>

grouping_vars == <<packet_num, last_time, start_packet_number, curr_group, pcap_groups>>

Empty == <<>>
Size(data) == Cardinality(DOMAIN data)

(* data[key] = value *)
Put(data, key, value) ==
  [i \in DOMAIN data \cup {key} |-> IF i = key THEN value ELSE data[i]]

(* hours * 60 * 60 + minutes * 60 + seconds, read from the line. *)
TotalTime(second) == second % Day

-----------------------------------------------------------------------------
(* parse_packets(): one line of the capture.                               *)

(* Mutant of NextNumber: packets are counted from one. *)
NextNumberFromOne(data) == Size(data) + 1

(* packet_num starts at -1 and is incremented for each packet kept. *)
NextNumber(data) == Size(data)

ReadPacket(size) ==
  /\ phase = "parse"
  /\ Len(arrived) < MaxPackets
  /\ parsed_packets' =
       Put(parsed_packets, NextNumber(parsed_packets),
           [time_elapsed |-> TotalTime(clock), size |-> size])
  /\ arrived' = Append(arrived, [time_elapsed |-> clock, size |-> size])
  /\ UNCHANGED <<clock, bad_line, phase, grouping_vars, counts>>

(* A header line without a time of day, or whose length cannot be cut out  *)
(* in any of the three ways.                                               *)
RejectLine ==
  /\ phase = "parse"
  /\ Len(arrived) < MaxPackets
  /\ bad_line' = TRUE
  /\ phase' = "failed"
  /\ UNCHANGED <<clock, arrived, parsed_packets, grouping_vars, counts>>

(* Time passes before the next line.  ARP lines and lines that are no      *)
(* headers are skipped and leave no other trace.                           *)
NextSecond ==
  /\ phase = "parse"
  /\ clock < MaxClock
  /\ clock' = clock + 1
  /\ UNCHANGED <<arrived, bad_line, phase, parsed_packets, grouping_vars, counts>>

-----------------------------------------------------------------------------
(* main() after the capture has been read.                                 *)

(* get_stats() reads the keys 0 to n - 1 of its argument, and only those. *)
HasStats(data) == data # Empty /\ DOMAIN data = 0..(Size(data) - 1)

GetStats(data) == counts' = Append(counts, Slopes(data))

AnalyseCapture ==
  /\ phase = "parse"
  /\ IF HasStats(parsed_packets)
     THEN /\ GetStats(parsed_packets)
          /\ phase' = IF Grouping THEN "group" ELSE "done"
          /\ last_time' = parsed_packets[0].time_elapsed
     ELSE /\ phase' = "failed"
          /\ UNCHANGED <<counts, last_time>>
  /\ UNCHANGED <<clock, arrived, bad_line, parsed_packets, packet_num,
                 start_packet_number, curr_group, pcap_groups>>

(* Mutant of PastPause: the first packet after the pause ends the test     *)
(* one second late.                                                        *)
PastPauseLate(time) == time - last_time > Pause

PastPause(time) == time - last_time >= Pause

(* Mutant of GroupStart: the packet numbers are not made relative.         *)
GroupStartKept(time) == start_packet_number

GroupStart(time) == IF PastPause(time) THEN packet_num ELSE start_packet_number

(* Mutant of GroupLeft: the old group is not emptied. *)
GroupKept(time) == curr_group

GroupLeft(time) == IF PastPause(time) THEN Empty ELSE curr_group

(* One iteration of the loop of separate_pcap_groups(). *)
GroupPacket ==
  /\ phase = "group"
  /\ packet_num < Size(parsed_packets)
  /\ LET packet_info == parsed_packets[packet_num]
         time == packet_info.time_elapsed
     IN /\ pcap_groups' = IF PastPause(time) THEN Append(pcap_groups, curr_group)
                          ELSE pcap_groups
        /\ start_packet_number' = GroupStart(time)
        /\ curr_group' = Put(GroupLeft(time), packet_num - GroupStart(time), packet_info)
        /\ last_time' = time
  /\ packet_num' = packet_num + 1
  /\ UNCHANGED <<clock, arrived, bad_line, phase, parsed_packets, counts>>

(* The last group joins the list, which is returned to main. *)
EndGroups ==
  /\ phase = "group"
  /\ packet_num = Size(parsed_packets)
  /\ pcap_groups' = Append(pcap_groups, curr_group)
  /\ phase' = "groups"
  /\ UNCHANGED <<clock, arrived, bad_line, parsed_packets, packet_num, last_time,
                 start_packet_number, curr_group, counts>>

(* The groups analysed so far have one line each after the capture's. *)
GroupsDone == Len(counts) - 1

AnalyseGroup ==
  /\ phase = "groups"
  /\ IF GroupsDone = Len(pcap_groups)
     THEN phase' = "done" /\ UNCHANGED counts
     ELSE IF HasStats(pcap_groups[GroupsDone + 1])
     THEN GetStats(pcap_groups[GroupsDone + 1]) /\ UNCHANGED phase
     ELSE phase' = "failed" /\ UNCHANGED counts
  /\ UNCHANGED <<clock, arrived, bad_line, parsed_packets, grouping_vars>>

Init ==
  /\ clock = Start
  /\ arrived = <<>>
  /\ bad_line = FALSE
  /\ phase = "parse"
  /\ parsed_packets = Empty
  /\ packet_num = 0
  /\ last_time = 0
  /\ start_packet_number = 0
  /\ curr_group = Empty
  /\ pcap_groups = <<>>
  /\ counts = <<>>

Next ==
  \/ \E size \in Sizes : ReadPacket(size)
  \/ RejectLine
  \/ NextSecond
  \/ AnalyseCapture
  \/ GroupPacket
  \/ EndGroups
  \/ AnalyseGroup

Spec == Init /\ [][Next]_vars

-----------------------------------------------------------------------------
(* Properties.                                                             *)

(* The dictionaries map packet numbers to parsed packets, and a line of    *)
(* "counts" is a string of the three codes.                                *)
TypeOK ==
  LET Parsed == [time_elapsed: 0..(Day - 1), size: Sizes]
      IsDict(d) == \A i \in DOMAIN d : i \in Nat /\ d[i] \in Parsed
  IN /\ clock \in Start..MaxClock
     /\ bad_line \in BOOLEAN
     /\ phase \in {"parse", "group", "groups", "done", "failed"}
     /\ IsDict(parsed_packets) /\ IsDict(curr_group)
     /\ \A g \in Range(pcap_groups) : IsDict(g)
     /\ packet_num \in 0..MaxPackets
     /\ \A line \in Range(counts) : Range(line) \subseteq {DECREASE, CONSTANT_RATE, INCREASE}

(* The tool never stops half way through its groups: the re-keying of      *)
(* separate_pcap_groups() always gives get_stats() a dictionary it can     *)
(* index from 0, so that the only captures without fingerprints are the    *)
(* empty one and one with a line that does not parse.                      *)
OnlyBadCapturesFail ==
  phase = "failed" => bad_line \/ arrived = <<>>

(* The groups, laid end to end, are the capture: the cuts neither lose,    *)
(* repeat nor reorder a packet, at a pause of exactly the limit, at        *)
(* midnight and at the end of the capture included.                        *)
GroupsPartitionCapture ==
  phase = "groups" =>
    FlattenSeq([g \in DOMAIN pcap_groups |->
                  [i \in 1..Size(pcap_groups[g]) |-> pcap_groups[g][i - 1]]])
      = [i \in 1..Size(parsed_packets) |-> parsed_packets[i - 1]]

(* The numbers in the capture of the packets that groups start with. *)
GroupStarts(groups) ==
  LET start[g \in DOMAIN groups] ==
        IF g = 1 THEN 0 ELSE start[g - 1] + Size(groups[g - 1])
  IN {start[g] : g \in DOMAIN groups}

(* A midnight lies between the arrivals of packet i - 1 and packet i. *)
OverMidnight(i) == arrived[i].time_elapsed \div Day # arrived[i + 1].time_elapsed \div Day

(* The cuts, which are made by times of day, lie at real pauses: between   *)
(* two packets with a cut between them no packet arrived for Pause         *)
(* seconds, days included; and two packets that are not separated arrived  *)
(* less than Pause seconds apart, or a midnight lies between them.  A      *)
(* pause over midnight is the only one that the loop may miss, and the     *)
(* step back of the times there never makes a cut.                         *)
GroupsCutAtPauses ==
  phase = "groups" =>
    \A i \in 1..(Len(arrived) - 1) :
      LET elapsed == arrived[i + 1].time_elapsed - arrived[i].time_elapsed
      IN IF i \in GroupStarts(pcap_groups)
         THEN elapsed >= Pause
         ELSE elapsed < Pause \/ OverMidnight(i)

(* "Parse the packets in sorted order of keys, keys will be packet number  *)
(* arrival" (parse_packets.py line 78): the fingerprint lists the seconds  *)
(* of the capture in the order in which the packets arrived.               *)
FingerprintInArrivalOrder ==
  counts # <<>> => counts[1] = Slopes([i \in 0..(Len(arrived) - 1) |-> arrived[i + 1]])

=============================================================================
