------------------------- MODULE PcapAnalysisProofs -------------------------
(***************************************************************************)
(* The packet analysis tool, for captures of any length and any times,     *)
(* lengths, pause and threshold.  The argument follows the cuts: at every  *)
(* iteration of separate_pcap_groups() there are places in the capture     *)
(* such that the groups so far, and the group being built, are what lies   *)
(* between them.                                                           *)
(***************************************************************************)
EXTENDS PcapAnalysis, FiniteSetTheorems, SequenceTheorems, WellFoundedInduction,
        TLAPS

(* What parse_packets() keeps of a line, and the dictionaries it builds. *)
Parsed == [time_elapsed : 0..(Day - 1), size : Sizes]
Dict == UNION {[0..(n - 1) -> Parsed] : n \in Nat}

(* What get_stats() may append to "counts". *)
Lines == {Slopes(data) : data \in Dict}

(* The lines of the capture, and what parse_packets() makes of them. *)
Captured == [time_elapsed : Nat, size : Sizes]
Read(lines) ==
  [i \in 0..(Len(lines) - 1) |->
     [time_elapsed |-> TotalTime(lines[i + 1].time_elapsed), size |-> lines[i + 1].size]]

(* The packets from number a up to, but not including, number b, numbered  *)
(* from 0.                                                                 *)
Segment(data, a, b) == [i \in 0..(b - a - 1) |-> data[a + i]]

(* The time between packet i and the one before it. *)
Gap(data, i) == data[i].time_elapsed - data[i - 1].time_elapsed

(* The groups are what lies between the cuts, up to the place "end"; the   *)
(* pauses are at the cuts and nowhere else.                                *)
Cuts(data, groups, cut, end) ==
  /\ cut \in [1..(Len(groups) + 1) -> Nat]
  /\ cut[1] = 0
  /\ cut[Len(groups) + 1] = end
  /\ \A g \in 1..Len(groups) :
       /\ cut[g] < cut[g + 1] /\ cut[g + 1] <= end
       /\ groups[g] = Segment(data, cut[g], cut[g + 1])
       /\ \A i \in (cut[g] + 1)..(cut[g + 1] - 1) : Gap(data, i) < Pause
       /\ g > 1 => Gap(data, cut[g]) >= Pause

(* The cuts that groups start at. *)
StartCuts(groups, cut) == {cut[g] : g \in DOMAIN groups}

(* The state of the grouping loop before each iteration. *)
GroupingInv ==
  /\ arrived # <<>>
  /\ start_packet_number \in 0..packet_num
  /\ IF packet_num = 0
     THEN last_time = parsed_packets[0].time_elapsed /\ pcap_groups = <<>>
     ELSE /\ start_packet_number < packet_num
          /\ last_time = parsed_packets[packet_num - 1].time_elapsed
  /\ curr_group = Segment(parsed_packets, start_packet_number, packet_num)
  /\ \A i \in (start_packet_number + 1)..(packet_num - 1) : Gap(parsed_packets, i) < Pause
  /\ pcap_groups # <<>> => Gap(parsed_packets, start_packet_number) >= Pause
  /\ \E cut : Cuts(parsed_packets, pcap_groups, cut, start_packet_number)

(* After it the last cut is the end of the capture. *)
GroupedInv == \E cut : Cuts(parsed_packets, pcap_groups, cut, Len(arrived))

(* The variables hold what their types and the phase say. *)
ToolInv ==
  /\ clock \in Start..MaxClock
  /\ bad_line \in BOOLEAN
  /\ phase \in {"parse", "group", "groups", "done", "failed"}
  /\ arrived \in Seq(Captured) /\ Len(arrived) <= MaxPackets
  /\ parsed_packets = Read(arrived)
  /\ packet_num \in 0..Len(arrived)
  /\ curr_group \in Dict /\ pcap_groups \in Seq(Dict) /\ counts \in Seq(Lines)
  /\ counts # <<>> => counts[1] = Slopes(parsed_packets)
  /\ phase = "parse" =>
       /\ counts = <<>> /\ packet_num = 0 /\ start_packet_number = 0
       /\ curr_group = Empty /\ pcap_groups = <<>>
  /\ phase = "group" => GroupingInv /\ Len(counts) = 1
  /\ phase = "groups" => GroupedInv /\ Len(counts) \in 1..(Len(pcap_groups) + 1)
  /\ phase = "failed" => bad_line \/ arrived = <<>>

-----------------------------------------------------------------------------
(* Dictionaries. *)

(* The entries of a dictionary are numbered packets. *)
LEMMA DictFacts ==
  ASSUME NEW data \in Dict
  PROVE  \A i \in DOMAIN data : i \in Nat /\ data[i] \in Parsed
BY DEF Dict

(* n entries, numbered from 0. *)
LEMMA SizeIs ==
  ASSUME NEW n \in Nat, NEW data, DOMAIN data = 0..(n - 1)
  PROVE  Size(data) = n
BY FS_Interval DEF Size

(* The empty dictionary. *)
LEMMA EmptyDict ==
  /\ Empty \in Dict
  /\ \A data : Empty = Segment(data, 0, 0)
  /\ Empty = Read(<<>>)
<1>1. Empty \in [0..(0 - 1) -> Parsed]
  BY DEF Empty
<1>2. \A data : Empty = Segment(data, 0, 0)
  BY DEF Empty, Segment
<1>3. Empty = Read(<<>>)
  BY DEF Empty, Read
<1> QED
  BY <1>1, <1>2, <1>3 DEF Dict

(* The lines of a capture become as many parsed packets. *)
LEMMA ReadFacts ==
  ASSUME NEW lines \in Seq(Captured)
  PROVE  /\ Read(lines) \in [0..(Len(lines) - 1) -> Parsed]
         /\ Read(lines) \in Dict
         /\ Size(Read(lines)) = Len(lines)
<1>1. \A i \in 0..(Len(lines) - 1) :
        [time_elapsed |-> TotalTime(lines[i + 1].time_elapsed), size |-> lines[i + 1].size] \in Parsed
  <2> SUFFICES ASSUME NEW i \in 0..(Len(lines) - 1)
               PROVE  [time_elapsed |-> TotalTime(lines[i + 1].time_elapsed),
                       size |-> lines[i + 1].size] \in Parsed
    OBVIOUS
  <2>1. lines[i + 1] \in Captured
    OBVIOUS
  <2>2. lines[i + 1].time_elapsed \in Nat /\ lines[i + 1].size \in Sizes
    BY <2>1 DEF Captured
  <2>3. TotalTime(lines[i + 1].time_elapsed) \in 0..(Day - 1)
    BY <2>2, CaptureAssumption DEF TotalTime
  <2> QED
    BY <2>2, <2>3 DEF Parsed
<1>2. Read(lines) \in [0..(Len(lines) - 1) -> Parsed]
  BY <1>1 DEF Read
<1>3. Len(lines) \in Nat
  OBVIOUS
<1> QED
  BY <1>2, <1>3, SizeIs DEF Dict

(* A line more is an entry more. *)
LEMMA ReadAppend ==
  ASSUME NEW lines \in Seq(Captured), NEW line \in Captured
  PROVE  Read(Append(lines, line)) =
           Put(Read(lines), NextNumber(Read(lines)),
               [time_elapsed |-> TotalTime(line.time_elapsed), size |-> line.size])
<1>1. NextNumber(Read(lines)) = Len(lines) /\ DOMAIN Read(lines) = 0..(Len(lines) - 1)
  BY ReadFacts DEF NextNumber, Read
<1>2. Len(lines) \in Nat /\ Len(Append(lines, line)) = Len(lines) + 1
  OBVIOUS
<1>3. 0..(Len(Append(lines, line)) - 1) = (DOMAIN Read(lines)) \cup {Len(lines)}
  BY <1>1, <1>2
<1>4. \A i \in 0..(Len(lines) - 1) : Append(lines, line)[i + 1] = lines[i + 1]
  OBVIOUS
<1>5. Append(lines, line)[Len(lines) + 1] = line
  OBVIOUS
<1> QED
  BY <1>1, <1>2, <1>3, <1>4, <1>5, ZenonT(30) DEF Read, Put

(* A segment of a capture is a dictionary get_stats() can index. *)
LEMMA SegmentFacts ==
  ASSUME NEW n \in Nat, NEW data \in [0..(n - 1) -> Parsed],
         NEW b \in 0..n, NEW a \in 0..b
  PROVE  /\ Segment(data, a, b) \in [0..(b - a - 1) -> Parsed]
         /\ Segment(data, a, b) \in Dict
         /\ Size(Segment(data, a, b)) = b - a
         /\ a < b => HasStats(Segment(data, a, b))
<1>1. Segment(data, a, b) \in [0..(b - a - 1) -> Parsed]
  BY DEF Segment
<1>2. b - a \in Nat
  OBVIOUS
<1>3. Segment(data, a, b) \in Dict /\ Size(Segment(data, a, b)) = b - a
  BY <1>1, <1>2, SizeIs DEF Dict
<1>4. ASSUME a < b PROVE HasStats(Segment(data, a, b))
  <2>1. 0 \in DOMAIN Segment(data, a, b) /\ DOMAIN Segment(data, a, b) = 0..(b - a - 1)
    BY <1>4, <1>1
  <2>2. 0 \notin DOMAIN Empty
    BY DEF Empty
  <2> QED
    BY <2>1, <2>2, <1>3 DEF HasStats
<1> QED
  BY <1>1, <1>3, <1>4

(* The packet after a segment extends it. *)
LEMMA SegmentPut ==
  ASSUME NEW data, NEW b \in Nat, NEW a \in 0..b
  PROVE  Put(Segment(data, a, b), b - a, data[b]) = Segment(data, a, b + 1)
<1>1. 0..(b + 1 - a - 1) = 0..(b - a - 1) \cup {b - a}
  OBVIOUS
<1>2. a + (b - a) = b
  OBVIOUS
<1> QED
  BY <1>1, <1>2 DEF Put, Segment

(* Every fingerprint is a string of the three codes. *)
LEMMA LineCodes ==
  ASSUME NEW line \in Lines
  PROVE  Range(line) \subseteq {DECREASE, CONSTANT_RATE, INCREASE}
<1>1. PICK data \in Dict : line = Slopes(data)
  BY DEF Lines
<1>2. \A x, y : Slope(x, y) \in {DECREASE, CONSTANT_RATE, INCREASE}
  BY DEF Slope
<1> QED
  BY <1>1, <1>2 DEF Slopes, Range

-----------------------------------------------------------------------------
(* The cuts. *)

(* Before the first group there is one cut, at the start. *)
LEMMA NoCuts ==
  ASSUME NEW data
  PROVE  Cuts(data, <<>>, [g \in 1..1 |-> 0], 0)
BY DEF Cuts

(* A group more, from the last cut to a later place, is a cut more. *)
LEMMA CutsAppend ==
  ASSUME NEW data, NEW groups \in Seq(Dict), NEW cut, NEW a \in Nat, NEW b \in Nat,
         Cuts(data, groups, cut, a), a < b, Segment(data, a, b) \in Dict,
         \A i \in (a + 1)..(b - 1) : Gap(data, i) < Pause,
         groups # <<>> => Gap(data, a) >= Pause
  PROVE  \E cut2 : Cuts(data, Append(groups, Segment(data, a, b)), cut2, b)
<1> DEFINE n == Len(groups)
           more == Append(groups, Segment(data, a, b))
           cut2 == [g \in 1..(n + 2) |-> IF g = n + 2 THEN b ELSE cut[g]]
<1>1. n \in Nat /\ Len(more) = n + 1
  OBVIOUS
<1>2. /\ cut \in [1..(n + 1) -> Nat] /\ cut[1] = 0 /\ cut[n + 1] = a
      /\ \A g \in 1..n :
           /\ cut[g] < cut[g + 1] /\ cut[g + 1] <= a
           /\ groups[g] = Segment(data, cut[g], cut[g + 1])
           /\ \A i \in (cut[g] + 1)..(cut[g + 1] - 1) : Gap(data, i) < Pause
           /\ g > 1 => Gap(data, cut[g]) >= Pause
  BY DEF Cuts
<1>3. /\ \A g \in 1..n : more[g] = groups[g]
      /\ more[n + 1] = Segment(data, a, b)
  OBVIOUS
<1>4. n > 0 => groups # <<>>
  OBVIOUS
<1> HIDE DEF n, more
<1>5. /\ cut2[n + 2] = b
      /\ \A g \in 1..(n + 1) : cut2[g] = cut[g]
  BY <1>1
<1>6. cut2 \in [1..(n + 2) -> Nat] /\ cut2[1] = 0
  BY <1>1, <1>2, SMTT(30)
<1> HIDE DEF cut2
<1>7. ASSUME NEW g \in 1..(n + 1)
      PROVE  /\ cut2[g] < cut2[g + 1] /\ cut2[g + 1] <= b
             /\ more[g] = Segment(data, cut2[g], cut2[g + 1])
             /\ \A i \in (cut2[g] + 1)..(cut2[g + 1] - 1) : Gap(data, i) < Pause
             /\ g > 1 => Gap(data, cut2[g]) >= Pause
  <2>1. CASE g = n + 1
    <3>1. cut2[g] = a /\ cut2[g + 1] = b /\ more[g] = Segment(data, a, b)
      BY <2>1, <1>1, <1>2, <1>3, <1>5, SMTT(30)
    <3>2. g > 1 => Gap(data, a) >= Pause
      BY <2>1, <1>1, <1>4
    <3> QED
      BY <3>1, <3>2
  <2>2. CASE g \in 1..n
    <3>1. cut2[g] = cut[g] /\ cut2[g + 1] = cut[g + 1] /\ more[g] = groups[g] /\ cut[g + 1] \in Nat
      BY <2>2, <1>1, <1>2, <1>3, <1>5, SMTT(30)
    <3>2. cut[g + 1] <= b
      BY <2>2, <3>1, <1>2
    <3> QED
      BY <2>2, <3>1, <3>2, <1>2, SMTT(30)
  <2> QED
    BY <2>1, <2>2, <1>1
<1>8. n + 1 + 1 = n + 2
  BY <1>1
<1>9. Cuts(data, more, cut2, b)
  BY <1>1, <1>5, <1>6, <1>7, <1>8, SMTT(30) DEF Cuts
<1> QED
  BY <1>9 DEF more

(* Every group that lies between cuts can be indexed by get_stats(). *)
LEMMA CutsHaveStats ==
  ASSUME NEW n \in Nat, NEW data \in [0..(n - 1) -> Parsed], NEW groups, NEW cut,
         Cuts(data, groups, cut, n), NEW g \in 1..Len(groups), Len(groups) \in Nat
  PROVE  /\ cut[g] \in Nat /\ cut[g + 1] \in Nat /\ cut[g] < cut[g + 1] /\ cut[g + 1] <= n
         /\ groups[g] = Segment(data, cut[g], cut[g + 1])
         /\ HasStats(groups[g]) /\ groups[g] \in Dict
         /\ Size(groups[g]) = cut[g + 1] - cut[g]
<1>1. /\ cut[g] \in Nat /\ cut[g + 1] \in Nat /\ cut[g] < cut[g + 1] /\ cut[g + 1] <= n
      /\ groups[g] = Segment(data, cut[g], cut[g + 1])
  BY DEF Cuts
<1>2. PICK a \in Nat, b \in Nat : a = cut[g] /\ b = cut[g + 1]
  BY <1>1, Zenon
<1>3. b \in 0..n /\ a \in 0..b /\ a < b
  BY <1>1, <1>2
<1>4. groups[g] = Segment(data, a, b)
  BY <1>1, <1>2, Zenon
<1>5. /\ HasStats(Segment(data, a, b)) /\ Segment(data, a, b) \in Dict
      /\ Size(Segment(data, a, b)) = b - a
  BY <1>3, SegmentFacts, ZenonT(30)
<1> QED
  BY <1>1, <1>2, <1>4, <1>5, Zenon

-----------------------------------------------------------------------------
(* Laying sequences end to end. *)

(* A set of naturals that is not empty has a least element. *)
LEMMA LeastNat ==
  ASSUME NEW S, S \subseteq Nat, S # {}
  PROVE  \E n \in S : \A m \in S : n <= m
<1>1. \E n \in S : \A m \in S : ~(m < n)
  <2>1. \E n \in S : \A m \in S : ~(<<m, n>> \in OpToRel(<, Nat))
    BY NatLessThanWellFounded, WFMin, Zenon
  <2> QED
    BY <2>1, Zenon DEF OpToRel
<1> QED
  BY <1>1

(* f is the concatenations of the first of the sequences s, the first two  *)
(* and so on up to n.                                                      *)
Accumulates(f, s, n) == f[1] = s[1] /\ \A i \in 2..n : f[i] = f[i - 1] \o s[i]

(* FlattenSeq is what these concatenations come to. *)
LEMMA FlattenIs ==
  ASSUME NEW n \in Nat \ {0}, NEW s, Len(s) = n, NEW f, Accumulates(f, s, n)
  PROVE  FlattenSeq(s) = f[n]
<1> DEFINE Joins(h) == h = [i \in 1..n |-> IF i = 1 THEN s[i] ELSE h[i - 1] \o s[i]]
           h == CHOOSE x : Joins(x)
<1>0. f[1] = s[1] /\ \A i \in 2..n : f[i] = f[i - 1] \o s[i]
  BY ZenonT(30) DEF Accumulates
<1>1. FlattenSeq(s) = h[n]
  BY DEF FlattenSeq
<1>2. Joins([i \in 1..n |-> f[i]])
  <2> DEFINE x == [i \in 1..n |-> f[i]]
  <2>1. \A i \in 1..n : x[i] = f[i]
    OBVIOUS
  <2>2. \A i \in 1..n : i = 1 \/ (i \in 2..n /\ i - 1 \in 1..n)
    OBVIOUS
  <2> HIDE DEF x
  <2>3. \A i \in 1..n : f[i] = IF i = 1 THEN s[i] ELSE x[i - 1] \o s[i]
    BY <1>0, <2>1, <2>2, ZenonT(30)
  <2>4. [i \in 1..n |-> f[i]] = [i \in 1..n |-> IF i = 1 THEN s[i] ELSE x[i - 1] \o s[i]]
    BY <2>3, Zenon
  <2>5. Joins(x)
    BY <2>4, ZenonT(30) DEF x
  <2> QED
    BY <2>5 DEF x
<1>3. Joins(h)
  BY <1>2, Zenon
<1>4. h[1] = s[1] /\ \A i \in 2..n : h[i] = h[i - 1] \o s[i]
  <2> DEFINE G == [i \in 1..n |-> IF i = 1 THEN s[i] ELSE h[i - 1] \o s[i]]
  <2>1. h = G
    BY <1>3, ZenonT(30)
  <2> HIDE DEF h
  <2>0. 1 \in 1..n /\ \A i \in 2..n : i \in 1..n /\ i # 1
    OBVIOUS
  <2>2. G[1] = s[1] /\ \A i \in 2..n : G[i] = h[i - 1] \o s[i]
    BY <2>0, Zenon
  <2> HIDE DEF G
  <2> QED
    BY <2>1, <2>2, ZenonT(30)
<1> HIDE DEF h, Joins
<1>5. \A i \in 1..n : h[i] = f[i]
  <2> DEFINE Wrong == {i \in 1..n : h[i] # f[i]}
  <2> SUFFICES ASSUME Wrong # {} PROVE FALSE
    OBVIOUS
  <2>0. Wrong \subseteq Nat
    OBVIOUS
  <2>1. PICK i \in Wrong : \A j \in Wrong : i <= j
    <3> HIDE DEF Wrong
    <3> QED
      BY <2>0, LeastNat, ZenonT(30)
  <2>2. i \in 2..n
    BY <2>1, <1>0, <1>4
  <2>3. h[i - 1] = f[i - 1]
    BY <2>1, <2>2
  <2> QED
    BY <2>1, <2>2, <2>3, <1>0, <1>4, ZenonT(30)
<1> QED
  BY <1>1, <1>5

-----------------------------------------------------------------------------
(* The steps. *)

(* Nothing has been read at the start. *)
LEMMA ToolInit == Init => ToolInv
<1> SUFFICES ASSUME Init PROVE ToolInv
  OBVIOUS
<1>1. /\ arrived \in Seq(Captured) /\ Len(arrived) = 0 /\ pcap_groups \in Seq(Dict)
      /\ counts \in Seq(Lines)
  BY DEF Init
<1>2. clock \in Start..MaxClock /\ 0 <= MaxPackets /\ 0 \in 0..0
  BY CaptureAssumption DEF Init
<1> QED
  BY <1>1, <1>2, EmptyDict, ZenonT(30) DEF Init, ToolInv

(* Facts about the capture that every step uses. *)
LEMMA CaptureFacts ==
  ASSUME ToolInv
  PROVE  /\ Len(arrived) \in Nat
         /\ parsed_packets \in [0..(Len(arrived) - 1) -> Parsed]
         /\ parsed_packets \in Dict
         /\ Size(parsed_packets) = Len(arrived)
         /\ arrived = <<>> <=> Len(arrived) = 0
BY ReadFacts DEF ToolInv

(* A packet read extends the dictionary by its next number. *)
LEMMA ReadStep ==
  ASSUME ToolInv, NEW size \in Sizes, ReadPacket(size)
  PROVE  ToolInv'
<1> DEFINE line == [time_elapsed |-> clock, size |-> size]
<1>1. line \in Captured /\ line.time_elapsed = clock /\ line.size = size
  BY CaptureAssumption DEF ToolInv, Captured
<1>2. arrived' = Append(arrived, line) /\ arrived \in Seq(Captured)
  BY DEF ReadPacket, ToolInv
<1>3. parsed_packets' = Put(Read(arrived), NextNumber(Read(arrived)),
                            [time_elapsed |-> TotalTime(clock), size |-> size])
  BY DEF ReadPacket, ToolInv
<1> HIDE DEF line
<1>4. parsed_packets' = Read(arrived')
  BY <1>1, <1>2, <1>3, ReadAppend, SMTT(30)
<1>5. arrived' \in Seq(Captured) /\ Len(arrived') = Len(arrived) + 1 /\ Len(arrived) \in Nat
  BY <1>1, <1>2, SMTT(30)
<1>6. Len(arrived') <= MaxPackets
  BY <1>5, CaptureAssumption, SMTT(30) DEF ReadPacket
<1>7. packet_num' \in 0..Len(arrived')
  BY <1>5 DEF ReadPacket, ToolInv, grouping_vars
<1>8. UNCHANGED <<clock, bad_line, phase, start_packet_number, curr_group, pcap_groups, counts, packet_num>>
  BY DEF ReadPacket, grouping_vars
<1>9. phase = "parse"
  BY DEF ReadPacket
<1> QED
  BY <1>4, <1>5, <1>6, <1>7, <1>8, <1>9, SMTT(30) DEF ToolInv

(* A line that does not parse, or time passing, adds no packet. *)
LEMMA ReadingSteps ==
  ASSUME ToolInv, RejectLine \/ NextSecond
  PROVE  ToolInv'
<1>1. /\ UNCHANGED <<arrived, parsed_packets, start_packet_number, curr_group, pcap_groups,
                     counts, packet_num>>
      /\ phase = "parse"
  BY DEF RejectLine, NextSecond, grouping_vars
<1>2. clock' \in Start..MaxClock /\ bad_line' \in BOOLEAN
  <2>1. clock' \in Start..MaxClock
    <3>1. clock \in Start..MaxClock
      BY DEF ToolInv
    <3> QED
      BY <3>1, CaptureAssumption DEF RejectLine, NextSecond
  <2>2. bad_line' \in BOOLEAN
    BY Zenon DEF RejectLine, NextSecond, ToolInv
  <2> QED
    BY <2>1, <2>2, SMTT(30)
<1>3. phase' = "parse" \/ (phase' = "failed" /\ bad_line')
  BY DEF RejectLine, NextSecond
<1>4. "parse" \notin {"group", "groups", "failed"} /\ "failed" \notin {"parse", "group", "groups"}
  OBVIOUS
<1> QED
  BY <1>1, <1>2, <1>3, <1>4, ZenonT(30) DEF ToolInv

(* Appending the fingerprint of a dictionary to "counts". *)
LEMMA GetStatsFacts ==
  ASSUME ToolInv, NEW data \in Dict, GetStats(data)
  PROVE  /\ counts' \in Seq(Lines) /\ Len(counts') = Len(counts) + 1 /\ Len(counts) \in Nat
         /\ counts # <<>> => counts'[1] = counts[1]
         /\ counts = <<>> => counts'[1] = Slopes(data)
         /\ counts' # <<>>
<1>1. Slopes(data) \in Lines /\ counts \in Seq(Lines)
  BY DEF Lines, ToolInv
<1> DEFINE line == Slopes(data)
<1>2. counts' = Append(counts, line) /\ line \in Lines
  BY <1>1 DEF GetStats
<1> HIDE DEF line
<1>3. /\ counts' \in Seq(Lines) /\ Len(counts') = Len(counts) + 1 /\ Len(counts) \in Nat
      /\ counts # <<>> => counts'[1] = counts[1]
      /\ counts = <<>> => counts'[1] = line
  BY <1>1, <1>2
<1> QED
  BY <1>3 DEF line

(* The whole capture is analysed first, and gives the first fingerprint. *)
LEMMA CaptureStep ==
  ASSUME ToolInv, AnalyseCapture
  PROVE  ToolInv'
<1>1. /\ UNCHANGED <<clock, arrived, bad_line, parsed_packets, packet_num,
                     start_packet_number, curr_group, pcap_groups>>
      /\ phase = "parse" /\ counts = <<>> /\ packet_num = 0 /\ start_packet_number = 0
      /\ curr_group = Empty /\ pcap_groups = <<>>
  BY DEF AnalyseCapture, ToolInv
<1>2. CASE ~HasStats(parsed_packets)
  <2>1. phase' = "failed" /\ counts' = counts
    BY <1>2 DEF AnalyseCapture
  <2>2. DOMAIN parsed_packets = 0..(Size(parsed_packets) - 1)
    BY CaptureFacts
  <2>3. parsed_packets = Empty
    BY <1>2, <2>2 DEF HasStats
  <2>4. DOMAIN parsed_packets = {}
    BY <2>3 DEF Empty
  <2>5. Len(arrived) = 0
    BY <2>4, CaptureFacts
  <2> QED
    BY <1>1, <2>1, <2>5, CaptureFacts, SMTT(30) DEF ToolInv
<1>3. CASE HasStats(parsed_packets)
  <2>1. /\ GetStats(parsed_packets) /\ phase' \in {"group", "done"}
        /\ last_time' = parsed_packets[0].time_elapsed
    BY <1>3 DEF AnalyseCapture
  <2>2. /\ counts' \in Seq(Lines) /\ Len(counts') = 1
        /\ counts'[1] = Slopes(parsed_packets)
    BY <1>1, <2>1, CaptureFacts, GetStatsFacts, SMTT(30)
  <2>3. arrived # <<>>
    <3>1. Size(parsed_packets) # 0
      <4> SUFFICES ASSUME Size(parsed_packets) = 0 PROVE FALSE
        OBVIOUS
      <4>1. arrived = <<>>
        BY CaptureFacts
      <4>2. parsed_packets = Empty
        BY <4>1, EmptyDict, SMTT(30) DEF ToolInv
      <4> QED
        BY <4>2, <1>3 DEF HasStats
    <3> QED
      BY <3>1, CaptureFacts
  <2>4. GroupingInv'
    <3>1. \E cut : Cuts(parsed_packets, <<>>, cut, 0)
      BY NoCuts
    <3>2. Empty = Segment(parsed_packets, 0, 0)
      BY EmptyDict
    <3>3. 0 \in 0..0 /\ (0 + 1)..(0 - 1) = {}
      OBVIOUS
    <3> QED
      BY <1>1, <2>1, <2>3, <3>1, <3>2, <3>3, SMTT(30) DEF GroupingInv
  <2> QED
    BY <1>1, <2>1, <2>2, <2>4, SMTT(30) DEF ToolInv
<1> QED
  BY <1>2, <1>3, SMTT(30)

(* One iteration of the loop of separate_pcap_groups(): the packet extends *)
(* the group, or ends it and starts the next.                              *)
LEMMA GroupStep ==
  ASSUME ToolInv, GroupPacket
  PROVE  ToolInv'
<1> DEFINE n == Len(arrived)
           time == parsed_packets[packet_num].time_elapsed
<1>1. /\ phase = "group" /\ GroupingInv /\ Len(counts) = 1 /\ phase' = "group"
      /\ UNCHANGED <<clock, arrived, bad_line, parsed_packets, counts>>
      /\ packet_num' = packet_num + 1 /\ last_time' = time
  BY SMTT(30) DEF GroupPacket, ToolInv
<1>2. /\ n \in Nat /\ packet_num \in 0..(n - 1) /\ packet_num' \in 0..n
      /\ parsed_packets \in [0..(n - 1) -> Parsed]
      /\ start_packet_number \in 0..packet_num
  BY <1>1, CaptureFacts, SMTT(30) DEF GroupPacket, ToolInv, GroupingInv
<1>3. /\ pcap_groups \in Seq(Dict) /\ curr_group \in Dict
      /\ curr_group = Segment(parsed_packets, start_packet_number, packet_num)
      /\ \A i \in (start_packet_number + 1)..(packet_num - 1) : Gap(parsed_packets, i) < Pause
      /\ pcap_groups # <<>> => Gap(parsed_packets, start_packet_number) >= Pause
  BY <1>1 DEF ToolInv, GroupingInv
<1>4. PICK cut : Cuts(parsed_packets, pcap_groups, cut, start_packet_number)
  BY <1>1 DEF GroupingInv
<1>5. time \in Nat /\ parsed_packets[packet_num'- 1].time_elapsed = time
  BY <1>1, <1>2, CaptureAssumption, SMTT(30) DEF Parsed
<1>6. /\ packet_num = 0 => last_time = time /\ pcap_groups = <<>>
      /\ packet_num # 0 => /\ start_packet_number < packet_num
                           /\ time - last_time = Gap(parsed_packets, packet_num)
  BY <1>1, <1>2, SMTT(30) DEF GroupingInv, Gap
<1>7. CASE ~PastPause(time)
  <2>1. /\ pcap_groups' = pcap_groups /\ start_packet_number' = start_packet_number
        /\ curr_group' = Put(curr_group, packet_num - start_packet_number, parsed_packets[packet_num])
    BY <1>7 DEF GroupPacket, GroupStart, GroupLeft
  <2>2. curr_group' = Segment(parsed_packets, start_packet_number, packet_num + 1)
    BY <2>1, <1>2, <1>3, SegmentPut, SMTT(30)
  <2>3. curr_group' \in Dict
    <3>1. packet_num + 1 \in 0..n /\ start_packet_number \in 0..(packet_num + 1)
      BY <1>2
    <3> QED
      BY <2>2, <3>1, <1>2, SegmentFacts, SMTT(30)
  <2>4. \A i \in (start_packet_number + 1)..packet_num : Gap(parsed_packets, i) < Pause
    <3> SUFFICES ASSUME NEW i \in (start_packet_number + 1)..packet_num
                 PROVE  Gap(parsed_packets, i) < Pause
      OBVIOUS
    <3>1. CASE i \in (start_packet_number + 1)..(packet_num - 1)
      BY <3>1, <1>3, SMTT(30)
    <3>2. CASE i = packet_num
      <4>1. packet_num # 0
        BY <3>2, <1>2, SMTT(30)
      <4>2. Gap(parsed_packets, packet_num) \in Int
        BY <4>1, <1>2, CaptureAssumption, SMTT(30) DEF Gap, Parsed
      <4> QED
        BY <3>2, <4>1, <4>2, <1>6, <1>7, CaptureAssumption, SMTT(30) DEF PastPause
    <3> QED
      BY <3>1, <3>2, <1>2, SMTT(30)
  <2>5. GroupingInv'
    <3>1. start_packet_number' \in 0..packet_num' /\ start_packet_number' < packet_num' /\ packet_num' # 0
      BY <1>1, <1>2, <2>1
    <3>2. \A i \in (start_packet_number' + 1)..(packet_num' - 1) : Gap(parsed_packets', i) < Pause
      BY <1>1, <1>2, <2>1, <2>4, SMTT(30)
    <3>3. curr_group' = Segment(parsed_packets', start_packet_number', packet_num')
      BY <1>1, <2>1, <2>2, SMTT(30)
    <3>4. \E c : Cuts(parsed_packets', pcap_groups', c, start_packet_number')
      BY <1>1, <1>4, <2>1, SMTT(30)
    <3>5. pcap_groups' # <<>> => Gap(parsed_packets', start_packet_number') >= Pause
      BY <1>1, <1>3, <2>1, SMTT(30)
    <3> QED
      BY <1>1, <1>5, <3>1, <3>2, <3>3, <3>4, <3>5, ZenonT(30) DEF GroupingInv, Cuts, Segment, Gap
  <2> QED
    BY <1>1, <1>2, <2>1, <2>3, <2>5, SMTT(30) DEF ToolInv
<1>8. CASE PastPause(time)
  <2>1. /\ pcap_groups' = Append(pcap_groups, curr_group) /\ start_packet_number' = packet_num
        /\ curr_group' = Put(Empty, packet_num - packet_num, parsed_packets[packet_num])
    BY <1>8 DEF GroupPacket, GroupStart, GroupLeft
  <2>2. packet_num # 0 /\ Gap(parsed_packets, packet_num) >= Pause
    BY <1>5, <1>6, <1>8, CaptureAssumption, SMTT(30) DEF PastPause
  <2>3. Empty = Segment(parsed_packets, packet_num, packet_num)
    BY <1>2 DEF Empty, Segment
  <2>4. curr_group' = Segment(parsed_packets, packet_num, packet_num + 1)
    BY <2>1, <2>3, <1>2, SegmentPut, SMTT(30)
  <2>5. curr_group' \in Dict /\ pcap_groups' \in Seq(Dict) /\ pcap_groups' # <<>>
    <3>1. packet_num + 1 \in 0..n /\ packet_num \in 0..(packet_num + 1)
      BY <1>2
    <3>2. curr_group' \in Dict
      BY <2>4, <3>1, <1>2, SegmentFacts, ZenonT(30)
    <3> QED
      BY <2>1, <3>2, <1>3, SMTT(30)
  <2>6. \E c : Cuts(parsed_packets, pcap_groups', c, packet_num)
    <3>1. start_packet_number \in Nat /\ packet_num \in Nat /\ start_packet_number < packet_num
      BY <2>2, <1>2, <1>6, SMTT(30)
    <3>2. \E c : Cuts(parsed_packets,
                      Append(pcap_groups, Segment(parsed_packets, start_packet_number, packet_num)),
                      c, packet_num)
      BY <3>1, <1>3, <1>4, CutsAppend, SMTT(30)
    <3> QED
      BY <3>2, <2>1, <1>3, SMTT(30)
  <2>7. GroupingInv'
    <3>1. start_packet_number' \in 0..packet_num' /\ start_packet_number' < packet_num' /\ packet_num' # 0
      BY <1>1, <1>2, <2>1
    <3>2. \A i \in (start_packet_number' + 1)..(packet_num' - 1) : Gap(parsed_packets', i) < Pause
      BY <1>1, <1>2, <2>1, SMTT(30)
    <3>3. curr_group' = Segment(parsed_packets', start_packet_number', packet_num')
      BY <1>1, <2>1, <2>4, SMTT(30)
    <3>4. \E c : Cuts(parsed_packets', pcap_groups', c, start_packet_number')
      BY <1>1, <2>1, <2>6, SMTT(30)
    <3>5. Gap(parsed_packets', start_packet_number') >= Pause
      BY <1>1, <2>1, <2>2, SMTT(30)
    <3> QED
      BY <1>1, <1>5, <3>1, <3>2, <3>3, <3>4, <3>5, ZenonT(30) DEF GroupingInv, Cuts, Segment, Gap
  <2> QED
    BY <1>1, <1>2, <2>5, <2>7, SMTT(30) DEF ToolInv
<1> QED
  BY <1>7, <1>8, SMTT(30)

(* The last group ends with the capture. *)
LEMMA EndStep ==
  ASSUME ToolInv, EndGroups
  PROVE  ToolInv'
<1>1. /\ GroupingInv /\ Len(counts) = 1 /\ phase' = "groups"
      /\ UNCHANGED <<clock, arrived, bad_line, parsed_packets, packet_num, curr_group, counts>>
      /\ pcap_groups' = Append(pcap_groups, curr_group)
  BY DEF EndGroups, ToolInv
<1>2. /\ Len(arrived) \in Nat \ {0} /\ packet_num = Len(arrived)
      /\ start_packet_number \in Nat /\ start_packet_number < Len(arrived)
  BY <1>1, CaptureFacts, SMTT(30) DEF EndGroups, GroupingInv
<1>3. /\ pcap_groups \in Seq(Dict) /\ curr_group \in Dict
      /\ curr_group = Segment(parsed_packets, start_packet_number, Len(arrived))
      /\ \A i \in (start_packet_number + 1)..(Len(arrived) - 1) : Gap(parsed_packets, i) < Pause
      /\ pcap_groups # <<>> => Gap(parsed_packets, start_packet_number) >= Pause
  BY <1>1, <1>2, SMTT(30) DEF ToolInv, GroupingInv
<1>4. PICK cut : Cuts(parsed_packets, pcap_groups, cut, start_packet_number)
  BY <1>1 DEF GroupingInv
<1>5. \E c : Cuts(parsed_packets, pcap_groups', c, Len(arrived))
  BY <1>1, <1>2, <1>3, <1>4, CutsAppend, ZenonT(30)
<1>6. GroupedInv'
  <2>1. \E c : Cuts(parsed_packets', pcap_groups', c, Len(arrived'))
    BY <1>1, <1>5
  <2> QED
    BY <2>1 DEF GroupedInv
<1>7. pcap_groups' \in Seq(Dict) /\ 1 \in 1..(Len(pcap_groups') + 1)
  BY <1>1, <1>3
<1> QED
  BY <1>1, <1>6, <1>7, ZenonT(30) DEF ToolInv

(* get_stats() of the next group always succeeds. *)
LEMMA GroupStatsStep ==
  ASSUME ToolInv, AnalyseGroup
  PROVE  ToolInv'
<1>1. /\ GroupedInv /\ Len(counts) \in 1..(Len(pcap_groups) + 1) /\ Len(pcap_groups) \in Nat
      /\ UNCHANGED <<clock, arrived, bad_line, parsed_packets, packet_num, curr_group, pcap_groups>>
      /\ counts \in Seq(Lines) /\ counts # <<>>
  BY DEF AnalyseGroup, ToolInv, grouping_vars
<1>2. GroupedInv'
  <2>1. \E c : Cuts(parsed_packets', pcap_groups', c, Len(arrived'))
    BY <1>1 DEF GroupedInv
  <2> QED
    BY <2>1 DEF GroupedInv
<1>3. CASE GroupsDone = Len(pcap_groups)
  <2>1. phase' = "done" /\ counts' = counts
    BY <1>3 DEF AnalyseGroup
  <2> QED
    BY <1>1, <2>1 DEF ToolInv
<1>4. CASE GroupsDone # Len(pcap_groups)
  <2>1. GroupsDone + 1 \in 1..Len(pcap_groups)
    BY <1>1, <1>4 DEF GroupsDone
  <2>2. PICK cut : Cuts(parsed_packets, pcap_groups, cut, Len(arrived))
    BY <1>1, SMTT(30) DEF GroupedInv
  <2>3. HasStats(pcap_groups[GroupsDone + 1]) /\ pcap_groups[GroupsDone + 1] \in Dict
    BY <1>1, <2>1, <2>2, CaptureFacts, CutsHaveStats, ZenonT(30)
  <2>4. GetStats(pcap_groups[GroupsDone + 1]) /\ phase' = "groups"
    BY <1>4, <2>3, SMTT(30) DEF AnalyseGroup
  <2>5. /\ counts' \in Seq(Lines) /\ Len(counts') = Len(counts) + 1 /\ counts'[1] = counts[1]
        /\ counts' # <<>>
    BY <1>1, <2>3, <2>4, GetStatsFacts, SMTT(30)
  <2>6. Len(counts') \in 1..(Len(pcap_groups) + 1)
    BY <1>1, <2>1, <2>5, SMTT(30) DEF GroupsDone
  <2>7. counts'[1] = Slopes(parsed_packets')
    BY <1>1, <2>5 DEF ToolInv
  <2> QED
    BY <1>1, <1>2, <2>4, <2>5, <2>6, <2>7, SMTT(30) DEF ToolInv
<1> QED
  BY <1>3, <1>4

-----------------------------------------------------------------------------
(* What the cuts say about the groups. *)

(* The start of a capture and the segment after it, as sequences. *)
LEMMA Joined ==
  ASSUME NEW n \in Nat, NEW data \in [0..(n - 1) -> Parsed], NEW b \in 0..n, NEW a \in 0..b
  PROVE  [i \in 1..a |-> data[i - 1]] \o [i \in 1..(b - a) |-> data[a + (i - 1)]]
           = [i \in 1..b |-> data[i - 1]]
<1> DEFINE x == [i \in 1..a |-> data[i - 1]]
           y == [i \in 1..(b - a) |-> data[a + (i - 1)]]
           z == [i \in 1..b |-> data[i - 1]]
<1>1. /\ x \in Seq(Parsed) /\ Len(x) = a /\ \A i \in 1..a : x[i] = data[i - 1]
      /\ z \in Seq(Parsed) /\ Len(z) = b /\ \A i \in 1..b : z[i] = data[i - 1]
  OBVIOUS
<1>2. y \in Seq(Parsed) /\ Len(y) = b - a /\ \A i \in 1..(b - a) : y[i] = data[a + (i - 1)]
  OBVIOUS
<1> HIDE DEF x, y, z
<1>3. /\ x \o y \in Seq(Parsed) /\ Len(x \o y) = b
      /\ \A i \in 1..b : (x \o y)[i] = IF i <= a THEN x[i] ELSE y[i - a]
  <2>1. a \in Nat /\ b \in Nat /\ a + (b - a) = b
    OBVIOUS
  <2>2. /\ x \o y \in Seq(Parsed) /\ Len(x \o y) = Len(x) + Len(y)
        /\ \A i \in 1..(Len(x) + Len(y)) :
             (x \o y)[i] = IF i <= Len(x) THEN x[i] ELSE y[i - Len(x)]
    BY <1>1, <1>2, ConcatProperties, ZenonT(30)
  <2>3. QED
    BY <1>1, <1>2, <2>1, <2>2, SMTT(30)
<1>4. ASSUME NEW i \in 1..b
      PROVE  (x \o y)[i] = z[i]
  <2>1. a \in Nat /\ b \in Nat /\ i \in Nat
    OBVIOUS
  <2>2. CASE i <= a
    <3>1. i \in 1..a
      BY <2>1, <2>2
    <3>2. QED
      BY <1>1, <1>3, <2>2, <3>1, ZenonT(30)
  <2>3. CASE ~(i <= a)
    <3>1. i - a \in 1..(b - a) /\ a + ((i - a) - 1) = i - 1
      BY <2>1, <2>3
    <3>2. y[i - a] = data[a + ((i - a) - 1)]
      BY <1>2, <3>1, Zenon
    <3>3. QED
      BY <1>1, <1>3, <2>3, <3>1, <3>2, ZenonT(30)
  <2>4. QED
    BY <2>2, <2>3
<1>5. x \o y = z
  BY <1>1, <1>3, <1>4, SeqEqual, ZenonT(30)
<1> QED
  BY <1>5 DEF x, y, z

(* Groups that lie between cuts, end to end, are the capture. *)
LEMMA CutsPartition ==
  ASSUME NEW n \in Nat, NEW data \in [0..(n - 1) -> Parsed],
         NEW groups \in Seq(Dict), NEW cut, Cuts(data, groups, cut, n)
  PROVE  FlattenSeq([g \in DOMAIN groups |->
                       [i \in 1..Size(groups[g]) |-> groups[g][i - 1]]])
           = [i \in 1..n |-> data[i - 1]]
<1> DEFINE s == [g \in DOMAIN groups |-> [i \in 1..Size(groups[g]) |-> groups[g][i - 1]]]
           m == Len(groups)
           f == [g \in 1..m |-> [i \in 1..cut[g + 1] |-> data[i - 1]]]
<1>1. m \in Nat /\ DOMAIN groups = 1..m /\ Len(s) = m
  BY SMTT(30)
<1>2. /\ cut[1] = 0 /\ cut[m + 1] = n
      /\ \A g \in 1..m : cut[g] \in Nat /\ cut[g + 1] \in Nat /\ cut[g] < cut[g + 1] /\ cut[g + 1] <= n
  BY <1>1, CutsHaveStats, ZenonT(30) DEF Cuts
<1>3. ASSUME NEW g \in 1..m
      PROVE  s[g] = [i \in 1..(cut[g + 1] - cut[g]) |-> data[cut[g] + (i - 1)]]
  <2>1. PICK a \in Nat, b \in Nat : a = cut[g] /\ b = cut[g + 1]
    BY <1>2, SMTT(30)
  <2>2. groups[g] = Segment(data, a, b) /\ Size(groups[g]) = b - a
    BY <1>1, <2>1, CutsHaveStats, SMTT(30)
  <2>3. \A i \in 1..(b - a) : groups[g][i - 1] = data[a + (i - 1)]
    BY <2>2, SMTT(30) DEF Segment
  <2>4. s[g] = [i \in 1..Size(groups[g]) |-> groups[g][i - 1]]
    BY <1>1, SMTT(30)
  <2> QED
    BY <2>1, <2>2, <2>3, <2>4, ZenonT(30)
<1>4. \A g \in 1..m : f[g] = [i \in 1..cut[g + 1] |-> data[i - 1]]
  OBVIOUS
<1>6. CASE m = 0
  <2>1. FlattenSeq(s) = s
    BY <1>1, <1>6 DEF FlattenSeq
  <2>2. s = <<>> /\ [i \in 1..n |-> data[i - 1]] = <<>>
    BY <1>1, <1>2, <1>6, SMTT(30)
  <2> QED
    BY <2>1, <2>2, SMTT(30)
<1>7. CASE m # 0
  <2> HIDE DEF s, f, m
  <2>1. f[1] = s[1]
    <3>1. 1 \in 1..m /\ 1 + 1 = 2 /\ cut[1] = 0 /\ cut[2] \in Nat
      BY <1>1, <1>2, <1>7, SMTT(30)
    <3>2. s[1] = [i \in 1..(cut[2] - 0) |-> data[0 + (i - 1)]]
      BY <3>1, <1>3, ZenonT(30)
    <3>3. f[1] = [i \in 1..cut[2] |-> data[i - 1]]
      BY <3>1, <1>4
    <3>4. cut[2] - 0 = cut[2] /\ \A i \in 1..cut[2] : 0 + (i - 1) = i - 1
      BY <3>1
    <3> QED
      BY <3>2, <3>3, <3>4, SMTT(30)
  <2>2. ASSUME NEW g \in 2..m PROVE f[g] = f[g - 1] \o s[g]
    <3>1. g \in 1..m /\ g - 1 \in 1..m /\ (g - 1) + 1 = g
      BY <1>1
    <3>2. PICK a \in Nat, b \in Nat : a = cut[g] /\ b = cut[g + 1] /\ a < b /\ b <= n
      BY <1>2, <3>1, SMTT(30)
    <3>3. f[g - 1] = [i \in 1..a |-> data[i - 1]] /\ f[g] = [i \in 1..b |-> data[i - 1]]
      BY <1>4, <3>1, <3>2, SMTT(30)
    <3>4. s[g] = [i \in 1..(b - a) |-> data[a + (i - 1)]]
      BY <1>3, <3>1, <3>2, SMTT(30)
    <3>5. b \in 0..n /\ a \in 0..b
      BY <3>2
    <3>6. [i \in 1..a |-> data[i - 1]] \o [i \in 1..(b - a) |-> data[a + (i - 1)]]
            = [i \in 1..b |-> data[i - 1]]
      BY <3>5, Joined
    <3> QED
      BY <3>3, <3>4, <3>6, ZenonT(30)
  <2>3. FlattenSeq(s) = f[m]
    <3>1. m \in Nat \ {0}
      BY <1>1, <1>7
    <3>2. Len(s) = m
      BY <1>1
    <3>3. Accumulates(f, s, m)
      BY <2>1, <2>2, ZenonT(30) DEF Accumulates
    <3> QED
      BY <3>1, <3>2, <3>3, FlattenIs, ZenonT(30)
  <2>4. f[m] = [i \in 1..n |-> data[i - 1]]
    <3>1. m \in 1..m
      BY <1>1, <1>7, SMTT(30)
    <3> QED
      BY <3>1, <1>2, <1>4, ZenonT(30)
  <2> QED
    BY <2>3, <2>4, SMTT(30) DEF s
<1> QED
  BY <1>6, <1>7

(* The groups start at the cuts. *)
LEMMA StartsAreCuts ==
  ASSUME NEW n \in Nat, NEW data \in [0..(n - 1) -> Parsed],
         NEW groups \in Seq(Dict), NEW cut, Cuts(data, groups, cut, n)
  PROVE  GroupStarts(groups) = StartCuts(groups, cut)
<1> DEFINE m == Len(groups)
           Starts(x) == x = [g \in DOMAIN groups |->
                               IF g = 1 THEN 0 ELSE x[g - 1] + Size(groups[g - 1])]
           start == CHOOSE x : Starts(x)
           cuts == [g \in DOMAIN groups |-> cut[g]]
<1>0. m \in Nat /\ DOMAIN groups = 1..m
  OBVIOUS
<1>1. cut[1] = 0 /\ \A g \in 2..m : cut[g] = cut[g - 1] + Size(groups[g - 1]) /\ g - 1 \in 1..m
  <2>1. cut[1] = 0
    BY DEF Cuts
  <2>2. ASSUME NEW g \in 2..m
        PROVE  cut[g] = cut[g - 1] + Size(groups[g - 1]) /\ g - 1 \in 1..m
    <3>1. PICK h \in 1..m : h = g - 1 /\ h + 1 = g
      BY <1>0
    <3>2. cut[h] \in Nat /\ cut[h + 1] \in Nat /\ Size(groups[h]) = cut[h + 1] - cut[h]
      BY <1>0, CutsHaveStats, SMTT(30)
    <3> QED
      BY <3>1, <3>2, SMTT(30)
  <2> QED
    BY <2>1, <2>2
<1>2. GroupStarts(groups) = {start[g] : g \in DOMAIN groups}
  BY DEF GroupStarts
<1>3. \A g \in 1..m : g = 1 \/ g \in 2..m
  BY <1>0
<1> HIDE DEF m
<1>4. Starts(cuts)
  <2>1. \A g \in DOMAIN groups : cuts[g] = cut[g]
    OBVIOUS
  <2> HIDE DEF cuts
  <2>2. \A g \in DOMAIN groups : cut[g] = IF g = 1 THEN 0 ELSE cuts[g - 1] + Size(groups[g - 1])
    BY <1>0, <1>1, <1>3, <2>1, ZenonT(30)
  <2>3. [g \in DOMAIN groups |-> cut[g]] =
          [g \in DOMAIN groups |-> IF g = 1 THEN 0 ELSE cuts[g - 1] + Size(groups[g - 1])]
    BY <2>2, Zenon
  <2>4. cuts = [g \in DOMAIN groups |-> cut[g]]
    BY DEF cuts
  <2> QED
    BY <2>3, <2>4, ZenonT(30)
<1>5. Starts(start)
  BY <1>4, Zenon
<1>6. start[1] = 0 \/ m = 0
  <2> DEFINE G == [g \in DOMAIN groups |-> IF g = 1 THEN 0 ELSE start[g - 1] + Size(groups[g - 1])]
  <2>1. start = G
    BY <1>5, ZenonT(30)
  <2> HIDE DEF start
  <2>2. m # 0 => 1 \in DOMAIN groups
    BY <1>0
  <2>3. m # 0 => G[1] = 0
    BY <2>2, Zenon
  <2> HIDE DEF G
  <2> QED
    BY <2>1, <2>3, ZenonT(30)
<1>7. \A g \in 2..m : start[g] = start[g - 1] + Size(groups[g - 1])
  <2> DEFINE G == [g \in DOMAIN groups |-> IF g = 1 THEN 0 ELSE start[g - 1] + Size(groups[g - 1])]
  <2>1. start = G
    BY <1>5, ZenonT(30)
  <2> HIDE DEF start
  <2>2. \A g \in 2..m : g \in DOMAIN groups /\ g # 1
    BY <1>0
  <2>3. \A g \in 2..m : G[g] = start[g - 1] + Size(groups[g - 1])
    BY <2>2, Zenon
  <2> HIDE DEF G
  <2> QED
    BY <2>1, <2>3, ZenonT(30)
<1> HIDE DEF start, Starts
<1>8. \A g \in 1..m : start[g] = cut[g]
  <2> DEFINE Wrong == {g \in 1..m : start[g] # cut[g]}
  <2> SUFFICES ASSUME Wrong # {} PROVE FALSE
    OBVIOUS
  <2>0. Wrong \subseteq Nat
    BY <1>0
  <2>1. PICK g \in Wrong : \A h \in Wrong : g <= h
    <3> HIDE DEF Wrong
    <3> QED
      BY <2>0, LeastNat, ZenonT(30)
  <2>2. g \in 2..m
    BY <2>1, <1>0, <1>1, <1>6, SMTT(30)
  <2>3. start[g - 1] = cut[g - 1]
    BY <2>1, <2>2, <1>0
  <2> QED
    BY <2>1, <2>2, <2>3, <1>1, <1>7, ZenonT(30)
<1> QED
  BY <1>0, <1>2, <1>8, ZenonT(30) DEF StartCuts

(* A packet is a pause of the times of day after the one before it if it   *)
(* lies at a cut, and not otherwise.                                       *)
LEMMA CutsAtPauses ==
  ASSUME NEW n \in Nat, NEW data \in [0..(n - 1) -> Parsed],
         NEW groups \in Seq(Dict), NEW cut, Cuts(data, groups, cut, n),
         NEW i \in 1..(n - 1)
  PROVE  /\ i \in StartCuts(groups, cut) => Gap(data, i) >= Pause
         /\ i \notin StartCuts(groups, cut) => Gap(data, i) < Pause
<1> DEFINE m == Len(groups)
<1>0. m \in Nat /\ DOMAIN groups = 1..m
  OBVIOUS
<1>1. /\ cut[1] = 0 /\ cut[m + 1] = n
      /\ \A g \in 1..m :
           /\ \A j \in (cut[g] + 1)..(cut[g + 1] - 1) : Gap(data, j) < Pause
           /\ g > 1 => Gap(data, cut[g]) >= Pause
  BY DEF Cuts
<1>2. \A g \in 1..(m + 1) : cut[g] \in Nat
  BY SMTT(30) DEF Cuts
<1> HIDE DEF m
<1>3. ASSUME NEW g \in 1..m, i = cut[g]
      PROVE  Gap(data, i) >= Pause
  <2>1. g > 1
    BY <1>0, <1>1, <1>3
  <2> QED
    BY <1>1, <1>3, <2>1, ZenonT(30)
<1>4. ASSUME \A g \in 1..m : i # cut[g]
      PROVE  Gap(data, i) < Pause
  <2> DEFINE Later == {g \in 1..(m + 1) : i < cut[g]}
  <2>1. Later \subseteq Nat /\ Later # {}
    <3>1. m + 1 \in 1..(m + 1) /\ i < n
      BY <1>0
    <3> QED
      BY <3>1, <1>0, <1>1, SMTT(30)
  <2>2. PICK g \in Later : \A h \in Later : g <= h
    <3> HIDE DEF Later
    <3> QED
      BY <2>1, LeastNat, ZenonT(30)
  <2>3. g \in 2..(m + 1)
    BY <2>2, <1>0, <1>1
  <2>4. PICK h \in 1..m : h + 1 = g
    <3>1. g - 1 \in 1..m /\ (g - 1) + 1 = g
      BY <2>3, <1>0
    <3> QED
      BY <3>1, Zenon
  <2>5. h \in 1..(m + 1) /\ h \notin Later
    BY <2>2, <2>4, <1>0, SMTT(30)
  <2>6. ~(i < cut[h]) /\ i < cut[h + 1] /\ i # cut[h] /\ cut[h] \in Nat /\ cut[h + 1] \in Nat
    BY <2>2, <2>4, <2>5, <1>2, <1>4, SMTT(30)
  <2>7. i \in (cut[h] + 1)..(cut[h + 1] - 1)
    BY <2>6
  <2> QED
    BY <1>1, <2>4, <2>7, ZenonT(30)
<1> QED
  BY <1>0, <1>3, <1>4, ZenonT(30) DEF StartCuts

(* The difference of two times of day is at most the time elapsed, and the *)
(* time elapsed if both are of one day.                                    *)
LEMMA TimesOfDay ==
  ASSUME NEW a \in Nat, NEW b \in Nat, a <= b
  PROVE  /\ TotalTime(b) - TotalTime(a) <= b - a
         /\ a \div Day = b \div Day => TotalTime(b) - TotalTime(a) = b - a
         /\ TotalTime(a) \in Nat /\ TotalTime(b) \in Nat
<1>1. Day \in Nat /\ Day > 0
  BY CaptureAssumption
<1>2. /\ a = Day * (a \div Day) + (a % Day)
      /\ b = Day * (b \div Day) + (b % Day)
      /\ a % Day \in 0..(Day - 1) /\ b % Day \in 0..(Day - 1)
      /\ a \div Day \in Nat /\ b \div Day \in Nat
  BY <1>1
<1>3. PICK s \in Nat, t \in Nat, q \in Nat, r \in Nat :
        /\ s = a % Day /\ t = b % Day /\ q = a \div Day /\ r = b \div Day
        /\ a = Day * q + s /\ b = Day * r + t /\ s < Day /\ t < Day
  BY <1>1, <1>2
<1>4. q <= r
  <2> SUFFICES ASSUME r + 1 <= q PROVE FALSE
    BY <1>3
  <2>1. Day * (r + 1) <= Day * q
    BY <1>1, <1>3
  <2> QED
    BY <2>1, <1>1, <1>3, SMTT(30)
<1>5. Day * q <= Day * r
  BY <1>1, <1>3, <1>4, SMTT(30)
<1>6. t - s <= b - a /\ (q = r => t - s = b - a)
  BY <1>1, <1>3, <1>5
<1> QED
  BY <1>3, <1>6 DEF TotalTime

-----------------------------------------------------------------------------
(* The theorems. *)

(* The inductive invariant: at every iteration the groups so far are what  *)
(* lies between cuts, and the cuts are the pauses.                         *)
THEOREM ToolInvariant == Spec => []ToolInv
<1>1. ToolInv /\ [Next]_vars => ToolInv'
  <2> SUFFICES ASSUME ToolInv, [Next]_vars PROVE ToolInv'
    OBVIOUS
  <2>1. ASSUME NEW size \in Sizes, ReadPacket(size) PROVE ToolInv'
    BY <2>1, ReadStep
  <2>2. CASE RejectLine \/ NextSecond
    BY <2>2, ReadingSteps
  <2>3. CASE AnalyseCapture
    BY <2>3, CaptureStep
  <2>4. CASE GroupPacket
    BY <2>4, GroupStep, SMTT(30)
  <2>5. CASE EndGroups
    BY <2>5, EndStep
  <2>6. CASE AnalyseGroup
    BY <2>6, GroupStatsStep
  <2>7. CASE UNCHANGED vars
    BY <2>7, Zenon DEF vars, ToolInv, GroupingInv, GroupedInv
  <2> QED
    BY <2>1, <2>2, <2>3, <2>4, <2>5, <2>6, <2>7, SMTT(30) DEF Next
<1> QED
  BY <1>1, ToolInit, PTL DEF Spec

(* Type correctness: the dictionaries hold parsed packets, and every line  *)
(* of "counts" is a string of the three codes (get_stats, lines 94-103).   *)
THEOREM TypeCorrect == Spec => []TypeOK
<1>1. ToolInv => TypeOK
  <2> SUFFICES ASSUME ToolInv PROVE TypeOK
    OBVIOUS
  <2>1. /\ clock \in Start..MaxClock /\ bad_line \in BOOLEAN
        /\ phase \in {"parse", "group", "groups", "done", "failed"}
    BY DEF ToolInv
  <2>2. packet_num \in 0..MaxPackets
    BY CaptureFacts, CaptureAssumption, SMTT(30) DEF ToolInv
  <2>3. parsed_packets \in Dict /\ curr_group \in Dict
    BY CaptureFacts DEF ToolInv
  <2>4. \A g \in Range(pcap_groups) : g \in Dict
    BY DEF Range, ToolInv
  <2>5. \A line \in Range(counts) : Range(line) \subseteq {DECREASE, CONSTANT_RATE, INCREASE}
    <3>1. \A line \in Range(counts) : line \in Lines
      BY DEF Range, ToolInv
    <3> QED
      BY <3>1, LineCodes, ZenonT(30)
  <2>6. \A d \in Dict : \A i \in DOMAIN d : i \in Nat /\ d[i] \in Parsed
    BY DictFacts, SMTT(30)
  <2> QED
    BY <2>1, <2>2, <2>3, <2>4, <2>5, <2>6, ZenonT(30) DEF TypeOK, Parsed
<1> QED
  BY <1>1, ToolInvariant, PTL

(* Only an empty capture and one with a line that does not parse get no    *)
(* fingerprints: get_stats() can index every group of                      *)
(* separate_pcap_groups().                                                 *)
THEOREM OnlyBadFail == Spec => []OnlyBadCapturesFail
<1>1. ToolInv => OnlyBadCapturesFail
  BY SMTT(30) DEF ToolInv, OnlyBadCapturesFail
<1> QED
  BY <1>1, ToolInvariant, PTL

(* The groups of any capture, laid end to end, are the capture             *)
(* (separate_pcap_groups).                                                 *)
THEOREM GroupsPartition == Spec => []GroupsPartitionCapture
<1>1. ToolInv => GroupsPartitionCapture
  <2> SUFFICES ASSUME ToolInv, phase = "groups" PROVE GroupsPartitionCapture
    BY DEF GroupsPartitionCapture
  <2>1. PICK cut : Cuts(parsed_packets, pcap_groups, cut, Len(arrived))
    BY DEF ToolInv, GroupedInv
  <2>2. pcap_groups \in Seq(Dict)
    BY SMTT(30) DEF ToolInv
  <2>3. FlattenSeq([g \in DOMAIN pcap_groups |->
                      [i \in 1..Size(pcap_groups[g]) |-> pcap_groups[g][i - 1]]])
          = [i \in 1..Len(arrived) |-> parsed_packets[i - 1]]
    BY <2>1, <2>2, CaptureFacts, CutsPartition, ZenonT(30)
  <2>4. Size(parsed_packets) = Len(arrived)
    BY CaptureFacts
  <2> QED
    BY <2>3, <2>4, ZenonT(30) DEF GroupsPartitionCapture
<1> QED
  BY <1>1, ToolInvariant, PTL

(* The packets are recorded in the order in which they arrive. *)
OrderInv ==
  /\ \A i \in 1..Len(arrived) : arrived[i].time_elapsed <= clock
  /\ \A i \in 1..(Len(arrived) - 1) : arrived[i].time_elapsed <= arrived[i + 1].time_elapsed

(* The clock never steps back, so that the arrival times of the capture do *)
(* not either.                                                             *)
THEOREM ArrivalOrder == Spec => []OrderInv
<1>1. Init => OrderInv
  BY DEF Init, OrderInv
<1>2. ToolInv /\ OrderInv /\ [Next]_vars => OrderInv'
  <2> SUFFICES ASSUME ToolInv, OrderInv, [Next]_vars PROVE OrderInv'
    OBVIOUS
  <2>1. ASSUME NEW size \in Sizes, ReadPacket(size) PROVE OrderInv'
    <3> DEFINE line == [time_elapsed |-> clock, size |-> size]
    <3>1. line.time_elapsed = clock /\ line \in Captured /\ clock \in Nat
      BY CaptureAssumption DEF ToolInv, Captured
    <3>2. arrived' = Append(arrived, line) /\ arrived \in Seq(Captured) /\ clock' = clock
      BY <2>1 DEF ReadPacket, ToolInv
    <3> HIDE DEF line
    <3>3. /\ Len(arrived) \in Nat /\ Len(arrived') = Len(arrived) + 1
          /\ \A i \in 1..Len(arrived) : arrived'[i] = arrived[i]
          /\ arrived'[Len(arrived) + 1] = line
      BY <3>1, <3>2
    <3>4. \A i \in 1..Len(arrived') : arrived'[i].time_elapsed <= clock'
      BY <3>1, <3>2, <3>3 DEF OrderInv
    <3>5. ASSUME NEW i \in 1..(Len(arrived') - 1)
          PROVE  arrived'[i].time_elapsed <= arrived'[i + 1].time_elapsed
      <4>1. CASE i = Len(arrived)
        BY <4>1, <3>1, <3>3, SMTT(30) DEF OrderInv
      <4>2. CASE i # Len(arrived)
        <5>1. i \in 1..(Len(arrived) - 1) /\ i \in 1..Len(arrived) /\ i + 1 \in 1..Len(arrived)
          BY <4>2, <3>3
        <5> QED
          BY <5>1, <3>3 DEF OrderInv
      <4> QED
        BY <4>1, <4>2
    <3> QED
      BY <3>4, <3>5 DEF OrderInv
  <2>2. CASE NextSecond
    <3>1. arrived' = arrived /\ clock' = clock + 1 /\ clock \in Nat /\ arrived \in Seq(Captured)
      BY <2>2, CaptureAssumption DEF NextSecond, ToolInv
    <3>2. \A i \in 1..Len(arrived) : arrived[i].time_elapsed \in Nat
      <4>1. \A i \in 1..Len(arrived) : arrived[i] \in Captured
        BY <3>1
      <4> QED
        BY <4>1 DEF Captured
    <3> QED
      BY <3>1, <3>2 DEF OrderInv
  <2>3. CASE RejectLine \/ AnalyseCapture \/ GroupPacket \/ EndGroups \/ AnalyseGroup \/ UNCHANGED vars
    <3>1. arrived' = arrived /\ clock' = clock
      BY <2>3 DEF RejectLine, AnalyseCapture, GroupPacket, EndGroups, AnalyseGroup, vars
    <3> QED
      BY <3>1, SMTT(30) DEF OrderInv
  <2> QED
    BY <2>1, <2>2, <2>3 DEF Next
<1> QED
  BY <1>1, <1>2, ToolInvariant, PTL DEF Spec

(* Any capture is cut at real pauses only, and a pause that is not cut has *)
(* a midnight in it (parse_packets.py line 51, separate_pcap_groups, lines *)
(* 148-149).                                                               *)
THEOREM CutAtPauses == Spec => []GroupsCutAtPauses
<1>1. ToolInv /\ OrderInv => GroupsCutAtPauses
  <2> SUFFICES ASSUME ToolInv, OrderInv, phase = "groups",
                      NEW i \in 1..(Len(arrived) - 1)
               PROVE  IF i \in GroupStarts(pcap_groups)
                      THEN arrived[i + 1].time_elapsed - arrived[i].time_elapsed >= Pause
                      ELSE \/ arrived[i + 1].time_elapsed - arrived[i].time_elapsed < Pause
                           \/ OverMidnight(i)
    BY ZenonT(30) DEF GroupsCutAtPauses
  <2>1. PICK cut : Cuts(parsed_packets, pcap_groups, cut, Len(arrived))
    BY DEF ToolInv, GroupedInv
  <2>2. pcap_groups \in Seq(Dict) /\ arrived \in Seq(Captured)
    BY DEF ToolInv
  <2>n. PICK n \in Nat :
          /\ n = Len(arrived) /\ parsed_packets \in [0..(n - 1) -> Parsed]
          /\ Cuts(parsed_packets, pcap_groups, cut, n) /\ i \in 1..(n - 1)
    BY <2>1, CaptureFacts, SMTT(30)
  <2>3. GroupStarts(pcap_groups) = StartCuts(pcap_groups, cut)
    BY <2>2, <2>n, StartsAreCuts, SMTT(30)
  <2>4. /\ i \in GroupStarts(pcap_groups) => Gap(parsed_packets, i) >= Pause
        /\ i \notin GroupStarts(pcap_groups) => Gap(parsed_packets, i) < Pause
    BY <2>2, <2>3, <2>n, CutsAtPauses, SMTT(30)
  <2>5. PICK a \in Nat, b \in Nat :
          a = arrived[i].time_elapsed /\ b = arrived[i + 1].time_elapsed /\ a <= b
    <3>1. arrived[i] \in Captured /\ arrived[i + 1] \in Captured
      BY <2>2
    <3> QED
      BY <3>1 DEF OrderInv, Captured
  <2>6. Gap(parsed_packets, i) = TotalTime(b) - TotalTime(a)
    <3>1. /\ i \in 0..(Len(arrived) - 1) /\ i - 1 \in 0..(Len(arrived) - 1) /\ (i - 1) + 1 = i
          /\ parsed_packets = Read(arrived)
      BY CaptureFacts DEF ToolInv
    <3>2. /\ parsed_packets[i].time_elapsed = TotalTime(arrived[i + 1].time_elapsed)
          /\ parsed_packets[i - 1].time_elapsed = TotalTime(arrived[i].time_elapsed)
      BY <3>1 DEF Read
    <3> QED
      BY <2>5, <3>2, Zenon DEF Gap
  <2>7. /\ TotalTime(b) - TotalTime(a) <= b - a
        /\ a \div Day = b \div Day => TotalTime(b) - TotalTime(a) = b - a
        /\ TotalTime(a) \in Nat /\ TotalTime(b) \in Nat
    BY <2>5, TimesOfDay, ZenonT(30)
  <2>8. OverMidnight(i) <=> a \div Day # b \div Day
    BY <2>5, Zenon DEF OverMidnight
  <2>9. CASE i \in GroupStarts(pcap_groups)
    <3>1. b - a >= Pause
      BY <2>9, <2>4, <2>5, <2>6, <2>7, CaptureAssumption, SMTT(30)
    <3> QED
      BY <2>9, <2>5, <3>1, Zenon
  <2>10. CASE i \notin GroupStarts(pcap_groups)
    <3>1. b - a < Pause \/ a \div Day # b \div Day
      BY <2>10, <2>4, <2>5, <2>6, <2>7, CaptureAssumption, SMTT(30)
    <3> QED
      BY <2>10, <2>5, <2>8, <3>1, ZenonT(30)
  <2> QED
    BY <2>9, <2>10
<1> QED
  BY <1>1, ToolInvariant, ArrivalOrder, PTL

(* All packets of the capture arrived before the first midnight. *)
BeforeMidnight == \A i \in DOMAIN arrived : arrived[i].time_elapsed < Day

(* A capture that does not cross midnight is fingerprinted in the order of *)
(* arrival, as the comment at parse_packets.py line 78 has it: the time of *)
(* day (line 51) is all that may put its seconds out of order.             *)
THEOREM ArrivalOrderBeforeMidnight ==
  Spec => [](BeforeMidnight => FingerprintInArrivalOrder)
<1>1. ToolInv => (BeforeMidnight => FingerprintInArrivalOrder)
  <2> SUFFICES ASSUME ToolInv, BeforeMidnight PROVE FingerprintInArrivalOrder
    OBVIOUS
  <2>1. arrived \in Seq(Captured) /\ parsed_packets = Read(arrived)
    BY SMTT(30) DEF ToolInv
  <2>2. ASSUME NEW i \in 0..(Len(arrived) - 1)
        PROVE  [time_elapsed |-> TotalTime(arrived[i + 1].time_elapsed),
                size |-> arrived[i + 1].size] = arrived[i + 1]
    <3>1. i + 1 \in DOMAIN arrived /\ arrived[i + 1] \in Captured
      BY <2>1
    <3>2. arrived[i + 1].time_elapsed \in 0..(Day - 1)
      BY <3>1, CaptureAssumption, SMTT(30) DEF BeforeMidnight, Captured
    <3>3. TotalTime(arrived[i + 1].time_elapsed) = arrived[i + 1].time_elapsed
      BY <3>2, CaptureAssumption, SMTT(30) DEF TotalTime
    <3> QED
      BY <3>1, <3>3, SMTT(30) DEF Captured
  <2>3. Read(arrived) = [i \in 0..(Len(arrived) - 1) |-> arrived[i + 1]]
    BY <2>2, Zenon DEF Read
  <2>4. counts # <<>> => counts[1] = Slopes(Read(arrived))
    BY <2>1 DEF ToolInv
  <2> QED
    BY <2>3, <2>4, ZenonT(30) DEF FingerprintInArrivalOrder
<1> QED
  BY <1>1, ToolInvariant, PTL

=============================================================================
