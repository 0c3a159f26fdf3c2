--------------------------- MODULE CaptureProofs ----------------------------
(***************************************************************************)
(* Proofs about Capture: for any traffic, the seconds an element has codes *)
(* for are those in which frames arrived, and how the tool's differ.  And  *)
(* about the element with its library: what a detection by behaviour says  *)
(* of the rates.                                                           *)
(***************************************************************************)
EXTENDS Capture, BehaviorLibrary, ClassifierProofs, WellFoundedInduction

-----------------------------------------------------------------------------
(* The element is not changed by being recorded. *)

(* Every behaviour of the recorded system is one of the element, so that   *)
(* what ClassifierProofs shows holds of it too.                            *)
LEMMA RecordingIsPassive == CaptureSpec => Spec
<1>1. CaptureInit => Init
  BY DEF CaptureInit
<1>2. [CaptureNext]_allvars => [Next]_vars
  BY ZenonT(30) DEF CaptureNext, Transmit, allvars
<1>3. QED
  BY <1>1, <1>2, PTL DEF CaptureSpec, Spec

(* A push emits exactly one packet, and the element is its own. *)
LEMMA PushEmitsOne ==
  ASSUME NEW c \in Instance, NEW p \in Traffic, Push(c, p)
  PROVE  \E o : output' = {o} /\ o.inst = c /\ o.pkt = p
<1>1. ASSUME NEW port, NEW via, NEW reset, Emit(c, p, port, via, reset)
      PROVE  \E o : output' = {o} /\ o.inst = c /\ o.pkt = p
  <2> DEFINE o == [inst |-> c, pkt |-> p, port |-> port, via |-> via, reset |-> reset]
  <2>1. output' = {o}
    BY <1>1, Zenon DEF Emit
  <2>2. o.inst = c /\ o.pkt = p
    OBVIOUS
  <2> HIDE DEF o
  <2>3. QED
    BY <2>1, <2>2, Zenon
<1>2. \/ Emit(c, p, 1, "static", FALSE)
      \/ Emit(c, p, 0, "other", FALSE)
      \/ Emit(c, p, 1, "flagged", WindowOver(c, p))
      \/ Emit(c, p, 1, IF IsMeasurementToolHello(p) THEN "hello" ELSE "behavior",
              WindowOver(c, p))
      \/ Emit(c, p, 0, "default", WindowOver(c, p))
  BY Zenon DEF Push, PushStaticIP, PushOther, PushFlagged, PushMeasurementTool,
     PushDefault
<1>3. QED
  BY <1>1, <1>2, Zenon

-----------------------------------------------------------------------------
(* The seconds of the capture. *)

(* Lines of a capture, and the seconds in which the element got a frame. *)
Lines == [time_elapsed: Time, size: Int, text: Text, from: {"in", "out"}]
Arrivals(lines) ==
  {t \in Time : \E i \in DOMAIN lines : lines[i].from = "in" /\ lines[i].time_elapsed = t}

(* The strengthening of StringsAlign: nothing has arrived in the future,   *)
(* so that the first second of a behaviour that starts now excludes all    *)
(* the lines before it; and the element has codes for exactly the seconds  *)
(* of the arrivals from its first second on.                               *)
CaptureInv ==
  /\ capture \in [Instance -> Seq(Lines)]
  /\ \A c \in Instance : Arrivals(capture[c]) \subseteq 1..now /\ reset_time[c] <= now
  /\ \A c \in Instance :
       \E first \in reset_time[c]..(now + 1) :
         /\ found_first_burst[c] => first <= reset_time[c] + 1
         /\ Seconds(current_behavior_map[c]) = {t \in Arrivals(capture[c]) : t >= first}

(* A line appended adds its second, if its frame has arrived. *)
LEMMA AppendedSecond ==
  ASSUME NEW lines \in Seq(Lines), NEW line \in Lines
  PROVE  /\ lines \o <<line>> \in Seq(Lines)
         /\ line.from = "in" =>
              Arrivals(lines \o <<line>>) = Arrivals(lines) \cup {line.time_elapsed}
         /\ line.from = "out" => Arrivals(lines \o <<line>>) = Arrivals(lines)
         /\ lines \o <<>> = lines
<1> DEFINE longer == lines \o <<line>>
<1>1. /\ longer \in Seq(Lines)
      /\ DOMAIN longer = 1..(Len(lines) + 1)
      /\ \A i \in 1..Len(lines) : longer[i] = lines[i]
      /\ longer[Len(lines) + 1] = line
      /\ DOMAIN lines = 1..Len(lines)
      /\ Len(lines) \in Nat
  OBVIOUS
<1>2. lines \o <<>> = lines
  OBVIOUS
<1> HIDE DEF longer
<1>3. 1..(Len(lines) + 1) = 1..Len(lines) \cup {Len(lines) + 1}
  BY <1>1
<1>4. ASSUME NEW t \in Time
      PROVE  t \in Arrivals(longer)
               <=> t \in Arrivals(lines) \/ (line.from = "in" /\ line.time_elapsed = t)
  <2>1. t \in Arrivals(longer) <=>
          \E i \in 1..(Len(lines) + 1) : longer[i].from = "in" /\ longer[i].time_elapsed = t
    BY <1>1, Zenon DEF Arrivals
  <2>2. t \in Arrivals(lines) <=>
          \E i \in 1..Len(lines) : lines[i].from = "in" /\ lines[i].time_elapsed = t
    BY <1>1, Zenon DEF Arrivals
  <2>3. QED
    BY <1>1, <1>3, <2>1, <2>2, SMTT(30)
<1>5. line.time_elapsed \in Time /\ "in" # "out"
  BY DEF Lines
<1>6. Arrivals(longer) \subseteq Time /\ Arrivals(lines) \subseteq Time
  BY DEF Arrivals
<1>7. QED
  BY <1>1, <1>2, <1>4, <1>5, <1>6, ZenonT(30) DEF longer

(* What tcpdump adds when an element is pushed a packet. *)
LEMMA PushRecorded ==
  ASSUME TypeOK, capture \in [Instance -> Seq(Lines)],
         NEW c \in Instance, NEW p \in Traffic, Push(c, p), Record
  PROVE  /\ capture' \in [Instance -> Seq(Lines)]
         /\ Arrivals(capture'[c]) = Arrivals(capture[c]) \cup {now}
         /\ \A d \in Instance \ {c} : capture'[d] = capture[d]
<1>1. PICK o : output' = {o} /\ o.inst = c /\ o.pkt = p
  BY PushEmitsOne
<1> DEFINE line == Line("in", p.size - Header, Printed[p])
<1>2. line \in Lines /\ line.time_elapsed = now /\ line.from = "in"
  BY PacketFacts, CaptureAssumption DEF Line, Lines, TypeOK
<1>3. (CHOOSE q \in output' : TRUE) = o
  BY <1>1
<1>4. capture'[c] = capture[c] \o <<line>>
  BY <1>1, <1>3 DEF Record
<1>5. ASSUME NEW d \in Instance, d # c
      PROVE  capture'[d] = capture[d] \o <<>>
  BY <1>1, <1>5 DEF Record
<1> HIDE DEF line
<1>6. \A d \in Instance : capture[d] \in Seq(Lines)
  OBVIOUS
<1>7. /\ capture'[c] \in Seq(Lines)
      /\ Arrivals(capture'[c]) = Arrivals(capture[c]) \cup {now}
  BY <1>2, <1>4, <1>6, AppendedSecond
<1>8. ASSUME NEW d \in Instance, d # c
      PROVE  capture'[d] = capture[d]
  BY <1>2, <1>5, <1>6, <1>8, AppendedSecond
<1>9. \A d \in Instance : capture'[d] \in Seq(Lines)
  BY <1>6, <1>7, <1>8, Zenon
<1>10. capture' = [d \in Instance |-> capture'[d]]
  BY DEF Record
<1>11. QED
  BY <1>7, <1>8, <1>9, <1>10

(* The seconds so far are seconds of the model. *)
LEMMA SecondsSoFar ==
  ASSUME TypeOK
  PROVE  /\ now \in Time /\ now \in 1..MaxTime
         /\ 1..now \subseteq Time /\ now \in 1..now
<1>1. now \in 1..MaxTime
  BY DEF TypeOK, Time
<1>2. QED
  BY <1>1, ConstantsAssumption DEF Time

(* Ranges grow with the clock. *)
LEMMA RangesGrow ==
  ASSUME NEW early \in Int, NEW late \in Int, early <= late
  PROVE  /\ 1..early \subseteq 1..late
         /\ 1..(early - 3) \subseteq 1..(late - 3)
         /\ \A n \in Nat : n..(early + 1) \subseteq n..(late + 1)
OBVIOUS

(* A push keeps the two sides together: the second it codes is the second  *)
(* of the line it leaves in the capture, and a reset gives up all of them. *)
LEMMA PushKeepsSeconds ==
  ASSUME TypeOK, CaptureInv, NEW c \in Instance, NEW p \in Traffic, Push(c, p), Record
  PROVE  CaptureInv'
<1>0. /\ now \in Time /\ now \in 1..MaxTime /\ 1..now \subseteq Time /\ now \in 1..now
      /\ now' \in {now, now + 1} /\ now \in Nat
  BY PushWindow, SecondsSoFar, SMTT(30)
<1>1. 1..now \subseteq 1..now' /\ \A n \in Nat : n..(now + 1) \subseteq n..(now' + 1)
  <2>1. now \in Int /\ now' \in Int /\ now <= now'
    BY <1>0
  <2>2. QED
    BY <2>1, RangesGrow, Zenon
<1>2. /\ capture' \in [Instance -> Seq(Lines)]
      /\ Arrivals(capture'[c]) = Arrivals(capture[c]) \cup {now}
      /\ \A d \in Instance \ {c} : capture'[d] = capture[d]
  BY PushRecorded DEF CaptureInv
<1>3. \A d \in Instance : Arrivals(capture[d]) \subseteq 1..now /\ reset_time[d] <= now
  BY DEF CaptureInv
<1>4. \A d \in Instance : Arrivals(capture'[d]) \subseteq 1..now
  BY <1>0, <1>2, <1>3, Zenon
<1>5. /\ current_behavior_map \in [Instance -> [Time -> Code \cup {NoEntry}]]
      /\ reset_time \in [Instance -> 0..MaxTime]
      /\ found_first_burst \in [Instance -> BOOLEAN]
  BY DEF TypeOK
<1>6. \A d \in Instance : reset_time'[d] \in Nat /\ reset_time'[d] <= now
  <2>1. reset_time' = reset_time \/ reset_time' = [reset_time EXCEPT ![c] = now]
    BY PushWindow, Zenon
  <2>2. QED
    BY <1>0, <1>3, <1>5, <2>1, SMTT(30)
<1>7. ASSUME NEW d \in Instance
      PROVE  \E first \in reset_time'[d]..(now + 1) :
               /\ found_first_burst'[d] => first <= reset_time'[d] + 1
               /\ Seconds(current_behavior_map'[d]) = {t \in Arrivals(capture'[d]) : t >= first}
  <2>1. CASE d # c
    <3>1. \/ /\ reset_time' = reset_time
             /\ current_behavior_map' = [current_behavior_map EXCEPT ![c] = Tracked(c, p)]
             /\ found_first_burst' = [found_first_burst EXCEPT ![c] = AwaitsBurst(c, p)]
          \/ /\ reset_time' = [reset_time EXCEPT ![c] = now]
             /\ current_behavior_map' = [current_behavior_map EXCEPT ![c] = NoBehavior]
             /\ found_first_burst' = [found_first_burst EXCEPT ![c] = TRUE]
      BY PushWindow, Zenon
    <3>2. /\ reset_time'[d] = reset_time[d]
          /\ current_behavior_map'[d] = current_behavior_map[d]
          /\ found_first_burst'[d] = found_first_burst[d]
          /\ capture'[d] = capture[d]
      BY <1>2, <1>5, <2>1, <3>1, SMTT(30)
    <3>3. QED
      BY <3>2, ZenonT(30) DEF CaptureInv
  <2>2. CASE /\ d = c /\ reset_time' = [reset_time EXCEPT ![c] = now]
             /\ current_behavior_map' = [current_behavior_map EXCEPT ![c] = NoBehavior]
    <3>1. /\ reset_time'[c] = now /\ current_behavior_map'[c] = NoBehavior
          /\ Seconds(NoBehavior) = {}
      BY <1>5, <2>2 DEF Seconds, NoBehavior
    <3>2. {t \in Arrivals(capture'[c]) : t >= now + 1} = {}
      <4>1. \A t \in Arrivals(capture'[c]) : t \in 1..now /\ ~(t >= now + 1)
        BY <1>0, <1>4
      <4>2. QED
        BY <4>1, Zenon
    <3>3. now + 1 \in reset_time'[c]..(now + 1) /\ now + 1 <= reset_time'[c] + 1
      BY <1>0, <3>1
    <3>4. QED
      BY <2>2, <3>1, <3>2, <3>3, Zenon
  <2>3. CASE /\ d = c /\ reset_time' = reset_time
             /\ current_behavior_map' = [current_behavior_map EXCEPT ![c] = Tracked(c, p)]
             /\ found_first_burst' = [found_first_burst EXCEPT ![c] = AwaitsBurst(c, p)]
    <3>1. /\ current_behavior_map'[c] = Tracked(c, p)
          /\ reset_time'[c] = reset_time[c] /\ reset_time[c] \in Nat
          /\ found_first_burst'[c] = AwaitsBurst(c, p)
      BY <1>5, <2>3
    <3>2. PICK first \in reset_time[c]..(now + 1) :
            /\ found_first_burst[c] => first <= reset_time[c] + 1
            /\ Seconds(current_behavior_map[c]) = {t \in Arrivals(capture[c]) : t >= first}
      BY DEF CaptureInv
    <3>3. CodeNow(c, p) # NoEntry
      BY PrologueTypes DEF Code, Decrease, Constant, Increase, NoEntry
    <3>4. {t \in Arrivals(capture'[c]) : t >= now} = {now}
      <4>1. \A t \in Arrivals(capture'[c]) : t \in 1..now /\ (t >= now => t = now)
        BY <1>0, <1>4
      <4>2. now \in Arrivals(capture'[c]) /\ now >= now
        BY <1>0, <1>2
      <4>3. QED
        BY <4>1, <4>2, Zenon
    <3>5. now \in reset_time[c]..(now + 1)
      BY <1>0, <1>3, <3>1
    <3>6. CASE StartsBehavior(c, p)
      <4>1. Seconds(Tracked(c, p)) = {now}
        BY <1>0, <3>3, <3>6, TrackedCodes, ZenonT(30) DEF Seconds
      <4>2. ~found_first_burst'[c]
        BY <3>1, <3>6, Zenon DEF AwaitsBurst
      <4>3. QED
        BY <2>3, <3>1, <3>4, <3>5, <4>1, <4>2, Zenon
    <3>7. CASE ~StartsBehavior(c, p)
      <4>1. Seconds(Tracked(c, p)) = Seconds(current_behavior_map[c]) \cup {now}
        BY <1>0, <3>3, <3>7, TrackedCodes, ZenonT(30) DEF Seconds
      <4>2. found_first_burst'[c] => first <= reset_time[c] + 1
        BY <3>1, <3>2, Zenon DEF AwaitsBurst
      <4>3. CASE now >= first
        <5>1. {t \in Arrivals(capture'[c]) : t >= first}
                = {t \in Arrivals(capture[c]) : t >= first} \cup {now}
          BY <1>2, <4>3, Zenon
        <5>2. QED
          BY <2>3, <3>1, <3>2, <4>1, <4>2, <5>1, Zenon
      <4>4. CASE ~(now >= first)
        <5>1. {t \in Arrivals(capture[c]) : t >= first} = {}
          <6>1. \A t \in Arrivals(capture[c]) : t \in 1..now /\ ~(t >= first)
            BY <1>0, <1>3, <3>1, <3>2, <4>4, SMTT(30)
          <6>2. QED
            BY <6>1, Zenon
        <5>2. Seconds(Tracked(c, p)) = {now}
          BY <3>2, <4>1, <5>1, Zenon
        <5>3. found_first_burst'[c] => now <= reset_time[c] + 1
          BY <1>0, <3>1, <3>2, <4>2, <4>4, SMTT(30)
        <5>4. QED
          BY <2>3, <3>1, <3>4, <3>5, <5>2, <5>3, Zenon
      <4>5. QED
        BY <4>3, <4>4
    <3>8. QED
      BY <3>6, <3>7
  <2>4. QED
    BY <2>1, <2>2, <2>3, PushWindow, Zenon
<1>8. \A d \in Instance :
        \E first \in reset_time'[d]..(now' + 1) :
          /\ found_first_burst'[d] => first <= reset_time'[d] + 1
          /\ Seconds(current_behavior_map'[d]) = {t \in Arrivals(capture'[d]) : t >= first}
  BY <1>1, <1>6, <1>7, ZenonT(30)
<1>9. \A d \in Instance : Arrivals(capture'[d]) \subseteq 1..now' /\ reset_time'[d] <= now'
  <2>1. \A d \in Instance : reset_time'[d] <= now'
    BY <1>0, <1>6
  <2>2. QED
    BY <1>1, <1>4, <2>1, Zenon
<1>10. QED
  BY <1>2, <1>8, <1>9, Zenon DEF CaptureInv

(* A frame that leaves is no arrival. *)
LEMMA TransmitKeepsSeconds ==
  ASSUME TypeOK, CaptureInv, NEW c \in Instance, NEW frame \in Outgoing, Transmit(c, frame)
  PROVE  CaptureInv'
<1> DEFINE line == Line("out", frame.size, frame.text)
<1>1. line \in Lines /\ line.from = "out"
  <2>1. frame.size \in Nat /\ frame.text \in Text
    BY CaptureAssumption
  <2>2. QED
    BY <2>1 DEF Line, Lines, TypeOK
<1>2. /\ capture' = [capture EXCEPT ![c] = capture[c] \o <<line>>]
      /\ UNCHANGED <<now, reset_time, found_first_burst, current_behavior_map>>
  BY DEF Transmit, vars
<1> HIDE DEF line
<1>3. capture \in [Instance -> Seq(Lines)]
  BY DEF CaptureInv
<1>4. capture[c] \o <<line>> \in Seq(Lines) /\ Arrivals(capture[c] \o <<line>>) = Arrivals(capture[c])
  BY <1>1, <1>3, AppendedSecond
<1>5. capture' \in [Instance -> Seq(Lines)]
  BY <1>2, <1>3, <1>4
<1>6. \A d \in Instance : Arrivals(capture'[d]) = Arrivals(capture[d])
  BY <1>2, <1>3, <1>4, Zenon
<1>7. QED
  BY <1>2, <1>5, <1>6, ZenonT(30) DEF CaptureInv

(* The element's codes are for the seconds of its arrivals. *)
THEOREM CaptureInvariant == CaptureSpec => []CaptureInv
<1>1. CaptureInit => CaptureInv
  <2> SUFFICES ASSUME CaptureInit PROVE CaptureInv
    OBVIOUS
  <2>1. /\ now = 1
        /\ capture = [c \in Instance |-> <<>>]
        /\ current_behavior_map = [c \in Instance |-> NoBehavior]
        /\ reset_time = [c \in Instance |-> 0]
    BY DEF CaptureInit, Init
  <2>2. \A c \in Instance : Arrivals(capture[c]) = {}
    BY <2>1 DEF Arrivals
  <2>3. \A c \in Instance : Seconds(current_behavior_map[c]) = {}
    BY <2>1 DEF Seconds, NoBehavior
  <2>4. /\ capture \in [Instance -> Seq(Lines)]
        /\ \A c \in Instance : reset_time[c] <= now /\ 1 \in reset_time[c]..(now + 1)
                               /\ 1 <= reset_time[c] + 1
    BY <2>1
  <2>5. QED
    BY <2>2, <2>3, <2>4, ZenonT(30) DEF CaptureInv
<1>2. TypeOK /\ CaptureInv /\ [CaptureNext]_allvars => CaptureInv'
  <2> SUFFICES ASSUME TypeOK, CaptureInv, [CaptureNext]_allvars PROVE CaptureInv'
    OBVIOUS
  <2>1. ASSUME now' \in {now, now + 1}, capture' = capture,
               UNCHANGED <<current_behavior_map, reset_time, found_first_burst>>
        PROVE  CaptureInv'
    <3>1. /\ 1..now \subseteq 1..now'
          /\ \A c \in Instance : /\ reset_time[c]..(now + 1) \subseteq reset_time[c]..(now' + 1)
                                 /\ reset_time[c] <= now => reset_time[c] <= now'
      BY <2>1 DEF TypeOK, Time
    <3>2. QED
      BY <2>1, <3>1, ZenonT(30) DEF CaptureInv
  <2>2. CASE Tick /\ Record
    <3>1. /\ output' = {} /\ now' = now + 1
          /\ UNCHANGED <<current_behavior_map, reset_time, found_first_burst>>
      BY <2>2, Zenon DEF Tick
    <3>2. capture \in [Instance -> Seq(Lines)]
      BY DEF CaptureInv
    <3>3. capture' = [c \in Instance |-> capture[c] \o <<>>]
      BY <2>2, <3>1 DEF Record
    <3>4. \A c \in Instance : capture[c] \o <<>> = capture[c]
      BY <3>2
    <3>5. capture' = capture
      BY <3>2, <3>3, <3>4
    <3>6. QED
      BY <2>1, <3>1, <3>5, Zenon
  <2>3. ASSUME NEW c \in Instance, NEW p \in Traffic, Push(c, p), Record
        PROVE  CaptureInv'
    BY <2>3, PushKeepsSeconds
  <2>4. ASSUME NEW c \in Instance, NEW frame \in Outgoing, Transmit(c, frame)
        PROVE  CaptureInv'
    BY <2>4, TransmitKeepsSeconds
  <2>5. CASE UNCHANGED allvars
    BY <2>1, <2>5, Zenon DEF allvars, vars
  <2>6. QED
    BY <2>2, <2>3, <2>4, <2>5 DEF CaptureNext, Next
<1>3. CaptureSpec => []TypeOK
  BY RecordingIsPassive, TypeCorrect, PTL
<1>4. QED
  BY <1>1, <1>2, <1>3, PTL DEF CaptureSpec

(* For any traffic in both directions, however tcpdump prints it, the      *)
(* element's string and the tool's differ in their seconds only by those   *)
(* in which frames left, and those whose frames the tool skips             *)
(* (parse_packets.py, lines 34-37).                                        *)
THEOREM SecondsAgree == CaptureSpec => []StringsAlign
<1>1. TypeOK /\ CaptureInv => StringsAlign
  <2> SUFFICES ASSUME TypeOK, CaptureInv, NEW c \in Instance
               PROVE  \E first \in reset_time[c]..(now + 1) :
                        /\ found_first_burst[c] => first <= reset_time[c] + 1
                        /\ \A t \in Seconds(current_behavior_map[c]) : t >= first
                        /\ \A t \in {u \in KeptSeconds(c) : u >= first}
                                     \ Seconds(current_behavior_map[c]) :
                             \A line \in LinesIn(c, t) : line.from = "out"
                        /\ \A t \in Seconds(current_behavior_map[c]) \ KeptSeconds(c) :
                             \E line \in LinesIn(c, t) : line.from = "in" /\ ~Kept(line)
    BY Zenon DEF StringsAlign
  <2>1. PICK first \in reset_time[c]..(now + 1) :
          /\ found_first_burst[c] => first <= reset_time[c] + 1
          /\ Seconds(current_behavior_map[c]) = {t \in Arrivals(capture[c]) : t >= first}
    BY Zenon DEF CaptureInv
  <2>2. \A i \in DOMAIN capture[c] : capture[c][i].from \in {"in", "out"}
    <3>1. \A i \in DOMAIN capture[c] : capture[c][i] \in Lines
      BY DEF CaptureInv
    <3>2. QED
      BY <3>1 DEF Lines
  <2>3. ASSUME NEW t \in KeptSeconds(c), t >= first,
               t \notin Seconds(current_behavior_map[c]), NEW line \in LinesIn(c, t)
        PROVE  line.from = "out"
    <3>1. PICK i \in DOMAIN capture[c] : capture[c][i].time_elapsed = t /\ line = capture[c][i]
      BY <2>3, Zenon DEF LinesIn
    <3>2. t \in Time /\ t \notin Arrivals(capture[c])
      BY <2>1, <2>3, Zenon DEF KeptSeconds
    <3>3. capture[c][i].from # "in"
      BY <3>1, <3>2, Zenon DEF Arrivals
    <3>4. QED
      BY <2>2, <3>1, <3>3, Zenon
  <2>4. ASSUME NEW t \in Seconds(current_behavior_map[c]) \ KeptSeconds(c)
        PROVE  \E line \in LinesIn(c, t) : line.from = "in" /\ ~Kept(line)
    <3>1. t \in Time /\ t \in Arrivals(capture[c])
      BY <2>1, <2>4, Zenon DEF Seconds
    <3>2. PICK i \in DOMAIN capture[c] :
            capture[c][i].from = "in" /\ capture[c][i].time_elapsed = t
      BY <3>1, Zenon DEF Arrivals
    <3>3. capture[c][i] \in LinesIn(c, t)
      BY <3>2, Zenon DEF LinesIn
    <3>4. ~Kept(capture[c][i])
      BY <2>4, <3>1, <3>3, Zenon DEF KeptSeconds
    <3>5. QED
      BY <3>2, <3>3, <3>4, Zenon
  <2>5. QED
    BY <2>1, <2>3, <2>4, Zenon
<1>2. CaptureSpec => []TypeOK
  BY RecordingIsPassive, TypeCorrect, PTL
<1>3. QED
  BY <1>1, <1>2, CaptureInvariant, PTL

-----------------------------------------------------------------------------
(* Detections by behaviour. *)

(* A behaviour that cannot be that of a download that has just begun. *)
Established(b) == Len(b) >= 4 /\ b[1] = Increase

(* The prefixes of four codes and more of an established behaviour are     *)
(* established.                                                            *)
LEMMA PrefixEstablished ==
  ASSUME NEW r \in Seq(Nat), Established(r), NEW n \in 4..Len(r)
  PROVE  Established(SubSeq(r, 1, n))
<1>1. /\ Len(r) \in Nat /\ n \in Nat /\ 1 \in 1..Len(r) /\ n \in 1..Len(r) /\ n >= 4
      /\ r[1] = Increase
  BY DEF Established
<1>2. Len(SubSeq(r, 1, n)) = n /\ SubSeq(r, 1, n)[1] = r[1]
  BY <1>1
<1>3. QED
  BY <1>1, <1>2 DEF Established

(* So are the entries of the library that are recorded as one of its two   *)
(* forms of prefixes.                                                      *)
LEMMA PrefixesEstablished ==
  ASSUME NEW r \in Seq(Nat), Established(r)
  PROVE  /\ \A from \in Nat : from >= 4 => \A b \in Chain(r, from) : Established(b)
         /\ \A S \in SUBSET (4..Len(r)) : \A b \in Pieces(r, S) : Established(b)
<1>1. \A from \in Nat : from >= 4 => from..Len(r) \subseteq 4..Len(r)
  OBVIOUS
<1>2. QED
  BY <1>1, PrefixEstablished, Zenon DEF Chain, Pieces

(* Every definition of the library has at least four codes, the first one  *)
(* an increase.                                                            *)
LEMMA LibraryEstablished == \A b \in Library : Established(b)
<1>1. \A b \in IPerf3 : Established(b)
  <2> DEFINE r1 == <<2,0,1,1,1,1,1,1,1,1,1,0,0,1>>
             r2 == <<2,1,1,1,1,1,1,1,1,1,1,1>>
             r3 == <<2,1,1,1,1,1,1,1,1,1,1,1,1,1,1,0>>
  <2>1. r1 \in Seq(Nat) /\ Len(r1) = 14 /\ Established(r1)
    BY DEF Established, Increase
  <2>2. r2 \in Seq(Nat) /\ Len(r2) = 12 /\ Established(r2)
    BY DEF Established, Increase
  <2>3. r3 \in Seq(Nat) /\ Len(r3) = 16 /\ Established(r3)
    BY DEF Established, Increase
  <2> HIDE DEF r1, r2, r3
  <2>4. \A b \in Pieces(r1, {5, 9, 11, 14}) : Established(b)
    <3>1. {5, 9, 11, 14} \subseteq 4..Len(r1)
      BY <2>1
    <3>2. QED
      BY <2>1, <3>1, PrefixesEstablished, Zenon
  <2>5. \A b \in Chain(r2, 5) : Established(b)
    BY <2>2, PrefixesEstablished
  <2>6. QED
    BY <2>4, <2>5, <2>3, Zenon DEF IPerf3, r1, r2, r3
<1>2. \A b \in FastCom : Established(b)
  <2> DEFINE r1 == <<2,2,2,1,2,1,2,1,0,0,2,1,2,1,1,2,1>>
  <2>1. r1 \in Seq(Nat) /\ Len(r1) = 17 /\ Established(r1)
    BY DEF Established, Increase
  <2> HIDE DEF r1
  <2>2. \A b \in Pieces(r1, {6, 10, 12, 13, 15, 16, 17}) : Established(b)
    <3>1. {6, 10, 12, 13, 15, 16, 17} \subseteq 4..Len(r1)
      BY <2>1
    <3>2. QED
      BY <2>1, <3>1, PrefixesEstablished, Zenon
  <2>3. QED
    BY <2>2, Zenon DEF FastCom, r1
<1>3. \A b \in SpeedtestNet : Established(b)
  <2> DEFINE r1 == <<2,1,0,1,1,0,0,0,1,2,1,1,1,1,1,1,0>>
             r2 == <<2,1,0,1,1,0,0,0,1,2,1,1,1,1,1,1>>
             r3 == <<2,1,1,1,1,1,2,0,0,0,1,1,1>>
             r4 == <<2,0,0,0,1,1,0,0,1,2,0,1,1,0>>
             r5 == <<2,0,2,1,1,1,2,1,1,1,0,1,1,1,0,0>>
             r6 == <<2,0,1,1,1,2,1,1,2,1,0,2,1,0,0,1,1,1,1,1,1,1,1,1,0>>
  <2>1. r1 \in Seq(Nat) /\ Len(r1) = 17 /\ Established(r1)
    BY DEF Established, Increase
  <2>2. r2 \in Seq(Nat) /\ Len(r2) = 16 /\ Established(r2)
    BY DEF Established, Increase
  <2>3. r3 \in Seq(Nat) /\ Len(r3) = 13 /\ Established(r3)
    BY DEF Established, Increase
  <2>4. r4 \in Seq(Nat) /\ Len(r4) = 14 /\ Established(r4)
    BY DEF Established, Increase
  <2>5. r5 \in Seq(Nat) /\ Len(r5) = 16 /\ Established(r5)
    BY DEF Established, Increase
  <2>6. r6 \in Seq(Nat) /\ Len(r6) = 25 /\ Established(r6)
    BY DEF Established, Increase
  <2> HIDE DEF r1, r2, r3, r4, r5, r6
  <2>7. \A b \in Pieces(r1, {5, 7, 10, 13, 16, 17}) : Established(b)
    <3>1. {5, 7, 10, 13, 16, 17} \subseteq 4..Len(r1)
      BY <2>1
    <3>2. QED
      BY <2>1, <3>1, PrefixesEstablished, Zenon
  <2>8. \A b \in Pieces(r2, {5} \cup 8..16) : Established(b)
    <3>1. {5} \cup 8..16 \subseteq 4..Len(r2)
      BY <2>2
    <3>2. QED
      BY <2>2, <3>1, PrefixesEstablished, Zenon
  <2>9. \A b \in Chain(r3, 5) : Established(b)
    BY <2>3, PrefixesEstablished
  <2>10. \A b \in Chain(r4, 4) : Established(b)
    BY <2>4, PrefixesEstablished
  <2>11. \A b \in Chain(r5, 5) : Established(b)
    BY <2>5, PrefixesEstablished
  <2>12. \A b \in Chain(r6, 5) : Established(b)
    BY <2>6, PrefixesEstablished
  <2>13. QED
    BY <2>7, <2>8, <2>9, <2>10, <2>11, <2>12, Zenon DEF SpeedtestNet, r1, r2, r3, r4, r5, r6
<1>4. QED
  BY <1>1, <1>2, <1>3, Zenon DEF Library

(* A set of naturals that is not empty has a least element. *)
LEMMA LeastSecond ==
  ASSUME NEW S, S \subseteq Nat, S # {}
  PROVE  \E n \in S : \A m \in S : n <= m
<1>1. \E n \in S : \A m \in S : ~(<<m, n>> \in OpToRel(<, Nat))
  BY NatLessThanWellFounded, WFMin, Zenon
<1>2. \E n \in S : \A m \in S : ~(m < n)
  BY <1>1, Zenon DEF OpToRel
<1>3. QED
  BY <1>2

(* The first code of a behaviour is that of its first second, and a        *)
(* behaviour of four codes began at least three seconds ago.               *)
LEMMA FirstCode ==
  ASSUME NEW m \in [Time -> Code \cup {NoEntry}], NEW n \in Time,
         Seconds(m) \subseteq 1..n, Len(BehaviorString(m)) >= 4
  PROVE  \E t \in Seconds(m) : t \in 1..(n - 3) /\ BehaviorString(m)[1] = m[t]
<1> DEFINE S == Seconds(m)
           upto(t) == {u \in S : u <= t}
<1>1. n \in Nat
  BY DEF Time
<1>2. IsFiniteSet(1..n)
  BY <1>1, FS_Interval
<1>3. IsFiniteSet(S) /\ Cardinality(S) \in Nat
  BY <1>2, FS_Subset, FS_CardinalityType, Zenon
<1>4. Len(BehaviorString(m)) = Cardinality(S)
  BY <1>3 DEF BehaviorString
<1>5. Cardinality(S) >= 4 /\ 1 \in 1..Cardinality(S)
  BY <1>3, <1>4
<1>6. BehaviorString(m)[1] = m[NthSecond(m, 1)]
  BY <1>5, Zenon DEF BehaviorString
<1>7. S # {}
  <2>1. S = {} => Cardinality(S) = 0
    BY FS_EmptySet, Zenon
  <2>2. Cardinality(S) # 0
    BY <1>3, <1>5
  <2>3. QED
    BY <2>1, <2>2, Zenon
<1>8. S \subseteq Nat /\ \A t \in S : t \in Nat /\ t >= 1 /\ t <= n
  BY <1>1
<1>9. PICK least \in S : \A u \in S : least <= u
  BY <1>7, <1>8, LeastSecond
<1>10. upto(least) = {least}
  BY <1>8, <1>9
<1>11. Cardinality(upto(least)) = 1
  BY <1>10, FS_Singleton, Zenon
<1> DEFINE first == NthSecond(m, 1)
<1>12. first \in S /\ Cardinality(upto(first)) = 1
  BY <1>11, Zenon DEF NthSecond
<1> HIDE DEF first
<1>13. first \in upto(first) /\ IsFiniteSet(upto(first))
  <2>1. first <= first
    BY <1>8, <1>12
  <2>2. upto(first) \in SUBSET S
    OBVIOUS
  <2>3. QED
    BY <1>3, <1>12, <2>1, <2>2, FS_Subset, Zenon
<1>14. upto(first) = {first}
  <2>1. \E x : upto(first) = {x}
    BY <1>12, <1>13, FS_Singleton, Zenon
  <2>2. QED
    BY <1>13, <2>1, Zenon
<1>15. \A u \in S : u <= first => u = first
  BY <1>14
<1>16. S \subseteq first..n
  BY <1>1, <1>8, <1>12, <1>15
<1>17. IsFiniteSet(first..n) /\ Cardinality(first..n) = n - first + 1
  <2>1. first \in Int /\ n \in Int /\ ~(first > n)
    BY <1>1, <1>8, <1>12
  <2>2. /\ IsFiniteSet(first..n)
        /\ Cardinality(first..n) = IF first > n THEN 0 ELSE n - first + 1
    BY <2>1, FS_Interval, Zenon
  <2>3. QED
    BY <2>1, <2>2
<1>18. Cardinality(S) <= n - first + 1
  BY <1>16, <1>17, FS_Subset, ZenonT(30)
<1>19. first \in 1..(n - 3)
  BY <1>1, <1>3, <1>5, <1>8, <1>12, <1>18
<1>20. QED
  BY <1>6, <1>12, <1>19, Zenon DEF first

(* What a matched string says of the rates: its first code is an increase, *)
(* measured at least three seconds ago.                                    *)
LEMMA MatchFollowsBurst ==
  ASSUME BehaviorDefinitions \subseteq Library, TypeOK, CodesMatchRates,
         NEW c \in Instance, NEW p \in Traffic, MatchesBehavior(c, p)
  PROVE  \E t \in 1..(now - 3) :
           ToInt(time_burst_map[c][t] - time_burst_map[c][t - 1]) > BurstThreshold
<1> DEFINE m == Tracked(c, p)
<1>1. /\ now \in Time /\ now \in 1..MaxTime
      /\ m \in [Time -> Code \cup {NoEntry}]
  BY SecondsSoFar, PrologueTypes, Zenon
<1>2. /\ Len(BehaviorString(m)) >= 4
      /\ BehaviorString(m)[1] = Increase
  BY LibraryEstablished, Zenon DEF MatchesBehavior, Established
<1>3. \A t \in Time : m[t] = IF t = now THEN CodeNow(c, p)
                            ELSE IF StartsBehavior(c, p) THEN NoEntry
                            ELSE current_behavior_map[c][t]
  BY TrackedCodes
<1> HIDE DEF m
<1>4. Seconds(m) \subseteq 1..now
  <2> SUFFICES ASSUME NEW t \in Time, m[t] # NoEntry PROVE t \in 1..now
    BY DEF Seconds
  <2>1. t = now \/ t \in Seconds(current_behavior_map[c])
    BY <1>3 DEF Seconds
  <2>2. t <= now
    BY <1>1, <2>1 DEF CodesMatchRates
  <2>3. QED
    BY <1>1, <2>2 DEF Time
<1>5. PICK t \in Seconds(m) : t \in 1..(now - 3) /\ BehaviorString(m)[1] = m[t]
  BY <1>1, <1>2, <1>4, FirstCode, Zenon
<1>6. /\ t \in Time /\ t # now /\ t \in 0..MaxTime /\ t - 1 \in 0..MaxTime
      /\ m[t] = Increase
  <2>1. /\ t \in Time /\ t # now /\ t \in 0..MaxTime /\ t - 1 \in 0..MaxTime
    BY <1>1, <1>5, ConstantsAssumption DEF Time
  <2>2. QED
    BY <1>2, <1>5, <2>1, Zenon
<1>7. current_behavior_map[c][t] = Increase
  BY <1>3, <1>6 DEF Increase, NoEntry
<1>8. BehaviorCode(time_burst_map[c][t], time_burst_map[c][t - 1]) = Increase
  <2>1. Increase # NoEntry
    BY DEF Increase, NoEntry
  <2>2. t \in Seconds(current_behavior_map[c])
    BY <1>6, <1>7, <2>1, Zenon DEF Seconds
  <2>3. QED
    BY <1>7, <2>2, Zenon DEF CodesMatchRates
<1>9. time_burst_map[c][t] \in Nat /\ time_burst_map[c][t - 1] \in Nat
  BY <1>6, Zenon DEF TypeOK
<1>10. ToInt(time_burst_map[c][t] - time_burst_map[c][t - 1]) > BurstThreshold
  <2> DEFINE difference == ToInt(time_burst_map[c][t] - time_burst_map[c][t - 1])
  <2>1. Abs(difference) > BurstThreshold /\ difference > 0
    BY <1>8 DEF BehaviorCode, Increase, Decrease, Constant
  <2>2. difference \in Int
    BY <1>9, ToIntType
  <2> HIDE DEF difference
  <2>3. difference > BurstThreshold
    BY <2>1, <2>2, ConstantsAssumption DEF Abs
  <2>4. QED
    BY <2>3 DEF difference
<1>11. QED
  BY <1>5, <1>10, Zenon

(* With definitions taken from the library, a packet is diverted by        *)
(* behaviour only if its element measured a rise of more than              *)
(* burst_threshold at least three seconds before.                          *)
THEOREM DetectionsFollowBursts ==
  ASSUME BehaviorDefinitions \subseteq Library
  PROVE  Spec => []DetectionFollowsBurst
<1>1. Init => DetectionFollowsBurst
  BY DEF Init, DetectionFollowsBurst
<1>2. TypeOK /\ CodesMatchRates /\ DetectionFollowsBurst /\ [Next]_vars
        => DetectionFollowsBurst'
  <2> SUFFICES ASSUME TypeOK, CodesMatchRates, DetectionFollowsBurst, [Next]_vars
               PROVE  DetectionFollowsBurst'
    OBVIOUS
  <2>1. CASE Tick
    BY <2>1 DEF Tick, DetectionFollowsBurst
  <2>2. ASSUME NEW c \in Instance, NEW p \in Traffic, Push(c, p)
        PROVE  DetectionFollowsBurst'
    <3>1. SUFFICES ASSUME NEW o \in output', o.via = "behavior"
                   PROVE  \E t \in 1..(now' - 3) :
                            ToInt(time_burst_map'[o.inst][t] - time_burst_map'[o.inst][t - 1])
                              > BurstThreshold
      BY DEF DetectionFollowsBurst
    <3>2. o.inst = c /\ MatchesBehavior(c, p)
      BY <2>2, <3>1, BehaviorEmits, Zenon
    <3>3. PICK t \in 1..(now - 3) :
            ToInt(time_burst_map[c][t] - time_burst_map[c][t - 1]) > BurstThreshold
      BY <3>2, MatchFollowsBurst, Zenon
    <3>4. now' \in {now, now + 1} /\ now \in 1..MaxTime
      BY <2>2, PushWindow, SecondsSoFar
    <3>5. /\ t \in 0..MaxTime /\ t - 1 \in 0..MaxTime
          /\ t # now /\ t - 1 # now
      BY <3>4, ConstantsAssumption
    <3>6. /\ time_burst_map'[c][t] = time_burst_map[c][t]
          /\ time_burst_map'[c][t - 1] = time_burst_map[c][t - 1]
      BY <2>2, <3>5, PushRates
    <3>7. ToInt(time_burst_map'[c][t] - time_burst_map'[c][t - 1]) > BurstThreshold
      BY <3>3, <3>6, Zenon
    <3>8. t \in 1..(now' - 3)
      <4>1. now \in Int /\ now' \in Int /\ now <= now'
        BY <3>4
      <4>2. t \in 1..(now - 3)
        BY <3>3
      <4>3. QED
        BY <4>1, <4>2, RangesGrow, Zenon
    <3>9. QED
      BY <3>2, <3>7, <3>8, Zenon
  <2>3. CASE UNCHANGED vars
    BY <2>3, Zenon DEF vars, DetectionFollowsBurst
  <2>4. QED
    BY <2>1, <2>2, <2>3 DEF Next
<1>3. QED
  BY <1>1, <1>2, TypeCorrect, CodesAreOfRates, PTL DEF Spec

=============================================================================
