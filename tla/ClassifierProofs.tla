-------------------------- MODULE ClassifierProofs --------------------------
(***************************************************************************)
(* Proofs about Classifier, for any number of elements, any addresses and  *)
(* packets, any thresholds and definitions, and any bounds.                *)
(***************************************************************************)
EXTENDS Classifier, FiniteSetTheorems, TLAPS

-----------------------------------------------------------------------------
(* Facts about the operators. *)

(* The packets of the traffic have a positive size and address pairs as    *)
(* their two keys.                                                         *)
LEMMA PacketFacts ==
  ASSUME NEW p \in Traffic
  PROVE  /\ p \in Packet
         /\ p.size \in Nat \ {0}
         /\ p.src \in Addr /\ p.dst \in Addr
         /\ Key1(p) \in Pair /\ Key2(p) \in Pair
BY ConstantsAssumption DEF Packet, Pair, Key1, Key2

(* A difference of rates converts to an integer. *)
LEMMA ToIntType ==
  ASSUME NEW u \in Int
  PROVE  ToInt(u) \in Int
BY ConstantsAssumption DEF ToInt

(* push() records one of the three codes for a second. *)
LEMMA BehaviorCodeType ==
  ASSUME NEW r \in Nat, NEW q \in Nat
  PROVE  BehaviorCode(r, q) \in Code
BY DEF BehaviorCode, Code

(* A number of an interval is at most its end. *)
LEMMA IntervalEnd ==
  ASSUME NEW a \in Nat, NEW b \in Nat, NEW x \in a..b
  PROVE  x <= b
OBVIOUS

(* Division by a positive divisor is monotone. *)
LEMMA DivMonotone ==
  ASSUME NEW a \in Nat, NEW b \in Nat, a <= b
  PROVE  a \div Mbit <= b \div Mbit
<1>1. Mbit \in Nat /\ Mbit > 0
  BY ConstantsAssumption
<1>2. /\ a = Mbit * (a \div Mbit) + (a % Mbit)
      /\ b = Mbit * (b \div Mbit) + (b % Mbit)
      /\ a % Mbit \in 0..(Mbit - 1) /\ b % Mbit \in 0..(Mbit - 1)
      /\ a \div Mbit \in Nat /\ b \div Mbit \in Nat
  BY <1>1
<1>3. QED
  BY <1>1, <1>2

(* Truncation keeps the order of positive differences. *)
LEMMA BehaviorCodeIncrease ==
  ASSUME NEW r \in Nat, NEW s \in Nat, NEW q \in Nat, r <= s,
         BehaviorCode(r, q) = Increase
  PROVE  BehaviorCode(s, q) = Increase
<1>0. ToInt(r - q) \in Int /\ ToInt(s - q) \in Int
  BY ToIntType
<1>1. ToInt(r - q) > 0 /\ ToInt(r - q) > BurstThreshold
  <2>1. Abs(ToInt(r - q)) > BurstThreshold /\ ToInt(r - q) > 0
    BY DEF BehaviorCode, Increase, Decrease, Constant
  <2>2. QED
    BY <1>0, <2>1 DEF Abs
<1>2. r - q > 0 /\ s - q > 0
  BY <1>1, ConstantsAssumption DEF ToInt
<1>3. ToInt(s - q) >= ToInt(r - q)
  BY <1>2, DivMonotone, ConstantsAssumption DEF ToInt
<1>4. ToInt(s - q) > 0 /\ Abs(ToInt(s - q)) > BurstThreshold
  BY <1>0, <1>1, <1>3, ConstantsAssumption DEF Abs
<1>5. QED
  BY <1>4 DEF BehaviorCode

(* Updating a function at one point with a value of its range. *)
LEMMA UpdateType ==
  ASSUME NEW S, NEW T, NEW f \in [S -> T], NEW x \in S, NEW v \in T
  PROVE  [f EXCEPT ![x] = v] \in [S -> T]
OBVIOUS

(* The prologue of push() computes values of the members' types. *)
LEMMA PrologueTypes ==
  ASSUME TypeOK, NEW c \in Instance, NEW p \in Traffic
  PROVE  /\ now - 1 \in 0..MaxTime
         /\ Rate(c, p) \in Nat
         /\ CodeNow(c, p) \in Code
         /\ StartsBehavior(c, p) \in BOOLEAN
         /\ Tracked(c, p) \in [Time -> Code \cup {NoEntry}]
         /\ AwaitsBurst(c, p) \in BOOLEAN
         /\ LowRateCount(c, p) \in Nat
<1>1. now \in 1..MaxTime /\ now \in 0..MaxTime /\ now - 1 \in 0..MaxTime
  BY ConstantsAssumption DEF TypeOK, Time
<1>2. time_burst_map[c][now] \in Nat /\ time_burst_map[c][now - 1] \in Nat
  BY <1>1, Zenon DEF TypeOK
<1>3. Rate(c, p) \in Nat
  BY <1>2, PacketFacts DEF Rate
<1>4. CodeNow(c, p) \in Code
  BY <1>2, <1>3, BehaviorCodeType DEF CodeNow
<1>5. Tracked(c, p) \in [Time -> Code \cup {NoEntry}]
  BY <1>1, <1>4 DEF Tracked, NoBehavior, TypeOK
<1>6. LowRateCount(c, p) \in Nat
  BY DEF LowRateCount, TypeOK
<1>7. AwaitsBurst(c, p) \in BOOLEAN /\ StartsBehavior(c, p) \in BOOLEAN
  BY DEF AwaitsBurst, StartsBehavior
<1>8. QED
  BY <1>1, <1>3, <1>4, <1>5, <1>6, <1>7

(* Flagging, reading and clearing keep the map a map. *)
LEMMA FlagTypes ==
  ASSUME NEW f \in [Pair -> {"absent", "false", "true"}], NEW p \in Traffic
  PROVE  /\ Flag(f, p) \in [Pair -> {"absent", "false", "true"}]
         /\ LookedUp(f, p) \in [Pair -> {"absent", "false", "true"}]
         /\ NoFlags \in [Pair -> {"absent", "false", "true"}]
<1>1. ASSUME NEW g \in [Pair -> {"absent", "false", "true"}], NEW k \in Pair
      PROVE  Touch(g, k) \in [Pair -> {"absent", "false", "true"}]
  BY DEF Touch
<1>2. LookedUp(f, p) \in [Pair -> {"absent", "false", "true"}]
  BY <1>1, PacketFacts DEF LookedUp
<1>3. QED
  BY <1>2, PacketFacts DEF Flag, NoFlags

(* Every disjunct of push() keeps the types. *)
LEMMA PushType ==
  ASSUME TypeOK, NEW c \in Instance, NEW p \in Traffic, Push(c, p)
  PROVE  TypeOK'
<1> DEFINE Flags == [Pair -> {"absent", "false", "true"}]
           Report == [time: Time, throttled: Nat, unthrottled: Nat, ips: SUBSET Pair]
           Via == {"static", "other", "flagged", "hello", "behavior", "default"}
           Behavior == [Time -> Code \cup {NoEntry}]
<1>1. /\ Rate(c, p) \in Nat
      /\ Tracked(c, p) \in Behavior
      /\ AwaitsBurst(c, p) \in BOOLEAN
      /\ LowRateCount(c, p) \in Nat
  BY PrologueTypes
<1>2. now \in Time /\ now \in 0..MaxTime
  BY DEF TypeOK, Time
<1>3. Observe(c, p) => time_burst_map' \in [Instance -> [0..MaxTime -> Nat]]
  <2>1. time_burst_map \in [Instance -> [0..MaxTime -> Nat]]
    BY DEF TypeOK
  <2>2. [time_burst_map[c] EXCEPT ![now] = Rate(c, p)] \in [0..MaxTime -> Nat]
    BY <1>1, <1>2, <2>1
  <2>3. QED
    BY <2>1, <2>2 DEF Observe
<1>4. KeepWindow(c, p) =>
        /\ found_first_burst' \in [Instance -> BOOLEAN]
        /\ current_behavior_map' \in [Instance -> Behavior]
        /\ start_burst' \in [Instance -> 0..MaxTime]
        /\ reset_time' \in [Instance -> 0..MaxTime]
        /\ stats_files' \subseteq Report
  BY <1>1, SMTT(30) DEF KeepWindow, TypeOK
<1>5. CheckWindow(c, p) =>
        /\ found_first_burst' \in [Instance -> BOOLEAN]
        /\ low_burst_rate_counter' \in [Instance -> Nat]
        /\ current_behavior_map' \in [Instance -> Behavior]
        /\ reset_time' \in [Instance -> 0..MaxTime]
        /\ stats_files' \subseteq Report
        /\ now' \in Time
  <2>1. \A t \in Time : Statistics(c, t) \in Report
    BY DEF Statistics, TypeOK
  <2>2. PrintStatistics(c) => stats_files' \subseteq Report /\ now' \in Time
    BY <2>1 DEF PrintStatistics, TypeOK
  <2>3. NoBehavior \in Behavior
    BY DEF NoBehavior
  <2>4. /\ [found_first_burst EXCEPT ![c] = TRUE] \in [Instance -> BOOLEAN]
        /\ [found_first_burst EXCEPT ![c] = AwaitsBurst(c, p)] \in [Instance -> BOOLEAN]
    BY <1>1, UpdateType, Zenon DEF TypeOK
  <2>5. /\ [low_burst_rate_counter EXCEPT ![c] = 0] \in [Instance -> Nat]
        /\ [low_burst_rate_counter EXCEPT ![c] = LowRateCount(c, p)] \in [Instance -> Nat]
    BY <1>1 DEF TypeOK
  <2>6. /\ [current_behavior_map EXCEPT ![c] = NoBehavior] \in [Instance -> Behavior]
        /\ [current_behavior_map EXCEPT ![c] = Tracked(c, p)] \in [Instance -> Behavior]
    BY <1>1, <2>3 DEF TypeOK
  <2>7. /\ [reset_time EXCEPT ![c] = now] \in [Instance -> 0..MaxTime]
        /\ reset_time \in [Instance -> 0..MaxTime]
        /\ stats_files \subseteq Report
    BY <1>2 DEF TypeOK
  <2>8. QED
    BY <1>2, <2>2, <2>4, <2>5, <2>6, <2>7, Zenon DEF CheckWindow
<1>6. ASSUME NEW port \in {0, 1}, NEW reset \in BOOLEAN, NEW via \in Via,
             Emit(c, p, port, via, reset)
      PROVE  output' \subseteq
               [inst: Instance, pkt: Packet, port: {0, 1}, reset: BOOLEAN, via: Via]
  BY <1>6, PacketFacts DEF Emit
<1>7. /\ FlagsLeft(c, p) \in Flags
      /\ StartLeft(c, p) \in 0..MaxTime
      /\ \A n \in Nat : CountLeft(c, p, n) \in Nat
  <2>1. is_flagged_ips \in Flags /\ NoFlags \in Flags
    BY DEF TypeOK, NoFlags
  <2>2. start_burst[c] \in 0..MaxTime /\ 0 \in 0..MaxTime
    BY ConstantsAssumption DEF TypeOK
  <2>3. QED
    BY <2>1, <2>2 DEF FlagsLeft, StartLeft, CountLeft
<1>8. WindowOver(c, p) \in BOOLEAN
  BY DEF WindowOver
<1>9. /\ Flag(is_flagged_ips, p) \in Flags
      /\ LookedUp(FlagsLeft(c, p), p) \in Flags
      /\ Flag(LookedUp(FlagsLeft(c, p), p), p) \in Flags
  BY <1>7, FlagTypes, Zenon DEF TypeOK
<1>10. /\ low_burst_rate_counter \in [Instance -> Nat]
       /\ throttled_counter \in [Instance -> Nat]
       /\ unthrottled_counter \in [Instance -> Nat]
       /\ start_burst \in [Instance -> 0..MaxTime]
       /\ is_flagged_ips \in Flags
  BY DEF TypeOK
<1>11. CASE PushStaticIP(c, p)
  <2>1. output' \subseteq
          [inst: Instance, pkt: Packet, port: {0, 1}, reset: BOOLEAN, via: Via]
    BY <1>6, <1>8, <1>11, Zenon DEF PushStaticIP
  <2>2. throttled_counter' \in [Instance -> Nat] /\ unthrottled_counter' \in [Instance -> Nat]
    BY <1>7, <1>10, <1>11 DEF PushStaticIP
  <2>3. is_flagged_ips' \in Flags
    BY <1>9, <1>10, <1>11 DEF PushStaticIP
  <2>4. low_burst_rate_counter' \in [Instance -> Nat]
    BY <1>1, <1>10, <1>11 DEF PushStaticIP
  <2>5. QED
    BY <1>2, <1>3, <1>4, <1>11, <2>1, <2>2, <2>3, <2>4, Zenon DEF PushStaticIP, TypeOK
<1>12. CASE PushOther(c, p)
  <2>1. output' \subseteq
          [inst: Instance, pkt: Packet, port: {0, 1}, reset: BOOLEAN, via: Via]
    BY <1>6, <1>8, <1>12, Zenon DEF PushOther
  <2>2. throttled_counter' \in [Instance -> Nat] /\ unthrottled_counter' \in [Instance -> Nat]
    BY <1>7, <1>10, <1>12 DEF PushOther
  <2>3. is_flagged_ips' \in Flags
    BY <1>9, <1>10, <1>12 DEF PushOther
  <2>4. low_burst_rate_counter' \in [Instance -> Nat]
    BY <1>1, <1>10, <1>12 DEF PushOther
  <2>5. QED
    BY <1>2, <1>3, <1>4, <1>12, <2>1, <2>2, <2>3, <2>4, Zenon DEF PushOther, TypeOK
<1>13. CASE PushFlagged(c, p)
  <2>1. output' \subseteq
          [inst: Instance, pkt: Packet, port: {0, 1}, reset: BOOLEAN, via: Via]
    BY <1>6, <1>8, <1>13 DEF PushFlagged
  <2>2. throttled_counter' \in [Instance -> Nat] /\ unthrottled_counter' \in [Instance -> Nat]
    BY <1>7, <1>10, <1>13 DEF PushFlagged
  <2>3. is_flagged_ips' \in Flags
    BY <1>9, <1>10, <1>13 DEF PushFlagged
  <2>4. start_burst' \in [Instance -> 0..MaxTime]
    BY <1>2, <1>7, <1>10, <1>13 DEF PushFlagged
  <2>5. QED
    BY <1>2, <1>3, <1>5, <1>13, <2>1, <2>2, <2>3, <2>4, ZenonT(30) DEF PushFlagged, TypeOK
<1>14. CASE PushMeasurementTool(c, p)
  <2>1. output' \subseteq
          [inst: Instance, pkt: Packet, port: {0, 1}, reset: BOOLEAN, via: Via]
    BY <1>6, <1>8, <1>14 DEF PushMeasurementTool
  <2>2. throttled_counter' \in [Instance -> Nat] /\ unthrottled_counter' \in [Instance -> Nat]
    BY <1>7, <1>10, <1>14 DEF PushMeasurementTool
  <2>3. is_flagged_ips' \in Flags
    BY <1>9, <1>10, <1>14 DEF PushMeasurementTool
  <2>4. start_burst' \in [Instance -> 0..MaxTime]
    BY <1>2, <1>7, <1>10, <1>14 DEF PushMeasurementTool
  <2>5. QED
    BY <1>2, <1>3, <1>5, <1>14, <2>1, <2>2, <2>3, <2>4, ZenonT(30)
       DEF PushMeasurementTool, TypeOK
<1>15. CASE PushDefault(c, p)
  <2>1. output' \subseteq
          [inst: Instance, pkt: Packet, port: {0, 1}, reset: BOOLEAN, via: Via]
    BY <1>6, <1>8, <1>15 DEF PushDefault
  <2>2. throttled_counter' \in [Instance -> Nat] /\ unthrottled_counter' \in [Instance -> Nat]
    BY <1>7, <1>10, <1>15 DEF PushDefault
  <2>3. is_flagged_ips' \in Flags
    BY <1>9, <1>10, <1>15 DEF PushDefault
  <2>4. start_burst' \in [Instance -> 0..MaxTime]
    BY <1>2, <1>7, <1>10, <1>15 DEF PushDefault
  <2>5. QED
    BY <1>2, <1>3, <1>5, <1>15, <2>1, <2>2, <2>3, <2>4, Zenon DEF PushDefault, TypeOK
<1>16. QED
  BY <1>11, <1>12, <1>13, <1>14, <1>15 DEF Push

(* The members of every element keep their types. *)
THEOREM TypeCorrect == Spec => []TypeOK
<1>1. Init => TypeOK
  BY ConstantsAssumption DEF Init, TypeOK, NoBehavior, NoFlags, Time
<1>2. TypeOK /\ [Next]_vars => TypeOK'
  <2> SUFFICES ASSUME TypeOK, [Next]_vars PROVE TypeOK'
    OBVIOUS
  <2>1. CASE Tick
    BY <2>1, ConstantsAssumption, SMTT(30) DEF Tick, TypeOK, Time
  <2>2. ASSUME NEW c \in Instance, NEW p \in Traffic, Push(c, p)
        PROVE  TypeOK'
    BY <2>2, PushType
  <2>3. CASE UNCHANGED vars
    BY <2>3, Zenon DEF vars, TypeOK
  <2>4. QED
    BY <2>1, <2>2, <2>3 DEF Next
<1>3. QED
  BY <1>1, <1>2, PTL DEF Spec

-----------------------------------------------------------------------------
(* The shared flags. *)

(* Reading a key never makes it true, and flagging makes true exactly the  *)
(* two keys of the packet.                                                 *)
LEMMA FlagValues ==
  ASSUME NEW f \in [Pair -> {"absent", "false", "true"}], NEW p \in Traffic,
         NEW k \in Pair
  PROVE  /\ LookedUp(f, p)[k] = "true" <=> f[k] = "true"
         /\ Flag(f, p)[k] = "true" <=> (k \in {Key1(p), Key2(p)} \/ f[k] = "true")
         /\ NoFlags[k] = "absent"
<1>1. ASSUME NEW g \in [Pair -> {"absent", "false", "true"}], NEW i \in Pair
      PROVE  /\ Touch(g, i) \in [Pair -> {"absent", "false", "true"}]
             /\ Touch(g, i)[k] = "true" <=> g[k] = "true"
  BY DEF Touch
<1>2. LookedUp(f, p)[k] = "true" <=> f[k] = "true"
  BY <1>1, PacketFacts DEF LookedUp
<1>3. QED
  BY <1>2, PacketFacts DEF Flag, NoFlags

(* Flagging, reading and clearing treat a pair and its reverse alike. *)
LEMMA FlagsStaySymmetric ==
  ASSUME NEW f \in [Pair -> {"absent", "false", "true"}], NEW p \in Traffic,
         \A a, b \in Addr : f[<<a, b>>] = f[<<b, a>>],
         NEW a \in Addr, NEW b \in Addr
  PROVE  /\ LookedUp(f, p)[<<a, b>>] = LookedUp(f, p)[<<b, a>>]
         /\ Flag(f, p)[<<a, b>>] = Flag(f, p)[<<b, a>>]
         /\ NoFlags[<<a, b>>] = NoFlags[<<b, a>>]
<1>1. /\ <<a, b>> \in Pair /\ <<b, a>> \in Pair
      /\ p.src \in Addr /\ p.dst \in Addr
      /\ Key1(p) = <<p.src, p.dst>> /\ Key2(p) = <<p.dst, p.src>>
      /\ Key1(p) \in Pair /\ Key2(p) \in Pair
      /\ f[Key1(p)] = f[Key2(p)]
      /\ f[<<a, b>>] = f[<<b, a>>]
  BY PacketFacts DEF Pair, Key1, Key2
<1>2. <<a, b>> = Key1(p) <=> <<b, a>> = Key2(p)
  BY <1>1
<1>3. <<a, b>> = Key2(p) <=> <<b, a>> = Key1(p)
  BY <1>1
<1>4. Flag(f, p)[<<a, b>>] = Flag(f, p)[<<b, a>>]
  BY <1>1, <1>2, <1>3 DEF Flag
<1>5. ASSUME NEW k \in Pair, f[Key1(p)] # "true"
      PROVE  LookedUp(f, p)[k] =
               IF k \in {Key1(p), Key2(p)} /\ f[k] = "absent" THEN "false" ELSE f[k]
  <2> DEFINE g == Touch(f, Key1(p))
  <2>1. g \in [Pair -> {"absent", "false", "true"}]
    BY <1>1 DEF Touch
  <2>2. g[k] = IF k = Key1(p) /\ f[k] = "absent" THEN "false" ELSE f[k]
    BY <1>1 DEF Touch
  <2> HIDE DEF g
  <2>3. Touch(g, Key2(p))[k] = IF k = Key2(p) /\ g[k] = "absent" THEN "false" ELSE g[k]
    BY <1>1, <2>1 DEF Touch
  <2>4. LookedUp(f, p) = Touch(g, Key2(p))
    BY <1>5 DEF LookedUp, g
  <2>5. QED
    BY <2>2, <2>3, <2>4
<1>6. LookedUp(f, p)[<<a, b>>] = LookedUp(f, p)[<<b, a>>]
  <2>1. CASE f[Key1(p)] = "true"
    BY <1>1, <2>1 DEF LookedUp
  <2>2. CASE f[Key1(p)] # "true"
    BY <1>1, <1>2, <1>3, <1>5, <2>2, SMTT(30)
  <2>3. QED
    BY <2>1, <2>2
<1>7. QED
  BY <1>1, <1>4, <1>6 DEF NoFlags

(* The map a push leaves is the old one or the empty one, flagged or read. *)
LEMMA PushFlags ==
  ASSUME NEW c \in Instance, NEW p \in Traffic, Push(c, p)
  PROVE  \/ is_flagged_ips' = is_flagged_ips
         \/ is_flagged_ips' = Flag(is_flagged_ips, p) /\ IsStaticIP(p)
         \/ is_flagged_ips' = LookedUp(FlagsLeft(c, p), p)
         \/ is_flagged_ips' = Flag(LookedUp(FlagsLeft(c, p), p), p)
BY Zenon DEF Push, PushStaticIP, PushOther, PushFlagged, PushMeasurementTool, PushDefault

(* The packet a push emits is the one it was given, by its own element; it *)
(* reports a reset when the window was over, and the last two paths below  *)
(* are the ones that use output 0.                                         *)
LEMMA PushEmits ==
  ASSUME NEW c \in Instance, NEW p \in Traffic, Push(c, p), NEW o \in output'
  PROVE  /\ o.inst = c /\ o.pkt = p
         /\ o.reset => WindowOver(c, p)
         /\ o.port = 1 =>
              PushStaticIP(c, p) \/ PushFlagged(c, p) \/ PushMeasurementTool(c, p)
<1>1. ASSUME NEW port, NEW via, NEW reset, Emit(c, p, port, via, reset)
      PROVE  o.inst = c /\ o.pkt = p /\ o.port = port /\ o.reset = reset
  <2>1. o = [inst |-> c, pkt |-> p, port |-> port, via |-> via, reset |-> reset]
    BY <1>1, Zenon DEF Emit
  <2>2. QED
    BY <2>1
<1>2. CASE PushStaticIP(c, p)
  <2>1. Emit(c, p, 1, "static", FALSE)
    BY <1>2, Zenon DEF PushStaticIP
  <2>2. o.inst = c /\ o.pkt = p /\ o.reset = FALSE
    BY <1>1, <2>1, Zenon
  <2>3. QED
    BY <1>2, <2>2, Zenon
<1>3. CASE PushOther(c, p)
  <2>1. Emit(c, p, 0, "other", FALSE)
    BY <1>3, Zenon DEF PushOther
  <2>2. o.inst = c /\ o.pkt = p /\ o.reset = FALSE /\ o.port = 0
    BY <1>1, <2>1, Zenon
  <2>3. o.port # 1
    BY <2>2
  <2>4. QED
    BY <2>2, <2>3, Zenon
<1>4. CASE PushFlagged(c, p)
  <2>1. Emit(c, p, 1, "flagged", WindowOver(c, p))
    BY <1>4, Zenon DEF PushFlagged
  <2>2. o.inst = c /\ o.pkt = p /\ o.reset = WindowOver(c, p)
    BY <1>1, <2>1, Zenon
  <2>3. QED
    BY <1>4, <2>2, Zenon
<1>5. CASE PushMeasurementTool(c, p)
  <2>1. Emit(c, p, 1, IF IsMeasurementToolHello(p) THEN "hello" ELSE "behavior",
             WindowOver(c, p))
    BY <1>5, Zenon DEF PushMeasurementTool
  <2>2. o.inst = c /\ o.pkt = p /\ o.reset = WindowOver(c, p)
    BY <1>1, <2>1, Zenon
  <2>3. QED
    BY <1>5, <2>2, Zenon
<1>6. CASE PushDefault(c, p)
  <2>1. Emit(c, p, 0, "default", WindowOver(c, p))
    BY <1>6, Zenon DEF PushDefault
  <2>2. o.inst = c /\ o.pkt = p /\ o.reset = WindowOver(c, p) /\ o.port = 0
    BY <1>1, <2>1, Zenon
  <2>3. o.port # 1
    BY <2>2
  <2>4. QED
    BY <2>2, <2>3, Zenon
<1>7. QED
  BY <1>2, <1>3, <1>4, <1>5, <1>6, Zenon DEF Push

(* A push by one element leaves both directions of every conversation      *)
(* alike; so both directions are always treated alike.                     *)
THEOREM SymmetricFlags == Spec => []FlagsSymmetric
<1>1. Init => FlagsSymmetric
  BY DEF Init, FlagsSymmetric, NoFlags, Pair
<1>2. TypeOK /\ FlagsSymmetric /\ [Next]_vars => FlagsSymmetric'
  <2> SUFFICES ASSUME TypeOK, FlagsSymmetric, [Next]_vars PROVE FlagsSymmetric'
    OBVIOUS
  <2>1. ASSUME NEW c \in Instance, NEW p \in Traffic, Push(c, p),
               NEW a \in Addr, NEW b \in Addr
        PROVE  is_flagged_ips'[<<a, b>>] = is_flagged_ips'[<<b, a>>]
    <3> DEFINE f == FlagsLeft(c, p)
               g == LookedUp(f, p)
    <3>1. /\ is_flagged_ips \in [Pair -> {"absent", "false", "true"}]
          /\ \A x, y \in Addr : is_flagged_ips[<<x, y>>] = is_flagged_ips[<<y, x>>]
      BY DEF TypeOK, FlagsSymmetric
    <3>2. /\ f \in [Pair -> {"absent", "false", "true"}]
          /\ \A x, y \in Addr : f[<<x, y>>] = f[<<y, x>>]
      BY <3>1 DEF FlagsLeft, NoFlags, Pair
    <3>3. /\ g \in [Pair -> {"absent", "false", "true"}]
          /\ \A x, y \in Addr : g[<<x, y>>] = g[<<y, x>>]
      BY <3>2, FlagTypes, FlagsStaySymmetric, SMTT(30)
    <3>4. Flag(g, p)[<<a, b>>] = Flag(g, p)[<<b, a>>]
      BY <3>3, FlagsStaySymmetric
    <3>5. Flag(is_flagged_ips, p)[<<a, b>>] = Flag(is_flagged_ips, p)[<<b, a>>]
      BY <3>1, FlagsStaySymmetric
    <3>6. QED
      BY <2>1, <3>1, <3>3, <3>4, <3>5, PushFlags
  <2>2. CASE Tick
    BY <2>2, Zenon DEF Tick, FlagsSymmetric
  <2>3. CASE UNCHANGED vars
    BY <2>3, Zenon DEF vars, FlagsSymmetric
  <2>4. QED
    BY <2>1, <2>2, <2>3, Zenon DEF Next, FlagsSymmetric
<1>3. QED
  BY <1>1, <1>2, TypeCorrect, PTL DEF Spec

(* While a pair other than the iPerf3 server's is flagged, some element    *)
(* will forget it: its observation clock is running.                       *)
THEOREM FlagsExpire == Spec => []FlagHasExpiry
<1>1. Init => FlagHasExpiry
  BY DEF Init, FlagHasExpiry, NoFlags, Pair
<1>2. TypeOK /\ FlagHasExpiry /\ [Next]_vars => FlagHasExpiry'
  <2> SUFFICES ASSUME TypeOK, FlagHasExpiry, [Next]_vars PROVE FlagHasExpiry'
    OBVIOUS
  <2>1. ASSUME NEW c \in Instance, NEW p \in Traffic, Push(c, p),
               NEW a \in Addr \ {StaticIP}, NEW b \in Addr \ {StaticIP},
               is_flagged_ips'[<<a, b>>] = "true"
        PROVE  \E d \in Instance : start_burst'[d] > 0
    <3>1. /\ <<a, b>> \in Pair
          /\ is_flagged_ips \in [Pair -> {"absent", "false", "true"}]
          /\ FlagsLeft(c, p) \in [Pair -> {"absent", "false", "true"}]
      BY DEF TypeOK, Pair, FlagsLeft, NoFlags
    <3>2. is_flagged_ips[<<a, b>>] = "true" => \E d \in Instance : start_burst[d] > 0
      BY DEF FlagHasExpiry
    <3>3. ASSUME FlagsLeft(c, p)[<<a, b>>] = "true"
          PROVE  ~WindowOver(c, p) /\ is_flagged_ips[<<a, b>>] = "true"
      BY <3>1, <3>3 DEF FlagsLeft, NoFlags
    <3>4. start_burst \in [Instance -> 0..MaxTime] /\ now \in 1..MaxTime
      BY SMTT(30) DEF TypeOK, Time
    <3>5. CASE PushStaticIP(c, p)
      <4>1. <<a, b>> \notin {Key1(p), Key2(p)}
        BY <3>5, PacketFacts DEF PushStaticIP, IsStaticIP, Key1, Key2
      <4>2. is_flagged_ips[<<a, b>>] = "true"
        <5>1. is_flagged_ips' = Flag(is_flagged_ips, p)
          BY <3>5, Zenon DEF PushStaticIP
        <5>2. Flag(is_flagged_ips, p)[<<a, b>>] = "true" <=>
                (<<a, b>> \in {Key1(p), Key2(p)} \/ is_flagged_ips[<<a, b>>] = "true")
          BY <3>1, FlagValues, ZenonT(30)
        <5>3. QED
          BY <2>1, <4>1, <5>1, <5>2, Zenon
      <4>3. QED
        BY <3>2, <3>5, <4>2, SMTT(30) DEF PushStaticIP, KeepWindow
    <3>6. CASE PushOther(c, p)
      BY <2>1, <3>2, <3>6 DEF PushOther, KeepWindow
    <3>7. CASE PushFlagged(c, p) \/ PushDefault(c, p)
      <4>1. FlagsLeft(c, p)[<<a, b>>] = "true"
        <5>1. is_flagged_ips' = LookedUp(FlagsLeft(c, p), p)
          BY <3>7, Zenon DEF PushFlagged, PushDefault
        <5>2. LookedUp(FlagsLeft(c, p), p)[<<a, b>>] = "true"
                <=> FlagsLeft(c, p)[<<a, b>>] = "true"
          BY <3>1, FlagValues, Zenon
        <5>3. QED
          BY <2>1, <5>1, <5>2, Zenon
      <4>2. StartLeft(c, p) = start_burst[c]
        BY <3>3, <4>1 DEF StartLeft
      <4>3. start_burst' = start_burst
        <5>1. start_burst' = [start_burst EXCEPT ![c] = StartLeft(c, p)]
          BY <3>7, Zenon DEF PushFlagged, PushDefault
        <5>2. QED
          BY <3>4, <4>2, <5>1
      <4>4. QED
        BY <3>2, <3>3, <4>1, <4>3
    <3>8. CASE PushMeasurementTool(c, p)
      <4>1. StartLeft(c, p) \in 0..MaxTime
        BY <3>4, ConstantsAssumption DEF StartLeft
      <4>2. start_burst'[c] > 0
        <5>1. start_burst' = [start_burst EXCEPT ![c] =
                                IF StartLeft(c, p) = 0 THEN now ELSE StartLeft(c, p)]
          BY <3>8, Zenon DEF PushMeasurementTool
        <5>2. QED
          BY <3>4, <4>1, <5>1
      <4>3. QED
        BY <4>2
    <3>9. QED
      BY <2>1, <3>5, <3>6, <3>7, <3>8 DEF Push
  <2>2. CASE Tick
    BY <2>2 DEF Tick, FlagHasExpiry
  <2>3. CASE UNCHANGED vars
    BY <2>3 DEF vars, FlagHasExpiry
  <2>4. QED
    BY <2>1, <2>2, <2>3 DEF Next, FlagHasExpiry
<1>3. QED
  BY <1>1, <1>2, TypeCorrect, PTL DEF Spec

(* A packet on the unthrottled link belongs to a conversation flagged in   *)
(* both directions.                                                        *)
THEOREM UnthrottledFlagged == Spec => []UnthrottledIsFlagged
<1>1. Init => UnthrottledIsFlagged
  BY DEF Init, UnthrottledIsFlagged
<1>2. TypeOK /\ FlagsSymmetric /\ UnthrottledIsFlagged /\ [Next]_vars
        => UnthrottledIsFlagged'
  <2> SUFFICES ASSUME TypeOK, FlagsSymmetric, UnthrottledIsFlagged, [Next]_vars
               PROVE  UnthrottledIsFlagged'
    OBVIOUS
  <2>1. ASSUME NEW c \in Instance, NEW p \in Traffic, Push(c, p),
               NEW o \in output', o.port = 1
        PROVE  /\ is_flagged_ips'[Key1(o.pkt)] = "true"
               /\ is_flagged_ips'[Key2(o.pkt)] = "true"
    <3> DEFINE f == FlagsLeft(c, p)
    <3>1. /\ Key1(p) \in Pair /\ Key2(p) \in Pair
          /\ is_flagged_ips \in [Pair -> {"absent", "false", "true"}]
          /\ f \in [Pair -> {"absent", "false", "true"}]
          /\ LookedUp(f, p) \in [Pair -> {"absent", "false", "true"}]
      BY PacketFacts, FlagTypes, Zenon DEF TypeOK, FlagsLeft, NoFlags
    <3>2. f[Key1(p)] = f[Key2(p)]
      BY PacketFacts DEF FlagsSymmetric, FlagsLeft, NoFlags, Key1, Key2, Pair
    <3>3. o.pkt = p
      BY <2>1, PushEmits, ZenonT(30)
    <3>4. PushStaticIP(c, p) \/ PushFlagged(c, p) \/ PushMeasurementTool(c, p)
      BY <2>1, PushEmits, Zenon
    <3>5. CASE PushStaticIP(c, p)
      <4>1. is_flagged_ips' = Flag(is_flagged_ips, p)
        BY <3>5, Zenon DEF PushStaticIP
      <4>2. /\ Flag(is_flagged_ips, p)[Key1(p)] = "true"
            /\ Flag(is_flagged_ips, p)[Key2(p)] = "true"
        BY <3>1 DEF Flag
      <4>3. QED
        BY <3>3, <4>1, <4>2, Zenon
    <3>6. CASE PushFlagged(c, p)
      <4>1. f[Key1(p)] = "true" /\ f[Key2(p)] = "true"
        BY <3>2, <3>6 DEF PushFlagged, IsFlagged
      <4>2. is_flagged_ips' = LookedUp(f, p)
        BY <3>6, Zenon DEF PushFlagged
      <4>3. LookedUp(f, p)[Key1(p)] = "true" /\ LookedUp(f, p)[Key2(p)] = "true"
        BY <3>1, <4>1, FlagValues, Zenon
      <4>4. QED
        BY <3>3, <4>2, <4>3, ZenonT(30)
    <3>7. CASE PushMeasurementTool(c, p)
      <4>1. is_flagged_ips' = Flag(LookedUp(f, p), p)
        BY <3>7, Zenon DEF PushMeasurementTool
      <4>2. /\ Flag(LookedUp(f, p), p)[Key1(p)] = "true"
            /\ Flag(LookedUp(f, p), p)[Key2(p)] = "true"
        BY <3>1 DEF Flag
      <4>3. QED
        BY <3>3, <4>1, <4>2, Zenon
    <3>8. QED
      BY <3>4, <3>5, <3>6, <3>7, Zenon
  <2>2. CASE Tick
    BY <2>2 DEF Tick, UnthrottledIsFlagged
  <2>3. CASE UNCHANGED vars
    BY <2>3 DEF vars, UnthrottledIsFlagged
  <2>4. QED
    BY <2>1, <2>2, <2>3 DEF Next, UnthrottledIsFlagged
<1>3. QED
  BY <1>1, <1>2, TypeCorrect, SymmetricFlags, PTL DEF Spec

-----------------------------------------------------------------------------
(* The observation window. *)

(* The prologue leaves every second's code alone except the current one's, *)
(* which it sets, unless it starts a behaviour and forgets the others.     *)
LEMMA TrackedCodes ==
  ASSUME TypeOK, NEW c \in Instance, NEW p \in Traffic, NEW t \in Time
  PROVE  Tracked(c, p)[t] =
           IF t = now THEN CodeNow(c, p)
           ELSE IF StartsBehavior(c, p) THEN NoEntry
           ELSE current_behavior_map[c][t]
BY DEF Tracked, NoBehavior, TypeOK

(* What a push does to one element's window: the prologue, then perhaps a  *)
(* reset.                                                                  *)
LEMMA PushWindow ==
  ASSUME TypeOK, NEW c \in Instance, NEW p \in Traffic, Push(c, p)
  PROVE  /\ now' \in Time /\ now' \in {now, now + 1}
         /\ time_burst_map' = [time_burst_map EXCEPT ![c][now] = Rate(c, p)]
         /\ \/ /\ reset_time' = reset_time /\ now' = now
               /\ current_behavior_map' = [current_behavior_map EXCEPT ![c] = Tracked(c, p)]
               /\ found_first_burst' = [found_first_burst EXCEPT ![c] = AwaitsBurst(c, p)]
               /\ \/ start_burst' = start_burst
                  \/ start_burst[c] = 0 /\ start_burst' = [start_burst EXCEPT ![c] = now]
            \/ /\ WindowOver(c, p)
               /\ reset_time' = [reset_time EXCEPT ![c] = now]
               /\ current_behavior_map' = [current_behavior_map EXCEPT ![c] = NoBehavior]
               /\ found_first_burst' = [found_first_burst EXCEPT ![c] = TRUE]
               /\ \/ start_burst' = [start_burst EXCEPT ![c] = 0]
                  \/ start_burst' = [start_burst EXCEPT ![c] = now]
<1>0. now \in Time
  BY DEF TypeOK
<1>1. start_burst = [start_burst EXCEPT ![c] = start_burst[c]]
  BY DEF TypeOK
<1>2. CASE PushStaticIP(c, p) \/ PushOther(c, p)
  BY <1>0, <1>2, Zenon DEF PushStaticIP, PushOther, KeepWindow, Observe
<1>3. CASE PushFlagged(c, p) \/ PushMeasurementTool(c, p) \/ PushDefault(c, p)
  <2>1. /\ time_burst_map' = [time_burst_map EXCEPT ![c][now] = Rate(c, p)]
        /\ CheckWindow(c, p)
    BY <1>3, Zenon DEF PushFlagged, PushMeasurementTool, PushDefault, Observe
  <2>2. \/ start_burst' = [start_burst EXCEPT ![c] = StartLeft(c, p)]
        \/ StartLeft(c, p) = 0 /\ start_burst' = [start_burst EXCEPT ![c] = now]
    BY <1>3, Zenon DEF PushFlagged, PushMeasurementTool, PushDefault
  <2>3. CASE WindowOver(c, p)
    <3>1. now' \in Time /\ now' \in {now, now + 1}
      BY <2>1, <2>3, Zenon DEF CheckWindow, PrintStatistics
    <3>2. QED
      BY <2>1, <2>2, <2>3, <3>1, Zenon DEF CheckWindow, StartLeft
  <2>4. CASE ~WindowOver(c, p)
    BY <1>0, <1>1, <2>1, <2>2, <2>4, Zenon DEF CheckWindow, StartLeft
  <2>5. QED
    BY <2>3, <2>4
<1>4. QED
  BY <1>2, <1>3 DEF Push

(* The window holds nothing older than the last reset. *)
THEOREM WindowOrdered == Spec => []WindowSinceReset
<1>1. Init => WindowSinceReset
  BY SMTT(30) DEF Init, WindowSinceReset, NoBehavior, Seconds
<1>2. TypeOK /\ WindowSinceReset /\ [Next]_vars => WindowSinceReset'
  <2> SUFFICES ASSUME TypeOK, WindowSinceReset, [Next]_vars PROVE WindowSinceReset'
    OBVIOUS
  <2>0. /\ now \in 1..MaxTime
        /\ \A d \in Instance : start_burst[d] \in 0..MaxTime /\ reset_time[d] \in 0..MaxTime
    BY SMTT(30) DEF TypeOK, Time
  <2>1. ASSUME NEW c \in Instance, NEW p \in Traffic, Push(c, p), NEW d \in Instance
        PROVE  /\ reset_time'[d] <= now'
               /\ start_burst'[d] > 0 => start_burst'[d] \in reset_time'[d]..now'
               /\ Seconds(current_behavior_map'[d]) \subseteq reset_time'[d]..now'
    <3>1. /\ reset_time[d] <= now
          /\ start_burst[d] > 0 => start_burst[d] \in reset_time[d]..now
          /\ Seconds(current_behavior_map[d]) \subseteq reset_time[d]..now
      BY DEF WindowSinceReset
    <3>2. CASE d # c
      <4>0. /\ now' \in {now, now + 1}
            /\ \/ reset_time' = reset_time
               \/ reset_time' = [reset_time EXCEPT ![c] = now]
            /\ \/ start_burst' = start_burst
               \/ start_burst' = [start_burst EXCEPT ![c] = 0]
               \/ start_burst' = [start_burst EXCEPT ![c] = now]
            /\ \/ current_behavior_map' = [current_behavior_map EXCEPT ![c] = Tracked(c, p)]
               \/ current_behavior_map' = [current_behavior_map EXCEPT ![c] = NoBehavior]
        BY <2>1, PushWindow, Zenon
      <4>1. /\ reset_time'[d] = reset_time[d]
            /\ start_burst'[d] = start_burst[d]
            /\ current_behavior_map'[d] = current_behavior_map[d]
        BY <3>2, <4>0, SMTT(30) DEF TypeOK
      <4>2. QED
        BY <2>0, <3>1, <4>0, <4>1, SMTT(30)
    <3>3. CASE d = c
      <4>1. Seconds(NoBehavior) = {}
        BY DEF Seconds, NoBehavior
      <4>2. Seconds(Tracked(c, p)) \subseteq reset_time[c]..now
        <5> SUFFICES ASSUME NEW t \in Time, Tracked(c, p)[t] # NoEntry
                     PROVE  t \in reset_time[c]..now
          BY DEF Seconds
        <5>1. t = now \/ current_behavior_map[c][t] # NoEntry
          BY TrackedCodes
        <5>2. QED
          BY <2>0, <3>1, <3>3, <5>1 DEF Seconds
      <4>3. CASE /\ reset_time' = reset_time
                 /\ current_behavior_map' = [current_behavior_map EXCEPT ![c] = Tracked(c, p)]
                 /\ \/ start_burst' = start_burst
                    \/ start_burst' = [start_burst EXCEPT ![c] = now]
        <5>1. current_behavior_map'[c] = Tracked(c, p)
          BY <4>3 DEF TypeOK
        <5>2. start_burst'[c] \in {start_burst[c], now}
          BY <4>3, Zenon DEF TypeOK
        <5>3. now' \in {now, now + 1} /\ reset_time'[c] = reset_time[c]
          BY <2>1, <4>3, PushWindow, ZenonT(30)
        <5>4. QED
          BY <2>0, <3>1, <3>3, <4>2, <5>1, <5>2, <5>3
      <4>4. CASE /\ reset_time' = [reset_time EXCEPT ![c] = now]
                 /\ current_behavior_map' = [current_behavior_map EXCEPT ![c] = NoBehavior]
                 /\ \/ start_burst' = [start_burst EXCEPT ![c] = 0]
                    \/ start_burst' = [start_burst EXCEPT ![c] = now]
        <5>1. /\ current_behavior_map'[c] = NoBehavior /\ reset_time'[c] = now
              /\ start_burst'[c] \in {0, now}
          BY <4>4 DEF TypeOK
        <5>2. now' \in {now, now + 1}
          BY <2>1, PushWindow, Zenon
        <5>3. QED
          BY <2>0, <3>3, <4>1, <5>1, <5>2, SMTT(30)
      <4>5. QED
        BY <2>1, <4>3, <4>4, PushWindow, Zenon
    <3>4. QED
      BY <3>2, <3>3
  <2>2. CASE Tick
    <3>1. ASSUME NEW d \in Instance
          PROVE  /\ reset_time'[d] <= now'
                 /\ start_burst'[d] > 0 => start_burst'[d] \in reset_time'[d]..now'
                 /\ Seconds(current_behavior_map'[d]) \subseteq reset_time'[d]..now'
      BY <2>0, <2>2 DEF Tick, WindowSinceReset
    <3>2. QED
      BY <3>1 DEF WindowSinceReset, Seconds
  <2>3. CASE UNCHANGED vars
    BY <2>3, SMTT(30) DEF vars, WindowSinceReset, Seconds
  <2>4. QED
    BY <2>1, <2>2, <2>3, ZenonT(30) DEF Next, WindowSinceReset, Seconds
<1>3. QED
  BY <1>1, <1>2, TypeCorrect, PTL DEF Spec

(* A window that lies between its reset and now, and holds more than       *)
(* ObservationThreshold seconds, started that long ago.                    *)
LEMMA LongWindow ==
  ASSUME TypeOK, WindowSinceReset, NEW c \in Instance, NEW p \in Traffic,
         WindowOver(c, p), reset_time[c] > 0
  PROVE  now - reset_time[c] >= ObservationThreshold
<1>1. /\ now \in Nat /\ reset_time[c] \in Nat /\ start_burst[c] \in Nat
      /\ ObservationThreshold \in Nat
      /\ reset_time[c] <= now
  BY ConstantsAssumption, SMTT(30) DEF TypeOK, Time, WindowSinceReset
<1>2. CASE start_burst[c] > 0 /\ now - start_burst[c] > ObservationThreshold
  BY <1>1, <1>2, SMTT(30) DEF WindowSinceReset
<1>3. CASE Cardinality(Seconds(Tracked(c, p))) > ObservationThreshold
  <2>1. Seconds(Tracked(c, p)) \subseteq reset_time[c]..now
    <3> SUFFICES ASSUME NEW t \in Time, Tracked(c, p)[t] # NoEntry
                 PROVE  t \in reset_time[c]..now
      BY DEF Seconds
    <3>1. t = now \/ current_behavior_map[c][t] # NoEntry
      BY TrackedCodes
    <3>2. QED
      BY <1>1, <3>1 DEF Seconds, WindowSinceReset
  <2>2. /\ IsFiniteSet(reset_time[c]..now)
        /\ Cardinality(reset_time[c]..now) = now - reset_time[c] + 1
    <3>1. reset_time[c] \in Int /\ now \in Int /\ ~(reset_time[c] > now)
      BY <1>1
    <3>2. /\ IsFiniteSet(reset_time[c]..now)
          /\ Cardinality(reset_time[c]..now) =
               IF reset_time[c] > now THEN 0 ELSE now - reset_time[c] + 1
      BY <3>1, FS_Interval, Zenon
    <3>3. QED
      BY <3>1, <3>2
  <2>3. /\ Cardinality(Seconds(Tracked(c, p))) <= now - reset_time[c] + 1
        /\ Cardinality(Seconds(Tracked(c, p))) \in Nat
    <3>1. /\ IsFiniteSet(Seconds(Tracked(c, p)))
          /\ Cardinality(Seconds(Tracked(c, p))) <= Cardinality(reset_time[c]..now)
      BY <2>1, <2>2, FS_Subset, Zenon
    <3>2. Cardinality(Seconds(Tracked(c, p))) \in Nat
      BY <3>1, FS_CardinalityType, Zenon
    <3>3. QED
      BY <2>2, <3>1, <3>2
  <2>4. QED
    BY <1>1, <1>3, <2>3, SMTT(30)
<1>4. QED
  BY <1>2, <1>3, SMTT(30) DEF WindowOver

(* Two resets of one element are at least ObservationThreshold seconds     *)
(* apart.                                                                  *)
THEOREM ResetsSpaced == Spec => ResetSpacing
<1>1. TypeOK /\ WindowSinceReset /\ [Next]_vars =>
        [\A o \in output' :
           o.reset /\ reset_time[o.inst] > 0
             => now - reset_time[o.inst] >= ObservationThreshold]_vars
  <2> SUFFICES ASSUME TypeOK, WindowSinceReset, Next,
                      NEW o \in output', o.reset, reset_time[o.inst] > 0
               PROVE  now - reset_time[o.inst] >= ObservationThreshold
    OBVIOUS
  <2>1. ~Tick
    BY DEF Tick
  <2>2. PICK c \in Instance, p \in Traffic : Push(c, p)
    BY <2>1 DEF Next
  <2>3. QED
    BY <2>2, PushEmits, LongWindow
<1>2. QED
  BY <1>1, TypeCorrect, WindowOrdered, PTL DEF Spec, ResetSpacing

(* Every statistics file was written at a reset of some element, at most a *)
(* second after it, and bears no name of the future.                       *)
FilesFromResets ==
  \A f \in stats_files :
    /\ f.time <= now
    /\ \E d \in Instance : reset_time[d] > 0 /\ reset_time[d] + 1 >= f.time

(* A push that is not a reset leaves the files alone; a reset replaces the *)
(* file of the second it ends in by one of its own.                        *)
LEMMA PushFiles ==
  ASSUME NEW c \in Instance, NEW p \in Traffic, Push(c, p)
  PROVE  \/ stats_files' = stats_files /\ reset_time' = reset_time /\ now' = now
         \/ /\ WindowOver(c, p)
            /\ now' \in {now, now + 1}
            /\ stats_files' = {f \in stats_files : f.time # now'} \cup {Statistics(c, now')}
            /\ reset_time' = [reset_time EXCEPT ![c] = now]
<1>1. CASE PushStaticIP(c, p) \/ PushOther(c, p)
  BY <1>1, Zenon DEF PushStaticIP, PushOther, KeepWindow
<1>2. CASE PushFlagged(c, p) \/ PushMeasurementTool(c, p) \/ PushDefault(c, p)
  <2>1. CheckWindow(c, p)
    BY <1>2, Zenon DEF PushFlagged, PushMeasurementTool, PushDefault
  <2>2. PrintStatistics(c) =>
          /\ now' \in {now, now + 1}
          /\ stats_files' = {f \in stats_files : f.time # now'} \cup {Statistics(c, now')}
    BY Zenon DEF PrintStatistics
  <2>3. QED
    BY <2>1, <2>2, Zenon DEF CheckWindow
<1>3. QED
  BY <1>1, <1>2, Zenon DEF Push

(* Resets only move forward, so a file never outlives the reset it is from. *)
LEMMA FilesStayFromResets ==
  ASSUME TypeOK, WindowSinceReset, FilesFromResets, [Next]_vars
  PROVE  FilesFromResets'
<1>0. /\ now \in Nat /\ now > 0
      /\ \A d \in Instance : reset_time[d] \in Nat /\ reset_time[d] <= now
      /\ \A f \in stats_files : f.time \in Nat
  BY DEF TypeOK, Time, WindowSinceReset
<1>1. ASSUME NEW c \in Instance, NEW p \in Traffic, Push(c, p)
      PROVE  FilesFromResets'
  <2>1. CASE stats_files' = stats_files /\ reset_time' = reset_time /\ now' = now
    BY <2>1 DEF FilesFromResets
  <2>2. CASE /\ now' \in {now, now + 1}
             /\ stats_files' = {f \in stats_files : f.time # now'} \cup {Statistics(c, now')}
             /\ reset_time' = [reset_time EXCEPT ![c] = now]
    <3>1. /\ reset_time'[c] = now
          /\ \A d \in Instance : reset_time'[d] >= reset_time[d] /\ reset_time'[d] \in Nat
      BY <1>0, <2>2 DEF TypeOK
    <3>2. Statistics(c, now').time = now'
      BY DEF Statistics
    <3>3. ASSUME NEW f \in stats_files'
          PROVE  /\ f.time <= now'
                 /\ \E d \in Instance : reset_time'[d] > 0 /\ reset_time'[d] + 1 >= f.time
      <4>1. CASE f = Statistics(c, now')
        <5>1. f.time = now'
          BY <3>2, <4>1, Zenon
        <5>2. f.time <= now' /\ reset_time'[c] > 0 /\ reset_time'[c] + 1 >= f.time
          BY <1>0, <2>2, <3>1, <5>1, SMTT(30)
        <5>3. QED
          BY <5>2, Zenon
      <4>2. CASE f \in stats_files
        <5>1. PICK d \in Instance : reset_time[d] > 0 /\ reset_time[d] + 1 >= f.time
          BY <4>2 DEF FilesFromResets
        <5>2. f.time <= now
          BY <4>2 DEF FilesFromResets
        <5>3. f.time <= now' /\ reset_time'[d] > 0 /\ reset_time'[d] + 1 >= f.time
          BY <1>0, <2>2, <3>1, <4>2, <5>1, <5>2, SMTT(30)
        <5>4. QED
          BY <5>3, Zenon
      <4>3. QED
        BY <2>2, <3>3, <4>1, <4>2
    <3>4. QED
      BY <3>3 DEF FilesFromResets
  <2>3. QED
    BY <1>1, <2>1, <2>2, PushFiles, Zenon
<1>2. CASE Tick
  BY <1>0, <1>2 DEF Tick, FilesFromResets
<1>3. CASE UNCHANGED vars
  BY <1>3 DEF vars, FilesFromResets
<1>4. QED
  BY <1>1, <1>2, <1>3 DEF Next

(* An element never truncates a statistics file of its own: a file is lost *)
(* only when another element reset in the same second or the one before    *)
(* (print_statistics, lines 609-612).                                      *)
THEOREM FilesLostToPeer == Spec => FileLostOnlyToPeer
<1>1. Init => FilesFromResets
  BY DEF Init, FilesFromResets
<1>2. TypeOK /\ WindowSinceReset /\ FilesFromResets /\ [Next]_vars => FilesFromResets'
  BY FilesStayFromResets
<1>3. TypeOK /\ WindowSinceReset /\ FilesFromResets /\ [Next]_vars =>
        [\A f \in stats_files \ stats_files' : \A o \in output' :
           /\ f.time = now /\ now' = now
           /\ \E d \in Instance \ {o.inst} : reset_time[d] \in {now - 1, now} \ {0}]_vars
  <2> SUFFICES ASSUME TypeOK, WindowSinceReset, FilesFromResets, Next,
                      NEW f \in stats_files \ stats_files', NEW o \in output'
               PROVE  /\ f.time = now /\ now' = now
                      /\ \E d \in Instance \ {o.inst} :
                           reset_time[d] \in {now - 1, now} \ {0}
    OBVIOUS
  <2>1. ~Tick
    BY DEF Tick
  <2>2. PICK c \in Instance, p \in Traffic : Push(c, p)
    BY <2>1 DEF Next
  <2>3. /\ o.inst = c
        /\ WindowOver(c, p)
        /\ f.time = now' /\ now' \in {now, now + 1}
    <3>1. o.inst = c
      BY <2>2, PushEmits, Zenon
    <3>2. stats_files' # stats_files
      OBVIOUS
    <3>3. /\ WindowOver(c, p) /\ now' \in {now, now + 1}
          /\ stats_files' = {g \in stats_files : g.time # now'} \cup {Statistics(c, now')}
      BY <2>2, <3>2, PushFiles, Zenon
    <3>4. QED
      BY <3>1, <3>3, Zenon
  <2>4. PICK d \in Instance : reset_time[d] > 0 /\ reset_time[d] + 1 >= f.time
    BY DEF FilesFromResets
  <2>5. /\ now \in Nat \ {0} /\ reset_time[d] \in Nat /\ reset_time[d] <= now
        /\ f.time <= now
    BY SMTT(30) DEF TypeOK, Time, WindowSinceReset, FilesFromResets
  <2>6. f.time = now /\ now' = now /\ reset_time[d] \in {now - 1, now} \ {0}
    BY <2>3, <2>4, <2>5
  <2>7. d # c
    <3> SUFFICES ASSUME d = c PROVE FALSE
      OBVIOUS
    <3>1. now - reset_time[c] >= ObservationThreshold
      BY <2>3, <2>4, LongWindow
    <3>2. QED
      BY <2>5, <2>6, <3>1, ConstantsAssumption
  <2>8. QED
    BY <2>3, <2>6, <2>7
<1>4. QED
  BY <1>1, <1>2, <1>3, TypeCorrect, WindowOrdered, PTL DEF Spec, FileLostOnlyToPeer

-----------------------------------------------------------------------------
(* The tracked behaviour. *)

(* What a push leaves of one element's rates: those of the other seconds,  *)
(* and a higher one for the current second.                                *)
LEMMA PushRates ==
  ASSUME TypeOK, NEW c \in Instance, NEW p \in Traffic, Push(c, p)
  PROVE  /\ \A d \in Instance, t \in 0..MaxTime :
              d # c \/ t # now => time_burst_map'[d][t] = time_burst_map[d][t]
         /\ time_burst_map'[c][now] = Rate(c, p)
         /\ Rate(c, p) \in Nat /\ Rate(c, p) >= time_burst_map[c][now]
<1>1. now \in 0..MaxTime /\ time_burst_map \in [Instance -> [0..MaxTime -> Nat]]
  BY DEF TypeOK, Time
<1>2. time_burst_map' =
        [time_burst_map EXCEPT ![c] = [time_burst_map[c] EXCEPT ![now] = Rate(c, p)]]
  BY PushWindow
<1>3. Rate(c, p) \in Nat /\ Rate(c, p) >= time_burst_map[c][now]
  <2>1. time_burst_map[c][now] \in Nat
    BY <1>1, ZenonT(30)
  <2>2. QED
    BY <2>1, PacketFacts DEF Rate
<1>4. QED
  BY <1>1, <1>2, <1>3, Zenon

(* The code of every second of the window is that of the rates finally     *)
(* measured in it and in the second before.                                *)
THEOREM CodesAreOfRates == Spec => []CodesMatchRates
<1>1. Init => CodesMatchRates
  BY SMTT(30) DEF Init, CodesMatchRates, Seconds, NoBehavior
<1>2. TypeOK /\ CodesMatchRates /\ [Next]_vars => CodesMatchRates'
  <2> SUFFICES ASSUME TypeOK, CodesMatchRates, [Next]_vars PROVE CodesMatchRates'
    OBVIOUS
  <2>0. /\ now \in 1..MaxTime
        /\ \A d \in Instance, t \in Time :
             current_behavior_map[d][t] # NoEntry =>
               /\ t <= now
               /\ current_behavior_map[d][t] =
                    BehaviorCode(time_burst_map[d][t], time_burst_map[d][t - 1])
    BY DEF TypeOK, Time, CodesMatchRates, Seconds
  <2>1. ASSUME NEW c \in Instance, NEW p \in Traffic, Push(c, p),
               NEW d \in Instance, NEW t \in Time, current_behavior_map'[d][t] # NoEntry
        PROVE  /\ t <= now'
               /\ current_behavior_map'[d][t] =
                    BehaviorCode(time_burst_map'[d][t], time_burst_map'[d][t - 1])
    <3>1. /\ t \in 0..MaxTime /\ t - 1 \in 0..MaxTime /\ t \in 1..MaxTime
          /\ now - 1 \in 0..MaxTime
      BY <2>0, ConstantsAssumption, SMTT(30) DEF Time
    <3>2. now' \in {now, now + 1}
      BY <2>1, PushWindow, Zenon
    <3>3. /\ \A e \in Instance, u \in 0..MaxTime :
               e # c \/ u # now => time_burst_map'[e][u] = time_burst_map[e][u]
          /\ time_burst_map'[c][now] = Rate(c, p)
      BY <2>1, PushRates
    <3>4. \/ current_behavior_map' = [current_behavior_map EXCEPT ![c] = Tracked(c, p)]
          \/ current_behavior_map' = [current_behavior_map EXCEPT ![c] = NoBehavior]
      BY <2>1, PushWindow, ZenonT(30)
    <3>5. CASE d # c
      <4>1. current_behavior_map'[d] = current_behavior_map[d]
        BY <3>4, <3>5, SMTT(30) DEF TypeOK
      <4>2. /\ time_burst_map'[d][t] = time_burst_map[d][t]
            /\ time_burst_map'[d][t - 1] = time_burst_map[d][t - 1]
        BY <3>1, <3>3, <3>5
      <4>3. QED
        BY <2>0, <2>1, <3>1, <3>2, <4>1, <4>2, SMTT(30)
    <3>6. CASE d = c /\ current_behavior_map' = [current_behavior_map EXCEPT ![c] = NoBehavior]
      <4>1. current_behavior_map'[c] = NoBehavior
        BY <3>6 DEF TypeOK
      <4>2. QED
        BY <2>1, <3>6, <4>1 DEF NoBehavior
    <3>7. CASE d = c /\ current_behavior_map' = [current_behavior_map EXCEPT ![c] = Tracked(c, p)]
      <4>1. current_behavior_map'[c] = Tracked(c, p)
        BY <3>7 DEF TypeOK
      <4>2. CASE t = now
        <5>1. current_behavior_map'[c][t] = CodeNow(c, p)
          BY <4>1, <4>2, TrackedCodes
        <5>2. time_burst_map'[c][t - 1] = time_burst_map[c][now - 1]
          BY <2>0, <3>1, <3>3, <4>2, SMTT(30)
        <5>3. CodeNow(c, p) = BehaviorCode(time_burst_map'[c][t], time_burst_map'[c][t - 1])
          BY <3>3, <4>2, <5>2, SMTT(30) DEF CodeNow
        <5>4. QED
          BY <2>0, <3>2, <3>7, <4>2, <5>1, <5>3, SMTT(30)
      <4>3. CASE t # now
        <5>1. current_behavior_map'[c][t] = current_behavior_map[c][t]
          BY <2>1, <3>7, <4>1, <4>3, TrackedCodes, SMTT(30)
        <5>2. /\ t <= now
              /\ current_behavior_map[c][t] =
                   BehaviorCode(time_burst_map[c][t], time_burst_map[c][t - 1])
          BY <2>0, <2>1, <3>7, <5>1, SMTT(30)
        <5>3. /\ time_burst_map'[c][t] = time_burst_map[c][t]
              /\ time_burst_map'[c][t - 1] = time_burst_map[c][t - 1]
          BY <2>0, <3>1, <3>3, <4>3, <5>2, SMTT(30)
        <5>4. QED
          BY <2>0, <3>1, <3>2, <3>7, <5>1, <5>2, <5>3, SMTT(30)
      <4>4. QED
        BY <4>2, <4>3
    <3>8. QED
      BY <3>4, <3>5, <3>6, <3>7
  <2>2. CASE Tick
    <3>1. /\ now' = now + 1 /\ time_burst_map' = time_burst_map
          /\ current_behavior_map' = current_behavior_map
      BY <2>2 DEF Tick
    <3>2. ASSUME NEW d \in Instance, NEW t \in Seconds(current_behavior_map[d])
          PROVE  t <= now + 1
      BY <2>0 DEF Seconds, Time
    <3>3. QED
      BY <3>1, <3>2 DEF CodesMatchRates, Seconds
  <2>3. CASE UNCHANGED vars
    BY <2>3, SMTT(30) DEF vars, CodesMatchRates, Seconds
  <2>4. QED
    BY <2>1, <2>2, <2>3 DEF Next, CodesMatchRates, Seconds
<1>3. QED
  BY <1>1, <1>2, TypeCorrect, PTL DEF Spec

(* What the prologue makes of the window of an element that has already    *)
(* seen its first burst: the burst stays first, even when it belongs to    *)
(* the current second, whose code is computed again from a higher rate.    *)
LEMMA BurstStaysFirst ==
  ASSUME TypeOK, CodesMatchRates, NEW c \in Instance, NEW p \in Traffic,
         ~found_first_burst[c], NEW t \in Time,
         current_behavior_map[c][t] = Increase,
         \A s \in 1..(t - 1) : current_behavior_map[c][s] = NoEntry
  PROVE  /\ Tracked(c, p)[t] = Increase
         /\ \A s \in 1..(t - 1) : Tracked(c, p)[s] = NoEntry
<1>1. ~StartsBehavior(c, p)
  BY SMTT(30) DEF StartsBehavior
<1>2. /\ t \in 1..MaxTime /\ now \in 1..MaxTime /\ now - 1 \in 0..MaxTime
      /\ t <= now
      /\ BehaviorCode(time_burst_map[c][t], time_burst_map[c][t - 1]) = Increase
  <2>1. t \in Seconds(current_behavior_map[c])
    BY DEF Seconds, Increase, NoEntry
  <2>2. QED
    BY <2>1, ConstantsAssumption, SMTT(30) DEF TypeOK, Time, CodesMatchRates
<1>3. Tracked(c, p)[t] = Increase
  <2>1. CASE t = now
    <3>1. /\ time_burst_map[c][now] \in Nat /\ time_burst_map[c][now - 1] \in Nat
          /\ Rate(c, p) \in Nat /\ Rate(c, p) >= time_burst_map[c][now]
      <4>1. time_burst_map[c] \in [0..MaxTime -> Nat]
        BY DEF TypeOK
      <4>2. now \in 0..MaxTime
        BY <1>2, ConstantsAssumption
      <4>3. time_burst_map[c][now] \in Nat /\ time_burst_map[c][now - 1] \in Nat
        BY <1>2, <4>1, <4>2, ZenonT(30)
      <4>4. QED
        BY <4>3, PacketFacts, SMTT(30) DEF Rate
    <3>2. BehaviorCode(time_burst_map[c][now], time_burst_map[c][now - 1]) = Increase
      BY <1>2, <2>1, SMTT(30)
    <3>3. CodeNow(c, p) = Increase
      BY <3>1, <3>2, BehaviorCodeIncrease DEF CodeNow
    <3>4. QED
      BY <2>1, <3>3, TrackedCodes
  <2>2. CASE t # now
    BY <1>1, <2>2, TrackedCodes, SMTT(30)
  <2>3. QED
    BY <2>1, <2>2, SMTT(30)
<1>4. ASSUME NEW s \in 1..(t - 1)
      PROVE  Tracked(c, p)[s] = NoEntry
  <2>1. s \in Time /\ s # now
    BY <1>2, ConstantsAssumption DEF Time
  <2>2. QED
    BY <1>1, <2>1, TrackedCodes
<1>5. QED
  BY <1>3, <1>4

(* The tracked behaviour starts with its first burst. *)
THEOREM BurstFirst == Spec => []BehaviorStartsWithBurst
<1> DEFINE Starts(m) == \E t \in Time : /\ m[t] = Increase
                                       /\ \A s \in 1..(t - 1) : m[s] = NoEntry
           Waits(m) == \A t \in Time : m[t] # Increase
<1>1. Init => BehaviorStartsWithBurst
  BY DEF Init, BehaviorStartsWithBurst, NoBehavior, NoEntry, Increase
<1>2. TypeOK /\ CodesMatchRates /\ BehaviorStartsWithBurst /\ [Next]_vars
        => BehaviorStartsWithBurst'
  <2> SUFFICES ASSUME TypeOK, CodesMatchRates, BehaviorStartsWithBurst, [Next]_vars
               PROVE  BehaviorStartsWithBurst'
    OBVIOUS
  <2>0. \A d \in Instance : IF found_first_burst[d] THEN Waits(current_behavior_map[d])
                           ELSE Starts(current_behavior_map[d])
    BY DEF BehaviorStartsWithBurst
  <2>1. ASSUME NEW c \in Instance, NEW p \in Traffic, Push(c, p), NEW d \in Instance
        PROVE  IF found_first_burst'[d] THEN Waits(current_behavior_map'[d])
               ELSE Starts(current_behavior_map'[d])
    <3>1. \/ /\ current_behavior_map' = [current_behavior_map EXCEPT ![c] = Tracked(c, p)]
             /\ found_first_burst' = [found_first_burst EXCEPT ![c] = AwaitsBurst(c, p)]
          \/ /\ current_behavior_map' = [current_behavior_map EXCEPT ![c] = NoBehavior]
             /\ found_first_burst' = [found_first_burst EXCEPT ![c] = TRUE]
      BY <2>1, PushWindow, Zenon
    <3>2. CASE d # c
      <4>1. /\ current_behavior_map'[d] = current_behavior_map[d]
            /\ found_first_burst'[d] = found_first_burst[d]
        BY <3>1, <3>2, Zenon DEF TypeOK
      <4>2. QED
        BY <2>0, <4>1, Zenon
    <3>3. CASE /\ d = c
               /\ current_behavior_map' = [current_behavior_map EXCEPT ![c] = NoBehavior]
               /\ found_first_burst' = [found_first_burst EXCEPT ![c] = TRUE]
      <4>1. current_behavior_map'[c] = NoBehavior /\ found_first_burst'[c] = TRUE
        BY <3>3, Zenon DEF TypeOK
      <4>2. Waits(NoBehavior)
        BY DEF NoBehavior, NoEntry, Increase
      <4>3. QED
        BY <3>3, <4>1, <4>2, Zenon
    <3>4. CASE /\ d = c
               /\ current_behavior_map' = [current_behavior_map EXCEPT ![c] = Tracked(c, p)]
               /\ found_first_burst' = [found_first_burst EXCEPT ![c] = AwaitsBurst(c, p)]
      <4>1. current_behavior_map'[c] = Tracked(c, p) /\ found_first_burst'[c] = AwaitsBurst(c, p)
        BY <3>4, Zenon DEF TypeOK
      <4>2. ASSUME AwaitsBurst(c, p) PROVE Waits(Tracked(c, p))
        <5>1. found_first_burst[c] /\ ~StartsBehavior(c, p)
          BY <4>2, Zenon DEF AwaitsBurst
        <5>2. CodeNow(c, p) # Increase /\ Waits(current_behavior_map[c])
          BY <2>0, <5>1, ZenonT(30) DEF StartsBehavior
        <5>3. ASSUME NEW t \in Time PROVE Tracked(c, p)[t] # Increase
          BY <5>1, <5>2, TrackedCodes
        <5>4. QED
          BY <5>3
      <4>3. ASSUME ~AwaitsBurst(c, p) PROVE Starts(Tracked(c, p))
        <5>1. CASE ~found_first_burst[c]
          <6>1. PICK t \in Time : /\ current_behavior_map[c][t] = Increase
                                  /\ \A s \in 1..(t - 1) : current_behavior_map[c][s] = NoEntry
            BY <2>0, <5>1, Zenon
          <6>2. QED
            BY <5>1, <6>1, BurstStaysFirst, Zenon
        <5>2. CASE StartsBehavior(c, p)
          <6>1. now \in Time /\ now \in 1..MaxTime
            BY DEF TypeOK, Time
          <6>2. Tracked(c, p)[now] = Increase
            BY <5>2, <6>1, TrackedCodes, SMTT(30) DEF StartsBehavior
          <6>3. ASSUME NEW s \in 1..(now - 1) PROVE Tracked(c, p)[s] = NoEntry
            <7>1. s \in Time /\ s # now
              BY <6>1, ConstantsAssumption DEF Time
            <7>2. QED
              BY <5>2, <7>1, TrackedCodes
          <6>4. QED
            BY <6>1, <6>2, <6>3
        <5>3. QED
          BY <4>3, <5>1, <5>2, Zenon DEF AwaitsBurst
      <4>4. QED
        BY <3>4, <4>1, <4>2, <4>3, Zenon
    <3>5. QED
      BY <3>1, <3>2, <3>3, <3>4, Zenon
  <2>2. CASE Tick
    BY <2>2 DEF Tick, BehaviorStartsWithBurst
  <2>3. CASE UNCHANGED vars
    BY <2>3, SMTT(30) DEF vars, BehaviorStartsWithBurst
  <2>4. QED
    <3>1. ASSUME NEW c \in Instance, NEW p \in Traffic, Push(c, p)
          PROVE  BehaviorStartsWithBurst'
      BY <2>1, <3>1, Zenon DEF BehaviorStartsWithBurst
    <3>2. QED
      BY <2>2, <2>3, <3>1 DEF Next
<1>3. QED
  BY <1>1, <1>2, TypeCorrect, CodesAreOfRates, PTL DEF Spec

(* A push leaves a flag, or the observation clocks and the flags as they   *)
(* were, or ends its element's window and stops its clock.                 *)
LEMMA PushDetections ==
  ASSUME TypeOK, NEW c \in Instance, NEW p \in Traffic, Push(c, p)
  PROVE  \/ \E k \in Pair : is_flagged_ips'[k] = "true"
         \/ /\ start_burst' = start_burst
            /\ \A k \in Pair : is_flagged_ips[k] # "true"
         \/ /\ start_burst' = [start_burst EXCEPT ![c] = 0]
            /\ reset_time' = [reset_time EXCEPT ![c] = now]
<1> DEFINE Flags == [Pair -> {"absent", "false", "true"}]
<1>0. /\ is_flagged_ips \in Flags /\ FlagsLeft(c, p) \in Flags
      /\ LookedUp(FlagsLeft(c, p), p) \in Flags
      /\ Key1(p) \in Pair
      /\ start_burst = [start_burst EXCEPT ![c] = start_burst[c]]
  BY FlagTypes, PacketFacts, Zenon DEF TypeOK, FlagsLeft, NoFlags
<1>1. CASE PushStaticIP(c, p) \/ PushOther(c, p)
  <2>1. start_burst' = start_burst
    BY <1>1, Zenon DEF PushStaticIP, PushOther, KeepWindow
  <2>2. is_flagged_ips' = is_flagged_ips \/ is_flagged_ips' = Flag(is_flagged_ips, p)
    BY <1>1, Zenon DEF PushStaticIP, PushOther
  <2>3. Flag(is_flagged_ips, p)[Key1(p)] = "true"
    BY <1>0, FlagValues, SMTT(30)
  <2>4. QED
    BY <1>0, <2>1, <2>2, <2>3
<1>2. CASE PushFlagged(c, p) \/ PushDefault(c, p) \/ PushMeasurementTool(c, p)
  <2>1. /\ CheckWindow(c, p)
        /\ \/ /\ start_burst' = [start_burst EXCEPT ![c] = StartLeft(c, p)]
              /\ is_flagged_ips' = LookedUp(FlagsLeft(c, p), p)
           \/ is_flagged_ips' = Flag(LookedUp(FlagsLeft(c, p), p), p)
    BY <1>2, Zenon DEF PushFlagged, PushDefault, PushMeasurementTool
  <2>2. CASE is_flagged_ips' = Flag(LookedUp(FlagsLeft(c, p), p), p)
    BY <1>0, <2>2, FlagValues, SMTT(30)
  <2>3. CASE /\ start_burst' = [start_burst EXCEPT ![c] = StartLeft(c, p)]
             /\ is_flagged_ips' = LookedUp(FlagsLeft(c, p), p)
    <3>1. CASE WindowOver(c, p)
      <4>1. StartLeft(c, p) = 0 /\ reset_time' = [reset_time EXCEPT ![c] = now]
        BY <2>1, <3>1, Zenon DEF StartLeft, CheckWindow
      <4>2. QED
        BY <2>3, <4>1
    <3>2. CASE ~WindowOver(c, p)
      <4>1. StartLeft(c, p) = start_burst[c] /\ FlagsLeft(c, p) = is_flagged_ips
        BY <3>2, Zenon DEF StartLeft, FlagsLeft
      <4>2. start_burst' = start_burst
        BY <1>0, <2>3, <4>1
      <4>3. \A k \in Pair : is_flagged_ips'[k] = "true" <=> is_flagged_ips[k] = "true"
        BY <1>0, <2>3, <4>1, FlagValues, SMTT(30)
      <4>4. QED
        BY <4>2, <4>3
    <3>3. QED
      BY <3>1, <3>2, SMTT(30)
  <2>4. QED
    BY <2>1, <2>2, <2>3
<1>3. QED
  BY <1>1, <1>2, SMTT(30) DEF Push

(* An element whose observation clock runs has lost its detection only if  *)
(* another element reset since.                                            *)
THEOREM DetectionsLostToPeer == Spec => []DetectionLostOnlyToPeer
<1>1. Init => DetectionLostOnlyToPeer
  BY SMTT(30) DEF Init, DetectionLostOnlyToPeer
<1>2. TypeOK /\ WindowSinceReset /\ DetectionLostOnlyToPeer /\ [Next]_vars
        => DetectionLostOnlyToPeer'
  <2> SUFFICES ASSUME TypeOK, WindowSinceReset, DetectionLostOnlyToPeer, [Next]_vars
               PROVE  DetectionLostOnlyToPeer'
    OBVIOUS
  <2>1. ASSUME NEW c \in Instance, NEW p \in Traffic, Push(c, p),
               NEW d \in Instance, start_burst'[d] > 0,
               \A k \in Pair : is_flagged_ips'[k] # "true"
        PROVE  \E e \in Instance \ {d} : reset_time'[e] >= start_burst'[d]
    <3>1. \A e \in Instance : start_burst[e] \in Nat /\ reset_time[e] \in Nat
      BY DEF TypeOK
    <3>2. CASE /\ start_burst' = start_burst
               /\ \A k \in Pair : is_flagged_ips[k] # "true"
      <4>1. PICK e \in Instance \ {d} : reset_time[e] >= start_burst[d]
        BY <2>1, <3>2 DEF DetectionLostOnlyToPeer
      <4>2. reset_time'[e] >= reset_time[e] /\ reset_time'[e] \in Nat
        <5>1. reset_time' = reset_time \/ reset_time' = [reset_time EXCEPT ![c] = now]
          BY <2>1, PushFiles, Zenon
        <5>2. reset_time[e] \in Nat /\ reset_time[e] <= now /\ now \in Nat
          BY DEF TypeOK, Time, WindowSinceReset
        <5>3. reset_time'[e] \in {reset_time[e], now}
          BY <5>1, Zenon DEF TypeOK
        <5>4. QED
          BY <5>2, <5>3
      <4>3. QED
        BY <3>1, <3>2, <4>1, <4>2
    <3>3. CASE /\ start_burst' = [start_burst EXCEPT ![c] = 0]
               /\ reset_time' = [reset_time EXCEPT ![c] = now]
      <4>1. d # c /\ start_burst'[d] = start_burst[d]
        BY <2>1, <3>3, SMTT(30) DEF TypeOK
      <4>2. reset_time'[c] = now
        BY <3>3, SMTT(30) DEF TypeOK
      <4>3. start_burst[d] <= now
        <5>1. start_burst[d] > 0
          BY <2>1, <4>1, Zenon
        <5>2. start_burst[d] \in reset_time[d]..now
          BY <5>1, Zenon DEF WindowSinceReset
        <5>3. now \in Nat
          BY DEF TypeOK, Time
        <5>4. start_burst[d] \in Nat /\ reset_time[d] \in Nat
          BY <3>1, Zenon
        <5>5. QED
          BY <5>2, <5>3, <5>4, IntervalEnd, Zenon
      <4>4. QED
        BY <3>1, <4>1, <4>2, <4>3, ZenonT(30) DEF TypeOK, Time
    <3>4. QED
      BY <2>1, <3>2, <3>3, PushDetections, Zenon
  <2>2. CASE Tick
    BY <2>2 DEF Tick, DetectionLostOnlyToPeer
  <2>3. CASE UNCHANGED vars
    BY <2>3 DEF vars, DetectionLostOnlyToPeer
  <2>4. QED
    BY <2>1, <2>2, <2>3, Zenon DEF Next, DetectionLostOnlyToPeer
<1>3. QED
  BY <1>1, <1>2, TypeCorrect, WindowOrdered, PTL DEF Spec

-----------------------------------------------------------------------------
(* Detections by behaviour. *)

(* An element that emits a packet by behaviour has matched the string of   *)
(* the codes tracked so far, and reports the reset it made, if any.        *)
LEMMA BehaviorEmits ==
  ASSUME NEW c \in Instance, NEW p \in Traffic, Push(c, p), NEW o \in output',
         o.via = "behavior"
  PROVE  /\ o.inst = c /\ MatchesBehavior(c, p) /\ PushMeasurementTool(c, p)
         /\ o.reset = WindowOver(c, p)
<1>1. ASSUME NEW port, NEW via, NEW reset, Emit(c, p, port, via, reset)
      PROVE  o.inst = c /\ via = "behavior"
  <2>1. o = [inst |-> c, pkt |-> p, port |-> port, via |-> via, reset |-> reset]
    BY <1>1, Zenon DEF Emit
  <2>2. QED
    BY <2>1
<1>2. /\ "static" # "behavior" /\ "other" # "behavior" /\ "flagged" # "behavior"
      /\ "default" # "behavior" /\ "hello" # "behavior"
  OBVIOUS
<1>3. ~PushStaticIP(c, p) /\ ~PushOther(c, p) /\ ~PushFlagged(c, p) /\ ~PushDefault(c, p)
  BY <1>1, <1>2, Zenon DEF PushStaticIP, PushOther, PushFlagged, PushDefault
<1>4. PushMeasurementTool(c, p)
  BY <1>3, Zenon DEF Push
<1>5. Emit(c, p, 1, IF IsMeasurementToolHello(p) THEN "hello" ELSE "behavior",
           WindowOver(c, p))
  BY <1>4, Zenon DEF PushMeasurementTool
<1>6. /\ o.inst = c /\ o.reset = WindowOver(c, p)
      /\ (IF IsMeasurementToolHello(p) THEN "hello" ELSE "behavior") = "behavior"
  <2>1. PICK via, reset :
          /\ via = IF IsMeasurementToolHello(p) THEN "hello" ELSE "behavior"
          /\ reset = WindowOver(c, p)
          /\ Emit(c, p, 1, via, reset)
    BY <1>5, Zenon
  <2>2. Emit(c, p, 1, via, reset)
    BY <2>1, Zenon
  <2>3. o = [inst |-> c, pkt |-> p, port |-> 1, via |-> via, reset |-> reset]
    BY <2>2, Zenon DEF Emit
  <2>4. o.inst = c /\ o.reset = reset /\ o.via = via
    BY <2>3
  <2>5. QED
    BY <2>1, <2>4, Zenon
<1>7. ~IsMeasurementToolHello(p)
  BY <1>2, <1>6, Zenon
<1>8. QED
  BY <1>4, <1>6, <1>7, Zenon DEF PushMeasurementTool

(* A behaviour is matched on codes that a reset has just forgotten in one  *)
(* case only: when the push that matches it is the push that resets.       *)
MatchIsCurrentUnlessReset ==
  \A o \in output :
    o.via = "behavior" /\ ~o.reset
      => BehaviorString(current_behavior_map[o.inst]) \in BehaviorDefinitions

(* BehaviorMatchIsCurrent fails for a packet whose own push ends the       *)
(* window, and for no other.                                               *)
THEOREM StaleMatchesAreResets == Spec => []MatchIsCurrentUnlessReset
<1>1. Init => MatchIsCurrentUnlessReset
  BY DEF Init, MatchIsCurrentUnlessReset
<1>2. TypeOK /\ MatchIsCurrentUnlessReset /\ [Next]_vars => MatchIsCurrentUnlessReset'
  <2> SUFFICES ASSUME TypeOK, MatchIsCurrentUnlessReset, [Next]_vars
               PROVE  MatchIsCurrentUnlessReset'
    OBVIOUS
  <2>1. CASE Tick
    BY <2>1 DEF Tick, MatchIsCurrentUnlessReset
  <2>2. ASSUME NEW c \in Instance, NEW p \in Traffic, Push(c, p)
        PROVE  MatchIsCurrentUnlessReset'
    <3>1. SUFFICES ASSUME NEW o \in output', o.via = "behavior", ~o.reset
                   PROVE  BehaviorString(current_behavior_map'[o.inst])
                            \in BehaviorDefinitions
      BY Zenon DEF MatchIsCurrentUnlessReset, BehaviorString, NthSecond, Seconds
    <3>2. /\ o.inst = c /\ MatchesBehavior(c, p) /\ PushMeasurementTool(c, p)
          /\ o.reset = WindowOver(c, p)
      BY <2>2, <3>1, BehaviorEmits, Zenon
    <3>3. ~WindowOver(c, p)
      BY <3>1, <3>2, Zenon
    <3>4. current_behavior_map' = [current_behavior_map EXCEPT ![c] = Tracked(c, p)]
      BY <3>2, <3>3, Zenon DEF PushMeasurementTool, CheckWindow
    <3>5. current_behavior_map'[c] = Tracked(c, p)
      BY <3>4 DEF TypeOK
    <3>6. QED
      BY <3>2, <3>5, Zenon DEF MatchesBehavior
  <2>3. CASE UNCHANGED vars
    <3>1. SUFFICES ASSUME NEW o \in output', o.via = "behavior", ~o.reset
                   PROVE  BehaviorString(current_behavior_map'[o.inst])
                            \in BehaviorDefinitions
      BY Zenon DEF MatchIsCurrentUnlessReset, BehaviorString, NthSecond, Seconds
    <3>2. output' = output /\ current_behavior_map' = current_behavior_map
      BY <2>3, Zenon DEF vars
    <3>3. QED
      BY <3>1, <3>2, Zenon DEF MatchIsCurrentUnlessReset
  <2>4. QED
    BY <2>1, <2>2, <2>3 DEF Next
<1>3. QED
  BY <1>1, <1>2, TypeCorrect, PTL DEF Spec

=============================================================================
