----------------------------- MODULE Classifier -----------------------------
(***************************************************************************)
(* The Classifier element of Ersa's deceptive-ISP router (src/classifier.cc*)
(* and src/classifier.hh).  Every packet is pushed to output 0 (the        *)
(* throttled link) or output 1 (the unthrottled link).  An element         *)
(* measures the traffic per second, abstracts the measurements to a string *)
(* of codes, and flags address pairs that look like a bandwidth test.      *)
(*                                                                         *)
(* sandbox_tester.click declares two such elements (client to server and   *)
(* server to client).  All of their state is their own, except             *)
(* is_flagged_ips, a static member that they share.                        *)
(*                                                                         *)
(* push() runs to completion in the driver thread, so it is one action.    *)
(* Its return paths are the disjuncts of Push, which share the measuring   *)
(* prologue (Observe) and, past the early returns, the window check        *)
(* (CheckWindow).                                                          *)
(*                                                                         *)
(* Rates are counted in units, Mbit units to the megabit.  The clock is    *)
(* time(0): it starts positive and does not run backwards here.  push()    *)
(* reads it once, and a second time when it writes a statistics file; a    *)
(* second may have begun by then.                                          *)
(***************************************************************************)
EXTENDS Integers, FiniteSets, Sequences

CONSTANTS
  Instance,             \* the Classifier elements of the configuration
  Addr,                 \* IP addresses
  StaticIP,             \* the iPerf3 server singled out by address
  Traffic,              \* the packets that may arrive
  Mbit,                 \* units of data in one megabit
  BurstThreshold,       \* burst_threshold (10 in the code)
  ObservationThreshold, \* observation_threshold (30)
  LowRateLimit,         \* slow packets tolerated before a diversion (115)
  BehaviorDefinitions,  \* behavior_definitions: the strings of known tools
  MaxTime,              \* bound: the last second of a behaviour
  MaxRate,              \* bound: units in one second through one element
  MaxWindow             \* bound: packets of one element between two resets

Kind == {"tcp", "udp", "dns", "other"}
Time == 1..MaxTime
Pair == Addr \X Addr
Decrease == 0
Constant == 1
Increase == 2
Code == {Decrease, Constant, Increase}
NoEntry == 3
Packet == [kind: Kind, src: Addr, dst: Addr, hello: BOOLEAN, size: Nat \ {0}]

ASSUME ConstantsAssumption ==
  /\ StaticIP \in Addr
  /\ Traffic \subseteq Packet
  /\ Mbit \in Nat \ {0}
  /\ BurstThreshold \in Nat \ {0}
  /\ ObservationThreshold \in Nat \ {0, 1}
  /\ LowRateLimit \in Nat
  /\ BehaviorDefinitions \subseteq Seq(Code)
  /\ MaxTime \in Nat \ {0}
  /\ MaxRate \in Nat
  /\ MaxWindow \in Nat

VARIABLES
  now,                    \* time(0)
  time_burst_map,         \* units seen in each second; a missing key reads 0
  current_behavior_map,   \* code of each second of the window, or NoEntry
  found_first_burst,      \* TRUE while the window waits for its first burst
  low_burst_rate_counter,
  start_burst,            \* second of the first detection, 0 when none
  throttled_counter,
  unthrottled_counter,
  is_flagged_ips,         \* "absent", "false" or "true"; shared (static)
  stats_files,            \* the stats_file<time>.txt files on disk
  output,                 \* the output(k).push(p) call this step made, if any
  reset_time              \* history: second of an element's last reset, or 0

vars == <<now, time_burst_map, current_behavior_map, found_first_burst,
          low_burst_rate_counter, start_burst, throttled_counter,
          unthrottled_counter, is_flagged_ips, stats_files, output,
          reset_time>>

-----------------------------------------------------------------------------
(* What one packet does to the measurements: lines 388-449 of push().      *)

NoBehavior == [t \in Time |-> NoEntry]

NoFlags == [k \in Pair |-> "absent"]

(* The keys suspected_ips_1 and suspected_ips_2. *)
Key1(p) == <<p.src, p.dst>>
Key2(p) == <<p.dst, p.src>>

(* (!is_tcp && !is_udp) || is_dns *)
IsOtherProtocol(p) == p.kind \in {"dns", "other"}

(* A TCP packet whose TLS hello names a measurement tool's host. *)
IsMeasurementToolHello(p) == p.kind = "tcp" /\ p.hello

IsStaticIP(p) == StaticIP \in {p.src, p.dst}

(* The conversion of a long double to int drops the fraction. *)
ToInt(units) ==
  IF units >= 0 THEN units \div Mbit ELSE -((-units) \div Mbit)

Abs(n) == IF n < 0 THEN -n ELSE n

(* Mutant of BehaviorCode: the difference itself is recorded. *)
BehaviorCodeRaw(rate, previous) == ToInt(rate - previous)

(* The code of a second, from the rate in it and in the second before. *)
BehaviorCode(rate, previous) ==
  LET burst_difference == ToInt(rate - previous) IN
  IF Abs(burst_difference) > BurstThreshold /\ burst_difference > 0
  THEN Increase
  ELSE IF Abs(burst_difference) < BurstThreshold /\ burst_difference < 0
       THEN Decrease
       ELSE Constant

Rate(c, p) == time_burst_map[c][now] + p.size

CodeNow(c, p) == BehaviorCode(Rate(c, p), time_burst_map[c][now - 1])

StartsBehavior(c, p) == CodeNow(c, p) = Increase /\ found_first_burst[c]

(* Mutant of Tracked: the code of a second's first packet is kept. *)
TrackedOnce(c, p) ==
  [(IF StartsBehavior(c, p) THEN NoBehavior ELSE current_behavior_map[c])
     EXCEPT ![now] = IF @ = NoEntry THEN CodeNow(c, p) ELSE @]

(* current_behavior_map and found_first_burst after the prologue. *)
Tracked(c, p) ==
  [(IF StartsBehavior(c, p) THEN NoBehavior ELSE current_behavior_map[c])
     EXCEPT ![now] = CodeNow(c, p)]

(* Mutant of AwaitsBurst: found_first_burst = false is forgotten. *)
AwaitsBurstForgotten(c, p) == found_first_burst[c]

AwaitsBurst(c, p) == found_first_burst[c] /\ ~StartsBehavior(c, p)

LowRateCount(c, p) ==
  low_burst_rate_counter[c] + (IF Rate(c, p) < Mbit THEN 1 ELSE 0)

(* The keys of the std::map, and its i-th key in their order. *)
Seconds(m) == {t \in Time : m[t] # NoEntry}
NthSecond(m, i) ==
  CHOOSE t \in Seconds(m) : Cardinality({u \in Seconds(m) : u <= t}) = i

(* get_current_behavior_string: the codes in the order of their seconds. *)
BehaviorString(m) == [i \in 1..Cardinality(Seconds(m)) |-> m[NthSecond(m, i)]]

Observe(c, p) ==
  time_burst_map' = [time_burst_map EXCEPT ![c][now] = Rate(c, p)]

-----------------------------------------------------------------------------
(* Flags.                                                                   *)

(* Mutant of Flag: only the packet's own direction is flagged. *)
FlagOneWay(flags, p) == [flags EXCEPT ![Key1(p)] = "true"]

(* is_flagged_ips[k1] = true; is_flagged_ips[k2] = true; *)
Flag(flags, p) == [flags EXCEPT ![Key1(p)] = "true", ![Key2(p)] = "true"]

(* Reading with operator[] inserts a false entry for a missing key. *)
Touch(flags, k) ==
  [flags EXCEPT ![k] = IF @ = "absent" THEN "false" ELSE @]

IsFlagged(flags, p) == flags[Key1(p)] = "true" \/ flags[Key2(p)] = "true"

(* Mutant of LookedUp: only the first key is read. *)
LookedUpOneWay(flags, p) == Touch(flags, Key1(p))

(* is_flagged_ips after the test of line 492, whose || short-circuits. *)
LookedUp(flags, p) ==
  IF flags[Key1(p)] = "true" THEN flags ELSE Touch(Touch(flags, Key1(p)), Key2(p))

-----------------------------------------------------------------------------
(* The observation window: lines 478-490 of push() and print_statistics(). *)

WindowOver(c, p) ==
  \/ start_burst[c] > 0 /\ now - start_burst[c] > ObservationThreshold
  \/ Cardinality(Seconds(Tracked(c, p))) > ObservationThreshold

(* Every key of the map is listed, whatever its value. *)
Statistics(c, curr_time) ==
  [time |-> curr_time, throttled |-> throttled_counter[c],
   unthrottled |-> unthrottled_counter[c],
   ips |-> {k \in Pair : is_flagged_ips[k] # "absent"}]

(* The file is named after a second reading of the clock, not after the    *)
(* curr_time of push().  Opening the file of the same second truncates it. *)
PrintStatistics(c) ==
  \E curr_time \in {now, now + 1} \cap Time :
    /\ now' = curr_time
    /\ stats_files' = {f \in stats_files : f.time # curr_time}
                        \cup {Statistics(c, curr_time)}

CheckWindow(c, p) ==
  IF WindowOver(c, p)
  THEN /\ PrintStatistics(c)
       /\ found_first_burst' = [found_first_burst EXCEPT ![c] = TRUE]
       /\ low_burst_rate_counter' = [low_burst_rate_counter EXCEPT ![c] = 0]
       /\ current_behavior_map' = [current_behavior_map EXCEPT ![c] = NoBehavior]
       /\ reset_time' = [reset_time EXCEPT ![c] = now]
  ELSE /\ found_first_burst' = [found_first_burst EXCEPT ![c] = AwaitsBurst(c, p)]
       /\ low_burst_rate_counter' =
            [low_burst_rate_counter EXCEPT ![c] = LowRateCount(c, p)]
       /\ current_behavior_map' = [current_behavior_map EXCEPT ![c] = Tracked(c, p)]
       /\ UNCHANGED <<now, stats_files, reset_time>>

(* Mutants: a reset that forgets to clear the map, or start_burst. *)
FlagsKept(c, p) == is_flagged_ips
StartKept(c, p) == start_burst[c]

(* What the window check leaves of the state that later lines change. *)
FlagsLeft(c, p) == IF WindowOver(c, p) THEN NoFlags ELSE is_flagged_ips
StartLeft(c, p) == IF WindowOver(c, p) THEN 0 ELSE start_burst[c]
CountLeft(c, p, n) == IF WindowOver(c, p) THEN 0 ELSE n

-----------------------------------------------------------------------------
(* The return paths of push().                                             *)

Emit(c, p, port, via, reset) ==
  output' = {[inst |-> c, pkt |-> p, port |-> port, via |-> via, reset |-> reset]}

(* Mutant of KeepWindow: only packets that get past both early returns     *)
(* are tracked.                                                            *)
KeepWindowUntracked(c, p) ==
  UNCHANGED <<found_first_burst, current_behavior_map, start_burst, stats_files,
              reset_time>>

(* The paths that return before the window check keep the prologue's work. *)
KeepWindow(c, p) ==
  /\ found_first_burst' = [found_first_burst EXCEPT ![c] = AwaitsBurst(c, p)]
  /\ current_behavior_map' = [current_behavior_map EXCEPT ![c] = Tracked(c, p)]
  /\ UNCHANGED <<start_burst, stats_files, reset_time>>

PushStaticIP(c, p) ==
  /\ IsStaticIP(p)
  /\ Observe(c, p)
  /\ KeepWindow(c, p)
  /\ low_burst_rate_counter' = [low_burst_rate_counter EXCEPT ![c] = LowRateCount(c, p)]
  /\ is_flagged_ips' = Flag(is_flagged_ips, p)
  /\ unthrottled_counter' = [unthrottled_counter EXCEPT ![c] = @ + 1]
  /\ Emit(c, p, 1, "static", FALSE)
  /\ UNCHANGED <<now, throttled_counter>>

PushOther(c, p) ==
  /\ ~IsStaticIP(p)
  /\ IsOtherProtocol(p) \/ LowRateCount(c, p) > LowRateLimit
  /\ Observe(c, p)
  /\ KeepWindow(c, p)
  /\ low_burst_rate_counter' =
       [low_burst_rate_counter EXCEPT
          ![c] = IF IsOtherProtocol(p) THEN LowRateCount(c, p) ELSE 0]
  /\ throttled_counter' = [throttled_counter EXCEPT ![c] = @ + 1]
  /\ Emit(c, p, 0, "other", FALSE)
  /\ UNCHANGED <<now, is_flagged_ips, unthrottled_counter>>

(* The packet gets past both early returns. *)
Evaluated(c, p) ==
  /\ ~IsStaticIP(p)
  /\ ~IsOtherProtocol(p)
  /\ LowRateCount(c, p) <= LowRateLimit

PushFlagged(c, p) ==
  /\ Evaluated(c, p)
  /\ IsFlagged(FlagsLeft(c, p), p)
  /\ Observe(c, p)
  /\ CheckWindow(c, p)
  /\ is_flagged_ips' = LookedUp(FlagsLeft(c, p), p)
  /\ start_burst' = [start_burst EXCEPT ![c] = StartLeft(c, p)]
  /\ throttled_counter' = [throttled_counter EXCEPT ![c] = CountLeft(c, p, @)]
  /\ unthrottled_counter' = [unthrottled_counter EXCEPT ![c] = CountLeft(c, p, @) + 1]
  /\ Emit(c, p, 1, "flagged", WindowOver(c, p))

(* curr_behavior was computed at line 441, before the window check. *)
MatchesBehavior(c, p) == BehaviorString(Tracked(c, p)) \in BehaviorDefinitions

PushMeasurementTool(c, p) ==
  /\ Evaluated(c, p)
  /\ ~IsFlagged(FlagsLeft(c, p), p)
  /\ IsMeasurementToolHello(p) \/ MatchesBehavior(c, p)
  /\ Observe(c, p)
  /\ CheckWindow(c, p)
  /\ is_flagged_ips' = Flag(LookedUp(FlagsLeft(c, p), p), p)
  /\ start_burst' =
       [start_burst EXCEPT ![c] = IF StartLeft(c, p) = 0 THEN now ELSE StartLeft(c, p)]
  /\ throttled_counter' = [throttled_counter EXCEPT ![c] = CountLeft(c, p, @)]
  /\ unthrottled_counter' = [unthrottled_counter EXCEPT ![c] = CountLeft(c, p, @) + 1]
  /\ Emit(c, p, 1, IF IsMeasurementToolHello(p) THEN "hello" ELSE "behavior",
          WindowOver(c, p))

PushDefault(c, p) ==
  /\ Evaluated(c, p)
  /\ ~IsFlagged(FlagsLeft(c, p), p)
  /\ ~IsMeasurementToolHello(p)
  /\ ~MatchesBehavior(c, p)
  /\ Observe(c, p)
  /\ CheckWindow(c, p)
  /\ is_flagged_ips' = LookedUp(FlagsLeft(c, p), p)
  /\ start_burst' = [start_burst EXCEPT ![c] = StartLeft(c, p)]
  /\ throttled_counter' = [throttled_counter EXCEPT ![c] = CountLeft(c, p, @) + 1]
  /\ unthrottled_counter' = [unthrottled_counter EXCEPT ![c] = CountLeft(c, p, @)]
  /\ Emit(c, p, 0, "default", WindowOver(c, p))

Push(c, p) ==
  \/ PushStaticIP(c, p)
  \/ PushOther(c, p)
  \/ PushFlagged(c, p)
  \/ PushMeasurementTool(c, p)
  \/ PushDefault(c, p)

(* The bounds of the model. *)
WithinBounds(c, p) ==
  /\ Rate(c, p) <= MaxRate
  /\ throttled_counter[c] + unthrottled_counter[c] < MaxWindow

(* A second passes. *)
Tick ==
  /\ now < MaxTime
  /\ now' = now + 1
  /\ output' = {}
  /\ UNCHANGED <<time_burst_map, current_behavior_map, found_first_burst,
                 low_burst_rate_counter, start_burst, throttled_counter,
                 unthrottled_counter, is_flagged_ips, stats_files, reset_time>>

Init ==
  /\ now = 1
  /\ time_burst_map = [c \in Instance |-> [t \in 0..MaxTime |-> 0]]
  /\ current_behavior_map = [c \in Instance |-> NoBehavior]
  /\ found_first_burst = [c \in Instance |-> TRUE]
  /\ low_burst_rate_counter = [c \in Instance |-> 0]
  /\ start_burst = [c \in Instance |-> 0]
  /\ throttled_counter = [c \in Instance |-> 0]
  /\ unthrottled_counter = [c \in Instance |-> 0]
  /\ is_flagged_ips = NoFlags
  /\ stats_files = {}
  /\ output = {}
  /\ reset_time = [c \in Instance |-> 0]

Next ==
  \/ Tick
  \/ \E c \in Instance, p \in Traffic : WithinBounds(c, p) /\ Push(c, p)

Spec == Init /\ [][Next]_vars

-----------------------------------------------------------------------------
(* Properties.                                                             *)

(* The members of the element keep the types classifier.hh gives them, and *)
(* the bounds cap the rates.                                               *)
TypeOK ==
  /\ now \in Time
  /\ time_burst_map \in [Instance -> [0..MaxTime -> Nat]]
  /\ current_behavior_map \in [Instance -> [Time -> Code \cup {NoEntry}]]
  /\ found_first_burst \in [Instance -> BOOLEAN]
  /\ low_burst_rate_counter \in [Instance -> Nat]
  /\ start_burst \in [Instance -> 0..MaxTime]
  /\ throttled_counter \in [Instance -> Nat]
  /\ unthrottled_counter \in [Instance -> Nat]
  /\ is_flagged_ips \in [Pair -> {"absent", "false", "true"}]
  /\ stats_files \subseteq
       [time: Time, throttled: Nat, unthrottled: Nat, ips: SUBSET Pair]
  /\ output \subseteq
       [inst: Instance, pkt: Packet, port: {0, 1}, reset: BOOLEAN,
        via: {"static", "other", "flagged", "hello", "behavior", "default"}]
  /\ reset_time \in [Instance -> 0..MaxTime]

(* Both directions of a conversation are always treated alike: a pair and  *)
(* its reverse are inserted, flagged and forgotten together, although the  *)
(* two directions pass through two elements and the test of line 492       *)
(* inserts its keys one at a time.                                         *)
FlagsSymmetric ==
  \A a, b \in Addr : is_flagged_ips[<<a, b>>] = is_flagged_ips[<<b, a>>]

(* No detection is for ever: while a pair (other than the fixed iPerf3     *)
(* server's, which is flagged without a start time) is flagged, some       *)
(* element's observation clock is running, so that a later packet ends the *)
(* window and forgets the flag.  An element that clears its start_burst    *)
(* without clearing the shared map, or flags without starting the clock,   *)
(* would leave a pair unthrottled for good.                                *)
FlagHasExpiry ==
  (\E a, b \in Addr \ {StaticIP} : is_flagged_ips[<<a, b>>] = "true")
    => \E c \in Instance : start_burst[c] > 0

(* A running observation clock means that its element's detection is still *)
(* in force, unless another element has since emptied the shared map: the  *)
(* static is_flagged_ips is the only way one element can undo another's    *)
(* detections.                                                             *)
DetectionLostOnlyToPeer ==
  \A c \in Instance :
    start_burst[c] > 0 =>
      \/ \E k \in Pair : is_flagged_ips[k] = "true"
      \/ \E d \in Instance \ {c} : reset_time[d] >= start_burst[c]

(* The tracked behaviour is empty of bursts until the first one, and from  *)
(* then on starts with it: no reset, early return or later packet of the   *)
(* same second separates found_first_burst from current_behavior_map.      *)
BehaviorStartsWithBurst ==
  \A c \in Instance :
    IF found_first_burst[c]
    THEN \A t \in Time : current_behavior_map[c][t] # Increase
    ELSE \E t \in Time :
           /\ current_behavior_map[c][t] = Increase
           /\ \A s \in 1..(t - 1) : current_behavior_map[c][s] = NoEntry

(* A code describes the whole second it stands for: it is the code of the  *)
(* rates finally measured in that second and in the one before, although   *)
(* it is computed anew by every packet from a rate that is still growing.  *)
CodesMatchRates ==
  \A c \in Instance : \A t \in Seconds(current_behavior_map[c]) :
    /\ t <= now
    /\ current_behavior_map[c][t] =
         BehaviorCode(time_burst_map[c][t], time_burst_map[c][t - 1])

(* A conversation is taken for a bandwidth test by its behaviour only if   *)
(* the element measured a rise of more than burst_threshold at least three *)
(* seconds before: no definition of the library is shorter than four       *)
(* codes, every one starts with an increase, and the codes of the window   *)
(* stand for different seconds in their order.                             *)
DetectionFollowsBurst ==
  \A o \in output :
    o.via = "behavior" =>
      \E t \in 1..(now - 3) :
        ToInt(time_burst_map[o.inst][t] - time_burst_map[o.inst][t - 1]) > BurstThreshold

(* An element's window holds nothing older than its last reset: neither    *)
(* the observation clock nor a code survives a reset, and neither is ever  *)
(* dated in the future.                                                    *)
WindowSinceReset ==
  \A c \in Instance :
    /\ reset_time[c] <= now
    /\ start_burst[c] > 0 => start_burst[c] \in reset_time[c]..now
    /\ Seconds(current_behavior_map[c]) \subseteq reset_time[c]..now

(* What leaves on the unthrottled link belongs to a flagged conversation,  *)
(* even when the same push emptied the map first.                          *)
UnthrottledIsFlagged ==
  \A o \in output :
    o.port = 1 => /\ is_flagged_ips[Key1(o.pkt)] = "true"
                  /\ is_flagged_ips[Key2(o.pkt)] = "true"

(* Two resets of one element are at least ObservationThreshold seconds     *)
(* apart, whichever of the two conditions of line 478 ends each window.    *)
(* In particular an element never truncates a statistics file it wrote     *)
(* itself.                                                                 *)
ResetSpacing ==
  [][\A o \in output' :
       o.reset /\ reset_time[o.inst] > 0
         => now - reset_time[o.inst] >= ObservationThreshold]_vars

(* A statistics file is named after the second it is written in, which may *)
(* be the one after the reset, and opening it again truncates it.  An      *)
(* element cannot do that to a file of its own: a file disappears only     *)
(* when another element has reset in the same second or the one before,    *)
(* and then the file of the one that did so first.  A reset whose file     *)
(* falls into the next second destroys nothing.                            *)
FileLostOnlyToPeer ==
  [][\A f \in stats_files \ stats_files' : \A o \in output' :
       /\ f.time = now /\ now' = now
       /\ \E d \in Instance \ {o.inst} : reset_time[d] \in {now - 1, now} \ {0}]_vars

-----------------------------------------------------------------------------
(* Statements of the repository's comments and documents that push() does  *)
(* not keep.                                                               *)

(* print_statistics lists its addresses under BANDWIDTH MEASUREMENT TOOL   *)
(* IPS (classifier.cc lines 604 and 616): every pair in a statistics file  *)
(* was flagged as a measurement tool when the file was written.            *)
ReportListsFlagged ==
  [][\A f \in stats_files' \ stats_files :
       \A k \in f.ips : is_flagged_ips[k] = "true"]_vars

(* "RESET OBSERVATION STATE" (classifier.cc line 489), "so that we can     *)
(* track the new behavior next time" (line 480): a packet is classified by *)
(* behaviour only on the behaviour its element has recorded since its last *)
(* reset.                                                                  *)
BehaviorMatchIsCurrent ==
  \A o \in output :
    o.via = "behavior"
      => BehaviorString(current_behavior_map[o.inst]) \in BehaviorDefinitions

=============================================================================
