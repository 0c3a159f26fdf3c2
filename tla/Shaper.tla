------------------------------- MODULE Shaper -------------------------------
(***************************************************************************)
(* BandwidthShaper, the element that throttles output 0 of a Classifier    *)
(* (sandbox_tester.click gives it 1250000B/s), with the GapRate it asks    *)
(* before each packet.  GapRate compares _sec_count, the bytes let through *)
(* in the current second, with the bytes the rate allows by this           *)
(* microsecond; at the start of a new second it takes one second's worth   *)
(* off a positive count.                                                   *)
(*                                                                         *)
(* The numbers of a second, UsecPerSec, and of the fixed-point scale,      *)
(* Scale (1 << UGAP_SHIFT), are parameters.  The products of the code stay *)
(* below 1000000 << 12 < 2^32 and so inside its unsigned arithmetic.       *)
(***************************************************************************)
EXTENDS Integers

CONSTANTS
  Rate,                 \* _rate, bytes per second
  UsecPerSec,           \* microseconds in a second (1000000)
  Scale,                \* 1 << UGAP_SHIFT (4096)
  Lengths,              \* the packet lengths that occur
  MaxLength,            \* the largest of them
  MaxSec                \* bound: the last second of a behaviour

ASSUME RateAssumption ==
  /\ Rate \in Nat \ {0}
  /\ UsecPerSec \in Nat \ {0}
  /\ Scale \in Nat \ {0}
  /\ MaxLength \in Nat \ {0}
  /\ Lengths \subseteq 1..MaxLength
  /\ MaxSec \in Nat

(* set_rate() caps the rate at MAX_RATE, so that the gap is not zero. *)
ASSUME ScaleAssumption == Rate <= UsecPerSec * Scale

VARIABLES
  sec, usec,            \* Timestamp::now()
  sec_count,            \* _sec_count
  tv_sec,               \* _tv_sec, -1 before the first pull
  sent_in_second,       \* history: bytes let through in this second
  sent,                 \* history: bytes let through so far
  first_sec             \* history: the second of the first pull, or -1

vars == <<sec, usec, sec_count, tv_sec, sent_in_second, sent, first_sec>>

ugap == (UsecPerSec * Scale) \div Rate

(* The bytes due by a microsecond of the second. *)
need(u) == (u * Scale) \div ugap

(* What the second has due at its very end. *)
MaxNeed == need(UsecPerSec - 1)

-----------------------------------------------------------------------------
(* Mutant of NewSecond: a quiet second is credited too, however many there *)
(* have been.                                                              *)
NewSecondAlways(count) == count - Rate

(* Mutant of NewSecond: the count is never reduced. *)
NewSecondKept(count) == count

(* What a new second leaves of the count. *)
NewSecond(count) == IF count > 0 THEN count - Rate ELSE count

(* _sec_count after need_update(): the first call after a reset starts the *)
(* count at what is due, rounded to the nearer byte.                       *)
Count ==
  IF tv_sec < 0
  THEN need(usec) + (IF usec * Scale - need(usec) * ugap > ugap \div 2 THEN 1 ELSE 0)
  ELSE IF sec > tv_sec THEN NewSecond(sec_count)
  ELSE sec_count

(* Mutant of NeedUpdate: a shaper that is just right may send once more.   *)
NeedUpdateEarly == need(usec) + 1 >= Count

NeedUpdate == need(usec) >= Count

FirstPull == first_sec' = IF tv_sec < 0 THEN sec ELSE first_sec

(* BandwidthShaper::pull() finds the rate exhausted. *)
Refuse ==
  /\ ~NeedUpdate
  /\ tv_sec' = sec
  /\ sec_count' = Count
  /\ FirstPull
  /\ UNCHANGED <<sec, usec, sent_in_second, sent>>

(* Nothing is upstream: the count is brought up to date, no more. *)
PullNothing ==
  /\ NeedUpdate
  /\ tv_sec' = sec
  /\ sec_count' = Count
  /\ FirstPull
  /\ UNCHANGED <<sec, usec, sent_in_second, sent>>

PullPacket(length) ==
  /\ NeedUpdate
  /\ tv_sec' = sec
  /\ sec_count' = Count + length
  /\ sent_in_second' = sent_in_second + length
  /\ sent' = sent + length
  /\ FirstPull
  /\ UNCHANGED <<sec, usec>>

(* The clock goes on, to any later microsecond of this second. *)
Wait ==
  /\ usec' \in (usec + 1)..(UsecPerSec - 1)
  /\ UNCHANGED <<sec, sec_count, tv_sec, sent_in_second, sent, first_sec>>

(* A second ends, not necessarily with a pull in its last microsecond. *)
NextSecond ==
  /\ sec < MaxSec
  /\ sec' = sec + 1
  /\ usec' = 0
  /\ sent_in_second' = 0
  /\ UNCHANGED <<sec_count, tv_sec, sent, first_sec>>

Init ==
  /\ sec = 0
  /\ usec \in 0..(UsecPerSec - 1)
  /\ sec_count = 0
  /\ tv_sec = -1
  /\ sent_in_second = 0
  /\ sent = 0
  /\ first_sec = -1

Next ==
  \/ Refuse
  \/ PullNothing
  \/ \E length \in Lengths : PullPacket(length)
  \/ Wait
  \/ NextSecond

Spec == Init /\ [][Next]_vars

-----------------------------------------------------------------------------
(* Properties.                                                             *)

(* The members have their types, and the count never leaves the interval   *)
(* between a second's credit and a second's worth with one packet more.    *)
TypeOK ==
  /\ sec \in 0..MaxSec
  /\ usec \in 0..(UsecPerSec - 1)
  /\ sec_count \in (1 - Rate)..(MaxNeed + MaxLength)
  /\ tv_sec \in -1..sec
  /\ first_sec \in -1..sec
  /\ sent_in_second \in Nat
  /\ sent \in Nat

(* However long the link was quiet, the throttled class gets at most one   *)
(* second's credit: no clock second carries more than twice the rate and a *)
(* packet.                                                                 *)
SecondBounded ==
  sent_in_second <= MaxNeed + Rate - 1 + MaxLength

(* In the long run the link is throttled to the rate: from the first pull  *)
(* on, what was let through never exceeds the rate times the seconds       *)
(* begun, by more than one packet and the rounding of the fixed-point gap. *)
LongRunRate ==
  tv_sec >= 0 => sent <= Rate * (sec - first_sec) + MaxNeed + MaxLength

(* The throttled class is never shut out: a shaper that has not been asked *)
(* in this second lets a packet through at the latest in the second's last *)
(* microsecond, whatever was sent before (packets are shorter than what    *)
(* the rate allows in a second).                                           *)
PermitsEachSecond ==
  MaxLength <= Rate /\ tv_sec \in 0..(sec - 1) /\ usec = UsecPerSec - 1 => NeedUpdate

=============================================================================
