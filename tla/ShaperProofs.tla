---------------------------- MODULE ShaperProofs ----------------------------
(***************************************************************************)
(* Proofs about Shaper for every rate, clock resolution and packet length. *)
(***************************************************************************)
EXTENDS Shaper, TLAPS

(* Division by a positive number keeps the order.                          *)
LEMMA DivMonotone ==
  ASSUME NEW d \in Nat \ {0}, NEW a \in Nat, NEW b \in Nat, a <= b
  PROVE  a \div d <= b \div d
<1>1. /\ a = d * (a \div d) + (a % d)
      /\ b = d * (b \div d) + (b % d)
      /\ a % d \in 0..(d - 1) /\ b % d \in 0..(d - 1)
      /\ a \div d \in Nat /\ b \div d \in Nat
  OBVIOUS
<1>2. QED
  BY <1>1

(* Multiplication by a natural number keeps the order. *)
LEMMA TimesMonotone ==
  ASSUME NEW d \in Nat, NEW a \in Nat, NEW b \in Nat, a <= b
  PROVE  a * d \in Nat /\ b * d \in Nat /\ a * d <= b * d
OBVIOUS

(* The fixed-point gap between two bytes is positive. *)
LEMMA GapPositive == ugap \in Nat \ {0}
<1>1. Rate \in Nat /\ Rate > 0 /\ UsecPerSec \in Nat /\ Scale \in Nat
  BY RateAssumption
<1>2. UsecPerSec * Scale \in Nat
  BY <1>1
<1>3. /\ UsecPerSec * Scale = Rate * ugap + ((UsecPerSec * Scale) % Rate)
      /\ (UsecPerSec * Scale) % Rate \in 0..(Rate - 1)
      /\ ugap \in Nat
  BY <1>1, <1>2 DEF ugap
<1>4. UsecPerSec * Scale >= Rate
  BY <1>1, <1>2, ScaleAssumption
<1>5. ugap # 0
  <2>1. SUFFICES ASSUME ugap = 0 PROVE FALSE
    OBVIOUS
  <2>2. UsecPerSec * Scale = (UsecPerSec * Scale) % Rate
    BY <1>1, <1>2, <1>3, <2>1
  <2>3. QED
    BY <1>1, <1>2, <1>3, <1>4, <2>2
<1>6. QED
  BY <1>3, <1>5

(* What is due by a microsecond is a natural number, and at most what is   *)
(* due by the last one.                                                    *)
LEMMA NeedBounds ==
  ASSUME NEW u \in 0..(UsecPerSec - 1)
  PROVE  need(u) \in Nat /\ MaxNeed \in Nat /\ need(u) <= MaxNeed
<1>1. /\ u \in Nat /\ UsecPerSec - 1 \in Nat /\ u <= UsecPerSec - 1
      /\ Scale \in Nat
  BY RateAssumption
<1>2. /\ u * Scale \in Nat /\ (UsecPerSec - 1) * Scale \in Nat
      /\ u * Scale <= (UsecPerSec - 1) * Scale
  BY <1>1, TimesMonotone
<1>3. (u * Scale) \div ugap <= ((UsecPerSec - 1) * Scale) \div ugap
  BY <1>2, GapPositive, DivMonotone
<1>4. (u * Scale) \div ugap \in Nat /\ ((UsecPerSec - 1) * Scale) \div ugap \in Nat
  BY <1>2, GapPositive
<1>5. QED
  BY <1>3, <1>4 DEF need, MaxNeed

-----------------------------------------------------------------------------
(***************************************************************************)
(* The inductive invariant.  The bounds on what was sent are bounds on the *)
(* count in disguise: in the current second the count is at least what was *)
(* sent in it less the credit, and since the first pull the count and what *)
(* the new seconds took off it add up to at least what was sent.           *)
(***************************************************************************)
Ledger ==
  /\ tv_sec = -1 => sent = 0 /\ sent_in_second = 0
  /\ tv_sec >= 0 => /\ first_sec \in 0..tv_sec
                    /\ sent <= sec_count + Rate * (tv_sec - first_sec)
  /\ tv_sec = sec => sent_in_second <= sec_count + Rate - 1
  /\ tv_sec < sec => sent_in_second = 0

(* What need_update() makes of the count is in bounds and in the books.    *)
LEMMA CountBounds ==
  ASSUME TypeOK, Ledger
  PROVE  /\ Count \in (1 - Rate)..(MaxNeed + MaxLength)
         /\ sent_in_second <= Count + Rate - 1
         /\ tv_sec = -1 => Count >= 0
         /\ tv_sec >= 0 => sent <= Count + Rate * (sec - first_sec)
<1>1. /\ Rate \in Nat /\ Rate > 0 /\ MaxLength \in Nat /\ MaxLength > 0
      /\ usec \in 0..(UsecPerSec - 1) /\ sec \in Nat /\ tv_sec \in Int
      /\ tv_sec >= -1 /\ tv_sec <= sec
      /\ sec_count \in Int /\ sec_count >= 1 - Rate /\ sec_count <= MaxNeed + MaxLength
      /\ sent \in Nat /\ sent_in_second \in Nat
  BY RateAssumption DEF TypeOK
<1>2. need(usec) \in Nat /\ MaxNeed \in Nat /\ need(usec) <= MaxNeed
  BY <1>1, NeedBounds
<1>3. CASE tv_sec < 0
  <2>1. Count = need(usec) \/ Count = need(usec) + 1
    BY <1>2, <1>3 DEF Count
  <2>2. tv_sec = -1 /\ sent_in_second = 0
    BY <1>1, <1>3 DEF Ledger
  <2>3. QED
    BY <1>1, <1>2, <2>1, <2>2
<1>4. CASE tv_sec >= 0 /\ tv_sec = sec
  <2>1. Count = sec_count
    BY <1>1, <1>4 DEF Count
  <2>2. QED
    BY <1>1, <1>2, <1>4, <2>1 DEF Ledger
<1>5. CASE tv_sec >= 0 /\ tv_sec < sec
  <2>1. Count = IF sec_count > 0 THEN sec_count - Rate ELSE sec_count
    BY <1>1, <1>5 DEF Count, NewSecond
  <2>2. Count \in (1 - Rate)..(MaxNeed + MaxLength) /\ Count >= sec_count - Rate
    BY <1>1, <1>2, <2>1
  <2>3. sent_in_second = 0 /\ first_sec \in 0..tv_sec
        /\ sent <= sec_count + Rate * (tv_sec - first_sec)
    BY <1>5 DEF Ledger
  <2>4. Rate * (sec - first_sec) >= Rate * (tv_sec - first_sec) + Rate
    <3>1. /\ tv_sec - first_sec + 1 \in Nat /\ sec - first_sec \in Nat
          /\ tv_sec - first_sec + 1 <= sec - first_sec
      BY <1>1, <1>5, <2>3
    <3>2. (tv_sec - first_sec + 1) * Rate <= (sec - first_sec) * Rate
      BY <1>1, <3>1, TimesMonotone
    <3>3. (tv_sec - first_sec + 1) * Rate = Rate * (tv_sec - first_sec) + Rate
      BY <1>1, <3>1, <2>3
    <3>4. (sec - first_sec) * Rate = Rate * (sec - first_sec)
      BY <1>1, <3>1, <2>3
    <3>5. QED
      BY <3>2, <3>3, <3>4
  <2>5. Rate * (sec - first_sec) \in Int /\ Rate * (tv_sec - first_sec) \in Int
    BY <1>1, <2>3
  <2>6. sent <= Count + Rate * (sec - first_sec)
    BY <1>1, <2>2, <2>3, <2>4, <2>5
  <2>7. QED
    BY <1>1, <1>5, <2>2, <2>3, <2>6
<1>6. QED
  BY <1>1, <1>3, <1>4, <1>5

(* The members stay in bounds and the books balanced, whatever the clock   *)
(* and the pulls do.                                                       *)
LEMMA Inductive == TypeOK /\ Ledger /\ [Next]_vars => TypeOK' /\ Ledger'
<1> SUFFICES ASSUME TypeOK, Ledger, [Next]_vars
             PROVE  TypeOK' /\ Ledger'
  OBVIOUS
<1>1. /\ Rate \in Nat /\ Rate > 0 /\ MaxLength \in Nat /\ MaxLength > 0
      /\ UsecPerSec \in Nat /\ UsecPerSec > 0 /\ MaxSec \in Nat
      /\ usec \in 0..(UsecPerSec - 1) /\ sec \in 0..MaxSec /\ tv_sec \in -1..sec
      /\ first_sec \in -1..sec
      /\ sec_count \in (1 - Rate)..(MaxNeed + MaxLength)
      /\ sent \in Nat /\ sent_in_second \in Nat
  BY RateAssumption DEF TypeOK
<1>2. /\ Count \in (1 - Rate)..(MaxNeed + MaxLength)
      /\ sent_in_second <= Count + Rate - 1
      /\ tv_sec = -1 => Count >= 0
      /\ tv_sec >= 0 => sent <= Count + Rate * (sec - first_sec)
  BY CountBounds
<1>3. need(usec) \in Nat /\ MaxNeed \in Nat /\ need(usec) <= MaxNeed
  BY <1>1, NeedBounds
<1>4. ASSUME NEW n \in 0..MaxLength, n > 0 => NeedUpdate,
             tv_sec' = sec, sec_count' = Count + n, sent' = sent + n,
             sent_in_second' = sent_in_second + n, FirstPull,
             sec' = sec, usec' = usec
      PROVE  TypeOK' /\ Ledger'
  <2>1. sec_count' \in (1 - Rate)..(MaxNeed + MaxLength)
    <3>1. CASE n = 0
      BY <1>1, <1>2, <1>3, <1>4, <3>1
    <3>2. CASE n > 0
      <4>1. Count <= MaxNeed
        BY <1>2, <1>3, <1>4, <3>2 DEF NeedUpdate
      <4>2. QED
        BY <1>1, <1>2, <1>3, <1>4, <4>1
    <3>3. QED
      BY <1>4, <3>1, <3>2
  <2>2. first_sec' \in 0..sec
    <3>1. CASE tv_sec < 0
      BY <1>1, <1>4, <3>1 DEF FirstPull
    <3>2. CASE tv_sec >= 0
      BY <1>1, <1>4, <3>2 DEF FirstPull, Ledger
    <3>3. QED
      BY <1>1, <3>1, <3>2
  <2>3. TypeOK'
    BY <1>1, <1>4, <2>1, <2>2 DEF TypeOK, MaxNeed, need, ugap
  <2>4. sent' <= sec_count' + Rate * (tv_sec' - first_sec')
    <3>1. CASE tv_sec < 0
      <4>1. first_sec' = sec /\ sent = 0
        BY <1>1, <1>4, <3>1 DEF FirstPull, Ledger
      <4>2. Rate * (tv_sec' - first_sec') = 0
        BY <1>1, <1>4, <4>1
      <4>3. Count >= 0
        BY <1>1, <1>2, <3>1
      <4>4. QED
        BY <1>1, <1>2, <1>4, <4>1, <4>2, <4>3
    <3>2. CASE tv_sec >= 0
      <4>1. first_sec' = first_sec
        BY <1>1, <1>4, <3>2 DEF FirstPull
      <4>2. Rate * (sec - first_sec) \in Int
        BY <1>1
      <4>3. QED
        BY <1>1, <1>2, <1>4, <3>2, <4>1, <4>2
    <3>3. QED
      BY <1>1, <3>1, <3>2
  <2>5. sent_in_second' <= sec_count' + Rate - 1
    BY <1>1, <1>2, <1>3, <1>4
  <2>6. tv_sec' = sec' /\ tv_sec' \in Nat
    BY <1>1, <1>4
  <2>7. Ledger'
    BY <1>4, <2>2, <2>4, <2>5, <2>6 DEF Ledger
  <2>8. QED
    BY <2>3, <2>7
<1>5. CASE Refuse
  BY <1>1, <1>4, <1>2, <1>5 DEF Refuse
<1>6. CASE PullNothing
  BY <1>1, <1>4, <1>2, <1>6 DEF PullNothing
<1>7. ASSUME NEW length \in Lengths, PullPacket(length)
      PROVE  TypeOK' /\ Ledger'
  <2>1. length \in 0..MaxLength
    BY RateAssumption
  <2>2. QED
    BY <1>4, <1>7, <2>1 DEF PullPacket
<1>8. CASE Wait
  <2>1. usec' \in 0..(UsecPerSec - 1)
    BY <1>1, <1>8 DEF Wait
  <2>2. QED
    BY <1>1, <1>8, <2>1 DEF Wait, TypeOK, Ledger, MaxNeed, need, ugap
<1>9. CASE NextSecond
  <2>1. /\ sec' = sec + 1 /\ usec' = 0 /\ sent_in_second' = 0 /\ sec < MaxSec
        /\ sec_count' = sec_count /\ tv_sec' = tv_sec /\ sent' = sent
        /\ first_sec' = first_sec
    BY <1>9 DEF NextSecond
  <2>2. TypeOK'
    BY <1>1, <2>1 DEF TypeOK, MaxNeed, need, ugap
  <2>3. QED
    BY <1>1, <2>1, <2>2 DEF Ledger
<1>10. CASE UNCHANGED vars
  BY <1>10 DEF vars, TypeOK, Ledger, MaxNeed, need, ugap, FirstPull
<1>11. QED
  BY <1>5, <1>6, <1>7, <1>8, <1>9, <1>10 DEF Next

(* The shaper starts in bounds and with balanced books. *)
LEMMA Initial == Init => TypeOK /\ Ledger
<1>1. 0 \in 0..(UsecPerSec - 1)
  BY RateAssumption
<1>2. MaxNeed \in Nat
  BY <1>1, NeedBounds
<1>3. QED
  BY <1>2, RateAssumption DEF Init, TypeOK, Ledger

(* The two together hold in every state. *)
THEOREM Invariance == Spec => [](TypeOK /\ Ledger)
BY Initial, Inductive, PTL DEF Spec

-----------------------------------------------------------------------------
(* GapRate's count stays between a second's credit and a second's worth    *)
(* with one packet more, so that the int never overflows.                  *)
THEOREM TypeCorrect == Spec => []TypeOK
BY Invariance, PTL

(* No clock second carries more than twice the rate and a packet.          *)
THEOREM SecondIsBounded == Spec => []SecondBounded
<1>1. TypeOK /\ Ledger => SecondBounded
  <2> SUFFICES ASSUME TypeOK, Ledger PROVE SecondBounded
    OBVIOUS
  <2>1. /\ Rate \in Nat /\ Rate > 0 /\ MaxLength \in Nat /\ MaxNeed \in Nat
        /\ sec_count \in Int /\ sec_count <= MaxNeed + MaxLength
        /\ sent_in_second \in Nat /\ sec \in Nat /\ tv_sec \in Int /\ tv_sec <= sec
    BY RateAssumption, NeedBounds DEF TypeOK
  <2>2. CASE tv_sec = sec
    BY <2>1, <2>2 DEF SecondBounded, Ledger
  <2>3. CASE tv_sec < sec
    BY <2>1, <2>3 DEF SecondBounded, Ledger
  <2>4. QED
    BY <2>1, <2>2, <2>3
<1>2. QED
  BY Invariance, <1>1, PTL

(* In the long run the throttled class gets the rate and no more.          *)
THEOREM LongRunIsRate == Spec => []LongRunRate
<1>1. TypeOK /\ Ledger => LongRunRate
  <2> SUFFICES ASSUME TypeOK, Ledger, tv_sec >= 0
               PROVE  sent <= Rate * (sec - first_sec) + MaxNeed + MaxLength
    BY DEF LongRunRate
  <2>1. /\ Rate \in Nat /\ MaxLength \in Nat /\ MaxNeed \in Nat
        /\ sec_count \in Int /\ sec_count <= MaxNeed + MaxLength
        /\ sent \in Nat /\ sec \in Nat /\ tv_sec \in 0..sec /\ first_sec \in 0..tv_sec
        /\ sent <= sec_count + Rate * (tv_sec - first_sec)
    BY RateAssumption, NeedBounds DEF TypeOK, Ledger
  <2>2. /\ tv_sec - first_sec \in Nat /\ sec - first_sec \in Nat
        /\ tv_sec - first_sec <= sec - first_sec
    BY <2>1
  <2>3. (tv_sec - first_sec) * Rate <= (sec - first_sec) * Rate
    BY <2>1, <2>2, TimesMonotone
  <2>4. /\ (tv_sec - first_sec) * Rate = Rate * (tv_sec - first_sec)
        /\ (sec - first_sec) * Rate = Rate * (sec - first_sec)
        /\ Rate * (tv_sec - first_sec) \in Int /\ Rate * (sec - first_sec) \in Int
    BY <2>1, <2>2
  <2>5. QED
    BY <2>1, <2>3, <2>4
<1>2. QED
  BY Invariance, <1>1, PTL

(* The throttled class gets its turn by the end of every second.           *)
THEOREM TurnEachSecond == Spec => []PermitsEachSecond
<1>1. TypeOK => PermitsEachSecond
  <2> SUFFICES ASSUME TypeOK, MaxLength <= Rate, tv_sec \in 0..(sec - 1),
                      usec = UsecPerSec - 1
               PROVE  NeedUpdate
    BY DEF PermitsEachSecond
  <2>1. /\ Rate \in Nat /\ Rate > 0 /\ MaxLength \in Nat /\ MaxNeed \in Nat
        /\ sec_count \in Int /\ sec_count <= MaxNeed + MaxLength
        /\ sec \in Nat /\ tv_sec \in Nat /\ tv_sec < sec
    BY RateAssumption, NeedBounds DEF TypeOK
  <2>2. need(usec) = MaxNeed
    BY DEF MaxNeed
  <2>3. Count = IF sec_count > 0 THEN sec_count - Rate ELSE sec_count
    BY <2>1 DEF Count, NewSecond
  <2>4. QED
    BY <2>1, <2>2, <2>3 DEF NeedUpdate
<1>2. QED
  BY Invariance, <1>1, PTL

=============================================================================
