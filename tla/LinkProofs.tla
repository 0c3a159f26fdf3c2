----------------------------- MODULE LinkProofs -----------------------------
(***************************************************************************)
(* Proofs about Link for every capacity, sleepiness trigger and number of  *)
(* packets.                                                                *)
(***************************************************************************)
EXTENDS Link, TLAPS

Numbers == Nat \ {0}

(* A queue with packets signals them: PrioSched and the task see only the  *)
(* signal.                                                                 *)
Awake == \A k \in Class : q[k] # <<>> => signal[k]

(* The task does not stop with a packet in hand or a signal up unless      *)
(* something else will start it.  NeverStalls alone is not preserved: a    *)
(* task that stopped under an active signal would miss the next push.      *)
Roused == held # {} \/ AnySignal => scheduled \/ selecting \/ timer

IInv == TypeOK /\ Awake /\ Roused

-----------------------------------------------------------------------------
(* Sequences of packet numbers.                                            *)

(* Appending adds one element and keeps an increasing sequence increasing  *)
(* when the new element is the largest.                                    *)
LEMMA Appended ==
  ASSUME NEW s \in Seq(Numbers), NEW x \in Numbers
  PROVE  /\ Append(s, x) \in Seq(Numbers)
         /\ Elements(Append(s, x)) = Elements(s) \cup {x}
         /\ Increasing(s) /\ (\A n \in Elements(s) : n < x) => Increasing(Append(s, x))
<1>1. /\ Append(s, x) \in Seq(Numbers)
      /\ Len(Append(s, x)) = Len(s) + 1
      /\ Len(s) \in Nat
      /\ DOMAIN s = 1..Len(s)
      /\ DOMAIN Append(s, x) = 1..(Len(s) + 1)
      /\ \A i \in 1..Len(s) : Append(s, x)[i] = s[i]
      /\ Append(s, x)[Len(s) + 1] = x
  OBVIOUS
<1>2. Elements(Append(s, x)) = Elements(s) \cup {x}
  BY <1>1 DEF Elements
<1>3. ASSUME Increasing(s), \A n \in Elements(s) : n < x
      PROVE  Increasing(Append(s, x))
  <2>1. SUFFICES ASSUME NEW i \in 1..(Len(s) + 1), NEW j \in 1..(Len(s) + 1), i < j
                 PROVE  Append(s, x)[i] < Append(s, x)[j]
    BY <1>1 DEF Increasing
  <2>2. i \in 1..Len(s)
    BY <1>1, <2>1
  <2>3. CASE j \in 1..Len(s)
    BY <1>1, <1>3, <2>1, <2>2, <2>3 DEF Increasing
  <2>4. CASE j = Len(s) + 1
    BY <1>1, <1>3, <2>2, <2>4 DEF Elements
  <2>5. QED
    BY <1>1, <2>3, <2>4
<1>4. QED
  BY <1>1, <1>2, <1>3

(* Taking the head off leaves the rest, and the head of an increasing      *)
(* sequence is below all of it.                                            *)
LEMMA Beheaded ==
  ASSUME NEW s \in Seq(Numbers), s # <<>>
  PROVE  /\ Head(s) \in Numbers
         /\ Tail(s) \in Seq(Numbers)
         /\ Len(Tail(s)) = Len(s) - 1
         /\ Elements(s) = {Head(s)} \cup Elements(Tail(s))
         /\ Increasing(s) => /\ Increasing(Tail(s))
                             /\ \A n \in Elements(Tail(s)) : Head(s) < n
<1>1. /\ Head(s) = s[1]
      /\ Head(s) \in Numbers
      /\ Tail(s) \in Seq(Numbers)
      /\ Len(s) \in Nat \ {0}
      /\ Len(Tail(s)) = Len(s) - 1
      /\ DOMAIN s = 1..Len(s)
      /\ DOMAIN Tail(s) = 1..(Len(s) - 1)
      /\ \A i \in 1..(Len(s) - 1) : Tail(s)[i] = s[i + 1]
  OBVIOUS
<1>2. Elements(s) = {Head(s)} \cup Elements(Tail(s))
  <2>1. \A i \in 1..Len(s) : i = 1 \/ (i - 1 \in 1..(Len(s) - 1) /\ s[i] = Tail(s)[i - 1])
    BY <1>1
  <2>2. \A i \in 1..(Len(s) - 1) : i + 1 \in 1..Len(s)
    BY <1>1
  <2>3. 1 \in 1..Len(s)
    BY <1>1
  <2>4. Elements(s) \subseteq {Head(s)} \cup Elements(Tail(s))
    <3>1. SUFFICES ASSUME NEW i \in 1..Len(s), s[i] # Head(s)
                   PROVE  s[i] \in Elements(Tail(s))
      BY <1>1 DEF Elements
    <3>2. i # 1
      BY <1>1, <3>1
    <3>3. i - 1 \in 1..(Len(s) - 1) /\ s[i] = Tail(s)[i - 1]
      BY <2>1, <3>2
    <3>4. QED
      BY <1>1, <3>3, Zenon DEF Elements
  <2>5. {Head(s)} \cup Elements(Tail(s)) \subseteq Elements(s)
    BY <1>1, <2>2, <2>3 DEF Elements
  <2>6. QED
    BY <2>4, <2>5
<1>3. ASSUME Increasing(s)
      PROVE  Increasing(Tail(s)) /\ \A n \in Elements(Tail(s)) : Head(s) < n
  <2>1. \A i \in 1..(Len(s) - 1) : i + 1 \in 1..Len(s) /\ 1 < i + 1
    BY <1>1
  <2>2. \A i, j \in 1..(Len(s) - 1) : i < j => i + 1 < j + 1
    BY <1>1
  <2>3. Increasing(Tail(s))
    BY <1>1, <1>3, <2>1, <2>2 DEF Increasing
  <2>4. 1 \in 1..Len(s)
    BY <1>1
  <2>5. \A i \in 1..(Len(s) - 1) : Head(s) < Tail(s)[i]
    BY <1>1, <1>3, <2>1, <2>4 DEF Increasing
  <2>6. QED
    BY <1>1, <2>3, <2>5 DEF Elements
<1>4. QED
  BY <1>1, <1>2, <1>3

-----------------------------------------------------------------------------
(* What a pull does.                                                       *)

(* At most one queue gives a packet, none while ToDevice holds one, and    *)
(* the throttled one only when the other is empty.                         *)
LEMMA OnePulled ==
  ASSUME TypeOK, Awake, NEW permits \in BOOLEAN
  PROVE  /\ Pulled(permits) \subseteq Class
         /\ held # {} => Pulled(permits) = {}
         /\ \A k1, k2 \in Pulled(permits) : k1 = k2
         /\ \A k \in Pulled(permits) : q[k] # <<>>
         /\ "throttled" \in Pulled(permits) => q["unthrottled"] = <<>>
BY DEF Pulled, Asked, Awake, Class

(* The packet in hand is one packet. *)
LEMMA OneInHand ==
  ASSUME TypeOK, Awake, NEW permits \in BOOLEAN
  PROVE  /\ InHand(permits) \subseteq Packet
         /\ \A p1, p2 \in InHand(permits) : p1 = p2
<1>1. \A k \in Pulled(permits) : k \in Class /\ Head(q[k]) \in Numbers
  BY OnePulled, Beheaded DEF TypeOK, Numbers
<1>2. InHand(permits) \subseteq Packet
  BY <1>1 DEF InHand, Packet, TypeOK, Numbers
<1>3. \A p1, p2 \in InHand(permits) : p1 = p2
  <2>1. \A p1, p2 \in held : p1 = p2
    BY DEF TypeOK
  <2>2. CASE held # {}
    BY <2>1, <2>2, OnePulled DEF InHand
  <2>3. CASE held = {}
    <3>1. SUFFICES ASSUME NEW p1 \in InHand(permits), NEW p2 \in InHand(permits)
                   PROVE  p1 = p2
      OBVIOUS
    <3>2. PICK k1 \in Pulled(permits) : p1 = [class |-> k1, num |-> Head(q[k1])]
      BY <2>3 DEF InHand
    <3>3. PICK k2 \in Pulled(permits) : p2 = [class |-> k2, num |-> Head(q[k2])]
      BY <2>3 DEF InHand
    <3>4. k1 = k2
      BY OnePulled
    <3>5. QED
      BY <3>2, <3>3, <3>4
  <2>4. QED
    BY <2>2, <2>3
<1>4. QED
  BY <1>2, <1>3

(* A pull keeps the queues' types, and a queue with packets signalling.    *)
LEMMA PullKeeps ==
  ASSUME TypeOK, Awake, NEW permits \in BOOLEAN, Pull(permits)
  PROVE  /\ q' \in [Class -> Seq(Numbers)]
         /\ \A k \in Class : Len(q'[k]) <= Capacity
         /\ signal' \in [Class -> BOOLEAN]
         /\ sleepiness' \in [Class -> 0..SleepinessTrigger]
         /\ Awake'
<1>1. \A k \in Class : q'[k] = IF k \in Pulled(permits) THEN Tail(q[k]) ELSE q[k]
  BY DEF Pull
<1>2. ASSUME NEW k \in Class
      PROVE  q'[k] \in Seq(Numbers) /\ Len(q'[k]) <= Capacity
  <2>1. q[k] \in Seq(Numbers) /\ Len(q[k]) \in Nat /\ Len(q[k]) <= Capacity /\ Capacity \in Nat
    BY LinkAssumption DEF TypeOK, Numbers
  <2>2. CASE k \in Pulled(permits)
    <3>1. q[k] # <<>>
      BY <2>2, OnePulled
    <3>2. Tail(q[k]) \in Seq(Numbers) /\ Len(Tail(q[k])) = Len(q[k]) - 1
      BY <2>1, <3>1, Beheaded
    <3>3. q'[k] = Tail(q[k])
      BY <1>1, <2>2
    <3>4. Len(q[k]) - 1 <= Capacity
      BY <2>1
    <3>5. QED
      BY <3>2, <3>3, <3>4
  <2>3. CASE k \notin Pulled(permits)
    BY <1>1, <2>1, <2>3
  <2>4. QED
    BY <2>2, <2>3
<1>3. q' \in [Class -> Seq(Numbers)]
  BY <1>2 DEF Pull
<1>4. signal' \in [Class -> BOOLEAN]
  BY Zenon DEF Pull
<1>5. sleepiness' \in [Class -> 0..SleepinessTrigger]
  <2>1. SUFFICES ASSUME NEW k \in Class
                 PROVE  sleepiness'[k] \in 0..SleepinessTrigger
    BY DEF Pull
  <2>2. sleepiness[k] \in 0..SleepinessTrigger /\ SleepinessTrigger \in Nat
    BY LinkAssumption DEF TypeOK
  <2>3. sleepiness'[k] = IF ~Asked(k, permits) \/ Sleepy(k, permits) THEN sleepiness[k]
                         ELSE IF q[k] # <<>> THEN 0 ELSE sleepiness[k] + 1
    BY DEF Pull
  <2>4. Asked(k, permits) /\ q[k] = <<>> /\ ~Sleepy(k, permits) => sleepiness[k] < SleepinessTrigger
    BY <2>2 DEF Sleepy
  <2>5. QED
    BY <2>2, <2>3, <2>4
<1>6. Awake'
  <2>1. SUFFICES ASSUME NEW k \in Class, q'[k] # <<>>
                 PROVE  signal'[k]
    BY DEF Awake
  <2>2. q[k] # <<>>
    BY <1>1, <2>1, OnePulled
  <2>3. signal[k] /\ ~Sleepy(k, permits)
    BY <2>2 DEF Awake, Sleepy
  <2>4. QED
    BY <2>3, Zenon DEF Pull
<1>7. QED
  BY <1>2, <1>3, <1>4, <1>5, <1>6

-----------------------------------------------------------------------------
(* Types, signals and wake-ups.                                            *)

(* At the start nothing waits and nothing is scheduled amiss. *)
(* At the start nothing waits and nothing is scheduled amiss. *)
LEMMA Initial == Init => IInv
<1>1. SUFFICES ASSUME Init PROVE IInv
  OBVIOUS
<1>2. TypeOK
  <2>1. <<>> \in Seq(Nat \ {0}) /\ Len(<<>>) = 0
    OBVIOUS
  <2>2. Capacity \in Nat /\ MaxPackets \in Nat /\ SleepinessTrigger \in Nat
    BY LinkAssumption
  <2>3. /\ arrived \in [Class -> 0..MaxPackets]
        /\ sleepiness \in [Class -> 0..SleepinessTrigger]
    BY <1>1, <2>2 DEF Init
  <2>4. /\ q \in [Class -> Seq(Nat \ {0})]
        /\ sent \in [Class -> Seq(Nat \ {0})]
        /\ \A k \in Class : Len(q[k]) <= Capacity
    BY <1>1, <2>1, <2>2 DEF Init
  <2>5. signal \in [Class -> BOOLEAN] /\ lost \in [Class -> SUBSET (Nat \ {0})]
    BY <1>1 DEF Init
  <2>6. QED
    BY <1>1, <2>3, <2>4, <2>5, Zenon DEF Init, TypeOK
<1>3. Awake /\ Roused
  BY <1>1 DEF Init, Awake, Roused
<1>4. QED
  BY <1>2, <1>3 DEF IInv

(* A push keeps the invariant: it wakes the task exactly when the signal   *)
(* was down.                                                               *)
LEMMA PushKeeps ==
  ASSUME IInv, NEW k \in Class, Push(k)
  PROVE  IInv'
<1>1. /\ arrived[k] \in 0..MaxPackets /\ MaxPackets \in Nat /\ Capacity \in Nat
      /\ arrived[k] < MaxPackets
      /\ arrived[k] + 1 \in Numbers
      /\ arrived[k] + 1 \in 0..MaxPackets
  BY LinkAssumption, SMTT(30) DEF IInv, TypeOK, Push, Numbers
<1>2. arrived' \in [Class -> 0..MaxPackets]
  BY <1>1 DEF IInv, TypeOK, Push
<1>3. UNCHANGED <<sleepiness, held, selecting, timer, backoff, sent>>
  BY DEF Push
<1>4. CASE Len(q[k]) < Capacity
  <2>1. /\ q' = [q EXCEPT ![k] = Append(@, arrived[k] + 1)]
        /\ scheduled' = (scheduled \/ ~signal[k])
        /\ signal' = [signal EXCEPT ![k] = TRUE]
        /\ lost' = lost
    BY <1>4 DEF Push, Woken, Signalled, HasRoom
  <2>2. /\ q[k] \in Seq(Numbers) /\ Len(q[k]) \in Nat
        /\ Append(q[k], arrived[k] + 1) \in Seq(Numbers)
        /\ Len(Append(q[k], arrived[k] + 1)) = Len(q[k]) + 1
    BY <1>1 DEF IInv, TypeOK, Numbers
  <2>3. Len(q[k]) + 1 <= Capacity
    BY <1>1, <1>4, <2>2
  <2>4. q' \in [Class -> Seq(Numbers)] /\ \A c \in Class : Len(q'[c]) <= Capacity
    BY <2>1, <2>2, <2>3 DEF IInv, TypeOK, Numbers
  <2>5. signal' \in [Class -> BOOLEAN] /\ scheduled' \in BOOLEAN
    BY <2>1 DEF IInv, TypeOK
  <2>6. TypeOK'
    BY <1>2, <1>3, <2>1, <2>4, <2>5 DEF IInv, TypeOK, Numbers
  <2>7. Awake'
    BY <2>1 DEF IInv, Awake, TypeOK
  <2>8. Roused'
    <3>1. CASE scheduled'
      BY <3>1 DEF Roused
    <3>2. CASE ~scheduled'
      <4>1. signal[k]
        BY <2>1, <3>2, Zenon
      <4>2. selecting \/ timer
        BY <2>1, <3>2, <4>1, Zenon DEF IInv, Roused, AnySignal
      <4>3. QED
        BY <1>3, <4>2 DEF Roused
    <3>3. QED
      BY <3>1, <3>2
  <2>9. QED
    BY <2>6, <2>7, <2>8 DEF IInv
<1>5. CASE ~(Len(q[k]) < Capacity)
  <2>1. lost' = [lost EXCEPT ![k] = @ \cup {arrived[k] + 1}] /\ UNCHANGED <<q, scheduled, signal>>
    BY <1>5 DEF Push, HasRoom
  <2>2. lost' \in [Class -> SUBSET Numbers]
    BY <1>1, <2>1 DEF IInv, TypeOK, Numbers
  <2>3. TypeOK'
    BY <1>2, <1>3, <2>1, <2>2 DEF IInv, TypeOK, Numbers
  <2>4. Awake'
    BY <2>1 DEF IInv, Awake
  <2>5. Roused'
    BY <1>3, <2>1 DEF IInv, Roused, AnySignal
  <2>6. QED
    BY <2>3, <2>4, <2>5 DEF IInv
<1>6. QED
  BY <1>4, <1>5

(* A run of the task keeps the invariant, however it ends. *)
LEMMA RunKeeps ==
  ASSUME IInv, NEW permits \in BOOLEAN,
         \/ RunNothing(permits) \/ RunSend(permits)
         \/ RunBusy(permits) \/ RunError(permits)
  PROVE  IInv'
<1>1. TypeOK /\ Awake /\ Pull(permits) /\ arrived' = arrived
  BY DEF IInv, RunNothing, RunSend, RunBusy, RunError
<1>2. /\ q' \in [Class -> Seq(Numbers)]
      /\ \A k \in Class : Len(q'[k]) <= Capacity
      /\ signal' \in [Class -> BOOLEAN]
      /\ sleepiness' \in [Class -> 0..SleepinessTrigger]
      /\ Awake'
  BY <1>1, PullKeeps
<1>3. /\ InHand(permits) \subseteq Packet
      /\ \A p1, p2 \in InHand(permits) : p1 = p2
  BY <1>1, OneInHand
<1>4. /\ arrived \in [Class -> 0..MaxPackets]
      /\ held \subseteq Packet /\ (\A p1, p2 \in held : p1 = p2)
      /\ selecting \in BOOLEAN /\ timer \in BOOLEAN /\ backoff \in BOOLEAN
      /\ sent \in [Class -> Seq(Numbers)]
      /\ lost \in [Class -> SUBSET Numbers]
  BY <1>1 DEF TypeOK, Numbers
<1>5. AnySignal' \in BOOLEAN
  BY DEF AnySignal
<1>6. CASE RunNothing(permits)
  <2>1. scheduled' = AnySignal' /\ UNCHANGED <<held, selecting, timer, backoff, sent, lost>>
    BY <1>6 DEF RunNothing, device_vars
  <2>2. held' = {}
    BY <1>6, <2>1 DEF RunNothing, InHand
  <2>3. TypeOK'
    BY <1>1, <1>2, <1>4, <1>5, <2>1 DEF TypeOK, Numbers
  <2>4. Roused'
    BY <2>1, <2>2 DEF Roused
  <2>5. QED
    BY <1>2, <2>3, <2>4 DEF IInv
<1>7. CASE RunSend(permits)
  <2>1. PICK p \in InHand(permits) : sent' = [sent EXCEPT ![p.class] = Append(@, p.num)]
    BY <1>7, Zenon DEF RunSend
  <2>2. /\ held' = {} /\ backoff' = FALSE /\ scheduled' = AnySignal'
        /\ UNCHANGED <<selecting, timer, lost>>
    BY <1>7 DEF RunSend
  <2>3. p.class \in Class /\ p.num \in Numbers
    BY <1>3 DEF Packet, Numbers
  <2>4. Append(sent[p.class], p.num) \in Seq(Numbers)
    BY <1>4, <2>3, Appended
  <2>5. sent' \in [Class -> Seq(Numbers)]
    BY <1>4, <2>1, <2>3, <2>4
  <2>6. TypeOK'
    BY <1>1, <1>2, <1>4, <1>5, <2>2, <2>5, Zenon DEF TypeOK, Numbers
  <2>7. Roused'
    BY <2>2 DEF Roused
  <2>8. QED
    BY <1>2, <2>6, <2>7 DEF IInv
<1>8. CASE RunBusy(permits)
  <2>1. /\ held' = InHand(permits)
        /\ selecting' = (selecting \/ ~backoff)
        /\ timer' = (timer \/ backoff)
        /\ backoff' = TRUE
        /\ scheduled' = FALSE
        /\ UNCHANGED <<sent, lost>>
    BY <1>8 DEF RunBusy, HeldBack, TimerAfterBusy
  <2>2. selecting' \in BOOLEAN /\ timer' \in BOOLEAN
    BY <2>1
  <2>3. TypeOK'
    BY <1>1, <1>2, <1>3, <1>4, <2>1, <2>2, Zenon DEF TypeOK, Numbers
  <2>4. Roused'
    BY <2>1, Zenon DEF Roused
  <2>5. QED
    BY <1>2, <2>3, <2>4 DEF IInv
<1>9. CASE RunError(permits)
  <2>1. PICK p \in InHand(permits) : lost' = [lost EXCEPT ![p.class] = @ \cup {p.num}]
    BY <1>9, Zenon DEF RunError
  <2>2. held' = {} /\ scheduled' = TRUE /\ UNCHANGED <<selecting, timer, backoff, sent>>
    BY <1>9 DEF RunError
  <2>3. p.class \in Class /\ p.num \in Numbers
    BY <1>3 DEF Packet, Numbers
  <2>4. lost' \in [Class -> SUBSET Numbers]
    BY <1>4, <2>1, <2>3
  <2>5. TypeOK'
    BY <1>1, <1>2, <1>4, <2>2, <2>4 DEF TypeOK, Numbers
  <2>6. Roused'
    BY <2>2 DEF Roused
  <2>7. QED
    BY <1>2, <2>5, <2>6 DEF IInv
<1>10. QED
  BY <1>6, <1>7, <1>8, <1>9

(* Select and the timer only start the task. *)
LEMMA CallbacksKeep ==
  ASSUME IInv, Selected \/ TimerFires
  PROVE  IInv'
<1>1. scheduled' = TRUE /\ selecting' \in BOOLEAN /\ timer' \in BOOLEAN
  BY Zenon DEF IInv, TypeOK, Selected, TimerFires
<1>2. UNCHANGED <<arrived, q, signal, sleepiness, held, backoff, sent, lost>>
  BY DEF Selected, TimerFires
<1>3. TypeOK'
  BY <1>1, <1>2 DEF IInv, TypeOK
<1>4. Awake' /\ Roused'
  BY <1>1, <1>2 DEF IInv, Awake, Roused
<1>5. QED
  BY <1>3, <1>4 DEF IInv

(* Every step of the link keeps the inductive invariant. *)
(* Every step of the link keeps the inductive invariant. *)
LEMMA Inductive == IInv /\ [Next]_vars => IInv'
<1>1. SUFFICES ASSUME IInv, [Next]_vars PROVE IInv'
  OBVIOUS
<1>2. CASE \E k \in Class : Push(k)
  BY <1>1, <1>2, PushKeeps
<1>3. CASE RunTask
  BY <1>1, <1>3, RunKeeps DEF RunTask
<1>4. CASE Selected \/ TimerFires
  BY <1>1, <1>4, CallbacksKeep
<1>5. CASE UNCHANGED vars
  BY <1>1, <1>5 DEF IInv, TypeOK, Awake, Roused, AnySignal, vars
<1>6. QED
  BY <1>1, <1>2, <1>3, <1>4, <1>5 DEF Next

(* The inductive invariant holds in every reachable state. *)
THEOREM Invariance == Spec => []IInv
BY Initial, Inductive, PTL DEF Spec

(* TypeOK: the members have their types, no queue exceeds its capacity and *)
(* ToDevice holds at most one packet.                                      *)
THEOREM TypeCorrect == Spec => []TypeOK
<1>1. IInv => TypeOK
  BY DEF IInv
<1>2. QED
  BY <1>1, Invariance, PTL

(* NeverStalls: ToDevice::run_task() never stops for good with a packet    *)
(* waiting.                                                                *)
THEOREM NoLostWakeUp == Spec => []NeverStalls
<1>1. IInv => NeverStalls
  BY DEF IInv, Awake, Roused, AnySignal, NeverStalls
<1>2. QED
  BY <1>1, Invariance, PTL

(* PriorityKept: PrioSched::pull() takes a throttled packet only when no   *)
(* unthrottled one is queued.                                              *)
THEOREM UnthrottledFirst == Spec => PriorityKept
<1>1. ASSUME IInv, [Next]_vars, Len(q'["throttled"]) < Len(q["throttled"])
      PROVE  q["unthrottled"] = <<>>
  <2>1. TypeOK /\ Awake /\ "throttled" \in Class /\ Len(q["throttled"]) \in Nat
    BY <1>1, SMTT(30) DEF IInv, TypeOK, Class
  <2>2. CASE \E k \in Class : Push(k)
    <3>1. PICK k \in Class : Push(k)
      BY <2>2
    <3>2. Len(q'["throttled"]) >= Len(q["throttled"])
      <4>1. CASE q' = q
        BY <2>1, <4>1
      <4>2. CASE q' = [q EXCEPT ![k] = Append(@, arrived[k] + 1)]
        <5>1. arrived[k] + 1 \in Numbers /\ q[k] \in Seq(Numbers)
          BY <1>1 DEF IInv, TypeOK, Numbers
        <5>2. Len(Append(q[k], arrived[k] + 1)) = Len(q[k]) + 1
          BY <5>1
        <5>3. q'["throttled"] = IF k = "throttled" THEN Append(q[k], arrived[k] + 1)
                                ELSE q["throttled"]
          BY <1>1, <4>2 DEF IInv, TypeOK, Class
        <5>4. QED
          BY <2>1, <5>2, <5>3
      <4>3. QED
        BY <3>1, <4>1, <4>2 DEF Push
    <3>3. QED
      BY <1>1, <2>1, <3>2 DEF IInv, TypeOK
  <2>3. CASE RunTask
    <3>1. PICK permits \in BOOLEAN : Pull(permits)
      BY <2>3 DEF RunTask, RunNothing, RunSend, RunBusy, RunError
    <3>2. "throttled" \in Pulled(permits)
      BY <1>1, <2>1, <3>1 DEF Pull
    <3>3. QED
      BY <2>1, <3>2, OnePulled
  <2>4. CASE Selected \/ TimerFires \/ UNCHANGED vars
    <3>1. q' = q
      BY <2>4 DEF Selected, TimerFires, vars
    <3>2. QED
      BY <1>1, <2>1, <3>1
  <2>5. QED
    BY <1>1, <2>2, <2>3, <2>4 DEF Next
<1>2. IInv /\ [Next]_vars
        => [Len(q'["throttled"]) < Len(q["throttled"]) => q["unthrottled"] = <<>>]_vars
  BY <1>1
<1>3. QED
  BY <1>2, Invariance, PTL DEF Spec, PriorityKept

-----------------------------------------------------------------------------
(* The order of arrival.                                                   *)

(* InOrder for one class: s was sent, H is held, w waits and L is lost of  *)
(* the first a packets.                                                    *)
Order(s, H, w, L, a) ==
  /\ Increasing(s)
  /\ Increasing(w)
  /\ \A m \in Elements(s), n \in H \cup Elements(w) : m < n
  /\ \A m \in H, n \in Elements(w) : m < n
  /\ Elements(s) \cup H \cup Elements(w) = 1..a \ L
  /\ L \subseteq 1..a

(* A packet that arrives is queued behind all others, or lost. *)
LEMMA OrderArrive ==
  ASSUME NEW s \in Seq(Numbers), NEW H, NEW w \in Seq(Numbers), NEW L, NEW a \in Nat,
         Order(s, H, w, L, a)
  PROVE  /\ Order(s, H, Append(w, a + 1), L, a + 1)
         /\ Order(s, H, w, L \cup {a + 1}, a + 1)
<1>1. /\ a + 1 \in Numbers
      /\ 1..(a + 1) = 1..a \cup {a + 1}
      /\ \A n \in 1..a : n < a + 1
      /\ a + 1 \notin 1..a
  BY DEF Numbers
<1>2. \A n \in Elements(s) \cup H \cup Elements(w) : n < a + 1
  BY <1>1 DEF Order
<1>3. /\ Elements(Append(w, a + 1)) = Elements(w) \cup {a + 1}
      /\ Increasing(Append(w, a + 1))
  BY <1>1, <1>2, Appended DEF Order
<1>4. a + 1 \notin L
  BY <1>1 DEF Order
<1>5. Order(s, H, Append(w, a + 1), L, a + 1)
  <2>1. Elements(s) \cup H \cup Elements(Append(w, a + 1)) = 1..(a + 1) \ L
    BY <1>1, <1>3, <1>4 DEF Order
  <2>2. \A m \in Elements(s), n \in H \cup Elements(Append(w, a + 1)) : m < n
    BY <1>2, <1>3 DEF Order
  <2>3. \A m \in H, n \in Elements(Append(w, a + 1)) : m < n
    BY <1>2, <1>3 DEF Order
  <2>4. QED
    BY <1>1, <1>3, <2>1, <2>2, <2>3 DEF Order
<1>6. Order(s, H, w, L \cup {a + 1}, a + 1)
  BY <1>1 DEF Order
<1>7. QED
  BY <1>5, <1>6

(* The head of a queue can be taken in hand when nothing is held. *)
LEMMA OrderPull ==
  ASSUME NEW s \in Seq(Numbers), NEW w \in Seq(Numbers), NEW L, NEW a \in Nat,
         w # <<>>, Order(s, {}, w, L, a)
  PROVE  Order(s, {Head(w)}, Tail(w), L, a)
<1>1. /\ Elements(w) = {Head(w)} \cup Elements(Tail(w))
      /\ Increasing(Tail(w))
      /\ \A n \in Elements(Tail(w)) : Head(w) < n
  BY Beheaded DEF Order
<1>2. QED
  BY <1>1 DEF Order

(* What is in hand can be sent, or lost. *)
LEMMA OrderLeave ==
  ASSUME NEW s \in Seq(Numbers), NEW n \in Numbers, NEW w \in Seq(Numbers), NEW L,
         NEW a \in Nat, Order(s, {n}, w, L, a)
  PROVE  /\ Order(Append(s, n), {}, w, L, a)
         /\ Order(s, {}, w, L \cup {n}, a)
<1>1. /\ Elements(Append(s, n)) = Elements(s) \cup {n}
      /\ Increasing(Append(s, n))
  BY Appended DEF Order
<1>2. Order(Append(s, n), {}, w, L, a)
  BY <1>1 DEF Order
<1>3. n \notin Elements(s) /\ n \notin Elements(w)
  <2>1. ~(n < n)
    BY DEF Numbers
  <2>2. QED
    BY <2>1 DEF Order
<1>4. Elements(s) \cup Elements(w) = 1..a \ (L \cup {n})
  BY <1>3 DEF Order
<1>5. L \cup {n} \subseteq 1..a
  BY Zenon DEF Order
<1>6. Order(s, {}, w, L \cup {n}, a)
  BY <1>4, <1>5 DEF Order
<1>7. QED
  BY <1>2, <1>6

(* The numbers of a class among packets P. *)
OfClass(P, k) == {p.num : p \in {h \in P : h.class = k}}

(* Taking a packet in hand keeps the order of its class. *)
LEMMA PullOrders ==
  ASSUME TypeOK, Awake, NEW permits \in BOOLEAN, Pull(permits), NEW k \in Class,
         Order(sent[k], OfClass(held, k), q[k], lost[k], arrived[k])
  PROVE  Order(sent[k], OfClass(InHand(permits), k), q'[k], lost[k], arrived[k])
<1>1. q'[k] = IF k \in Pulled(permits) THEN Tail(q[k]) ELSE q[k]
  BY DEF Pull
<1>2. CASE k \notin Pulled(permits)
  <2>1. OfClass(InHand(permits), k) = OfClass(held, k)
    BY <1>2 DEF OfClass, InHand
  <2>2. QED
    BY <1>1, <1>2, <2>1
<1>3. CASE k \in Pulled(permits)
  <2>1. held = {} /\ Pulled(permits) = {k} /\ q[k] # <<>>
    BY <1>3, OnePulled
  <2>2. InHand(permits) = {[class |-> k, num |-> Head(q[k])]}
    BY <2>1 DEF InHand
  <2>3. OfClass(InHand(permits), k) = {Head(q[k])} /\ OfClass(held, k) = {}
    <3>1. OfClass(held, k) = {}
      BY <2>1 DEF OfClass
    <3>2. {h \in InHand(permits) : h.class = k} = InHand(permits)
      BY <2>2
    <3>3. [class |-> k, num |-> Head(q[k])].num = Head(q[k])
      OBVIOUS
    <3>4. \A r : {p.num : p \in {r}} = {r.num}
      OBVIOUS
    <3>5. OfClass(InHand(permits), k) = {p.num : p \in {[class |-> k, num |-> Head(q[k])]}}
      BY <2>2, <3>2 DEF OfClass
    <3>6. OfClass(InHand(permits), k) = {Head(q[k])}
      BY <3>3, <3>4, <3>5
    <3>7. QED
      BY <3>1, <3>6
  <2>4. /\ sent[k] \in Seq(Numbers) /\ q[k] \in Seq(Numbers)
        /\ arrived[k] \in Nat
    BY LinkAssumption DEF TypeOK, Numbers
  <2>5. Order(sent[k], {}, q[k], lost[k], arrived[k])
    BY <2>3
  <2>6. Order(sent[k], {Head(q[k])}, Tail(q[k]), lost[k], arrived[k])
    BY <2>1, <2>4, <2>5, OrderPull
  <2>7. q'[k] = Tail(q[k])
    BY <1>1, <1>3
  <2>8. QED
    BY <2>3, <2>6, <2>7
<1>4. QED
  BY <1>2, <1>3

Ordered ==
  \A k \in Class : Order(sent[k], OfClass(held, k), q[k], lost[k], arrived[k])

(* Ordered is InOrder, by name. *)
LEMMA OrderedIsInOrder == Ordered <=> InOrder
BY SMTT(30) DEF Ordered, InOrder, Order, OfClass, HeldOf

(* Every step of the link keeps the packets of a class in their order. *)
(* Every step of the link keeps the packets of a class in their order. *)
LEMMA OrderedInductive == IInv /\ Ordered /\ [Next]_vars => Ordered'
<1>1. SUFFICES ASSUME IInv, Ordered, [Next]_vars, NEW k \in Class
               PROVE  Order(sent'[k], OfClass(held', k), q'[k], lost'[k], arrived'[k])
  BY DEF Ordered
<1>2. /\ TypeOK /\ Awake
      /\ sent[k] \in Seq(Numbers) /\ q[k] \in Seq(Numbers) /\ arrived[k] \in Nat
      /\ Order(sent[k], OfClass(held, k), q[k], lost[k], arrived[k])
  BY <1>1, LinkAssumption DEF IInv, TypeOK, Numbers, Ordered
<1>3. ASSUME NEW c \in Class, Push(c)
      PROVE  Order(sent'[k], OfClass(held', k), q'[k], lost'[k], arrived'[k])
  <2>1. sent' = sent /\ held' = held
    BY <1>3 DEF Push
  <2>2. CASE c # k
    <3>1. q'[k] = q[k] /\ lost'[k] = lost[k] /\ arrived'[k] = arrived[k]
      BY <1>2, <1>3, <2>2 DEF Push, TypeOK
    <3>2. QED
      BY <1>2, <2>1, <3>1
  <2>3. CASE c = k
    <3>1. arrived'[k] = arrived[k] + 1
      BY <1>2, <1>3, <2>3 DEF Push, TypeOK
    <3>2. \/ q'[k] = Append(q[k], arrived[k] + 1) /\ lost'[k] = lost[k]
          \/ q'[k] = q[k] /\ lost'[k] = lost[k] \cup {arrived[k] + 1}
      BY <1>2, <1>3, <2>3, SMTT(30) DEF Push, TypeOK
    <3>3. /\ Order(sent[k], OfClass(held, k), Append(q[k], arrived[k] + 1), lost[k],
                   arrived[k] + 1)
          /\ Order(sent[k], OfClass(held, k), q[k], lost[k] \cup {arrived[k] + 1},
                   arrived[k] + 1)
      BY <1>2, OrderArrive, Zenon
    <3>4. sent'[k] = sent[k] /\ OfClass(held', k) = OfClass(held, k)
      BY <2>1
    <3>5. QED
      BY <3>1, <3>2, <3>3, <3>4, Zenon
  <2>4. QED
    BY <2>2, <2>3
<1>4. ASSUME NEW permits \in BOOLEAN,
             \/ RunNothing(permits) \/ RunSend(permits)
             \/ RunBusy(permits) \/ RunError(permits)
      PROVE  Order(sent'[k], OfClass(held', k), q'[k], lost'[k], arrived'[k])
  <2>1. Pull(permits) /\ arrived' = arrived
    BY <1>4 DEF RunNothing, RunSend, RunBusy, RunError
  <2>2. Order(sent[k], OfClass(InHand(permits), k), q'[k], lost[k], arrived[k])
    BY <1>2, <2>1, PullOrders
  <2>3. /\ InHand(permits) \subseteq Packet
        /\ \A p1, p2 \in InHand(permits) : p1 = p2
    BY <1>2, OneInHand
  <2>4. q'[k] \in Seq(Numbers)
    BY <1>2, <2>1, PullKeeps
  <2>5. CASE RunNothing(permits)
    <3>1. held' = InHand(permits) /\ sent' = sent /\ lost' = lost
      BY <2>5 DEF RunNothing, InHand, device_vars
    <3>2. QED
      BY <2>1, <2>2, <3>1, SMTT(30)
  <2>6. CASE RunBusy(permits)
    <3>1. held' = InHand(permits) /\ sent' = sent /\ lost' = lost
      BY <2>6 DEF RunBusy, HeldBack
    <3>2. QED
      BY <2>1, <2>2, <3>1
  <2>7. ASSUME NEW p \in InHand(permits), held' = {},
               \/ sent' = [sent EXCEPT ![p.class] = Append(@, p.num)] /\ lost' = lost
               \/ sent' = sent /\ lost' = [lost EXCEPT ![p.class] = @ \cup {p.num}]
        PROVE  Order(sent'[k], OfClass(held', k), q'[k], lost'[k], arrived'[k])
    <3>1. InHand(permits) = {p} /\ p.class \in Class /\ p.num \in Numbers
      BY <2>3, <2>7 DEF Packet, Numbers
    <3>2. OfClass(held', k) = {}
      BY <2>7 DEF OfClass
    <3>3. CASE p.class # k
      <4>1. OfClass(InHand(permits), k) = {}
        BY <3>1, <3>3 DEF OfClass
      <4>2. sent'[k] = sent[k] /\ lost'[k] = lost[k]
        BY <1>2, <2>7, <3>3, SMTT(30) DEF TypeOK
      <4>3. QED
        BY <2>1, <2>2, <3>2, <4>1, <4>2
    <3>4. CASE p.class = k
      <4>1. OfClass(InHand(permits), k) = {p.num}
        BY <3>1, <3>4 DEF OfClass
      <4>2. \/ sent'[k] = Append(sent[k], p.num) /\ lost'[k] = lost[k]
            \/ sent'[k] = sent[k] /\ lost'[k] = lost[k] \cup {p.num}
        BY <1>2, <2>7, <3>4 DEF TypeOK
      <4>3. Order(sent[k], {p.num}, q'[k], lost[k], arrived[k])
        BY <2>2, <4>1
      <4>4. /\ Order(Append(sent[k], p.num), {}, q'[k], lost[k], arrived[k])
            /\ Order(sent[k], {}, q'[k], lost[k] \cup {p.num}, arrived[k])
        BY <1>2, <2>4, <3>1, <4>3, OrderLeave, Zenon
      <4>5. arrived'[k] = arrived[k]
        BY <2>1
      <4>6. QED
        BY <3>2, <4>2, <4>4, <4>5, Zenon
    <3>5. QED
      BY <3>3, <3>4
  <2>8. CASE RunSend(permits) \/ RunError(permits)
    BY <2>7, <2>8 DEF RunSend, RunError
  <2>9. QED
    BY <1>4, <2>5, <2>6, <2>8
<1>5. CASE Selected \/ TimerFires \/ UNCHANGED vars
  <2>1. UNCHANGED <<sent, held, q, lost, arrived>>
    BY <1>5 DEF Selected, TimerFires, vars
  <2>2. QED
    BY <1>2, <2>1
<1>6. QED
  BY <1>1, <1>3, <1>4, <1>5 DEF Next, RunTask

(* InOrder: no packet is duplicated, overtaken or forgotten between the    *)
(* Classifier's outputs and the device, a refused one included.            *)
THEOREM OrderKept == Spec => []InOrder
<1>1. Init => Ordered
  <2>1. SUFFICES ASSUME Init, NEW k \in Class
                 PROVE  Order(sent[k], OfClass(held, k), q[k], lost[k], arrived[k])
    BY DEF Ordered
  <2>2. sent[k] = <<>> /\ held = {} /\ q[k] = <<>> /\ lost[k] = {} /\ arrived[k] = 0
    BY <2>1 DEF Init
  <2>3. Elements(<<>>) = {} /\ Increasing(<<>>) /\ 1..0 = {}
    BY DEF Elements, Increasing
  <2>4. QED
    BY <2>2, <2>3 DEF Order, OfClass
<1>2. Ordered => InOrder
  BY OrderedIsInOrder
<1>3. QED
  BY <1>1, <1>2, OrderedInductive, Invariance, PTL DEF Spec

-----------------------------------------------------------------------------
(* Link implements Direction.                                              *)

(* Taking a packet in hand is an offer: the one held, or the first of the  *)
(* one queue that PrioSched pulled.                                        *)
LEMMA PullOffers ==
  ASSUME TypeOK, Awake, NEW permits \in BOOLEAN, Pull(permits),
         NEW p \in InHand(permits)
  PROVE  /\ D!Offer(p)
         /\ p \in held \cup {D!First(k) : k \in {c \in Class : D!Eligible(c)}}
<1>1. \A k \in Class : q'[k] = IF k \in Pulled(permits) THEN Tail(q[k]) ELSE q[k]
  BY DEF Pull
<1>2. q \in [Class -> Seq(Numbers)] /\ q' = [k \in Class |-> q'[k]]
  BY DEF TypeOK, Pull, Numbers
<1>3. CASE p \in held
  <2>1. Pulled(permits) = {}
    BY <1>3, OnePulled
  <2>2. q' = q
    BY <1>1, <1>2, <2>1
  <2>3. QED
    BY <1>3, <2>2 DEF D!Offer
<1>4. CASE p \notin held
  <2>1. PICK k \in Pulled(permits) : p = [class |-> k, num |-> Head(q[k])]
    BY <1>4 DEF InHand
  <2>2. /\ k \in Class /\ held = {} /\ q[k] # <<>>
        /\ k = "throttled" => q["unthrottled"] = <<>>
        /\ Pulled(permits) = {k}
    BY OnePulled
  <2>3. q' = [q EXCEPT ![k] = Tail(@)]
    BY <1>1, <1>2, <2>2
  <2>4. D!Eligible(k) /\ p = D!First(k)
    BY <2>1, <2>2 DEF D!Eligible, D!First
  <2>5. QED
    BY <2>2, <2>3, <2>4, Zenon DEF D!Offer
<1>5. QED
  BY <1>3, <1>4

(* Every step of the link is a step of the direction, or none. *)
(* Every step of the link is a step of the direction, or none. *)
LEMMA StepImplements == IInv /\ [Next]_vars => [D!Next]_(D!vars)
<1>1. SUFFICES ASSUME IInv, [Next]_vars PROVE [D!Next]_(D!vars)
  OBVIOUS
<1>2. TypeOK /\ Awake
  BY <1>1 DEF IInv
<1>3. ASSUME NEW k \in Class, Push(k) PROVE D!Arrive(k)
  BY <1>3 DEF Push, HasRoom, D!Arrive
<1>4. ASSUME NEW permits \in BOOLEAN,
             \/ RunNothing(permits) \/ RunSend(permits)
             \/ RunBusy(permits) \/ RunError(permits)
      PROVE  D!Serve \/ UNCHANGED D!vars
  <2>1. Pull(permits) /\ arrived' = arrived
    BY <1>4 DEF RunNothing, RunSend, RunBusy, RunError
  <2>2. CASE RunNothing(permits)
    <3>1. Pulled(permits) = {}
      BY <2>2, Zenon DEF RunNothing, InHand
    <3>2. q' = q
      BY <1>2, <2>1, <3>1 DEF Pull, TypeOK
    <3>3. QED
      BY <2>1, <2>2, <3>2 DEF RunNothing, device_vars, D!vars
  <2>3. ASSUME NEW p \in InHand(permits), D!Deliver(p) \/ D!Refuse(p) \/ D!Spoil(p)
        PROVE  D!Serve
    BY <1>2, <2>1, <2>3, PullOffers DEF D!Serve
  <2>4. CASE RunSend(permits)
    <3>1. PICK p \in InHand(permits) : sent' = [sent EXCEPT ![p.class] = Append(@, p.num)]
      BY <2>4, Zenon DEF RunSend
    <3>2. D!Deliver(p)
      BY <2>4, <3>1, Zenon DEF RunSend, D!Deliver
    <3>3. QED
      BY <2>3, <3>2
  <2>5. CASE RunBusy(permits)
    <3>1. PICK p \in InHand(permits) : TRUE
      BY <2>5 DEF RunBusy
    <3>2. InHand(permits) = {p}
      BY <1>2, <3>1, OneInHand
    <3>3. D!Refuse(p)
      BY <2>5, <3>2 DEF RunBusy, HeldBack, D!Refuse
    <3>4. QED
      BY <2>3, <3>3
  <2>6. CASE RunError(permits)
    <3>1. PICK p \in InHand(permits) : lost' = [lost EXCEPT ![p.class] = @ \cup {p.num}]
      BY <2>6, Zenon DEF RunError
    <3>2. D!Spoil(p)
      BY <2>6, <3>1, Zenon DEF RunError, D!Spoil
    <3>3. QED
      BY <2>3, <3>2
  <2>7. QED
    BY <1>4, <2>2, <2>4, <2>5, <2>6
<1>5. CASE Selected \/ TimerFires \/ UNCHANGED vars
  BY <1>5 DEF Selected, TimerFires, vars, D!vars
<1>6. QED
  BY <1>1, <1>3, <1>4, <1>5 DEF Next, RunTask, D!Next

(* ImplementsDirection: with the signals, the task, select and the timer   *)
(* hidden, queues, PrioSched and ToDevice behave as two bounded queues     *)
(* with strict priority.                                                   *)
THEOREM DirectionImplemented == Spec => ImplementsDirection
<1>1. Init => D!Init
  BY DEF Init, D!Init
<1>2. QED
  BY <1>1, StepImplements, Invariance, PTL DEF Spec, D!Spec, ImplementsDirection

=============================================================================
