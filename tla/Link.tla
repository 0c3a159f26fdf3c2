-------------------------------- MODULE Link --------------------------------
(***************************************************************************)
(* One direction of sandbox_tester.click behind a Classifier: a Queue for  *)
(* each of its outputs, a BandwidthShaper after the throttled one, a       *)
(* PrioSched that prefers the unthrottled one, and the ToDevice whose task *)
(* pulls the packets through.  The configured driver has one thread, so    *)
(* that a push into a queue, a run of the task, a timer and a select       *)
(* callback are each one action.                                           *)
(*                                                                         *)
(* ToDevice pulls only while its task is scheduled.  The task stops itself *)
(* when no queue has signalled packets (a queue signals them until ten     *)
(* pulls in a row have found it empty) and when the device is out of       *)
(* buffers; a queue's wake-up, a select or a timer start it again.         *)
(*                                                                         *)
(* Left out: the queues' nonfull notifiers, which nobody listens to here,  *)
(* and the amount of a backoff, of which only being nonzero matters.       *)
(* Whether the shaper lets a packet through is module Shaper's business;   *)
(* here it may say either at any time.                                     *)
(***************************************************************************)
EXTENDS Integers, Sequences

CONSTANTS
  Capacity,             \* CAPACITY of the queues (80000000)
  SleepinessTrigger,    \* SLEEPINESS_TRIGGER (9)
  MaxPackets            \* bound: packets that arrive in each class

ASSUME LinkAssumption ==
  /\ Capacity \in Nat \ {0}
  /\ SleepinessTrigger \in Nat
  /\ MaxPackets \in Nat

Class == {"throttled", "unthrottled"}

VARIABLES
  arrived,              \* history: packets of each class so far, numbered from 1
  q,                    \* the packets in each queue
  signal,               \* whether a queue's _empty_note is active
  sleepiness,           \* _sleepiness of each queue
  held,                 \* _q of ToDevice: the packet that could not be sent
  scheduled,            \* whether ToDevice's task is scheduled
  selecting,            \* add_select(_fd, SELECT_WRITE) is in force
  timer,                \* the backoff timer is running
  backoff,              \* whether _backoff is not zero
  sent,                 \* history: what was sent of each class, in order
  lost                  \* history: overflows of a queue and errors of the device

vars == <<arrived, q, signal, sleepiness, held, scheduled, selecting, timer,
          backoff, sent, lost>>

device_vars == <<held, selecting, timer, backoff, sent, lost>>

Packet == [class: Class, num: Nat \ {0}]

-----------------------------------------------------------------------------
(* FullNoteQueue::push(), called by the Classifier.                        *)

(* Mutant of Woken: the listener is not told. *)
WokenForgotten(k) == scheduled

(* Making an inactive signal active reschedules the task listening to it.  *)
Woken(k) == scheduled \/ ~signal[k]

(* Mutant of Signalled: a push does not wake the notifier. *)
SignalledForgotten(k) == signal

Signalled(k) == [signal EXCEPT ![k] = TRUE]

(* Mutant of HasRoom: the ring's spare slot is taken for a packet's. *)
HasRoomLess(k) == Len(q[k]) + 1 < Capacity

(* The ring has a slot more than the capacity. *)
HasRoom(k) == Len(q[k]) < Capacity

Push(k) ==
  /\ arrived[k] < MaxPackets
  /\ arrived' = [arrived EXCEPT ![k] = @ + 1]
  /\ IF HasRoom(k)
     THEN /\ q' = [q EXCEPT ![k] = Append(@, arrived[k] + 1)]
          /\ scheduled' = Woken(k)
          /\ signal' = Signalled(k)
          /\ UNCHANGED lost
     ELSE /\ lost' = [lost EXCEPT ![k] = @ \cup {arrived[k] + 1}]
          /\ UNCHANGED <<q, scheduled, signal>>
  /\ UNCHANGED <<sleepiness, held, selecting, timer, backoff, sent>>

-----------------------------------------------------------------------------
(* input(0).pull() of ToDevice: PrioSched asks its inputs in turn, the     *)
(* unthrottled queue first; the throttled one only if the shaper permits.  *)

Asked(k, permits) ==
  /\ held = {}
  /\ signal[k]
  /\ k = "throttled" => permits /\ ~(signal["unthrottled"] /\ q["unthrottled"] # <<>>)

Pulled(permits) == {k \in Class : Asked(k, permits) /\ q[k] # <<>>}

(* Mutant of Sleepy: the count may pass the trigger. *)
SleepyLate(k, permits) ==
  Asked(k, permits) /\ q[k] = <<>> /\ sleepiness[k] > SleepinessTrigger

(* pull_failure() of a queue that was found empty too often. *)
Sleepy(k, permits) ==
  Asked(k, permits) /\ q[k] = <<>> /\ sleepiness[k] >= SleepinessTrigger

Pull(permits) ==
  /\ q' = [k \in Class |-> IF k \in Pulled(permits) THEN Tail(q[k]) ELSE q[k]]
  /\ signal' = [k \in Class |-> signal[k] /\ ~Sleepy(k, permits)]
  /\ sleepiness' =
       [k \in Class |->
          IF ~Asked(k, permits) \/ Sleepy(k, permits) THEN sleepiness[k]
          ELSE IF q[k] # <<>> THEN 0 ELSE sleepiness[k] + 1]

(* The packet run_task() has in hand: the one held back, or the one pulled. *)
InHand(permits) ==
  held \cup {[class |-> k, num |-> Head(q[k])] : k \in Pulled(permits)}

-----------------------------------------------------------------------------
(* ToDevice::run_task(), for each way it can end.  _burst is 1.            *)

AnySignal == \E k \in Class : signal[k]

RunNothing(permits) ==
  /\ scheduled
  /\ InHand(permits) = {}
  /\ Pull(permits)
  /\ scheduled' = AnySignal'
  /\ UNCHANGED <<arrived, device_vars>>

RunSend(permits) ==
  /\ scheduled
  /\ \E p \in InHand(permits) : sent' = [sent EXCEPT ![p.class] = Append(@, p.num)]
  /\ Pull(permits)
  /\ held' = {}
  /\ backoff' = FALSE
  /\ scheduled' = AnySignal'
  /\ UNCHANGED <<arrived, selecting, timer, lost>>

(* Mutant of HeldBack: the packet is not kept for the next run. *)
HeldBackForgotten(permits) == {}

HeldBack(permits) == InHand(permits)

(* Mutant of TimerAfterBusy: the second failure relies on select as well. *)
TimerAfterBusyForgotten == timer

(* The first failure waits for select, a later one for the timer. *)
TimerAfterBusy == timer \/ backoff

(* send_packet() fails with ENOBUFS or EAGAIN. *)
RunBusy(permits) ==
  /\ scheduled
  /\ InHand(permits) # {}
  /\ Pull(permits)
  /\ held' = HeldBack(permits)
  /\ selecting' = (selecting \/ ~backoff)
  /\ timer' = TimerAfterBusy
  /\ backoff' = TRUE
  /\ scheduled' = FALSE
  /\ UNCHANGED <<arrived, sent, lost>>

(* send_packet() fails otherwise: output 1 is unused and kills the packet, *)
(* but p still points to it and the task goes on.                          *)
RunError(permits) ==
  /\ scheduled
  /\ \E p \in InHand(permits) : lost' = [lost EXCEPT ![p.class] = @ \cup {p.num}]
  /\ Pull(permits)
  /\ held' = {}
  /\ scheduled' = TRUE
  /\ UNCHANGED <<arrived, selecting, timer, backoff, sent>>

Selected ==
  /\ selecting
  /\ selecting' = FALSE
  /\ scheduled' = TRUE
  /\ UNCHANGED <<arrived, q, signal, sleepiness, held, timer, backoff, sent, lost>>

TimerFires ==
  /\ timer
  /\ timer' = FALSE
  /\ scheduled' = TRUE
  /\ UNCHANGED <<arrived, q, signal, sleepiness, held, selecting, backoff, sent, lost>>

RunTask ==
  \E permits \in BOOLEAN :
    \/ RunNothing(permits)
    \/ RunSend(permits)
    \/ RunBusy(permits)
    \/ RunError(permits)

(* The constructor of ToDevice leaves _backoff uninitialized. *)
Init ==
  /\ arrived = [k \in Class |-> 0]
  /\ q = [k \in Class |-> <<>>]
  /\ signal = [k \in Class |-> TRUE]
  /\ sleepiness = [k \in Class |-> 0]
  /\ held = {}
  /\ scheduled = TRUE
  /\ selecting = FALSE
  /\ timer = FALSE
  /\ backoff \in BOOLEAN
  /\ sent = [k \in Class |-> <<>>]
  /\ lost = [k \in Class |-> {}]

Next ==
  \/ \E k \in Class : Push(k)
  \/ RunTask
  \/ Selected
  \/ TimerFires

(* The driver runs scheduled tasks, select and timers over and over; the   *)
(* device does not refuse packets for ever, and neither does the shaper    *)
(* (Shaper!PermitsEachSecond).                                             *)
Fairness ==
  /\ WF_vars(RunTask)
  /\ WF_vars(Selected)
  /\ WF_vars(TimerFires)
  /\ SF_vars(\E permits \in BOOLEAN : RunSend(permits))

Spec == Init /\ [][Next]_vars

FairSpec == Spec /\ Fairness

-----------------------------------------------------------------------------
(* Properties.                                                             *)

(* The members have their types, no queue exceeds its capacity, no queue   *)
(* counts past the trigger, and ToDevice holds at most one packet.         *)
TypeOK ==
  /\ arrived \in [Class -> 0..MaxPackets]
  /\ q \in [Class -> Seq(Nat \ {0})]
  /\ \A k \in Class : Len(q[k]) <= Capacity
  /\ signal \in [Class -> BOOLEAN]
  /\ sleepiness \in [Class -> 0..SleepinessTrigger]
  /\ held \subseteq Packet
  /\ \A p1, p2 \in held : p1 = p2
  /\ scheduled \in BOOLEAN
  /\ selecting \in BOOLEAN
  /\ timer \in BOOLEAN
  /\ backoff \in BOOLEAN
  /\ sent \in [Class -> Seq(Nat \ {0})]
  /\ lost \in [Class -> SUBSET (Nat \ {0})]

Elements(s) == {s[i] : i \in DOMAIN s}

HeldOf(k) == {p.num : p \in {h \in held : h.class = k}}

(* No wake-up is lost: while a packet waits, in a queue or in ToDevice's   *)
(* hands, the task is scheduled or something is pending that will schedule *)
(* it.  A queue that stops signalling, a push that finds the signal active *)
(* and a task that stops for want of buffers must agree on who wakes whom. *)
NeverStalls ==
  held # {} \/ (\E k \in Class : q[k] # <<>>) => scheduled \/ selecting \/ timer

(* The scheduler never passes over the unthrottled queue: a throttled      *)
(* packet is pulled only when no unthrottled one is waiting, although      *)
(* PrioSched goes by the queues' signals and not by their contents.        *)
PriorityKept ==
  [][Len(q'["throttled"]) < Len(q["throttled"]) => q["unthrottled"] = <<>>]_vars

Increasing(s) == \A i, j \in DOMAIN s : i < j => s[i] < s[j]

(* Nothing is duplicated, overtaken or forgotten: of the packets of a      *)
(* class that have arrived, some have been sent, then one may be held by   *)
(* ToDevice, then come the queued ones, all in the order of arrival; the   *)
(* others were lost to a full queue or a device error.  A packet that the  *)
(* device refused keeps its place.                                         *)
InOrder ==
  \A k \in Class :
    /\ Increasing(sent[k])
    /\ Increasing(q[k])
    /\ \A m \in Elements(sent[k]), n \in HeldOf(k) \cup Elements(q[k]) : m < n
    /\ \A m \in HeldOf(k), n \in Elements(q[k]) : m < n
    /\ Elements(sent[k]) \cup HeldOf(k) \cup Elements(q[k]) = 1..arrived[k] \ lost[k]
    /\ lost[k] \subseteq 1..arrived[k]

(* Every packet gets through: once in a queue it is eventually sent, or    *)
(* lost to a device error.  Arrivals are finite here; an unthrottled class *)
(* that never pauses would starve the throttled one.                       *)
EveryPacketLeaves ==
  \A k \in Class : \A n \in 1..MaxPackets :
    (n \in Elements(q[k])) ~> (n \in Elements(sent[k]) \cup lost[k])

D == INSTANCE Direction WITH waiting <- q, hand <- held

(* Seen from outside, with its signals, task, select and timer hidden, the *)
(* direction is a pair of bounded queues with strict priority before a     *)
(* device that is offered one packet at a time (module Direction): the     *)
(* wake-up protocol of the queues, PrioSched and ToDevice never shows as   *)
(* a packet skipped, repeated, dropped from a queue with room, or taken    *)
(* out of turn.                                                            *)
ImplementsDirection == D!Spec

=============================================================================
