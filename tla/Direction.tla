----------------------------- MODULE Direction ------------------------------
(***************************************************************************)
(* What one direction of the router promises behind its Classifier: two    *)
(* first-in-first-out queues of bounded length, of which the throttled one *)
(* is served only while the other is empty, and a device that is offered   *)
(* one packet at a time until it takes or spoils it.  There are no         *)
(* signals, tasks, selects or timers here; Link implements this module     *)
(* with them.                                                              *)
(***************************************************************************)
EXTENDS Integers, Sequences

CONSTANTS Class, Capacity

VARIABLES
  arrived,              \* packets of each class so far, numbered from 1
  waiting,              \* the packets of each class not yet offered
  hand,                 \* the packet on offer, refused so far
  sent,                 \* what the device took, in order
  lost                  \* overflows and failures

vars == <<arrived, waiting, hand, sent, lost>>

Init ==
  /\ arrived = [k \in Class |-> 0]
  /\ waiting = [k \in Class |-> <<>>]
  /\ hand = {}
  /\ sent = [k \in Class |-> <<>>]
  /\ lost = [k \in Class |-> {}]

(* A packet is queued behind the others of its class; only a full queue    *)
(* turns it away.                                                          *)
Arrive(k) ==
  /\ arrived' = [arrived EXCEPT ![k] = @ + 1]
  /\ IF Len(waiting[k]) < Capacity
     THEN waiting' = [waiting EXCEPT ![k] = Append(@, arrived[k] + 1)] /\ lost' = lost
     ELSE lost' = [lost EXCEPT ![k] = @ \cup {arrived[k] + 1}] /\ waiting' = waiting
  /\ UNCHANGED <<hand, sent>>

(* The packet that a class would offer next. *)
First(k) == [class |-> k, num |-> Head(waiting[k])]

(* A throttled packet waits for all unthrottled ones. *)
Eligible(k) ==
  /\ hand = {}
  /\ waiting[k] # <<>>
  /\ k = "throttled" => waiting["unthrottled"] = <<>>

(* The device is offered p: once more, or for the first time. *)
Offer(p) ==
  \/ p \in hand /\ waiting' = waiting
  \/ \E k \in Class :
       /\ Eligible(k)
       /\ p = First(k)
       /\ waiting' = [waiting EXCEPT ![k] = Tail(@)]

Deliver(p) ==
  /\ hand' = {}
  /\ sent' = [sent EXCEPT ![p.class] = Append(@, p.num)]
  /\ lost' = lost

Refuse(p) ==
  /\ hand' = {p}
  /\ UNCHANGED <<sent, lost>>

Spoil(p) ==
  /\ hand' = {}
  /\ lost' = [lost EXCEPT ![p.class] = @ \cup {p.num}]
  /\ sent' = sent

Serve ==
  /\ \E p \in hand \cup {First(k) : k \in {c \in Class : Eligible(c)}} :
       Offer(p) /\ (Deliver(p) \/ Refuse(p) \/ Spoil(p))
  /\ arrived' = arrived

Next == Serve \/ \E k \in Class : Arrive(k)

Spec == Init /\ [][Next]_vars

=============================================================================
