------------------------------ MODULE TaskList ------------------------------
(***************************************************************************)
(* The scheduled tasks of a Click thread (lib/task.cc, task.hh and the     *)
(* list half of lib/routerthread.cc), as configured for the router: one    *)
(* thread, stride scheduling, and a linked list kept in the order of the   *)
(* tasks' passes.                                                          *)
(*                                                                         *)
(* A pass is an unsigned int that wraps around, so that the order of two   *)
(* passes is the sign of their difference.                                 *)
(***************************************************************************)
EXTENDS Integers, Sequences

CONSTANTS
  Task,
  Stride,           \* _stride of each task (STRIDE1 / tickets)
  MaxStride,        \* no stride exceeds it
  Modulus,          \* number of values of an unsigned int (2^32)
  Initial           \* the tasks initialised as scheduled, in that order

ASSUME TaskAssumption ==
  /\ MaxStride \in Nat
  /\ Stride \in [Task -> 1..MaxStride]
  /\ Modulus \in Nat /\ 2 * MaxStride < Modulus
  /\ Initial \in Seq(Task)
  /\ \A i, j \in 1..Len(Initial) : Initial[i] = Initial[j] => i = j

VARIABLES
  task_list,        \* the list from _task_link._next on
  pass,             \* _pass; 0 while the task is not on the list
  is_scheduled,     \* _status.is_scheduled
  pending           \* the thread's pending list

taskvars == <<task_list, pass, is_scheduled, pending>>

Pass == 0..(Modulus - 1)

(* Mutant of Plus: the sum does not wrap around. *)
PlusWide(a, b) == a + b

(* Unsigned addition and subtraction. *)
Plus(a, b) == IF a + b < Modulus THEN a + b ELSE a + b - Modulus
Minus(a, b) == IF a >= b THEN a - b ELSE a - b + Modulus

(* Mutant of PassGT: the passes are compared as numbers. *)
PassGTPlain(a, b) == a > b

(* (int)(a - b) > 0 *)
PassGT(a, b) == Minus(a, b) > 0 /\ 2 * Minus(a, b) < Modulus

(* The place before the first task of l whose pass is greater than p. *)
Slot(l, ps, p) ==
  CHOOSE i \in 1..(Len(l) + 1) :
    /\ \A j \in 1..(i - 1) : ~PassGT(ps[l[j]], p)
    /\ i <= Len(l) => PassGT(ps[l[i]], p)

InsertAt(l, i, t) ==
  [k \in 1..(Len(l) + 1) |->
     IF k < i THEN l[k] ELSE IF k = i THEN t ELSE l[k - 1]]

OnList(l, t) == \E i \in 1..Len(l) : l[i] = t

(* The pass of a task put on the list l: after its head (RouterThread::    *)
(* pass(), which is the link's own 0 when the list is empty).              *)
NewPass(l, ps, t) == Plus(IF l = <<>> THEN 0 ELSE ps[l[1]], Stride[t])

(* What Task::reschedule makes of the tasks K: is_scheduled is set, and    *)
(* complete_schedule lists the task, but "Skip if already scheduled".      *)
Rescheduled(K, t) ==
  LET p == NewPass(K.list, K.pass, t)
  IN IF OnList(K.list, t)
     THEN [K EXCEPT !.sched[t] = TRUE]
     ELSE [sched |-> [K.sched EXCEPT ![t] = TRUE],
           pass |-> [K.pass EXCEPT ![t] = p],
           list |-> InsertAt(K.list, Slot(K.list, K.pass, p), t)]

(* Task::unschedule leaves the task on the list, for run_tasks to remove. *)
Unscheduled(K, t) == [K EXCEPT !.sched[t] = FALSE]

(* The pass of the task run_tasks has just run, the head of the list: one  *)
(* that did no work lets the next task run first.                          *)
NextPass(K, worked) ==
  LET p == Plus(K.pass[K.list[1]], Stride[K.list[1]])
  IN IF ~worked /\ Len(K.list) > 1 /\ PassGT(K.pass[K.list[2]], p)
     THEN K.pass[K.list[2]] ELSE p

(* The head goes back to its new place. *)
Requeued(K, worked) ==
  LET p == NextPass(K, worked)
  IN [K EXCEPT !.pass[K.list[1]] = p,
               !.list = InsertAt(Tail(@), Slot(Tail(@), K.pass, p), @[1])]

(* remove_from_scheduled_list, of the head. *)
HeadRemoved(K) == [K EXCEPT !.list = Tail(@), !.pass[K.list[1]] = 0]

(* Mutant of Fixed: a task that did no work is taken off the list. *)
FixedIdle(K, worked) == IF worked THEN Requeued(K, worked) ELSE HeadRemoved(K)

(* The list after the head has run: "fix task list". *)
Fixed(K, worked) == IF K.sched[K.list[1]] THEN Requeued(K, worked) ELSE HeadRemoved(K)

Tasks == [list |-> task_list, pass |-> pass, sched |-> is_scheduled]

SetTasks(K) ==
  /\ task_list' = K.list
  /\ pass' = K.pass
  /\ is_scheduled' = K.sched

-----------------------------------------------------------------------------
(* Properties. *)

(* How far a task is behind the head of the list. *)
Behind(l, ps, i) == Minus(ps[l[i]], ps[l[1]])

(* A list in the order of its passes, each task on it once, and no task    *)
(* more than the longest stride behind the head.  This is what makes the   *)
(* comparison by the sign of a difference right, however often the passes  *)
(* have wrapped around.                                                    *)
Ordered(l, ps) ==
  /\ \A i, j \in 1..Len(l) : l[i] = l[j] => i = j
  /\ \A i, j \in 1..Len(l) : i <= j => Behind(l, ps, i) <= Behind(l, ps, j)
  /\ \A i \in 1..Len(l) : Behind(l, ps, i) <= MaxStride

=============================================================================
