---------------------------- MODULE RouterProofs ----------------------------
(***************************************************************************)
(* The task list and the timers of RouterThread, for any number of tasks,  *)
(* timers and descriptors and any values of the driver's parameters.  The  *)
(* two invariants are independent: what a callback does to the tasks does  *)
(* not depend on the timers.                                               *)
(***************************************************************************)
EXTENDS RouterThread, TaskListProofs, FiniteSetTheorems

(* The invariant of the tasks. *)
TaskInv ==
  /\ GoodTasks(Tasks)
  /\ pending \in Seq(Task)
  /\ ScheduledIsListed

(* Every task that is scheduled is on the list or on p. *)
Covered(K, p) == \A t \in Task : K.sched[t] => OnList(K.list, t) \/ OnList(p, t)

(* A callback keeps the task list good, and every scheduled task covered. *)
LEMMA EffectsGood ==
  ASSUME NEW K, GoodTasks(K), NEW L \in TaskEffects(K), NEW p
  PROVE  /\ GoodTasks(L)
         /\ Covered(K, p) => Covered(L, p)
         /\ K.list # <<>> => L.list # <<>>
<1>1. L = K \/ (\E t \in Task : L = Rescheduled(K, t)) \/ (\E t \in Task : L = Unscheduled(K, t))
  BY DEF TaskEffects
<1>2. ASSUME NEW t \in Task, L = Rescheduled(K, t)
      PROVE  /\ GoodTasks(L)
             /\ Covered(K, p) => Covered(L, p)
             /\ K.list # <<>> => L.list # <<>>
  <2>1. /\ GoodTasks(L) /\ L.sched = [K.sched EXCEPT ![t] = TRUE]
        /\ \A u : OnList(L.list, u) <=> u = t \/ OnList(K.list, u)
    BY <1>2, RescheduledGood
  <2>2. Covered(K, p) => Covered(L, p)
    BY <2>1 DEF Covered, GoodTasks, TaskRecord
  <2>3. L.list # <<>>
    BY <2>1 DEF OnList
  <2> QED
    BY <2>1, <2>2, <2>3
<1>3. ASSUME NEW t \in Task, L = Unscheduled(K, t)
      PROVE  /\ GoodTasks(L)
             /\ Covered(K, p) => Covered(L, p)
             /\ K.list # <<>> => L.list # <<>>
  <2>1. GoodTasks(L) /\ L.sched = [K.sched EXCEPT ![t] = FALSE] /\ L.list = K.list
    BY <1>3, UnscheduledGood
  <2> QED
    BY <2>1 DEF Covered, GoodTasks, TaskRecord
<1> QED
  BY <1>1, <1>2, <1>3

(* A good record whose scheduled tasks are covered is a good next state. *)
LEMMA SetGood ==
  ASSUME NEW K, GoodTasks(K), SetTasks(K), pending' \in Seq(Task), Covered(K, pending')
  PROVE  TaskInv'
<1>1. Tasks' = K
  BY DEF SetTasks, Tasks, GoodTasks, TaskRecord
<1>2. GoodTasks(Tasks')
  BY <1>1
<1>3. ScheduledIsListed'
  BY DEF Covered, ScheduledIsListed, SetTasks
<1> QED
  BY <1>2, <1>3 DEF TaskInv, GoodTasks

(* Every step keeps the invariant of the tasks.  Only process_pending, a   *)
(* dropped head, a fired head and the callbacks touch them.                *)
LEMMA TaskStep ==
  ASSUME TaskInv, [Next]_vars
  PROVE  TaskInv'
<1>1. GoodTasks(Tasks) /\ pending \in Seq(Task) /\ Covered(Tasks, pending)
  BY DEF TaskInv, ScheduledIsListed, Covered, Tasks
<1>2. CASE UNCHANGED taskvars
  <2>1. SetTasks(Tasks) /\ pending' = pending
    BY <1>2 DEF taskvars, SetTasks, Tasks
  <2> QED
    BY <1>1, <2>1, SetGood
<1>3. ASSUME pending' = pending, NEW K \in TaskEffects(Tasks), SetTasks(K)
      PROVE  TaskInv'
  BY <1>1, <1>3, EffectsGood, SetGood
<1>4. CASE ProcessPending
  <2> DEFINE t == Head(pending)
             K == IF is_scheduled[t] THEN Rescheduled(Tasks, t) ELSE Tasks
  <2>1. pending # <<>> /\ pending' = Tail(pending) /\ SetTasks(K)
    BY <1>4 DEF ProcessPending
  <2>2. /\ t \in Task /\ pending' \in Seq(Task)
        /\ \A u : OnList(pending, u) => u = t \/ OnList(pending', u)
    <3>1. /\ Tail(pending) \in Seq(Task) /\ Len(Tail(pending)) = Len(pending) - 1
          /\ \A i \in 1..Len(Tail(pending)) : Tail(pending)[i] = pending[i + 1]
          /\ Len(pending) \in Nat \ {0} /\ t = pending[1] /\ t \in Task
      BY <1>1, <2>1, HeadTailProperties, EmptySeq
    <3>2. ASSUME NEW u, NEW i \in 1..Len(pending), pending[i] = u, u # t
          PROVE  OnList(Tail(pending), u)
      <4>1. i - 1 \in 1..Len(Tail(pending)) /\ Tail(pending)[i - 1] = u
        BY <3>1, <3>2
      <4> QED
        BY <4>1 DEF OnList
    <3> QED
      BY <2>1, <3>1, <3>2 DEF OnList
  <2>3. CASE is_scheduled[t]
    <3>1. /\ GoodTasks(Rescheduled(Tasks, t))
          /\ Rescheduled(Tasks, t).sched = [is_scheduled EXCEPT ![t] = TRUE]
          /\ \A u : OnList(Rescheduled(Tasks, t).list, u) <=> u = t \/ OnList(task_list, u)
      BY <1>1, <2>2, RescheduledGood, SMTT(30) DEF Tasks
    <3>2. is_scheduled \in [Task -> BOOLEAN]
      BY <1>1 DEF GoodTasks, TaskRecord, Tasks
    <3>3. Covered(Rescheduled(Tasks, t), pending')
      BY <1>1, <2>2, <2>3, <3>1, <3>2, ZenonT(30) DEF Covered, Tasks
    <3> QED
      BY <2>1, <2>2, <2>3, <3>1, <3>3, SetGood, SMTT(30)
  <2>4. CASE ~is_scheduled[t]
    <3>1. Covered(Tasks, pending')
      BY <1>1, <2>2, <2>4, SMTT(30) DEF Covered, Tasks
    <3> QED
      BY <1>1, <2>1, <2>2, <2>4, <3>1, SetGood, SMTT(30)
  <2> QED
    BY <2>3, <2>4
<1>5. CASE DropTask
  <2>1. /\ SetTasks(HeadRemoved(Tasks)) /\ pending' = pending
        /\ task_list # <<>> /\ ~is_scheduled[task_list[1]]
    BY <1>5 DEF DropTask, RunsTask
  <2>2. /\ GoodTasks(HeadRemoved(Tasks)) /\ HeadRemoved(Tasks).sched = is_scheduled
        /\ \A u : u # task_list[1] /\ OnList(task_list, u) => OnList(HeadRemoved(Tasks).list, u)
    BY <1>1, <2>1, HeadRemovedGood, SMTT(30) DEF Tasks
  <2>3. Covered(HeadRemoved(Tasks), pending)
    BY <1>1, <2>1, <2>2 DEF Covered, Tasks
  <2> QED
    BY <1>1, <2>1, <2>2, <2>3, SetGood, SMTT(30)
<1>6. CASE FireTask
  <2>1. /\ pending' = pending /\ task_list # <<>> /\ is_scheduled[task_list[1]]
        /\ \E again, worked \in BOOLEAN :
             \E K \in TaskEffects([Tasks EXCEPT !.sched[task_list[1]] = again]) :
               SetTasks(Fixed(K, worked))
    <3>1. \A K0 : K0 \in TaskEffects(K0)
      BY DEF TaskEffects
    <3> QED
      BY <1>6, <3>1 DEF FireTask, RunsTask
  <2>2. PICK again \in BOOLEAN, worked \in BOOLEAN :
          \E K \in TaskEffects([Tasks EXCEPT !.sched[task_list[1]] = again]) :
            SetTasks(Fixed(K, worked))
    BY <2>1
  <2> DEFINE K0 == [Tasks EXCEPT !.sched[task_list[1]] = again]
  <2>3. /\ GoodTasks(K0) /\ K0.list = task_list
        /\ K0.sched = [is_scheduled EXCEPT ![task_list[1]] = again]
    BY <1>1, SMTT(30) DEF GoodTasks, TaskRecord, Tasks
  <2>4. Covered(K0, pending)
    BY <1>1, <2>1, <2>3 DEF Covered, Tasks, GoodTasks, TaskRecord
  <2>5. PICK K \in TaskEffects(K0) : SetTasks(Fixed(K, worked))
    BY <2>2
  <2> HIDE DEF K0
  <2>6. GoodTasks(K) /\ Covered(K, pending) /\ K.list # <<>>
    BY <2>1, <2>3, <2>4, <2>5, EffectsGood, SMTT(30)
  <2>7. /\ GoodTasks(Fixed(K, worked)) /\ Fixed(K, worked).sched = K.sched
        /\ \A u : K.sched[u] /\ OnList(K.list, u) => OnList(Fixed(K, worked).list, u)
    BY <2>6, FixedGood, SMTT(30)
  <2>8. Covered(Fixed(K, worked), pending)
    BY <2>6, <2>7 DEF Covered
  <2> QED
    BY <1>1, <2>1, <2>5, <2>7, <2>8, SetGood, SMTT(30)
<1>7. ASSUME NEW T, Callback(T), pending' = pending
      PROVE  TaskInv'
  <2>1. CASE \E K \in TaskEffects(Tasks) : SetTasks(K)
    BY <1>3, <1>7, <2>1, SMTT(30)
  <2>2. CASE SetTasks(Tasks)
    BY <1>1, <1>7, <2>2, SetGood, SMTT(30)
  <2> QED
    BY <1>7, <2>1, <2>2, SMTT(30) DEF Callback
<1>8. CASE \E t \in Timer : RunTimer(t)
  BY <1>7, <1>8 DEF RunTimer
<1>9. CASE RunChunk
  BY <1>7, <1>9 DEF RunChunk
<1>10. CASE \E f \in Fd : Selected(f)
  BY <1>7, <1>10, SMTT(30) DEF Selected
<1>11. CASE \/ Top \/ EndTasks \/ SkipTimers \/ StartTimers \/ MoreTimers \/ FillChunk
            \/ SkipChunk \/ EndChunk \/ EndTimers \/ RunSelects \/ Sleep \/ PollReturns
            \/ Tick \/ Arrives \/ StopSignal
  BY <1>2, <1>11, ZenonT(30) DEF Top, EndTasks, SkipTimers, StartTimers, MoreTimers, FillChunk,
       SkipChunk, EndChunk, EndTimers, RunSelects, Sleep, PollReturns, Tick, Arrives,
       StopSignal
<1>12. CASE UNCHANGED vars
  BY <1>2, <1>12 DEF vars
<1> QED
  BY <1>4, <1>5, <1>6, <1>8, <1>9, <1>10, <1>11, <1>12, SMTT(30) DEF Next, Driver

(* At the start every scheduled task is pending, and the list is empty. *)
LEMMA TaskStart == ASSUME Init PROVE TaskInv
<1>1. GoodTasks(Tasks)
  <2>1. 0 \in Pass
    BY TaskAssumption DEF Pass
  <2>2. /\ task_list = <<>> /\ task_list \in Seq(Task) /\ pass \in [Task -> Pass]
        /\ is_scheduled \in [Task -> BOOLEAN]
    BY <2>1 DEF Init, OnList
  <2>3. Tasks \in TaskRecord
    BY <2>2 DEF TaskRecord, Tasks
  <2>4. Ordered(<<>>, pass)
    BY DEF Ordered
  <2> QED
    BY <2>2, <2>3, <2>4 DEF GoodTasks, Tasks
<1>2. pending \in Seq(Task) /\ ScheduledIsListed
  BY TaskAssumption DEF Init, ScheduledIsListed
<1> QED
  BY <1>1, <1>2 DEF TaskInv

(* The invariant of the tasks: the list is a good one (its passes are in   *)
(* order and no task is twice on it) and every scheduled task is on the    *)
(* list or pending (run_tasks, process_pending and the callbacks).         *)
THEOREM TasksInvariant == Spec => []TaskInv
<1> QED
  BY TaskStart, TaskStep, PTL DEF Spec

(* run_tasks always takes the task with the least pass: the list stays in  *)
(* the order of the passes, compared as PASS_GT compares them across the   *)
(* wrap-around of the unsigned pass, for any number of tasks and any       *)
(* tickets.                                                                *)
THEOREM TasksStayOrdered == Spec => []TaskListOrdered
<1>1. TaskInv => TaskListOrdered
  BY DEF TaskInv, GoodTasks, Tasks, TaskListOrdered
<1> QED
  BY <1>1, TasksInvariant, PTL

(* No task is lost: a task with is_scheduled is always on the task list or *)
(* on the pending list, whatever callbacks and removals have happened (the *)
(* invariants of lib/task.cc:107).                                         *)
THEOREM ScheduledStaysListed == Spec => []ScheduledIsListed
<1>1. TaskInv => ScheduledIsListed
  BY DEF TaskInv
<1> QED
  BY <1>1, TasksInvariant, PTL

-----------------------------------------------------------------------------
(* The timers. *)

TimerRecord ==
  [heap : SUBSET Timer, chunk : Seq(Timer \cup {NoTimer}), expiry : [Timer -> Expiry],
   cache : Expiry \cup {None}, due : SUBSET Timer]

(* The cached expiry is that of the root, and a timer is in one place. *)
GoodTimers(T) ==
  /\ T \in TimerRecord
  /\ T.cache = RootExpiry(T.heap, T.expiry)
  /\ T.heap \cap Chunked(T.chunk) = {}
  /\ \A i, j \in 1..Len(T.chunk) :
       T.chunk[i] = T.chunk[j] /\ T.chunk[i] # NoTimer => i = j

(* What the assumptions on the constants say of the expiries. *)
LEMMA Delays ==
  /\ MaxDelay \in Nat /\ Adjustment \in Nat \ {0} /\ NoTimer \notin Timer
  /\ Expiry \subseteq Int /\ 0..MaxDelay \subseteq Expiry /\ None \notin Expiry
  /\ \A e \in Expiry : e + Adjustment \in Nat /\ e >= -Adjustment
BY ThreadAssumption DEF Expiry, None

(* A heap that is not empty has a timer with the least expiry. *)
LEMMA RootExists ==
  ASSUME NEW h \in SUBSET Timer, h # {}, NEW e \in [Timer -> Expiry]
  PROVE  Roots(h, e) # {}
<1> DEFINE S == {e[t] + Adjustment : t \in h}
<1>1. S \subseteq Nat /\ S # {}
  <2>1. ASSUME NEW t \in h PROVE e[t] + Adjustment \in Nat
    <3>1. e[t] \in Expiry
      OBVIOUS
    <3> QED
      BY <3>1, Delays, Zenon
  <2> QED
    BY <2>1
<1>2. PICK m \in S : \A n \in S : m <= n
  BY <1>1, LeastNat, Zenon
<1>3. PICK t \in h : m = e[t] + Adjustment
  BY <1>2
<1>4. ASSUME NEW u \in h PROVE e[t] <= e[u]
  <2>1. e[t] + Adjustment <= e[u] + Adjustment
    <3>1. e[u] + Adjustment \in S
      OBVIOUS
    <3> QED
      BY <1>2, <1>3, <3>1
  <2>2. e[t] \in Int /\ e[u] \in Int /\ Adjustment \in Int
    <3> HIDE DEF S
    <3>1. e[t] \in Expiry /\ e[u] \in Expiry
      BY <1>3
    <3>2. Expiry \subseteq Int /\ Adjustment \in Int
      BY Delays
    <3> QED
      BY <3>1, <3>2, Zenon
  <2> QED
    BY <2>1, <2>2
<1>5. t \in Roots(h, e)
  BY <1>3, <1>4 DEF Roots
<1> QED
  BY <1>5

(* The expiry of the root is that of any timer with the least expiry. *)
LEMMA RootIs ==
  ASSUME NEW h \in SUBSET Timer, NEW e \in [Timer -> Expiry]
  PROVE  /\ RootExpiry(h, e) \in Expiry \cup {None}
         /\ h # {} => RootExpiry(h, e) \in Expiry
         /\ \A r \in Roots(h, e) : RootExpiry(h, e) = e[r]
<1>1. CASE h = {}
  BY <1>1 DEF RootExpiry, Roots
<1>2. CASE h # {}
  <2> DEFINE c == CHOOSE t \in Roots(h, e) : TRUE
  <2>1. c \in Roots(h, e)
    BY <1>2, RootExists
  <2>2. RootExpiry(h, e) = e[c]
    BY <1>2 DEF RootExpiry
  <2> HIDE DEF c
  <2>3. c \in h /\ e[c] \in Expiry /\ \A u \in h : e[c] <= e[u]
    BY <2>1 DEF Roots
  <2>4. ASSUME NEW r \in Roots(h, e) PROVE e[r] = e[c]
    <3>1. r \in h /\ e[r] <= e[c]
      BY <2>3 DEF Roots
    <3>2. e[c] <= e[r] /\ e[r] \in Int /\ e[c] \in Int
      BY <2>3, <3>1, Delays, Zenon
    <3> QED
      BY <3>1, <3>2
  <2> QED
    BY <2>2, <2>3, <2>4
<1> QED
  BY <1>1, <1>2

(* Two heaps with a timer that is least in both, with the same expiry. *)
LEMMA SameRoot ==
  ASSUME NEW h \in SUBSET Timer, NEW e \in [Timer -> Expiry],
         NEW k \in SUBSET Timer, NEW f \in [Timer -> Expiry],
         NEW r \in Roots(h, e), r \in Roots(k, f), e[r] = f[r]
  PROVE  RootExpiry(h, e) = RootExpiry(k, f)
BY RootIs

(* Taking a timer out of the chunk leaves the other places alone. *)
LEMMA UnchunkedIs ==
  ASSUME NEW c \in Seq(Timer \cup {NoTimer}), NEW t \in Timer
  PROVE  /\ Unchunked(c, t) \in Seq(Timer \cup {NoTimer})
         /\ Len(Unchunked(c, t)) = Len(c)
         /\ \A i \in 1..Len(c) : Unchunked(c, t)[i] = IF c[i] = t THEN NoTimer ELSE c[i]
         /\ Chunked(Unchunked(c, t)) = Chunked(c) \ {t}
<1>1. /\ Unchunked(c, t) \in Seq(Timer \cup {NoTimer})
      /\ Len(Unchunked(c, t)) = Len(c)
      /\ \A i \in 1..Len(c) : Unchunked(c, t)[i] = IF c[i] = t THEN NoTimer ELSE c[i]
  BY DEF Unchunked
<1>2. ASSUME NEW u \in Timer
      PROVE  (\E i \in 1..Len(c) : Unchunked(c, t)[i] = u)
               <=> u # t /\ \E i \in 1..Len(c) : c[i] = u
  BY <1>1, Delays
<1> QED
  BY <1>1, <1>2 DEF Chunked

(* The root depends on the expiries of the timers in the heap only. *)
LEMMA SameHeap ==
  ASSUME NEW h \in SUBSET Timer, NEW e \in [Timer -> Expiry], NEW f \in [Timer -> Expiry],
         \A u \in h : e[u] = f[u]
  PROVE  RootExpiry(h, e) = RootExpiry(h, f)
<1>1. CASE h = {}
  BY <1>1 DEF RootExpiry
<1>2. CASE h # {}
  <2>1. PICK r : r \in Roots(h, e)
    BY <1>2, RootExists
  <2>2. r \in Roots(h, f) /\ e[r] = f[r]
    BY <2>1, SMTT(30) DEF Roots
  <2> QED
    BY <2>1, <2>2, SameRoot, SMTT(30)
<1> QED
  BY <1>1, <1>2

(* From T to L the timers that are still to run keep their place. *)
Kept(T, L) ==
  /\ L.due \subseteq T.due
  /\ Len(L.chunk) = Len(T.chunk)
  /\ \A u \in L.due :
       /\ u \in T.heap => u \in L.heap
       /\ u \in Chunked(T.chunk) => u \in Chunked(L.chunk)
       /\ L.expiry[u] = T.expiry[u]

(* With t taken out of the chunk, the heap may hold t and the chunk stays  *)
(* good.                                                                   *)
LEMMA ChunkWithout ==
  ASSUME NEW T, GoodTimers(T), NEW t \in Timer, NEW h \in SUBSET Timer,
         h \subseteq T.heap \cup {t}
  PROVE  /\ h \cap Chunked(Unchunked(T.chunk, t)) = {}
         /\ \A i, j \in 1..Len(Unchunked(T.chunk, t)) :
              Unchunked(T.chunk, t)[i] = Unchunked(T.chunk, t)[j]
                /\ Unchunked(T.chunk, t)[i] # NoTimer => i = j
<1>1. T.chunk \in Seq(Timer \cup {NoTimer})
  BY DEF GoodTimers, TimerRecord
<1>2. /\ Len(Unchunked(T.chunk, t)) = Len(T.chunk)
      /\ \A i \in 1..Len(T.chunk) :
           Unchunked(T.chunk, t)[i] = IF T.chunk[i] = t THEN NoTimer ELSE T.chunk[i]
      /\ Chunked(Unchunked(T.chunk, t)) = Chunked(T.chunk) \ {t}
  BY <1>1, UnchunkedIs
<1>3. /\ T.heap \cap Chunked(T.chunk) = {}
      /\ \A i, j \in 1..Len(T.chunk) :
           T.chunk[i] = T.chunk[j] /\ T.chunk[i] # NoTimer => i = j
  BY DEF GoodTimers
<1>4. h \cap Chunked(Unchunked(T.chunk, t)) = {}
  BY <1>2, <1>3
<1>5. ASSUME NEW i \in 1..Len(T.chunk), NEW j \in 1..Len(T.chunk),
             Unchunked(T.chunk, t)[i] = Unchunked(T.chunk, t)[j],
             Unchunked(T.chunk, t)[i] # NoTimer
      PROVE  i = j
  <2>1. T.chunk[i] # t /\ T.chunk[j] # t
    BY <1>2, <1>5, SMTT(30)
  <2>2. T.chunk[i] = T.chunk[j] /\ T.chunk[i] # NoTimer
    BY <1>2, <1>5, <2>1, SMTT(30)
  <2> QED
    BY <1>3, <2>2, SMTT(30)
<1> QED
  BY <1>2, <1>4, <1>5

(* Timer::schedule_at_steady keeps the timers good: where the cached       *)
(* expiry is not set anew, a root of the old heap is one of the new heap.  *)
LEMMA ScheduledAtGood ==
  ASSUME NEW T, GoodTimers(T), NEW t \in Timer, NEW when \in Expiry
  PROVE  GoodTimers(ScheduledAt(T, t, when)) /\ Kept(T, ScheduledAt(T, t, when))
<1> DEFINE h == T.heap \cup {t}
           e == [T.expiry EXCEPT ![t] = when]
           c == Unchunked(T.chunk, t)
           L == ScheduledAt(T, t, when)
<1>1. /\ T.heap \in SUBSET Timer /\ T.chunk \in Seq(Timer \cup {NoTimer})
      /\ T.expiry \in [Timer -> Expiry] /\ T.due \in SUBSET Timer
      /\ T.cache = RootExpiry(T.heap, T.expiry)
  BY DEF GoodTimers, TimerRecord
<1>2. /\ h \in SUBSET Timer /\ e \in [Timer -> Expiry]
      /\ \A u \in Timer : e[u] = IF u = t THEN when ELSE T.expiry[u]
  BY <1>1
<1>3. /\ c \in Seq(Timer \cup {NoTimer}) /\ Len(c) = Len(T.chunk)
      /\ Chunked(c) = Chunked(T.chunk) \ {t}
  BY <1>1, UnchunkedIs, SMTT(30)
<1>4. /\ h \cap Chunked(c) = {}
      /\ \A i, j \in 1..Len(c) : c[i] = c[j] /\ c[i] # NoTimer => i = j
  <2>1. h \subseteq T.heap \cup {t}
    BY SMTT(30)
  <2> HIDE DEF h
  <2> QED
    BY <1>2, <2>1, ChunkWithout, SMTT(30)
<1>5. /\ L.heap = h /\ L.chunk = c /\ L.expiry = e /\ L.due = T.due \ {t}
      /\ L.cache = IF t \in Roots(T.heap, T.expiry) \cup Roots(h, e)
                   THEN RootExpiry(h, e) ELSE T.cache
      /\ L = [heap |-> L.heap, chunk |-> L.chunk, expiry |-> L.expiry, due |-> L.due,
              cache |-> L.cache]
  BY ZenonT(30) DEF ScheduledAt
<1> HIDE DEF h, e, c, L
<1>6. L.cache = RootExpiry(h, e)
  <2>1. CASE t \in Roots(T.heap, T.expiry) \cup Roots(h, e)
    BY <1>5, <2>1, SMTT(30)
  <2>2. CASE t \notin Roots(T.heap, T.expiry) /\ t \notin Roots(h, e)
    <3>1. PICK r : r \in Roots(h, e)
      BY <1>2, RootExists, SMTT(30) DEF h
    <3>2. r # t /\ r \in T.heap /\ (\A u \in h : e[r] <= e[u]) /\ e[r] = T.expiry[r]
      BY <1>1, <1>2, <2>2, <3>1, SMTT(30) DEF Roots, h
    <3>3. PICK q : q \in Roots(T.heap, T.expiry)
      BY <1>1, <3>2, RootExists, SMTT(30)
    <3>4. /\ q # t /\ q \in T.heap /\ \A u \in T.heap : T.expiry[q] <= T.expiry[u]
          /\ e[q] = T.expiry[q]
      BY <1>1, <1>2, <2>2, <3>3, SMTT(30) DEF Roots
    <3>5. ASSUME NEW u \in h PROVE e[q] <= e[u]
      <4>1. CASE u # t
        BY <1>1, <1>2, <3>4, <4>1, SMTT(30) DEF h
      <4>2. CASE u = t
        <5>1. e[q] <= e[r] /\ e[r] <= e[u]
          BY <3>2, <3>4
        <5>2. e[q] \in Int /\ e[r] \in Int /\ e[u] \in Int
          <6>1. q \in Timer /\ r \in Timer /\ u \in Timer
            BY <1>1, <1>2, <3>2, <3>4, SMTT(30)
          <6>2. e[q] \in Expiry /\ e[r] \in Expiry /\ e[u] \in Expiry
            BY <1>2, <6>1, SMTT(30)
          <6> QED
            BY <6>2, Delays, ZenonT(30)
        <5> QED
          BY <5>1, <5>2, SMTT(30)
      <4> QED
        BY <4>1, <4>2, SMTT(30)
    <3>6. q \in Roots(h, e)
      BY <3>4, <3>5, SMTT(30) DEF Roots, h
    <3>7. RootExpiry(T.heap, T.expiry) = RootExpiry(h, e)
      BY <1>1, <1>2, <3>3, <3>4, <3>6, SameRoot, SMTT(30)
    <3> QED
      BY <1>1, <1>5, <2>2, <3>7, SMTT(30)
  <2> QED
    BY <2>1, <2>2, SMTT(30)
<1>7. L \in TimerRecord
  <2>1. L.cache \in Expiry \cup {None}
    BY <1>2, <1>6, RootIs, SMTT(30)
  <2> QED
    BY <1>1, <1>2, <1>3, <1>5, <2>1, SMTT(30) DEF TimerRecord
<1>8. GoodTimers(L)
  BY <1>4, <1>5, <1>6, <1>7, SMTT(30) DEF GoodTimers
<1>9. Kept(T, L)
  BY <1>1, <1>2, <1>3, <1>5, SMTT(30) DEF Kept, h
<1> QED
  BY <1>8, <1>9, SMTT(30) DEF L

(* Timer::unschedule keeps the timers good. *)
LEMMA UnscheduledTimerGood ==
  ASSUME NEW T, GoodTimers(T), NEW t \in Timer
  PROVE  GoodTimers(UnscheduledTimer(T, t)) /\ Kept(T, UnscheduledTimer(T, t))
<1> DEFINE h == T.heap \ {t}
           e == [T.expiry EXCEPT ![t] = 0]
           c == Unchunked(T.chunk, t)
           L == UnscheduledTimer(T, t)
<1>1. /\ T.heap \in SUBSET Timer /\ T.chunk \in Seq(Timer \cup {NoTimer})
      /\ T.expiry \in [Timer -> Expiry] /\ T.due \in SUBSET Timer
      /\ T.cache = RootExpiry(T.heap, T.expiry) /\ T \in TimerRecord
  BY DEF GoodTimers, TimerRecord
<1>2. /\ h \in SUBSET Timer /\ e \in [Timer -> Expiry]
      /\ \A u \in Timer : u # t => e[u] = T.expiry[u]
  BY <1>1, Delays, SMTT(30)
<1>3. /\ c \in Seq(Timer \cup {NoTimer}) /\ Len(c) = Len(T.chunk)
      /\ Chunked(c) = Chunked(T.chunk) \ {t}
  BY <1>1, UnchunkedIs, SMTT(30)
<1>4. /\ h \cap Chunked(c) = {}
      /\ \A i, j \in 1..Len(c) : c[i] = c[j] /\ c[i] # NoTimer => i = j
  BY <1>2, ChunkWithout, SMTT(30)
<1>5. /\ L.heap = h /\ L.chunk = c /\ L.expiry = e /\ L.due = T.due \ {t}
      /\ L.cache = CacheWithout(T, t)
      /\ L = [heap |-> L.heap, chunk |-> L.chunk, expiry |-> L.expiry, cache |-> L.cache,
              due |-> L.due]
  BY ZenonT(30) DEF UnscheduledTimer
<1> HIDE DEF e, c, L
<1>6. CacheWithout(T, t) = RootExpiry(h, e)
  <2>1. RootExpiry(h, T.expiry) = RootExpiry(h, e)
    BY <1>1, <1>2, SameHeap, SMTT(30)
  <2>2. CASE t \in Roots(T.heap, T.expiry)
    BY <2>1, <2>2, SMTT(30) DEF CacheWithout
  <2>3. CASE T.heap = {}
    BY <1>1, <2>1, <2>3, SMTT(30) DEF CacheWithout, Roots
  <2>4. CASE t \notin Roots(T.heap, T.expiry) /\ T.heap # {}
    <3>1. PICK q : q \in Roots(T.heap, T.expiry)
      BY <1>1, <2>4, RootExists, SMTT(30)
    <3>2. q \in Roots(h, T.expiry)
      BY <2>4, <3>1, SMTT(30) DEF Roots
    <3>3. RootExpiry(T.heap, T.expiry) = RootExpiry(h, T.expiry)
      BY <1>1, <1>2, <3>1, <3>2, SameRoot, SMTT(30)
    <3> QED
      BY <1>1, <2>1, <2>4, <3>3, SMTT(30) DEF CacheWithout
  <2> QED
    BY <2>2, <2>3, <2>4, SMTT(30)
<1>7. L \in TimerRecord
  <2>1. L.cache \in Expiry \cup {None}
    BY <1>2, <1>5, <1>6, RootIs, SMTT(30)
  <2> QED
    BY <1>1, <1>2, <1>3, <1>5, <2>1, SMTT(30) DEF TimerRecord
<1>8. GoodTimers(L)
  BY <1>4, <1>5, <1>6, <1>7, SMTT(30) DEF GoodTimers
<1>9. Kept(T, L)
  BY <1>1, <1>2, <1>3, <1>5, SMTT(30) DEF Kept
<1> QED
  BY <1>8, <1>9, SMTT(30) DEF L

(* Taking the timer at the root out of the heap keeps the timers good. *)
LEMMA PoppedGood ==
  ASSUME NEW T, GoodTimers(T), NEW t \in T.heap
  PROVE  GoodTimers(Popped(T, t)) /\ Kept(T, Popped(T, t)) /\ Popped(T, t).due = T.due \ {t}
<1> DEFINE h == T.heap \ {t}
           e == [T.expiry EXCEPT ![t] = 0]
           L == Popped(T, t)
<1>1. /\ T.heap \in SUBSET Timer /\ T.chunk \in Seq(Timer \cup {NoTimer})
      /\ T.expiry \in [Timer -> Expiry] /\ T.due \in SUBSET Timer
      /\ T \in TimerRecord /\ t \in Timer
  BY DEF GoodTimers, TimerRecord
<1>2. /\ h \in SUBSET Timer /\ e \in [Timer -> Expiry]
      /\ \A u \in Timer : u # t => e[u] = T.expiry[u]
  BY <1>1, Delays, SMTT(30)
<1>3. /\ L.heap = h /\ L.chunk = T.chunk /\ L.expiry = e /\ L.due = T.due \ {t}
      /\ L.cache = RootExpiry(h, T.expiry)
      /\ L = [heap |-> L.heap, chunk |-> L.chunk, expiry |-> L.expiry, cache |-> L.cache,
              due |-> L.due]
  BY DEF Popped
<1> HIDE DEF e, L
<1>4. L.cache = RootExpiry(h, e)
  BY <1>1, <1>2, <1>3, SameHeap, SMTT(30)
<1>5. L \in TimerRecord
  <2>1. L.cache \in Expiry \cup {None}
    BY <1>2, <1>4, RootIs, SMTT(30)
  <2> QED
    BY <1>1, <1>2, <1>3, <2>1, SMTT(30) DEF TimerRecord
<1>6. GoodTimers(L)
  BY <1>3, <1>4, <1>5, SMTT(30) DEF GoodTimers
<1>7. Kept(T, L)
  BY <1>1, <1>2, <1>3 DEF Kept
<1> QED
  BY <1>3, <1>6, <1>7, SMTT(30) DEF L

(* The timers of the next state are the record they are set to. *)
LEMMA SetTimersIs ==
  ASSUME NEW T, GoodTimers(T), SetTimers(T)
  PROVE  Timers' = T /\ GoodTimers(Timers')
<1>1. Timers' = T
  BY DEF GoodTimers, TimerRecord, Timers, SetTimers
<1> QED
  BY <1>1

(* A callback keeps the timers good and those that are to run in place. *)
LEMMA CallbackGood ==
  ASSUME NEW T, GoodTimers(T), \/ SetTimers(T)
                               \/ \E L \in TimerEffects(T) : SetTimers(L)
  PROVE  GoodTimers(Timers') /\ Kept(T, Timers')
<1>1. CASE SetTimers(T)
  BY <1>1, SetTimersIs DEF Kept
<1>2. ASSUME NEW L \in TimerEffects(T), SetTimers(L)
      PROVE  GoodTimers(Timers') /\ Kept(T, Timers')
  <2>1. GoodTimers(L) /\ Kept(T, L)
    <3>1. CASE \E t \in Timer, delay \in 0..MaxDelay : L = ScheduledAt(T, t, delay)
      BY <3>1, ScheduledAtGood, Delays
    <3>2. CASE \E t \in Timer : L = UnscheduledTimer(T, t)
      BY <3>2, UnscheduledTimerGood, SMTT(30)
    <3> QED
      BY <3>1, <3>2 DEF TimerEffects
  <2> QED
    BY <1>2, <2>1, SetTimersIs, SMTT(30)
<1> QED
  BY <1>1, <1>2

-----------------------------------------------------------------------------
(* Where the timers are. *)

(* While run_timers takes timers from the heap the ones to run are due and  *)
(* in the heap; while it runs a chunk they are in the chunk.                *)
DuePlaces ==
  /\ pc # "chunk" => runchunk = <<>>
  /\ pc \in {"run_timers", "more_timers"} => \A t \in due : t \in heap /\ expiry[t] <= 0
  /\ pc = "chunk" => due \subseteq Chunked(runchunk)
  /\ DueTimersRun

(* The invariant of the timers. *)
TimerInv == GoodTimers(Timers) /\ DuePlaces

(* The conjuncts of GoodTimers, for the variables. *)
LEMMA TimersAre ==
  ASSUME GoodTimers(Timers)
  PROVE  /\ heap \in SUBSET Timer /\ runchunk \in Seq(Timer \cup {NoTimer})
         /\ expiry \in [Timer -> Expiry] /\ due \in SUBSET Timer
         /\ timer_expiry = RootExpiry(heap, expiry)
         /\ heap \cap Chunked(runchunk) = {}
         /\ \A i, j \in 1..Len(runchunk) :
              runchunk[i] = runchunk[j] /\ runchunk[i] # NoTimer => i = j
BY SMTT(30) DEF GoodTimers, TimerRecord, Timers

(* What a record of timers must satisfy to be good. *)
LEMMA MakeGood ==
  ASSUME NEW h \in SUBSET Timer, NEW c \in Seq(Timer \cup {NoTimer}),
         NEW e \in [Timer -> Expiry], NEW d \in SUBSET Timer, NEW x,
         x = RootExpiry(h, e), h \cap Chunked(c) = {},
         \A i, j \in 1..Len(c) : c[i] = c[j] /\ c[i] # NoTimer => i = j
  PROVE  GoodTimers([heap |-> h, chunk |-> c, expiry |-> e, cache |-> x, due |-> d])
<1>1. x \in Expiry \cup {None}
  BY RootIs, Zenon
<1> QED
  BY <1>1 DEF GoodTimers, TimerRecord

(* Where the driver goes after the tasks and after the timers. *)
LEMMA AfterIs ==
  /\ AfterTimers \in {"os", "top"}
  /\ AfterTasks \in {"timers", "os", "top"}
BY DEF AfterTimers, AfterTasks

(* The empty chunk. *)
LEMMA EmptyChunk ==
  /\ Chunked(<<>>) = {}
  /\ \A c \in Seq(Timer \cup {NoTimer}) : Len(c) = 0 => c = <<>>
BY SMTT(30) DEF Chunked

(* A callback outside run_timers. *)
LEMMA OutsideCallback ==
  ASSUME TimerInv, pc \notin {"run_timers", "more_timers", "chunk"},
         pc' \notin {"run_timers", "more_timers", "chunk"}, stop_flag' = stop_flag,
         SetTimers(Timers) \/ \E L \in TimerEffects(Timers) : SetTimers(L)
  PROVE  TimerInv'
<1>1. GoodTimers(Timers') /\ Kept(Timers, Timers')
  BY CallbackGood, SMTT(30) DEF TimerInv
<1>2. Len(runchunk') = Len(runchunk) /\ due' \subseteq due /\ \A u \in due' : u \in heap => u \in heap'
  BY <1>1, SMTT(30) DEF Kept, Timers
<1>3. runchunk' \in Seq(Timer \cup {NoTimer})
  BY <1>1, ZenonT(30) DEF GoodTimers, TimerRecord, Timers
<1>4. runchunk' = <<>>
  BY <1>2, <1>3, EmptyChunk, SMTT(30) DEF TimerInv, DuePlaces
<1>5. DueTimersRun'
  BY <1>2 DEF TimerInv, DuePlaces, DueTimersRun
<1>6. DuePlaces'
  BY <1>4, <1>5, SMTT(30) DEF DuePlaces
<1> QED
  BY <1>1, <1>6 DEF TimerInv, GoodTimers

(* A step that leaves the timers alone. *)
LEMMA SameTimers ==
  ASSUME TimerInv, UNCHANGED timervars, DuePlaces' PROVE TimerInv'
<1>1. Timers' = Timers
  BY SMTT(30) DEF timervars, Timers
<1> QED
  BY <1>1 DEF TimerInv, GoodTimers

(* A timer run from the heap. *)
LEMMA RunTimerStep ==
  ASSUME TimerInv, NEW t \in Timer, RunTimer(t) PROVE TimerInv'
<1> DEFINE T == Popped(Timers, t)
<1>1. /\ GoodTimers(Timers) /\ t \in heap /\ pc = "run_timers" /\ pc' = "more_timers"
      /\ Timers.heap = heap /\ Timers.due = due /\ Timers.expiry = expiry
      /\ Timers.chunk = runchunk /\ runchunk = <<>>
  BY SMTT(30) DEF TimerInv, DuePlaces, RunTimer, DueRoots, Roots, Goto, Timers
<1>2. GoodTimers(T) /\ Kept(Timers, T) /\ T.due = due \ {t}
  BY <1>1, PoppedGood
<1>3. SetTimers(T) \/ \E L \in TimerEffects(T) : SetTimers(L)
  BY DEF RunTimer, Callback
<1> HIDE DEF T
<1>4. GoodTimers(Timers') /\ Kept(T, Timers')
  BY <1>2, <1>3, CallbackGood, SMTT(30)
<1>5. /\ Timers'.heap = heap' /\ Timers'.due = due' /\ Timers'.expiry = expiry'
      /\ Timers'.chunk = runchunk'
  BY DEF Timers
<1>6. \A u \in due' : u \in heap' /\ expiry'[u] <= 0
  <2>1. ASSUME NEW u \in due' PROVE u \in heap' /\ expiry'[u] <= 0
    <3>1. u \in T.due /\ (u \in T.heap => u \in heap') /\ expiry'[u] = T.expiry[u]
      BY <1>4, <1>5, SMTT(30) DEF Kept
    <3>2. u \in due /\ (u \in heap => u \in T.heap) /\ T.expiry[u] = expiry[u]
      BY <1>1, <1>2, <3>1, SMTT(30) DEF Kept
    <3> QED
      BY <1>1, <3>1, <3>2, SMTT(30) DEF TimerInv, DuePlaces
  <2> QED
    BY <2>1, SMTT(30)
<1>7. runchunk' = <<>>
  <2>1. Len(runchunk') = 0
    <3>1. Len(T.chunk) = Len(runchunk)
      BY <1>1, <1>2, SMTT(30) DEF Kept
    <3>2. Len(runchunk') = Len(T.chunk)
      BY <1>4, <1>5, SMTT(30) DEF Kept
    <3> QED
      BY <1>1, <3>1, <3>2, SMTT(30)
  <2>2. runchunk' \in Seq(Timer \cup {NoTimer})
    BY <1>4, <1>5, SMTT(30) DEF GoodTimers, TimerRecord
  <2> QED
    BY <2>1, <2>2, EmptyChunk, SMTT(30)
<1>8. DuePlaces'
  BY <1>1, <1>6, <1>7 DEF DuePlaces, DueTimersRun
<1> QED
  BY <1>4, <1>8, SMTT(30) DEF TimerInv, GoodTimers

(* What is left of the chunk after its first place. *)
LEMMA ChunkTail ==
  ASSUME GoodTimers(Timers), runchunk # <<>>
  PROVE  /\ Tail(runchunk) \in Seq(Timer \cup {NoTimer})
         /\ Chunked(Tail(runchunk)) \subseteq Chunked(runchunk) \ {Head(runchunk)}
         /\ Chunked(runchunk) \subseteq Chunked(Tail(runchunk)) \cup {Head(runchunk)}
         /\ \A i, j \in 1..Len(Tail(runchunk)) :
              Tail(runchunk)[i] = Tail(runchunk)[j] /\ Tail(runchunk)[i] # NoTimer => i = j
         /\ Head(runchunk) # NoTimer => Head(runchunk) \in Timer \ heap
<1> DEFINE m == Tail(runchunk)
<1>1. /\ runchunk \in Seq(Timer \cup {NoTimer}) /\ heap \cap Chunked(runchunk) = {}
      /\ \A i, j \in 1..Len(runchunk) :
           runchunk[i] = runchunk[j] /\ runchunk[i] # NoTimer => i = j
  BY TimersAre
<1>2. /\ m \in Seq(Timer \cup {NoTimer}) /\ Len(m) = Len(runchunk) - 1
      /\ \A i \in 1..Len(m) : m[i] = runchunk[i + 1]
      /\ Head(runchunk) = runchunk[1] /\ Len(runchunk) \in Nat \ {0}
      /\ Head(runchunk) \in Timer \cup {NoTimer}
  BY <1>1, HeadTailProperties, EmptySeq, SMTT(30)
<1>3. \A i \in 1..Len(m) : i + 1 \in 1..Len(runchunk) /\ i + 1 # 1
  BY <1>2
<1>4. \A i \in 1..Len(runchunk) : i # 1 => i - 1 \in 1..Len(m) /\ m[i - 1] = runchunk[i]
  BY <1>2
<1>5. 1 \in 1..Len(runchunk)
  BY <1>2
<1> HIDE DEF m
<1>6. Chunked(m) \subseteq Chunked(runchunk) \ {Head(runchunk)}
  <2>1. ASSUME NEW t \in Timer, NEW i \in 1..Len(m), m[i] = t
        PROVE  t \in Chunked(runchunk) /\ t # Head(runchunk)
    <3>1. runchunk[i + 1] = t /\ i + 1 \in 1..Len(runchunk) /\ i + 1 # 1 /\ t # NoTimer
      BY <1>2, <1>3, <2>1, Delays, SMTT(30)
    <3> QED
      BY <1>1, <1>2, <1>5, <3>1, SMTT(30) DEF Chunked
  <2> QED
    BY <2>1 DEF Chunked
<1>7. Chunked(runchunk) \subseteq Chunked(m) \cup {Head(runchunk)}
  <2>1. ASSUME NEW t \in Timer, NEW i \in 1..Len(runchunk), runchunk[i] = t,
               t # Head(runchunk)
        PROVE  t \in Chunked(m)
    BY <1>2, <1>4, <2>1, SMTT(30) DEF Chunked
  <2> QED
    BY <2>1 DEF Chunked
<1>8. ASSUME NEW i \in 1..Len(m), NEW j \in 1..Len(m), m[i] = m[j], m[i] # NoTimer
      PROVE  i = j
  <2>1. i + 1 = j + 1
    BY <1>1, <1>2, <1>3, <1>8, SMTT(30)
  <2> QED
    BY <2>1
<1>9. Head(runchunk) # NoTimer => Head(runchunk) \in Timer \ heap
  BY <1>1, <1>2, <1>5, SMTT(30) DEF Chunked
<1> QED
  BY <1>2, <1>6, <1>7, <1>8, <1>9, ZenonT(30) DEF m

(* A timer run from the chunk. *)
LEMMA RunChunkStep ==
  ASSUME TimerInv, RunChunk PROVE TimerInv'
<1> DEFINE t == Head(runchunk)
           e == [expiry EXCEPT ![t] = 0]
           T == [heap |-> heap, chunk |-> Tail(runchunk), expiry |-> e,
                 cache |-> timer_expiry, due |-> due \ {t}]
<1>1. /\ GoodTimers(Timers) /\ pc = "chunk" /\ pc' = "chunk" /\ runchunk # <<>>
      /\ t # NoTimer /\ due \subseteq Chunked(runchunk)
      /\ SetTimers(T) \/ \E L \in TimerEffects(T) : SetTimers(L)
  BY ZenonT(30) DEF TimerInv, DuePlaces, RunChunk, Callback
<1>2. /\ heap \in SUBSET Timer /\ expiry \in [Timer -> Expiry] /\ due \in SUBSET Timer
      /\ timer_expiry = RootExpiry(heap, expiry) /\ heap \cap Chunked(runchunk) = {}
  BY <1>1, TimersAre, SMTT(30)
<1>3. /\ Tail(runchunk) \in Seq(Timer \cup {NoTimer})
      /\ Chunked(Tail(runchunk)) \subseteq Chunked(runchunk) \ {t}
      /\ Chunked(runchunk) \subseteq Chunked(Tail(runchunk)) \cup {t}
      /\ \A i, j \in 1..Len(Tail(runchunk)) :
           Tail(runchunk)[i] = Tail(runchunk)[j] /\ Tail(runchunk)[i] # NoTimer => i = j
      /\ t \in Timer \ heap
  BY <1>1, ChunkTail, SMTT(30)
<1>4. e \in [Timer -> Expiry] /\ timer_expiry = RootExpiry(heap, e)
  <2>1. e \in [Timer -> Expiry] /\ \A u \in heap : expiry[u] = e[u]
    BY <1>2, <1>3, Delays, SMTT(30)
  <2> HIDE DEF e
  <2> QED
    BY <1>2, <2>1, SameHeap, SMTT(30)
<1>5. T.due = due \ {t} /\ T.chunk = Tail(runchunk)
  BY SMTT(30)
<1>6. GoodTimers(T)
  <2> HIDE DEF e
  <2> QED
    BY <1>2, <1>3, <1>4, MakeGood, ZenonT(30)
<1> HIDE DEF T
<1>7. GoodTimers(Timers') /\ Kept(T, Timers')
  BY <1>1, <1>6, CallbackGood
<1>8. due' \subseteq Chunked(runchunk')
  BY <1>1, <1>3, <1>5, <1>7, ZenonT(30) DEF Kept, Timers
<1>9. DuePlaces'
  BY <1>1, <1>8, SMTT(30) DEF DuePlaces, DueTimersRun
<1> QED
  BY <1>7, <1>9, SMTT(30) DEF TimerInv, GoodTimers

(* What the variables must satisfy in the next state. *)
LEMMA MakeGoodNext ==
  ASSUME heap' \in SUBSET Timer, runchunk' \in Seq(Timer \cup {NoTimer}),
         expiry' \in [Timer -> Expiry], due' \in SUBSET Timer,
         timer_expiry' = RootExpiry(heap', expiry'), heap' \cap Chunked(runchunk') = {},
         \A i, j \in 1..Len(runchunk') :
           runchunk'[i] = runchunk'[j] /\ runchunk'[i] # NoTimer => i = j,
         DuePlaces'
  PROVE  TimerInv'
<1>1. GoodTimers([heap |-> heap', chunk |-> runchunk', expiry |-> expiry',
                  cache |-> timer_expiry', due |-> due'])
  BY MakeGood, ZenonT(30)
<1>2. GoodTimers(Timers')
  BY <1>1, SMTT(30) DEF Timers
<1> QED
  BY <1>2 DEF TimerInv, GoodTimers

(* A null place of the chunk. *)
LEMMA SkipChunkStep ==
  ASSUME TimerInv, SkipChunk PROVE TimerInv'
<1>1. /\ GoodTimers(Timers) /\ pc = "chunk" /\ pc' = "chunk" /\ runchunk # <<>>
      /\ Head(runchunk) = NoTimer /\ due \subseteq Chunked(runchunk)
      /\ runchunk' = Tail(runchunk) /\ UNCHANGED <<heap, expiry, timer_expiry, due>>
  BY DEF TimerInv, DuePlaces, SkipChunk
<1>2. /\ heap \in SUBSET Timer /\ expiry \in [Timer -> Expiry] /\ due \in SUBSET Timer
      /\ timer_expiry = RootExpiry(heap, expiry) /\ heap \cap Chunked(runchunk) = {}
  BY <1>1, TimersAre, SMTT(30)
<1>3. /\ Tail(runchunk) \in Seq(Timer \cup {NoTimer})
      /\ Chunked(Tail(runchunk)) \subseteq Chunked(runchunk)
      /\ Chunked(runchunk) \subseteq Chunked(Tail(runchunk)) \cup {NoTimer}
      /\ \A i, j \in 1..Len(Tail(runchunk)) :
           Tail(runchunk)[i] = Tail(runchunk)[j] /\ Tail(runchunk)[i] # NoTimer => i = j
  BY <1>1, ChunkTail, SMTT(30)
<1>4. due' \subseteq Chunked(runchunk')
  BY <1>1, <1>2, <1>3, Delays, SMTT(30)
<1>5. DuePlaces'
  BY <1>1, <1>4, SMTT(30) DEF DuePlaces, DueTimersRun
<1> QED
  BY <1>1, <1>2, <1>3, <1>5, MakeGoodNext, SMTT(30)

(* The overdue timers move from the heap to the chunk. *)
LEMMA FillChunkStep ==
  ASSUME TimerInv, FillChunk PROVE TimerInv'
<1>1. PICK s \in [1..Cardinality(Overdue) -> Overdue] :
        /\ Chunked(s) = Overdue
        /\ \A i, j \in DOMAIN s : i < j => s[i] # s[j] /\ expiry[s[i]] <= expiry[s[j]]
        /\ runchunk' = s
  BY ZenonT(30) DEF FillChunk
<1>2. /\ pc = "more_timers" /\ pc' = "chunk" /\ heap' = heap \ Overdue
      /\ timer_expiry' = RootExpiry(heap', expiry) /\ expiry' = expiry /\ due' = due
  BY DEF FillChunk, Goto
<1>3. heap \in SUBSET Timer /\ expiry \in [Timer -> Expiry] /\ due \in SUBSET Timer
  BY TimersAre DEF TimerInv
<1>4. Overdue \in SUBSET Timer /\ due \subseteq Overdue
  BY <1>2, <1>3, SMTT(30) DEF Overdue, TimerInv, DuePlaces
<1>5. Cardinality(Overdue) \in Nat
  BY <1>4, FS_Subset, FS_CardinalityType, ThreadAssumption, SMTT(30)
<1>6. s \in Seq(Timer \cup {NoTimer}) /\ DOMAIN s = 1..Len(s)
  BY <1>1, <1>4, <1>5
<1>7. ASSUME NEW i \in 1..Len(s), NEW j \in 1..Len(s), s[i] = s[j]
      PROVE  i = j
  <2>1. ~(i < j) /\ ~(j < i)
    BY <1>1, <1>6, <1>7, SMTT(30)
  <2>2. i \in Int /\ j \in Int
    BY SMTT(30)
  <2> QED
    BY <2>1, <2>2, SMTT(30)
<1>8. DuePlaces'
  BY <1>1, <1>2, <1>4, SMTT(30) DEF DuePlaces, DueTimersRun
<1>9. heap' \cap Chunked(runchunk') = {}
  BY <1>1, <1>2, SMTT(30)
<1> QED
  BY <1>1, <1>2, <1>3, <1>6, <1>7, <1>8, <1>9, MakeGoodNext, SMTT(30)

(* The end of the chunk; what has not run goes back to the heap. *)
LEMMA EndChunkStep ==
  ASSUME TimerInv, EndChunk PROVE TimerInv'
<1>1. /\ pc = "chunk" /\ (runchunk = <<>> \/ stop_flag)
      /\ heap' = heap \cup Chunked(runchunk) /\ runchunk' = <<>> /\ stop_flag' = stop_flag
      /\ timer_expiry' = IF Chunked(runchunk) = {} THEN timer_expiry
                         ELSE RootExpiry(heap', expiry)
      /\ expiry' = expiry /\ due' = due /\ pc' \in {"os", "top"}
  BY AfterIs, SMTT(30) DEF EndChunk, Unrun, Goto
<1>2. /\ heap \in SUBSET Timer /\ expiry \in [Timer -> Expiry] /\ due \in SUBSET Timer
      /\ timer_expiry = RootExpiry(heap, expiry) /\ due \subseteq Chunked(runchunk)
  BY <1>1, TimersAre DEF TimerInv, DuePlaces
<1>3. heap' \in SUBSET Timer /\ timer_expiry' = RootExpiry(heap', expiry')
  BY <1>1, <1>2, ZenonT(30) DEF Chunked
<1>4. runchunk' \in Seq(Timer \cup {NoTimer}) /\ Chunked(runchunk') = {} /\ Len(runchunk') = 0
  BY <1>1, EmptyChunk, SMTT(30)
<1>5. IF stop_flag THEN due \subseteq heap' ELSE due = {}
  BY <1>1, <1>2, EmptyChunk, SMTT(30)
<1>6. DuePlaces'
  BY <1>1, <1>5 DEF DuePlaces, DueTimersRun
<1>7. \A i, j \in 1..Len(runchunk') :
        runchunk'[i] = runchunk'[j] /\ runchunk'[i] # NoTimer => i = j
  BY <1>4
<1>8. heap' \cap Chunked(runchunk') = {}
  BY <1>4
<1> QED
  BY <1>1, <1>2, <1>3, <1>4, <1>6, <1>7, <1>8, MakeGoodNext, SMTT(30)

(* When no timer at the root is due, none is. *)
LEMMA NoneDue ==
  ASSUME GoodTimers(Timers), DueRoots = {}, NEW u \in heap PROVE ~(expiry[u] <= 0)
<1>1. heap \in SUBSET Timer /\ expiry \in [Timer -> Expiry]
  BY TimersAre
<1>2. PICK r : r \in Roots(heap, expiry)
  BY <1>1, RootExists
<1>3. ~(expiry[r] <= 0) /\ expiry[r] <= expiry[u] /\ r \in heap
  BY <1>2 DEF DueRoots, Roots
<1>4. expiry[r] \in Expiry /\ expiry[u] \in Expiry
  BY <1>1, <1>3
<1>5. expiry[r] \in Int /\ expiry[u] \in Int
  BY <1>4, Delays, ZenonT(30)
<1> QED
  BY <1>3, <1>5, SMTT(30)

(* The end of the loop: no timer of the heap is due, or the thread is to   *)
(* stop.                                                                   *)
LEMMA EndTimersStep ==
  ASSUME TimerInv, EndTimers PROVE TimerInv'
<1>1. /\ GoodTimers(Timers) /\ pc = "more_timers" /\ pc' \in {"os", "top"}
      /\ DueRoots = {} \/ stop_flag
      /\ stop_flag' = stop_flag /\ UNCHANGED timervars
      /\ runchunk = <<>> /\ \A t \in due : t \in heap /\ expiry[t] <= 0
  BY AfterIs DEF EndTimers, Goto, TimerInv, DuePlaces
<1>2. IF stop_flag THEN due \subseteq heap ELSE due = {}
  BY <1>1, NoneDue, SMTT(30)
<1>3. DuePlaces'
  BY <1>1, <1>2, SMTT(30) DEF DuePlaces, DueTimersRun, timervars
<1> QED
  BY <1>1, <1>3, SameTimers, SMTT(30)

(* Time passes for all timers alike, so the root stays a root. *)
LEMMA TickStep ==
  ASSUME TimerInv, Tick PROVE TimerInv'
<1>1. /\ pc' = pc /\ heap' = heap /\ runchunk' = runchunk /\ due' = due
      /\ stop_flag' = stop_flag /\ pc \notin {"run_timers", "more_timers", "chunk"}
      /\ expiry' = [t \in Timer |-> IF t \in heap THEN Aged(expiry[t]) ELSE expiry[t]]
      /\ timer_expiry' = IF timer_expiry = None THEN None ELSE Aged(timer_expiry)
  BY DEF Tick
<1>2. /\ heap \in SUBSET Timer /\ runchunk \in Seq(Timer \cup {NoTimer})
      /\ expiry \in [Timer -> Expiry] /\ due \in SUBSET Timer
      /\ timer_expiry = RootExpiry(heap, expiry) /\ heap \cap Chunked(runchunk) = {}
      /\ \A i, j \in 1..Len(runchunk) :
           runchunk[i] = runchunk[j] /\ runchunk[i] # NoTimer => i = j
  BY TimersAre DEF TimerInv
<1>3. \A e \in Expiry : Aged(e) \in Expiry
  BY Delays DEF Expiry, Aged
<1>4. \A e, f \in Expiry : e <= f => Aged(e) <= Aged(f)
  BY Delays, SMTT(30) DEF Aged
<1>5. expiry' \in [Timer -> Expiry] /\ \A t \in heap : expiry'[t] = Aged(expiry[t])
  BY <1>1, <1>2, <1>3, SMTT(30)
<1>6. timer_expiry' = RootExpiry(heap', expiry')
  <2>1. CASE heap = {}
    BY <1>1, <1>2, <2>1, SMTT(30) DEF RootExpiry
  <2>2. CASE heap # {}
    <3>1. PICK r : r \in Roots(heap, expiry)
      BY <1>2, <2>2, RootExists, SMTT(30)
    <3>2. r \in heap /\ \A u \in heap : expiry[r] <= expiry[u]
      BY <3>1, SMTT(30) DEF Roots
    <3>3. timer_expiry = expiry[r] /\ expiry[r] \in Expiry
      BY <1>2, <3>1, <3>2, RootIs, SMTT(30)
    <3>4. ASSUME NEW u \in heap PROVE expiry'[r] <= expiry'[u]
      <4>1. expiry[r] \in Expiry /\ expiry[u] \in Expiry /\ expiry[r] <= expiry[u]
        BY <1>2, <3>2
      <4>2. Aged(expiry[r]) <= Aged(expiry[u])
        BY <1>4, <4>1, SMTT(30)
      <4> QED
        BY <1>5, <3>2, <4>2, SMTT(30)
    <3>5. r \in Roots(heap, expiry')
      BY <3>2, <3>4, SMTT(30) DEF Roots
    <3>6. RootExpiry(heap, expiry') = expiry'[r]
      BY <1>2, <1>5, <3>5, RootIs, SMTT(30)
    <3>7. timer_expiry' = Aged(expiry[r])
      BY <1>1, <3>3, Delays, SMTT(30)
    <3> QED
      BY <1>1, <1>5, <3>2, <3>6, <3>7, SMTT(30)
  <2> QED
    BY <2>1, <2>2, SMTT(30)
<1>7. DuePlaces'
  BY <1>1, SMTT(30) DEF TimerInv, DuePlaces, DueTimersRun
<1> QED
  BY <1>1, <1>2, <1>5, <1>6, <1>7, MakeGoodNext, SMTT(30)

(* Every step keeps the invariant of the timers. *)
LEMMA TimerStep ==
  ASSUME TimerInv, [Next]_vars PROVE TimerInv'
<1>1. CASE FireTask
  <2>1. /\ pc = "tasks" /\ stop_flag' = stop_flag /\ pc' \in {"tasks", "timers", "os", "top"}
        /\ SetTimers(Timers) \/ \E L \in TimerEffects(Timers) : SetTimers(L)
    BY <1>1, AfterIs, SMTT(30) DEF FireTask, RunsTask, Goto
  <2> QED
    BY <2>1, OutsideCallback
<1>2. CASE \E f \in Fd : Selected(f)
  <2>1. /\ pc = "selected" /\ stop_flag' = stop_flag /\ pc' \in {"selected", "top"}
        /\ SetTimers(Timers) \/ \E L \in TimerEffects(Timers) : SetTimers(L)
    BY <1>2, SMTT(30) DEF Selected, Goto, Callback
  <2> QED
    BY <2>1, OutsideCallback, SMTT(30)
<1>3. CASE StartTimers
  <2>1. /\ UNCHANGED <<heap, expiry, timer_expiry, runchunk>> /\ pc = "timers"
        /\ due' = {t \in heap : expiry[t] <= 0} /\ pc' = "run_timers"
    BY <1>3, SMTT(30) DEF StartTimers, Goto
  <2>2. DuePlaces'
    BY <2>1, SMTT(30) DEF TimerInv, DuePlaces, DueTimersRun
  <2>3. /\ heap \in SUBSET Timer /\ runchunk \in Seq(Timer \cup {NoTimer})
        /\ expiry \in [Timer -> Expiry]
        /\ timer_expiry = RootExpiry(heap, expiry) /\ heap \cap Chunked(runchunk) = {}
        /\ \A i, j \in 1..Len(runchunk) :
             runchunk[i] = runchunk[j] /\ runchunk[i] # NoTimer => i = j
    BY TimersAre, SMTT(30) DEF TimerInv
  <2>4. due' \in SUBSET Timer
    BY <2>1, <2>3
  <2> QED
    BY <2>1, <2>2, <2>3, <2>4, MakeGoodNext, SMTT(30)
<1>4. CASE MoreTimers
  <2>1. UNCHANGED timervars /\ pc = "more_timers" /\ pc' = "run_timers"
    BY <1>4 DEF MoreTimers, Goto
  <2>2. DuePlaces'
    BY <2>1 DEF TimerInv, DuePlaces, DueTimersRun, timervars
  <2> QED
    BY <2>1, <2>2, SameTimers, SMTT(30)
<1>5. CASE StopSignal
  <2>1. UNCHANGED timervars /\ ~stop_flag /\ pc' = IF pc = "asleep" THEN "top" ELSE pc
    BY <1>5 DEF StopSignal, Goto
  <2>2. DuePlaces'
    BY <2>1 DEF TimerInv, DuePlaces, DueTimersRun, timervars
  <2> QED
    BY <2>1, <2>2, SameTimers
<1>6. ASSUME UNCHANGED timervars, stop_flag' = stop_flag,
             \/ pc' = pc
             \/ pc \notin {"run_timers", "more_timers", "chunk"}
                  /\ pc' \notin {"run_timers", "more_timers", "chunk"}
      PROVE  TimerInv'
  <2>1. DuePlaces'
    BY <1>6, SMTT(30) DEF TimerInv, DuePlaces, DueTimersRun, timervars
  <2> QED
    BY <1>6, <2>1, SameTimers, SMTT(30)
<1>7. CASE Top \/ ProcessPending \/ EndTasks \/ DropTask
  BY <1>6, <1>7, AfterIs, SMTT(30)
     DEF Top, ProcessPending, EndTasks, DropTask, RunsTask, ToTasks, Goto
<1>8. CASE SkipTimers \/ RunSelects \/ Sleep \/ PollReturns \/ Arrives
  BY <1>6, <1>8, AfterIs, SMTT(30) DEF SkipTimers, RunSelects, Sleep, PollReturns, Arrives, Goto
<1>9. CASE UNCHANGED vars
  BY <1>6, <1>9 DEF vars
<1> QED
  BY <1>1, <1>2, <1>3, <1>4, <1>5, <1>7, <1>8, <1>9, RunTimerStep, RunChunkStep,
     SkipChunkStep, FillChunkStep, EndChunkStep, EndTimersStep, TickStep, SMTT(30)
     DEF Next, Driver

(* At the start no timer is scheduled. *)
LEMMA TimerStart == ASSUME Init PROVE TimerInv
<1>1. /\ heap \in SUBSET Timer /\ runchunk \in Seq(Timer \cup {NoTimer})
      /\ expiry \in [Timer -> Expiry] /\ due \in SUBSET Timer
      /\ timer_expiry = RootExpiry(heap, expiry) /\ heap \cap Chunked(runchunk) = {}
      /\ Len(runchunk) = 0
  BY EmptyChunk, Delays DEF Init, RootExpiry
<1>2. \A i, j \in 1..Len(runchunk) :
        runchunk[i] = runchunk[j] /\ runchunk[i] # NoTimer => i = j
  BY <1>1
<1>3. GoodTimers([heap |-> heap, chunk |-> runchunk, expiry |-> expiry,
                  cache |-> timer_expiry, due |-> due])
  BY <1>1, <1>2, MakeGood, ZenonT(30)
<1>4. GoodTimers(Timers)
  BY <1>3 DEF Timers
<1>5. DuePlaces
  BY SMTT(30) DEF Init, DuePlaces, DueTimersRun
<1> QED
  BY <1>4, <1>5, SMTT(30) DEF TimerInv

(* The invariant of the timers: a good heap, chunk and cache               *)
(* (Timer::schedule_at_steady, unschedule, run_timers), and where the      *)
(* timers that are still to run are.                                       *)
THEOREM TimersInvariant == Spec => []TimerInv
<1> QED
  BY TimerStart, TimerStep, PTL DEF Spec

(* A timer is never both in the heap and in the chunk nor twice in the     *)
(* chunk, and the chunk is empty outside its loop, which                   *)
(* TimerSet::kill_router asserts, for any number of timers and whatever    *)
(* their callbacks schedule.                                               *)
THEOREM TimersStayInOnePlace == Spec => []TimerInOnePlace
<1>1. TimerInv => TimerInOnePlace
  BY TimersAre, SMTT(30) DEF TimerInv, DuePlaces, TimerInOnePlace
<1> QED
  BY <1>1, TimersInvariant, PTL

(* The cached _timer_expiry, from which run_selects takes the timeout of   *)
(* poll, is always the expiry of the root of the heap.                     *)
THEOREM ExpiryStaysCached == Spec => []ExpiryCached
<1>1. TimerInv => ExpiryCached
  BY TimersAre, SMTT(30) DEF TimerInv, ExpiryCached
<1> QED
  BY <1>1, TimersInvariant, PTL

(* Every timer that is due when run_timers starts has run, or was          *)
(* rescheduled or unscheduled by a callback, when it returns; one that has *)
(* not because the thread is to stop is back in the heap.                  *)
THEOREM DueTimersAlwaysRun == Spec => []DueTimersRun
<1>1. TimerInv => DueTimersRun
  BY DEF TimerInv, DuePlaces
<1> QED
  BY <1>1, TimersInvariant, PTL

-----------------------------------------------------------------------------
(* The driver's own state. *)

(* The places of the loop and its counters.  It depends on neither the     *)
(* tasks nor the timers.                                                   *)
DriverInv ==
  /\ pc \in {"top", "pending", "tasks", "timers", "run_timers", "more_timers", "chunk",
             "os", "poll", "asleep", "selected", "done"}
  /\ iter \in (-IterLimit)..(IterLimit - 1)
  /\ ntasks \in (-1)..TasksPerIter
  /\ stop_flag \in BOOLEAN
  /\ max_timers \in 0..MaxTimers
  /\ timer_stride \in 1..MaxTimerStride
  /\ timer_count \in 0..(StrideRaise - 1)
  /\ ready \subseteq Fd /\ revents \subseteq Fd

(* The limits of the loop are numbers. *)
LEMMA DriverConstants ==
  /\ TasksPerIter \in Nat /\ MaxTimers \in Nat
  /\ IterLimit \in Nat \ {0} /\ MaxTimerStride \in Nat \ {0} /\ StrideRaise \in Nat \ {0}
BY ThreadAssumption

(* iter wraps around within its range (driver: "iter++"). *)
LEMMA NextIterRange ==
  ASSUME DriverInv
  PROVE  NextIter \in (-IterLimit)..(IterLimit - 1)
BY DriverConstants, SMTT(30) DEF DriverInv, NextIter

(* The timer stride shrinks by a fifth, but not below one, and grows by    *)
(* one, but not past its limit (TimerSet::run_timers).                     *)
LEMMA StrideRange ==
  ASSUME DriverInv, StartTimers
  PROVE  timer_stride' \in 1..MaxTimerStride /\ timer_count' \in 0..(StrideRaise - 1)
<1>1. \A n \in 2..MaxTimerStride : (n * 4) \div 5 \in 1..MaxTimerStride
  BY DriverConstants, SMTT(30)
<1>2. timer_stride \in 1..MaxTimerStride /\ timer_count \in 0..(StrideRaise - 1)
  BY DEF DriverInv
<1>3. CASE RootExpiry(heap, expiry) + Adjustment <= 0
  BY <1>1, <1>2, <1>3, DriverConstants, SMTT(30) DEF StartTimers
<1>4. CASE ~(RootExpiry(heap, expiry) + Adjustment <= 0)
  BY <1>2, <1>4, DriverConstants, SMTT(30) DEF StartTimers
<1> QED
  BY <1>3, <1>4

(* Every step keeps the driver's state in range. *)
LEMMA DriverStep ==
  ASSUME DriverInv, [Next]_vars
  PROVE  DriverInv'
<1>1. CASE Top \/ ProcessPending \/ EndTasks \/ DropTask
  <2>1. /\ pc' \in {"done", "pending", "tasks", "timers", "os", "top"}
        /\ iter' \in (-IterLimit)..(IterLimit - 1)
    BY <1>1, NextIterRange, AfterIs, SMTT(30)
       DEF Top, ProcessPending, EndTasks, DropTask, RunsTask, ToTasks, Goto, DriverInv
  <2>2. ntasks' \in (-1)..TasksPerIter
    BY <1>1, DriverConstants, SMTT(30)
       DEF Top, ProcessPending, EndTasks, DropTask, RunsTask, ToTasks, DriverInv
  <2>3. UNCHANGED <<stop_flag, max_timers, stridevars, ready, revents>>
    BY <1>1 DEF Top, ProcessPending, EndTasks, DropTask
  <2> QED
    BY <2>1, <2>2, <2>3, SMTT(30) DEF DriverInv, stridevars
<1>2. CASE FireTask
  <2>1. pc' \in {"tasks", "timers", "os", "top"} /\ ntasks' \in {-1, ntasks - 1} /\ ntasks >= 0
    BY <1>2, AfterIs, SMTT(30) DEF FireTask, RunsTask, Goto
  <2>2. ntasks' \in (-1)..TasksPerIter
    BY <2>1, DriverConstants DEF DriverInv
  <2>3. UNCHANGED <<iter, stop_flag, max_timers, stridevars, ready, revents>>
    BY <1>2 DEF FireTask
  <2> QED
    BY <2>1, <2>2, <2>3 DEF DriverInv, stridevars
<1>3. CASE StartTimers
  <2>1. /\ pc' = "run_timers" /\ max_timers' = MaxTimers
        /\ UNCHANGED <<iter, ntasks, stop_flag, ready, revents>>
    BY <1>3 DEF StartTimers, Goto
  <2>2. max_timers' \in 0..MaxTimers
    BY <2>1, DriverConstants
  <2> QED
    BY <1>3, <2>1, <2>2, StrideRange DEF DriverInv
<1>4. CASE \/ SkipTimers \/ MoreTimers \/ FillChunk \/ SkipChunk \/ RunChunk \/ EndChunk
           \/ EndTimers \/ \E t \in Timer : RunTimer(t)
  <2>1. pc' \in {"run_timers", "more_timers", "chunk", "os", "top"}
    <3>1. \/ pc' = "run_timers" \/ pc' = "more_timers" \/ pc' = "chunk"
          \/ pc' = AfterTimers
      BY <1>4, ZenonT(30)
         DEF SkipTimers, MoreTimers, FillChunk, SkipChunk, RunChunk, EndChunk, EndTimers,
             RunTimer, Goto
    <3>2. QED
      BY <3>1, AfterIs
  <2>2. max_timers' \in {0, max_timers} \/ (max_timers > 0 /\ max_timers' = max_timers - 1)
    BY <1>4, ZenonT(30)
       DEF SkipTimers, MoreTimers, FillChunk, SkipChunk, RunChunk, EndChunk, EndTimers, RunTimer
  <2>3. max_timers' \in 0..MaxTimers
    BY <2>2, DriverConstants, SMTT(30) DEF DriverInv
  <2>4. UNCHANGED <<iter, ntasks, stop_flag, stridevars, ready, revents>>
    BY <1>4, ZenonT(30)
       DEF SkipTimers, MoreTimers, FillChunk, SkipChunk, RunChunk, EndChunk, EndTimers, RunTimer
  <2> QED
    BY <2>1, <2>3, <2>4 DEF DriverInv, stridevars
<1>5. CASE RunSelects \/ Sleep \/ PollReturns \/ Arrives \/ \E f \in Fd : Selected(f)
  <2>1. pc' \in {"top", "poll", "asleep", "selected", pc}
    BY <1>5 DEF RunSelects, Sleep, PollReturns, Arrives, Selected, Goto
  <2>2. ready' \subseteq Fd /\ revents' \subseteq Fd
    BY <1>5 DEF RunSelects, Sleep, PollReturns, Arrives, Selected, DriverInv
  <2>3. UNCHANGED <<iter, ntasks, stop_flag, max_timers, stridevars>>
    BY <1>5 DEF RunSelects, Sleep, PollReturns, Arrives, Selected
  <2> QED
    BY <2>1, <2>2, <2>3 DEF DriverInv, stridevars
<1>6. CASE StopSignal \/ Tick \/ UNCHANGED vars
  <2>1. pc' \in {"top", pc} /\ stop_flag' \in {TRUE, stop_flag}
    BY <1>6, ZenonT(30) DEF StopSignal, Tick, vars, Goto
  <2>2. UNCHANGED <<iter, ntasks, max_timers, stridevars, ready, revents>>
    BY <1>6 DEF StopSignal, Tick, vars
  <2> QED
    BY <2>1, <2>2, ZenonT(30) DEF DriverInv, stridevars
<1> QED
  BY <1>1, <1>2, <1>3, <1>4, <1>5, <1>6, SMTT(30) DEF Next, Driver

(* The driver starts within its limits. *)
LEMMA DriverStart == ASSUME Init PROVE DriverInv
<1>1. /\ 0 \in (-IterLimit)..(IterLimit - 1) /\ -1 \in (-1)..TasksPerIter
      /\ 0 \in 0..MaxTimers /\ MaxTimerStride \in 1..MaxTimerStride
      /\ 0 \in 0..(StrideRaise - 1)
  BY DriverConstants
<1> QED
  BY <1>1, ZenonT(30) DEF Init, DriverInv

(* The iteration counter, the task budget, the timer stride and the        *)
(* position in the loop stay in range in every state of the driver, as do  *)
(* the tasks and the timers: with the other two invariants, type           *)
(* correctness for every value of the driver's parameters.                 *)
THEOREM DriverTypeCorrect == Spec => []TypeOK
<1>1. Spec => []DriverInv
  BY DriverStart, DriverStep, PTL DEF Spec
<1>2. TaskInv => /\ task_list \in Seq(Task) /\ pending \in Seq(Task)
                 /\ pass \in [Task -> Pass] /\ is_scheduled \in [Task -> BOOLEAN]
  BY SMTT(30) DEF TaskInv, GoodTasks, TaskRecord, Tasks
<1>3. TimerInv => /\ expiry \in [Timer -> Expiry] /\ heap \subseteq Timer
                  /\ timer_expiry \in Expiry \cup {None}
                  /\ runchunk \in Seq(Timer \cup {NoTimer}) /\ due \subseteq Timer
  BY DEF TimerInv, GoodTimers, TimerRecord, Timers
<1>4. TaskInv /\ TimerInv /\ DriverInv => TypeOK
  BY <1>2, <1>3 DEF DriverInv, TypeOK
<1> QED
  BY <1>1, <1>4, TasksInvariant, TimersInvariant, PTL
=============================================================================
