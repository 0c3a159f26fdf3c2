---------------------------- MODULE RouterThread ----------------------------
(***************************************************************************)
(* The driver loop of a Click thread (RouterThread::driver, run_tasks and  *)
(* run_os in lib/routerthread.cc), with the timers it runs (lib/timer.cc,  *)
(* lib/timerset.cc) and the file descriptors it polls (lib/selectset.cc),  *)
(* in a user-level router with one thread.  What the elements do in their  *)
(* callbacks is left open: a callback may schedule or unschedule a task or *)
(* a timer.                                                                *)
(*                                                                         *)
(* Times are relative to the present: a timer whose expiry is at most 0 is *)
(* due.  The timer heap is the set of its timers, of which one with the    *)
(* least expiry is at the root.  The clock stands still while run_timers   *)
(* runs: its callbacks choose any delay, and what run_timers takes passes  *)
(* after it.                                                               *)
(***************************************************************************)
EXTENDS TaskList, FiniteSets

CONSTANTS
  Timer,
  NoTimer,          \* the null pointer
  Fd,               \* the descriptors elements have selected for reading
  TasksPerIter,     \* _tasks_per_iter (128)
  ItersPerOs,       \* _iters_per_os (2)
  IterLimit,        \* iter, an int, wraps from IterLimit - 1 (2^31)
  MaxTimers,        \* timers run one by one before a chunk (64)
  MaxTimerStride,   \* _max_timer_stride (32)
  StrideRaise,      \* punctual runs before the timer stride grows (12)
  Coarse, Middle,   \* timer strides from which poll is less eager (8, 4)
  Adjustment,       \* Timer::adjustment()
  MaxDelay          \* bound: the longest delay of a timer

ASSUME ThreadAssumption ==
  /\ IsFiniteSet(Timer) /\ NoTimer \notin Timer
  /\ {TasksPerIter, MaxTimers, MaxDelay, Coarse, Middle} \subseteq Nat
  /\ {ItersPerOs, IterLimit, MaxTimerStride, StrideRaise, Adjustment}
       \subseteq Nat \ {0}

VARIABLES
  pc,               \* where the driver is
  iter,
  ntasks,           \* how many more tasks run_tasks may run, less one
  stop_flag,
  expiry,           \* _expiry_s; 0 while the timer is not scheduled
  heap,             \* the timers of _timer_heap
  timer_expiry,     \* _timer_expiry: the cached expiry of the root
  max_timers,
  runchunk,         \* _timer_runchunk from the next timer on
  timer_stride,
  timer_count,
  due,              \* history: timers run_timers found due and has not run
  ready,            \* the descriptors that can be read
  revents           \* those poll reported and that are not served yet

timervars == <<expiry, heap, timer_expiry, runchunk, due>>
stridevars == <<timer_stride, timer_count>>
vars == <<taskvars, timervars, stridevars, pc, iter, ntasks, stop_flag,
          max_timers, ready, revents>>

None == MaxDelay + 1      \* no timer: the zero Timestamp

Expiry == (-Adjustment)..MaxDelay

-----------------------------------------------------------------------------
(* The timers. *)

(* The timers of a heap that may be at its root. *)
Roots(h, e) == {t \in h : \A u \in h : e[t] <= e[u]}

(* set_timer_expiry() *)
RootExpiry(h, e) == IF h = {} THEN None ELSE e[CHOOSE t \in Roots(h, e) : TRUE]

Timers == [heap |-> heap, chunk |-> runchunk, expiry |-> expiry,
           cache |-> timer_expiry, due |-> due]

SetTimers(T) ==
  /\ heap' = T.heap
  /\ runchunk' = T.chunk
  /\ expiry' = T.expiry
  /\ timer_expiry' = T.cache
  /\ due' = T.due

(* Mutant of Unchunked: a timer scheduled again stays in the chunk. *)
UnchunkedNever(chunk, t) == chunk

(* _timer_runchunk[-_schedpos1 - 1] = 0 *)
Unchunked(chunk, t) ==
  [i \in 1..Len(chunk) |-> IF chunk[i] = t THEN NoTimer ELSE chunk[i]]

(* Timer::schedule_at_steady.  The cached expiry is set when the timer was *)
(* or is at the root.                                                      *)
ScheduledAt(T, t, when) ==
  LET h == T.heap \cup {t}
      e == [T.expiry EXCEPT ![t] = when]
  IN [heap |-> h, chunk |-> Unchunked(T.chunk, t), expiry |-> e, due |-> T.due \ {t},
      cache |-> IF t \in Roots(T.heap, T.expiry) \cup Roots(h, e)
                THEN RootExpiry(h, e) ELSE T.cache]

(* Mutant of CacheWithout: the cached expiry is kept. *)
CacheWithoutKept(T, t) == T.cache

CacheWithout(T, t) ==
  IF t \in Roots(T.heap, T.expiry) THEN RootExpiry(T.heap \ {t}, T.expiry) ELSE T.cache

(* Timer::unschedule *)
UnscheduledTimer(T, t) ==
  [heap |-> T.heap \ {t}, chunk |-> Unchunked(T.chunk, t), due |-> T.due \ {t},
   expiry |-> [T.expiry EXCEPT ![t] = 0], cache |-> CacheWithout(T, t)]

(* pop_heap, set_timer_expiry() *)
Popped(T, t) ==
  [heap |-> T.heap \ {t}, chunk |-> T.chunk, due |-> T.due \ {t},
   expiry |-> [T.expiry EXCEPT ![t] = 0], cache |-> RootExpiry(T.heap \ {t}, T.expiry)]

(* The timers of a chunk. *)
Chunked(chunk) == {t \in Timer : \E i \in 1..Len(chunk) : chunk[i] = t}

DueRoots == {t \in Roots(heap, expiry) : expiry[t] <= 0}

-----------------------------------------------------------------------------
(* Callbacks. *)

(* A callback, entered with the tasks K and the timers T, schedules or     *)
(* unschedules a task or a timer, or does neither.                         *)
TaskEffects(K) ==
  {K} \cup {Rescheduled(K, t) : t \in Task} \cup {Unscheduled(K, t) : t \in Task}

TimerEffects(T) ==
  {ScheduledAt(T, t, delay) : t \in Timer, delay \in 0..MaxDelay}
    \cup {UnscheduledTimer(T, t) : t \in Timer}

Callback(T) ==
  \/ SetTimers(T) /\ \E K \in TaskEffects(Tasks) : SetTasks(K)
  \/ SetTasks(Tasks) /\ \E T2 \in TimerEffects(T) : SetTimers(T2)

-----------------------------------------------------------------------------
(* The driver loop. *)

Goto(label) == pc' = label

(* iter++ *)
NextIter == IF iter = IterLimit - 1 THEN -IterLimit ELSE iter + 1

(* RouterThread::active() *)
Active == task_list # <<>> \/ pending # <<>>

(* Mutant of AfterTimers: the descriptors wait until there are no tasks. *)
AfterTimersIdle == IF iter % ItersPerOs = 0 /\ ~Active THEN "os" ELSE "top"

AfterTimers == IF iter % ItersPerOs = 0 THEN "os" ELSE "top"
AfterTasks == IF iter % timer_stride = 0 THEN "timers" ELSE AfterTimers

(* Mutant of Stopped: the driver is never found to be stopped. *)
StoppedNever == FALSE

(* stop_flag, and verify_stop finds that the only router is to stop.  What *)
(* its kill_router does to the tasks and timers is left out.               *)
Stopped == stop_flag

(* "if (_pending_head.x) process_pending();", then run_tasks. *)
ToTasks(p) ==
  IF p # <<>> THEN Goto("pending") /\ UNCHANGED ntasks
  ELSE Goto("tasks") /\ ntasks' = TasksPerIter

Top ==
  /\ pc = "top"
  /\ IF Stopped THEN Goto("done") /\ UNCHANGED <<iter, ntasks>>
     ELSE iter' = NextIter /\ ToTasks(pending)
  /\ UNCHANGED <<taskvars, timervars, stridevars, stop_flag, max_timers, ready, revents>>

(* RouterThread::process_pending and Task::process_pending of one task. *)
ProcessPending ==
  /\ pc = "pending"
  /\ pending # <<>>
  /\ pending' = Tail(pending)
  /\ SetTasks(IF is_scheduled[Head(pending)] THEN Rescheduled(Tasks, Head(pending))
              ELSE Tasks)
  /\ ToTasks(pending')
  /\ UNCHANGED <<timervars, stridevars, iter, stop_flag, max_timers, ready, revents>>

EndTasks ==
  /\ pc = "tasks"
  /\ ntasks < 0 \/ task_list = <<>> \/ stop_flag
  /\ Goto(AfterTasks)
  /\ ntasks' = -1
  /\ UNCHANGED <<taskvars, timervars, stridevars, iter, stop_flag, max_timers,
                 ready, revents>>

RunsTask ==
  /\ pc = "tasks"
  /\ ntasks >= 0
  /\ task_list # <<>>
  /\ ~stop_flag

(* The head has been unscheduled since it was listed. *)
DropTask ==
  /\ RunsTask
  /\ ~is_scheduled[task_list[1]]
  /\ SetTasks(HeadRemoved(Tasks))
  /\ ntasks' = ntasks - 1
  /\ UNCHANGED <<pending, timervars, stridevars, pc, iter, stop_flag, max_timers,
                 ready, revents>>

(* The head is fired: its callback may also reschedule it                  *)
(* (fast_reschedule), and says whether it did any work.                    *)
FireTask ==
  /\ RunsTask
  /\ is_scheduled[task_list[1]]
  /\ \E again, worked \in BOOLEAN :
       LET t == task_list[1]
           K0 == [Tasks EXCEPT !.sched[t] = again]
           Breaks(K) == K.sched[t] /\ ~worked /\ Len(K.list) = 1
           Done(K) == SetTasks(Fixed(K, worked)) /\ Goto(IF Breaks(K) THEN AfterTasks ELSE pc)
                       /\ ntasks' = IF Breaks(K) THEN -1 ELSE ntasks - 1
       IN \/ SetTimers(Timers) /\ \E K \in TaskEffects(K0) : Done(K)
          \/ Done(K0) /\ \E T \in TimerEffects(Timers) : SetTimers(T)
  /\ UNCHANGED <<pending, stridevars, iter, stop_flag, max_timers, ready, revents>>

(* run_timers with no timer due, or stopped. *)
SkipTimers ==
  /\ pc = "timers"
  /\ DueRoots = {} \/ stop_flag
  /\ Goto(AfterTimers)
  /\ UNCHANGED <<taskvars, timervars, stridevars, iter, ntasks, stop_flag, max_timers,
                 ready, revents>>

(* The timer stride shrinks when the first timer is late, and grows after  *)
(* StrideRaise punctual runs.                                              *)
StartTimers ==
  /\ pc = "timers"
  /\ DueRoots # {}
  /\ ~stop_flag
  /\ IF RootExpiry(heap, expiry) + Adjustment <= 0
     THEN /\ timer_count' = 0
          /\ timer_stride' = IF timer_stride > 1 THEN (timer_stride * 4) \div 5 ELSE timer_stride
     ELSE IF timer_count + 1 >= StrideRaise
     THEN /\ timer_count' = 0
          /\ timer_stride' = IF timer_stride + 1 >= MaxTimerStride THEN MaxTimerStride
                             ELSE timer_stride + 1
     ELSE timer_count' = timer_count + 1 /\ UNCHANGED timer_stride
  /\ due' = {t \in heap : expiry[t] <= 0}
  /\ max_timers' = MaxTimers
  /\ Goto("run_timers")
  /\ UNCHANGED <<taskvars, heap, expiry, timer_expiry, runchunk, iter, ntasks, stop_flag,
                 ready, revents>>

RunTimer(t) ==
  /\ pc = "run_timers"
  /\ t \in DueRoots
  /\ Callback(Popped(Timers, t))
  /\ Goto("more_timers")
  /\ UNCHANGED <<pending, stridevars, iter, ntasks, stop_flag, max_timers, ready, revents>>

(* The condition of the do loop. *)
MoreTimers ==
  /\ pc = "more_timers"
  /\ DueRoots # {}
  /\ ~stop_flag
  /\ max_timers > 0
  /\ max_timers' = max_timers - 1
  /\ Goto("run_timers")
  /\ UNCHANGED <<taskvars, timervars, stridevars, iter, ntasks, stop_flag, ready, revents>>

(* The timers still due when the loop has run its share. *)
Overdue == {t \in heap : expiry[t] <= 0}

(* They are taken out of the heap together, in the order of their expiry. *)
FillChunk ==
  /\ pc = "more_timers"
  /\ DueRoots # {}
  /\ ~stop_flag
  /\ max_timers = 0
  /\ \E s \in [1..Cardinality(Overdue) -> Overdue] :
       /\ Chunked(s) = Overdue
       /\ \A i, j \in DOMAIN s : i < j => s[i] # s[j] /\ expiry[s[i]] <= expiry[s[j]]
       /\ runchunk' = s
  /\ heap' = heap \ Overdue
  /\ timer_expiry' = RootExpiry(heap', expiry)
  /\ Goto("chunk")
  /\ UNCHANGED <<taskvars, expiry, due, stridevars, iter, ntasks, stop_flag, max_timers,
                 ready, revents>>

(* A place whose timer was scheduled again or unscheduled. *)
SkipChunk ==
  /\ pc = "chunk"
  /\ runchunk # <<>>
  /\ Head(runchunk) = NoTimer
  /\ ~stop_flag
  /\ runchunk' = Tail(runchunk)
  /\ UNCHANGED <<taskvars, heap, expiry, timer_expiry, due, stridevars, pc, iter, ntasks,
                 stop_flag, max_timers, ready, revents>>

RunChunk ==
  /\ pc = "chunk"
  /\ runchunk # <<>>
  /\ Head(runchunk) # NoTimer
  /\ ~stop_flag
  /\ Callback([heap |-> heap, chunk |-> Tail(runchunk), due |-> due \ {Head(runchunk)},
               expiry |-> [expiry EXCEPT ![Head(runchunk)] = 0], cache |-> timer_expiry])
  /\ UNCHANGED <<pending, stridevars, pc, iter, ntasks, stop_flag, max_timers, ready, revents>>

(* Mutant of Unrun: the rest of the chunk is forgotten. *)
UnrunNone == {}

(* The timers of the chunk that have not run; empty unless stopped early. *)
Unrun == Chunked(runchunk)

(* "reschedule unrun timers if stopped early" *)
EndChunk ==
  /\ pc = "chunk"
  /\ runchunk = <<>> \/ stop_flag
  /\ heap' = heap \cup Unrun
  /\ timer_expiry' = IF Unrun = {} THEN timer_expiry ELSE RootExpiry(heap', expiry)
  /\ runchunk' = <<>>
  /\ Goto(AfterTimers)
  /\ max_timers' = 0
  /\ UNCHANGED <<taskvars, expiry, due, stridevars, iter, ntasks, stop_flag, ready, revents>>

EndTimers ==
  /\ pc = "more_timers"
  /\ DueRoots = {} \/ stop_flag
  /\ Goto(AfterTimers)
  /\ max_timers' = 0
  /\ UNCHANGED <<taskvars, timervars, stridevars, iter, ntasks, stop_flag, ready, revents>>

(* timer_expiry_steady_adjusted() *)
AdjustedExpiry ==
  timer_expiry - (IF timer_stride >= Coarse THEN 0
                  ELSE IF timer_stride >= Middle THEN Adjustment ELSE 2 * Adjustment)

(* Mutant of Waits: the tasks are not looked at. *)
WaitsBusy == timer_expiry = None \/ AdjustedExpiry > 0

(* Mutant of Waits: poll has no timeout. *)
WaitsUntimed == ~Active

(* next_timer_delay: without work poll waits until the next timer, or for  *)
(* ever when there is none.                                                *)
Waits == ~Active /\ (timer_expiry = None \/ AdjustedExpiry > 0)

(* SelectSet::run_selects: "Return early if paused." *)
RunSelects ==
  /\ pc = "os"
  /\ Goto(IF stop_flag THEN "top" ELSE "poll")
  /\ UNCHANGED <<taskvars, timervars, stridevars, iter, ntasks, stop_flag, max_timers,
                 ready, revents>>

(* poll puts the thread to sleep. *)
Sleep ==
  /\ pc = "poll"
  /\ Waits
  /\ ready = {}
  /\ Goto("asleep")
  /\ UNCHANGED <<taskvars, timervars, stridevars, iter, ntasks, stop_flag, max_timers,
                 ready, revents>>

(* poll returns, and post_select looks at stop_flag. *)
PollReturns ==
  /\ pc \in {"poll", "asleep"}
  /\ Waits => ready # {}
  /\ Goto(IF stop_flag \/ ready = {} THEN "top" ELSE "selected")
  /\ revents' = IF stop_flag THEN {} ELSE ready
  /\ UNCHANGED <<taskvars, timervars, stridevars, iter, ntasks, stop_flag, max_timers, ready>>

(* call_selected of one descriptor; the element may leave data to read. *)
Selected(f) ==
  /\ pc = "selected"
  /\ f \in revents
  /\ Callback(Timers)
  /\ ready' \in {ready, ready \ {f}}
  /\ revents' = revents \ {f}
  /\ Goto(IF revents' = {} THEN "top" ELSE pc)
  /\ UNCHANGED <<pending, stridevars, iter, ntasks, stop_flag, max_timers>>

Driver ==
  \/ Top \/ ProcessPending \/ EndTasks \/ DropTask \/ FireTask
  \/ SkipTimers \/ StartTimers \/ MoreTimers \/ FillChunk \/ SkipChunk
  \/ RunChunk \/ EndChunk \/ EndTimers \/ RunSelects \/ Sleep \/ PollReturns
  \/ \E t \in Timer : RunTimer(t)
  \/ \E f \in Fd : Selected(f)

-----------------------------------------------------------------------------
(* The world. *)

Aged(e) == IF e > -Adjustment THEN e - 1 ELSE e

Tick ==
  /\ pc \notin {"run_timers", "more_timers", "chunk", "done"}
  /\ \E t \in heap : expiry[t] > -Adjustment
  /\ expiry' = [t \in Timer |-> IF t \in heap THEN Aged(expiry[t]) ELSE expiry[t]]
  /\ timer_expiry' = IF timer_expiry = None THEN None ELSE Aged(timer_expiry)
  /\ UNCHANGED <<taskvars, heap, runchunk, due, stridevars, pc, iter, ntasks, stop_flag,
                 max_timers, ready, revents>>

(* A descriptor becomes ready. *)
Arrives ==
  /\ \E f \in Fd \ ready : ready' = ready \cup {f}
  /\ UNCHANGED <<taskvars, timervars, stridevars, pc, iter, ntasks, stop_flag, max_timers,
                 revents>>

(* stop_signal_handler, which calls Master::request_stop.  The call of     *)
(* wake() there does nothing: without HAVE_MULTITHREAD the thread always   *)
(* counts as the running one.  What wakes a sleeping thread is the signal  *)
(* itself, which makes poll fail with EINTR.                               *)
StopSignal ==
  /\ ~stop_flag
  /\ stop_flag' = TRUE
  /\ Goto(IF pc = "asleep" THEN "top" ELSE pc)
  /\ UNCHANGED <<taskvars, timervars, stridevars, iter, ntasks, max_timers, ready, revents>>

Init ==
  /\ task_list = <<>>
  /\ pass = [t \in Task |-> 0]
  /\ is_scheduled = [t \in Task |-> OnList(Initial, t)]
  /\ pending = Initial
  /\ pc = "top"
  /\ iter = 0
  /\ ntasks = -1
  /\ stop_flag = FALSE
  /\ expiry = [t \in Timer |-> 0]
  /\ heap = {}
  /\ timer_expiry = None
  /\ runchunk = <<>>
  /\ max_timers = 0
  /\ timer_stride = MaxTimerStride
  /\ timer_count = 0
  /\ due = {}
  /\ ready = {}
  /\ revents = {}

Next == Driver \/ Tick \/ Arrives \/ StopSignal

(* The operating system runs the thread, and time passes. *)
Spec == Init /\ [][Next]_vars /\ WF_vars(Driver) /\ SF_vars(Tick)

-----------------------------------------------------------------------------
(* Properties. *)

(* Type correctness of the driver's state: passes, the iteration counter   *)
(* and the timer stride stay in range although pass and iter wrap around.  *)
TypeOK ==
  /\ task_list \in Seq(Task) /\ pending \in Seq(Task)
  /\ pass \in [Task -> Pass]
  /\ is_scheduled \in [Task -> BOOLEAN]
  /\ pc \in {"top", "pending", "tasks", "timers", "run_timers", "more_timers", "chunk",
             "os", "poll", "asleep", "selected", "done"}
  /\ iter \in (-IterLimit)..(IterLimit - 1)
  /\ ntasks \in (-1)..TasksPerIter
  /\ stop_flag \in BOOLEAN
  /\ expiry \in [Timer -> Expiry]
  /\ heap \subseteq Timer
  /\ timer_expiry \in Expiry \cup {None}
  /\ runchunk \in Seq(Timer \cup {NoTimer})
  /\ max_timers \in 0..MaxTimers
  /\ timer_stride \in 1..MaxTimerStride
  /\ timer_count \in 0..(StrideRaise - 1)
  /\ due \subseteq Timer
  /\ ready \subseteq Fd /\ revents \subseteq Fd

(* run_tasks takes the head of the list for the task with the least pass   *)
(* (lib/routerthread.cc, "fix task list"): the list is in the order of the *)
(* passes, each task on it once, also after the passes have wrapped        *)
(* around.                                                                 *)
TaskListOrdered == Ordered(task_list, pass)

(* A scheduled task is never lost (the invariants of lib/task.cc:107):     *)
(* whatever tasks, timers and descriptors' callbacks have scheduled,       *)
(* unscheduled and rescheduled, a task with is_scheduled is on the task    *)
(* list or pending.                                                        *)
ScheduledIsListed ==
  \A t \in Task : is_scheduled[t] => OnList(task_list, t) \/ OnList(pending, t)

(* A timer is in the heap or at one place of the chunk (timerset.cc,       *)
(* run_timers), never both: a callback that schedules a timer of the chunk *)
(* again takes it out of the chunk, or it would run too early and leave    *)
(* the heap corrupt.  Outside its loop the chunk is empty, as kill_router  *)
(* asserts.                                                                *)
TimerInOnePlace ==
  /\ heap \cap Chunked(runchunk) = {}
  /\ \A i, j \in 1..Len(runchunk) :
       runchunk[i] = runchunk[j] /\ runchunk[i] # NoTimer => i = j
  /\ pc # "chunk" => runchunk = <<>>

(* _timer_expiry, which is set only where the root of the heap changes, is *)
(* the expiry of the root: poll sleeps neither past a timer nor forever    *)
(* while there is one (schedule_at_steady, unschedule, run_timers).        *)
ExpiryCached == timer_expiry = RootExpiry(heap, expiry)

(* When run_timers returns, every timer that was due when it started has   *)
(* run, unless a callback scheduled it again or unscheduled it; when it    *)
(* stops early, what it has not run is back in the heap.                   *)
DueTimersRun ==
  pc \notin {"run_timers", "more_timers", "chunk"} =>
    IF stop_flag THEN due \subseteq heap ELSE due = {}

(* run_tasks fires the head t. *)
Fires(t) == RunsTask /\ task_list[1] = t /\ is_scheduled[t] /\ ntasks' # ntasks

(* No task starves: one that stays scheduled is fired again and again      *)
(* (run_tasks), whatever its tickets and whatever the others do, until the *)
(* router stops.                                                           *)
TasksRun ==
  \A t \in Task :
    \/ []<>(stop_flag \/ ~is_scheduled[t])
    \/ []<><<Fires(t)>>_vars

(* The timer t is scheduled again before it has run. *)
PutOff(t) == expiry'[t] > expiry[t] \/ (t \in Chunked(runchunk) /\ t \in heap')

(* No timer starves: one that stays scheduled, and is not put off for ever *)
(* by being scheduled again, is run again and again (run_timers), whether  *)
(* the thread is busy with tasks or asleep in poll.                        *)
TimersRun ==
  \A t \in Timer :
    \/ []<>(stop_flag \/ t \notin heap \cup Chunked(runchunk))
    \/ []<><<PutOff(t)>>_vars
    \/ []<><<RunTimer(t) \/ (RunChunk /\ Head(runchunk) = t)>>_vars

(* A stop request is not ignored for ever: the driver ends or, when the    *)
(* signal came between the check of stop_flag in run_selects and poll,     *)
(* sleeps (Master::request_stop, run_selects, driver).                     *)
StopsUnlessAsleep == []<>(stop_flag => pc \in {"done", "asleep"})

(* No descriptor starves: one that stays readable is served again and      *)
(* again although tasks and timers are never out of work (run_os every     *)
(* _iters_per_os iterations, call_selected).                               *)
DescriptorsServed ==
  \A f \in Fd : []<>(stop_flag \/ f \notin ready) \/ []<><<Selected(f)>>_vars

=============================================================================
