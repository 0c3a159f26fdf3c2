# Verification of the Ersa router and its tools

Ersa plays a deceptive Internet provider: a Click router between a client and
the Internet throttles all traffic except that of bandwidth measurement tools.
This directory holds TLA+ models of its programs, TLC configurations that check
them on small instances, and TLAPS proofs for all instances.

## 1. The system

### 1.1 Parts and how they interact

`sandbox_tester.click` wires two directions alike (client to server and back):

    FromDevice -> Classifier [0] -> Queue -> BandwidthShaper -> [1] PrioSched -> ToDevice
                             [1] -> Queue --------------------> [0]

| Part | Source | State | Operations |
|---|---|---|---|
| Classifier element | `classifier.cc`, `classifier.hh` | rates per second, codes per second, first-burst flag, slow-packet count, start of the window, two counters, the flagged pairs (static, shared by both elements) | `push`, `print_statistics` |
| Behaviour library | constructor, `classifier.cc` 52-167 | 82 distinct strings of codes | lookup |
| Pattern program | `parse_program`, `configure`, handlers | `_prog` | built at start, never run by `push` |
| Queue, notifier | `fullnotequeue.{hh,cc}`, `notifier.hh` | ring of packets, signal, sleepiness | `push`, `pull` |
| BandwidthShaper, GapRate | `bandwidthshaper.cc`, `gaprate.hh` | bytes of this second, the second | `pull`, `need_update`, `update_with` |
| PrioSched | `priosched.cc` | signals | `pull` |
| ToDevice | `todevice.cc` | packet held back, task, select, timer, backoff | `run_task`, `selected`, timer |
| Click driver | `routerthread.cc`, `task.cc`, `timer.cc`, `timerset.cc`, `selectset.cc` | task list with passes, timer heap and chunk, cached expiry, timer stride, stop flag | `driver`, `run_tasks`, `run_timers`, `run_selects`, `reschedule`, `schedule_at_steady`, stop signal |
| Packet analysis tool | `pcap_analysis_tool/parse_packets.py` | parsed packets, groups, the file `counts` | `parse_packets`, `get_stats`, `separate_pcap_groups` |
| SpeedOf.Me harness | `speedofme/index.{js,html}`, `scripts/open_speedofme.sh` | server, page, result files | load, test, `POST /results`, time limit |
| Scripts, evaluation, deployment | `scripts/`, `evaluation/`, `AWS_Setup.md` | none | start tools, plot, set up |

The analysis tool feeds the router: tcpdump records a test, the tool turns the
record into a string of codes, and the string becomes an entry of the
Classifier's library, where it is compared with the string the element computes
itself from passing traffic. The Click driver runs everything in the router: the
tasks of ToDevice, its backoff timer, and the selects of the devices.

### 1.2 What is hard here

* Every packet changes six or seven members of the element along five return
  paths, two of which skip the window check.
* The flags are shared by two elements that reset independently.
* A code is recomputed with every packet of its second; the string is computed
  before the reset and used after it.
* ToDevice stops and is restarted by four parties (itself, select, timer,
  queues), and packets refused by the device are retried.
* The shaper carries surplus and credit between seconds.
* The tool computes the same abstraction as the element by other means.
* The driver takes turns between tasks, timers and descriptors by counters that
  wrap around and a stride that adapts, while callbacks change the very lists it
  walks; it caches the expiry it sleeps by, and a stop signal may come anywhere.
* The results server answers before it writes, and names files by the second.

`PROJECT.json` lists each hazard with its line and the properties that would
catch it.

## 2. Modules

| Module | Models | EXTENDS / uses |
|---|---|---|
| `Classifier` | `push()` and what it calls, for a set of elements | |
| `ClassifierProofs` | theorems about it | `Classifier` |
| `MCClassifier` | instances for TLC | `Classifier` |
| `BehaviorLibrary` | the constructor's definitions | |
| `PcapStats` | the computation of `get_stats()` | |
| `PcapAnalysis`, `PcapAnalysisProofs` | `parse_packets.py` as a program | `PcapStats` |
| `Capture`, `CaptureProofs` | the element with tcpdump beside it | `Classifier`; the proofs also `BehaviorLibrary` and `ClassifierProofs` |
| `Fingerprint`, `MCFingerprint` | element and tool on the same traffic, with the code's thresholds and library | `Capture`, `BehaviorLibrary`, INSTANCE of `PcapStats` |
| `Shaper`, `ShaperProofs` | `BandwidthShaper::pull()` with `GapRate` | |
| `Direction` | what one direction promises: two bounded queues with priority | |
| `Link`, `LinkProofs` | queues, `PrioSched`, `ToDevice` of one direction | INSTANCE of `Direction` |
| `TaskList`, `TaskListProofs` | the tasks of a thread, ordered by pass | |
| `RouterThread`, `RouterProofs` | the driver loop with tasks, timers, poll and stop signal | `TaskList` |
| `MCRouterThread` | an instance for TLC | `RouterThread` |
| `ResultsServer`, `MCResultsServer`, `ResultsServerProofs` | SpeedOf.Me page, server and script | |

### 2.1 Classifier

The variables have the members' names. `time_burst_map` is total, since a
missing key reads 0; a second without a code has the value `NoEntry`;
`is_flagged_ips` distinguishes an absent key from one inserted as false, because
`print_statistics()` does. `output` is the `output(k).push(p)` call of the last
step and `reset_time` a history variable.

A packet has a kind (TCP, UDP, DNS, other), two addresses, a size and one
Boolean for the `memmem` search of its TLS hello. Rates are integers in units of
`1/Mbit` megabit, and `ToInt` is the truncation of a difference to `int`, which
drops fractions towards zero.

`push()` runs to completion in the driver's one thread, so it is one action.
Its prologue (387-449) is `Observe`, `Tracked`, `AwaitsBurst`, `LowRateCount`;
the window check (477-490) is `CheckWindow` and the `...Left` operators, which
say what later lines find; the return paths are `PushStaticIP` (458-464),
`PushOther` (466-475), `PushFlagged` (492-496), `PushMeasurementTool` (498-556;
the TLS and the behaviour match do the same) and `PushDefault` (560-561). `Tick`
is the clock, which does not run backwards. `print_statistics()` reads it a
second time to name its file (609); in `PrintStatistics` it may have moved on by
a second since `push()` read it.

### 2.2 Packet analysis and fingerprints

`PcapAnalysis` reads a capture line by line, nondeterministically; a line is a
packet, a packet whose time or length does not parse (the program stops, line 42
or 63), or nothing of interest. `TotalTime` keeps the time of day, as the code does. The grouping block that the source
keeps in a string is switched on by `Grouping`, so that
`separate_pcap_groups()` is checked too. The second column of
`groupby("seconds")` is `MBits` in the order of `Seconds`.

`Capture` composes the Classifier with tcpdump (external), which listens at the
element's interface (README.md 119). `Record` has a line for every push, less the
headers; `Transmit` one for a frame that the other direction's ToDevice sends by
the same interface, which no push of this element sees. `Printed` says what
tcpdump prints of a packet, and `Kept` which lines `parse_packets()` does not
skip (34-37): those with a length that are not ARP. tcpdump and the element are
taken to date a frame in the same second. `Fingerprint` gives the kept lines to
the tool.

### 2.3 Shaper

A clock of seconds and microseconds with parameters for their number and for
the fixed-point scale. `Count` is `_sec_count` after `need_update()`; the three
actions are the outcomes of `pull()`: refused, nothing upstream, a packet.
The clock may move to any later microsecond, so pulls may be missing anywhere.

### 2.4 Link

`Push` is `FullNoteQueue::push`; `Pull` is `PrioSched::pull` with the queues'
`pull_success` and `pull_failure`, the shaper being a Boolean that may be either
at any time; `RunNothing`, `RunSend`, `RunBusy`, `RunError` are the outcomes of
`ToDevice::run_task`; `Selected` and `TimerFires` are its callbacks. The
uninitialised `_backoff` is a choice in `Init`. `RunError` reschedules the task
unconditionally, since `p` is not cleared after `checked_output_push(1, p)`.

`Direction` has no signals, tasks, selects or timers: packets arrive, the device
is offered the next eligible one, and takes, refuses or spoils it. `Link`
implements it with `waiting <- q` and `hand <- held`; scheduling steps stutter.

### 2.5 RouterThread

The user-level driver as the README builds it (no multithreading, so that
`HAVE_MULTITHREAD` code and `wake()` fall away), with stride scheduling on a
linked list. `pc` is the place in `driver()`; between two of its values the code
meets nothing that another party changes. `TaskList` has the operations on tasks
as operators on a record of list, passes and `is_scheduled`: `Rescheduled`
(`Task::reschedule` with `complete_schedule`), `Unscheduled`, `HeadRemoved`,
`Requeued` and `Fixed` ("fix task list" of `run_tasks`). Passes are unsigned
numbers modulo `Modulus`, compared by the sign of their difference as `PASS_GT`
does.

The timer operators are `ScheduledAt`, `UnscheduledTimer` and `Popped`. The heap
is the set of its timers; its array order is abstracted to "one of the least
timers is at the root", which covers every order among equals. Expiries are
relative to the present and `Tick` ages them; an expiry more than `Adjustment`
late is not told from one that is later still, since only `<=` and the
`Adjustment` are compared with it. `run_timers` reads the clock once
(`_timer_check`), so time stands still inside it.

A callback of a task, timer or descriptor does any one of: nothing, reschedule
or unschedule a task, schedule or unschedule a timer. `due` is a history
variable: the timers that were due when `run_timers` started and have not run.

Left out: `strong_unschedule` and moves between threads (no element of the
configuration uses them), `Script` signal handlers, changes to the set of
selects, the early return of `run_selects` when no descriptor is selected
(the same as a poll with nothing to report), and the adjustment of expiries far
in the past.

### 2.6 ResultsServer

`Listen`, `Receive`, and the three steps of `fs.writeFile` (external: open with
truncation, write from the start, close) are the server's; `Load`, `StartTest`,
`TestCompletes`, `TestFails` and `Click` the page's; `Timeout` is `timeout 60`,
which ends the server first, since it was started first. The Start button stays
on the page, so a test may follow another. A body is as many marks
of its result as it is long, so that results of different lengths overlay each
other visibly. `Fail` is an error of any step; the thrown exception stops the
process, and a failed write may leave a part of the body.

## 3. Runs

| Run | Properties | Instance | Distinct states |
|---|---|---|---|
| `classifier_one` | TypeOK, BehaviorStartsWithBurst, CodesMatchRates, WindowSinceReset, UnthrottledIsFlagged, ResetSpacing | one element, 5 packets covering all paths, threshold 2 s, 5 s | 148,859 |
| `classifier_two` | FlagsSymmetric, FlagHasExpiry, DetectionLostOnlyToPeer, FileLostOnlyToPeer | two elements, a conversation, threshold 2 s, 4 s | 282,635 |
| `fingerprint_seconds` | StringsAlign, DetectionFollowsBurst | code's rate thresholds and library, all return paths, an ARP, a frame of the other direction, threshold 4 s, 6 s | 303,054 |
| `pcap_groups` | TypeOK, OnlyBadCapturesFail, GroupsPartitionCapture, GroupsCutAtPauses | 4 packets, a midnight inside | 87,861 |
| `shaper` | TypeOK, SecondBounded, LongRunRate, PermitsEachSecond | rate 5, 4 ticks a second, lengths 1, 3 and 5, 5 s | 41,415 |
| `link` | TypeOK, NeverStalls, InOrder, PriorityKept, EveryPacketLeaves, ImplementsDirection | 3 packets a class, capacity 2, trigger 1 | 30,166 |
| `driver` | TypeOK, TaskListOrdered, ScheduledIsListed, TimerInOnePlace, ExpiryCached, DueTimersRun, TasksRun, TimersRun, DescriptorsServed, StopsUnlessAsleep | 2 tasks of strides 1 and 2, 2 timers, 1 descriptor, passes modulo 5 | 215,846 |
| `results` | TypeOK, OwnFileWhole, SharedFileStartsWhole, PostedIsWritten | 3 results of lengths 1 to 3, 2 of them of tests, 2 s | 73,894 |

What they show, in one line each, is in `PROJECT.json`; each property is stated
in words above its definition, and each has a mutant of the model, a plausible
slip in the code, that TLC finds to violate it.

Bounds. `classifier_one` (threshold 2 in 5 seconds) reaches resets by
each of the two conditions, a second reset of the same element, the slow-packet
diversion, and flags gained before and after a reset. `classifier_two` needs only what two elements
can do to each other: each resets while the other's window is open, in the same
second or with its file in the next.
`MaxWindow` bounds the packets between resets and `MaxRate` those of a second;
both leave several packets per second. `Link`'s queues fill, overflow, drain and
fall asleep; two refusals in a row, select, timer and wake-up interleave freely.
`fingerprint_seconds` is long enough for the shortest definition of the library
(four codes) to be matched, and for a reset; its ARP packet may be all that
arrives in a second, and the frame that leaves all that is captured in one.
The lengths of `shaper` go up to the rate, where a second may end with exactly
what is due.
In `driver` the passes wrap around after a few runs (`Modulus` 5 is the least
number above two longest strides), `iter` wraps from `IterLimit`, the timer
stride moves between 1 and 2, one timer is run before the rest becomes a chunk
(64 in the code), so that a chunk holds a timer while a callback reschedules it,
and delays are 0 and 1. In `results` three posts fall into one second or into
different ones, in any order.

Deadlock is not checked, since every bounded model may stop: time or packets run
out, and a router without traffic rests.

### 3.1 Disagreements between the repository's words and its code

Four runs end in a counterexample to a sentence of the repository.

| Run | Sentence | What happens |
|---|---|---|
| `classifier_report` | "BANDWIDTH MEASUREMENT TOOL IPS" | looked-up pairs are listed too |
| `classifier_stale` | "RESET OBSERVATION STATE" | the resetting packet is matched with the old behaviour |
| `fingerprint_agrees` | "building fingerprints based on behavior" | tool and element disagree on the same traffic: among others, the element codes a fall by more than its threshold as constant |
| `pcap_midnight` | "sorted order of keys, keys will be packet number arrival" | seconds after midnight come first |

More were met while modelling and have no run of their own:
* fingerprint and behaviour are strings over different seconds: the tool skips
  ARP and lines without a length, which the element counts, and the capture
  has the frames that leave, which the element does not see. `StringsAlign` says
  that there is no other difference; `FingerprintIsBehavior` is stated only for
  captures without one, and is refuted even so;
* `separate_pcap_groups()` cuts at "a packet that is past our pause time"
  (`parse_packets.py` 150), but measures by times of day and so may miss a pause
  that spans midnight. `GroupsCutAtPauses` measures by the real times of arrival
  and excepts these;
* the element codes a fall by more than `burst_threshold` as 1, which
  `classifier.cc` 427 calls constant;
* `master.hh` 177 has `request_stop()` "ensure that at least one thread is awake
  to handle the stop event"; in this build `wake()` does nothing, and a signal
  between the test of `stop_flag` in `run_selects` and `poll` is noticed only
  when a packet or a timer ends the poll. The exception in `StopsUnlessAsleep`
  is this case, and TLC refutes the property without it;
* `run_tasks(ntasks)` runs "at most 'ntasks' tasks" (`routerthread.cc` 334), but
  its loop runs one more, as does the loop of `max_timers`;
* the documentation of the element (`classifier.hh` 46-47) has a packet leave on
  the output of the first matching pattern; `push()` ignores the patterns;
* line 467 sends a packet of a flagged conversation to the throttled link when
  more than 115 slow packets have been counted, although line 529 says "send all
  the packet through to the un-throttled link" (lines 444-446 describe the
  diversion as intended);
* `bandwidthshaper.hh` 16-17 has the shaper allow "a maximum bandwidth of RATE";
  it adds what a nearly idle second did not use to the next one, which can carry
  almost twice the rate. `SecondBounded` and `LongRunRate` say what does hold.

The comment at `classifier.cc` 452 also gives the iPerf3 server's address as
145.147.210.189 where line 458 compares with 45.147.210.189; the model has only
one such address and takes no side.

### 3.2 Fairness

`link`. Weak fairness of `RunTask`, `Selected` and `TimerFires`: the driver
serves scheduled tasks, ready file descriptors and expired timers again and
again. This is no longer only an assumption: it is what `TasksRun`,
`DescriptorsServed` and `TimersRun` say of `RouterThread`. Strong fairness of
`RunSend`: a device that is offered packets again and again accepts one at last,
and the shaper permits one at last, which is `PermitsEachSecond` of `Shaper`.
Arrivals are not fair and are finite; with unthrottled packets that never pause,
strict priority starves the throttled class, as intended.

`driver`. Weak fairness of `Driver`: the operating system runs the thread.
Strong fairness of `Tick`: time passes. It must be strong because the model
stops the clock inside `run_timers`, so that `Tick` is not enabled continuously;
the code's clock is never stopped. Nothing is assumed of callbacks, descriptors
or signals: tasks that are never out of work, timers that always reschedule
themselves and descriptors that are always ready are all allowed.

`results`. Weak fairness of the server's handler and of each writer. Nothing is
assumed of the test, the user or the time limit.

## 4. Proofs

All theorems hold for every value of the constants that satisfies the named
assumptions (`ConstantsAssumption`, the `CaptureAssumption` of `Capture` and of `PcapAnalysis`,
`RateAssumption`, `ScaleAssumption`, `LinkAssumption`, `TaskAssumption`,
`ThreadAssumption`, `PostAssumption`), which say that numbers are numbers,
thresholds are positive (the observation threshold, 30 in the code, at least 2),
the traffic consists of packets no smaller than their
headers, a capture ends no earlier than it starts, no posted body is empty, a
rate is at most what `set_rate()` allows, timers are finitely many, and a stride
is positive and less than half of the numbers a pass can be (`STRIDE1` is 2^16,
a pass has 2^32 values). One theorem, `DetectionsFollowBursts`, also assumes
that the definitions are taken from the library, as the constructor takes them.

**Classifier** (any number of elements).
* `TypeCorrect`: `TypeOK` is inductive; one step per return path.
* `SymmetricFlags`: `FlagsSymmetric` is inductive, because a push leaves either
  the old map or the empty one, then read or flagged at both keys.
* `FlagsExpire`: `FlagHasExpiry` is inductive with the types: a path that flags
  sets the clock, and one that stops the clock empties the map.
* `UnthrottledFlagged`: a packet on output 1 is flagged after its step. The path
  that finds only one key flagged needs `FlagsSymmetric`.
* `WindowOrdered`: `WindowSinceReset` is inductive.
* `CodesAreOfRates`: inductive with the types: a push recomputes the one code
  whose rate it changes. `BurstFirst` is inductive relative to it: the code of
  the first burst may be recomputed, but its rate only grows (`PushRates`), so
  it stays an increase.
* `DetectionsLostToPeer`: inductive with `WindowSinceReset`.
* `FilesLostToPeer`: a file is at most one second newer than the last reset of
  some element (`FilesFromResets`), since the clock is read again for its name,
  and an element's own resets are `ObservationThreshold`, two seconds at least,
  apart (`LongWindow`).
* `ResetsSpaced`: the action property follows from `WindowSinceReset`: an
  expired clock started after the last reset, and more than
  `ObservationThreshold` codes lie between the last reset and now.
* `StaleMatchesAreResets` bounds the finding of `classifier_stale`: the string
  that was matched is the element's own unless the same push ended the window.

**Capture.** A recorded element behaves like one that is not
(`RecordingIsPassive`), so that the theorems above hold of it. `StringsAlign`
(`SecondsAgree`) speaks of the lines the tool keeps and is not inductive.
`CaptureInv` speaks of all arrivals: from the first second of the behaviour on,
the element has codes for exactly their seconds, and none is dated in the
future, so that a behaviour that starts now excludes all that came before. One
push adds the same second to both sides, or starts afresh on both, or resets
(`PushKeepsSeconds`); a frame that leaves adds to neither
(`TransmitKeepsSeconds`). What the tool keeps and skips follows.

`DetectionsFollowBursts` puts three facts together. Every definition has at
least four codes and starts with an increase (`LibraryEstablished`, from the
two ways in which prefixes enter the library). The first code of the string is
that of the least second, and four codes stand for four different seconds, so
that it is at least three seconds old (`FirstCode`). And by `CodesMatchRates`
that code is the one of the rates, which the push does not change. For this
`BehaviorString` is written with the i-th second of the window, not with
`SelectSeq`, about which the provers know nothing.

**Packet analysis.** `ToolInv` says what each phase of the tool leaves. The
groups and the capture are tied by a sequence of cuts (`Cuts`): each group is
the segment between two neighbouring cuts, every cut but the first lies at a
pause, and inside a segment there is none. The loop of `separate_pcap_groups()`
has such cuts up to the start of its current group, which is the segment from
there to the packet it has reached (`GroupingInv`), and its end closes the last
one (`GroupedInv`). From the cuts follow `OnlyBadFail` (a segment is not empty
and is numbered from 0), `CutAtPauses`, where `ArrivalOrder` and `TimesOfDay` tie
the pauses of the loop, between times of day, to those between arrivals, and
`GroupsPartition`: segments between
neighbouring cuts, laid end to end, are the capture (`CutsPartition`, with
`FlattenIs` for the recursion inside `FlattenSeq`). `ArrivalOrderBeforeMidnight`
bounds the finding of `pcap_midnight`: the order is kept for every capture that
ends before midnight.

**ResultsServer.** `OwnFileWhole` and `SharedFileStartsWhole` speak of posts
that have been closed; `FilesInv` says what a file holds between truncation,
write and close. A post counts from its arrival on, and until each that arrived
in a second has written, `SharedFileInv` asks nothing of their file: a
truncation cannot break it, and the last write establishes it.

**Shaper.** The inductive invariant `Ledger` ties what has been sent to the
count. The bound on the count alone is not enough for the history of bytes: the
invariant also says that the bytes of a second, and of the whole run, are covered
by the count plus what the seconds passed have taken off it. `TypeCorrect`,
`SecondIsBounded`, `LongRunIsRate` and `TurnEachSecond` follow from it and from
monotonicity of the division.

**Link.** `NeverStalls` is not inductive: a task may stop only when no signal is
up, so `IInv` adds `Awake` (a queue with packets signals) and `Roused` (a packet
in hand or a signal up means that something will run the task). From it follow
`NoLostWakeUp` and, with `Awake` in the unprimed state, `UnthrottledFirst`.
`OrderKept` is inductive relative to `IInv`; its steps are four lemmas about
sequences of numbers (arrive, pull, send, lose).

`DirectionImplemented` maps every step of `Link` to a step of `Direction` or a
stutter. What is not immediate is priority: `Link` looks at signals and
`Direction` at queues, and `Awake` of `IInv` ties the two.

**RouterThread.** `TaskInv` is `TaskListOrdered`, types and `ScheduledIsListed`.
The order is inductive only together with the bound that no pass is further
behind the head than the longest stride: with it, the sign of a difference
orders the passes although they wrap around (`TaskListProofs`: distances from
the head grow along the list; inserting a task at its `Slot` and moving the head
keep that). `TimerInv` is `ExpiryCached`, `TimerInOnePlace` and `DuePlaces`,
which says for each place of the driver where the timers that are still to run
are: in the heap and due, in the chunk, or nowhere. The cached expiry survives a
change that does not reach the root because some root of the old heap is still
one of the new (`ScheduledAtGood`); `Tick` keeps it because ageing is monotonic;
`DueTimersRun` follows at the end of the loop because no due timer is left when
no root is due (`NoneDue`). That a non-empty heap has a root at all
(`RootExists`) is the well-foundedness of the numbers. `DriverInv` is what is
left of the types, the loop's own counters; `DriverTypeCorrect` is the three
together.

Every safety property of a passing run is proved. Only model-checked is
liveness (`EveryPacketLeaves`, `TasksRun`, `TimersRun`, `DescriptorsServed`,
`StopsUnlessAsleep`, `PostedIsWritten`), which is beyond the proof system. So is
what the tool computes for a second: `Seconds` and `MBits` of `PcapStats` are
sorted and summed by recursion over data, and the theorems about
`PcapAnalysis` use only that a fingerprint is a sequence of codes and depends on
nothing but the dictionary.

## 5. Not modelled

* The rest of Click. The repository vendors the whole of it, some 350,000 lines:
  several hundred elements the configuration does not use, kernel modules, a
  simulator, tools and tests. The modules here cover what this router runs:
  its own element, the elements behind it, and the driver under them. Models of
  elements that never run would say nothing about this router.
* FromDevice reads a packet and pushes it; the models take any arrivals.
* The pattern program of the Classifier, which `push()` never runs, and the
  members it never reads.
* Two Classifiers wired to two Links in one module. No state of a Link is read by a
  Classifier, and `Link` takes any sequence of arrivals, so that what holds of
  each holds of both; what the Classifiers share is in `classifier_two`.
* A second driver thread. The documented command starts one; with more, the
  Classifier's shared map would be a data race.
* A clock that steps backwards under `time(0)`, and the growth of
  `time_burst_map`, for which the repository states no limit.
* Changing the shaper's rate or resetting a queue by a handler while the router
  runs; nothing in the repository does.
* Scripts that start one tool, evaluation and deployment (I/O and data), and
  plotting.
