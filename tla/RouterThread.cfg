CONSTANTS
  from = from
  to = to
  t1 = t1
  t2 = t2
  fd = fd
  Task = {from, to}
  Stride <- Strides
  MaxStride = 2
  Modulus = 5
  Initial <- InitialTasks
  Timer = {t1, t2}
  NoTimer = NoTimer
  Fd = {fd}
  TasksPerIter = 1
  ItersPerOs = 2
  IterLimit = 1
  MaxTimers = 1
  MaxTimerStride = 2
  StrideRaise = 1
  Coarse = 2
  Middle = 1
  Adjustment = 1
  MaxDelay = 1
SPECIFICATION Spec
INVARIANTS
  TypeOK
  TaskListOrdered
  ScheduledIsListed
  TimerInOnePlace
  ExpiryCached
  DueTimersRun
CHECK_DEADLOCK FALSE
PROPERTIES
  TasksRun
  TimersRun
  DescriptorsServed
  StopsUnlessAsleep
