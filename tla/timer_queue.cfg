\* One other thread, two timers at two addresses, a clock of three ticks.
CONSTANTS
  Threads = {t1}
  Addrs = {a1, a2}
  Intervals = {0, 1}
  NULL = NULL
  MaxTime = 3
  MaxTimers = 2
  MaxPending = 2
SPECIFICATION FairSpec
INVARIANTS
  SetsAgree
  TimerfdArmed
  NoLeak
PROPERTIES
  RunsRightly
  DroppedRightly
  EveryTimerRuns
CHECK_DEADLOCK FALSE
