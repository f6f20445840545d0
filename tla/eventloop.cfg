\* Two threads besides the loop's own, four functors in all.
CONSTANTS
  Threads = {t1, t2}
  MaxFunctors = 4
SPECIFICATION FairSpec
INVARIANTS
  NoLostWakeup
PROPERTIES
  EventuallyRun
  QuitEndsLoop
  ImplementsTaskQueue
