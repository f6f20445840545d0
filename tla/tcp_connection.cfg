\* Two other threads, one of which may close; the loop thread and that one
\* send twice.
CONSTANTS
  t1 = t1
  t2 = t2
  Threads = {t1, t2}
  Loop = loop
  Closers = {t1}
  ServerEnds = TRUE
  MaxSends <- MCMaxSends
SPECIFICATION FairSpec
INVARIANTS
  StreamIntact
  OutputArmed
  ShutdownFlushes
  EndsOnce
PROPERTIES
  Ends
CHECK_DEADLOCK FALSE
