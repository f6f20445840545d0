\* A log that rolls beyond three appends and looks at the day after two, six
\* appends, days of two seconds, months of two days and DST that ends at three;
\* two kinds of bytes, four of them at most, two prependable and two initial;
\* three channels and two events.
CONSTANTS
  rollSize_ = 3
  checkEveryN_ = 2
  DaySeconds = 2
  MonthDays = 2
  DstEnd = 3
  DstShift = 2
  MaxTime = 5
  MaxAppends = 6
  Bytes = {0, 1}
  Fill = 0
  kCheapPrepend = 2
  kInitialSize = 2
  MaxContent = 4
  Channels = {c1, c2, c3}
  Events = {r, w}
SPECIFICATION MCSpec
INVARIANTS
  FilesInOrder
  ContentExact
PROPERTIES
  ImplementPoller
CHECK_DEADLOCK FALSE
