\* Two events of a recorder, two messages of the broker, three processes
\* beside the monitor; two disturbances of the handlers' links, and two of
\* the receiver's.
CONSTANTS
  Events = {e1, e2}
  Commands <- MCCommands
  MaxFaults = 2
  MaxMessages = 2
  Pids = {p1, p2, p3}
  Others = 1
  Enable = {TRUE, FALSE}
SPECIFICATION MCSpec
INVARIANTS
  EffectsTogether
  CommandsIntact
  OneWorker
PROPERTIES
  RecorderAnswered
  CommandsRun
  ServedAgain
  StopEndsAll
CHECK_DEADLOCK FALSE
