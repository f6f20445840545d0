\* Three connection objects competing for two identities, and on a wheel of
\* three buckets; a connection may announce one identity after the other.
\* Every stream of up to three frames, to the signalling server and to the
\* file server, cut everywhere.
CONSTANTS
  Conns = {c1, c2, c3}
  Ids = {d1, d2}
  NULL = NULL
  MaxPending = 1
  IdleSeconds = 3
  MaxFrames = 3
SPECIFICATION MCSpec
SYMMETRY Symmetry
INVARIANTS
  LiveConnectionHolds
  NoStaleEntry
  CutIndependent
  NothingWaits
  
PROPERTIES
  CommandDelivery
  ImplementsPresence
  ImplementsIdleTimer
