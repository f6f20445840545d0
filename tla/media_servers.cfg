\* Two connections of each server, two sessions and two identities.
CONSTANTS
  VideoConns = {v1, v2}
  GpsConns = {c1, c2}
  Sessions = {s1, s2}
  Ids = {d1, d2}
  NULL = NULL
SPECIFICATION Spec
SYMMETRY Symmetry
INVARIANTS
  NoStaleSession
  LiveSessionHolds
  FinishReported
