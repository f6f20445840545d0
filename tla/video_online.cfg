\* Two video connections, of which the newer one goes down.
CONSTANTS
  VideoConns = {v1, v2}
  GpsConns = {c1, c2}
  Sessions = {s1}
  Ids = {d1}
  NULL = NULL
SPECIFICATION Spec
PROPERTY ReportsReach
