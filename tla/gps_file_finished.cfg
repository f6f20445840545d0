\* An upload is replaced; the replaced connection ends late.
CONSTANTS
  VideoConns = {v1, v2}
  GpsConns = {c1, c2}
  Sessions = {s1}
  Ids = {d1}
  NULL = NULL
SPECIFICATION Spec
INVARIANT FinishedIsOver
