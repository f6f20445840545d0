\* An upload of at most two frames, cut everywhere.
CONSTANT MaxFrames = 2
SPECIFICATION Spec
INVARIANT FourBytesThere
CHECK_DEADLOCK FALSE
