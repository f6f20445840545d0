\* Every stream of one or two messages of a gateway, cut everywhere.
CONSTANT MaxSentences = 2
SPECIFICATION Spec
INVARIANT WholeSentences
CHECK_DEADLOCK FALSE
