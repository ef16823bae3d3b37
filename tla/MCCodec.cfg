CONSTANTS
    Behinds <- TwoBytes
SPECIFICATION Spec
CHECK_DEADLOCK FALSE
INVARIANTS ReadUndoesWrite TruncationIsSeen SizesTellTheTruth
