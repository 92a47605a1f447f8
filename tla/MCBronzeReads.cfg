CONSTANTS
  Partitions = {p1, p2}
  MaxOffset = 2
  MaxMessages = 4
  MaxTopics = 1
  MaxFailures = 0
SPECIFICATION Spec
SYMMETRY Symmetry
INVARIANTS
  NothingLostBetweenReads
