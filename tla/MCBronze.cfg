CONSTANTS
  Partitions = {p1, p2}
  MaxOffset = 2
  MaxMessages = 3
  MaxTopics = 2
  MaxFailures = 2
SPECIFICATION FairSpec
INVARIANTS
  BronzeInv
  OnlyExposedAreLost
PROPERTIES
  UnexposedArrive
