CONSTANTS
  Orders = {o1}
  Histories <- Legal
  Slices = {s1, s2}
  MaxFailures = 1
SPECIFICATION FairSpec
CHECK_DEADLOCK FALSE
INVARIANTS
  SilverInv
  PassedAreReflected
  ErrorsPerAttempt
  LegalHistoriesPass
PROPERTIES
  ImplementsView
  StoredAreReflected
