CONSTANTS
  Orders = {o1}
  Histories <- Legal
  Slices = {s1, s2}
  MaxFailures = 0
SPECIFICATION Spec
CHECK_DEADLOCK FALSE
SYMMETRY Symmetry
PROPERTIES
  CreatedAtStable
