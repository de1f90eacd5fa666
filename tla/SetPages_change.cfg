SPECIFICATION Spec
CONSTANTS
  Sets = {s1, s2}
  NumPages = 3
  MaxSaves = 2
  MaxChanges = 3
  MaxFaults = 2
INVARIANTS
  NewestKept
  OnePlace
  PagesKept
PROPERTIES
  ChangeArrives
CHECK_DEADLOCK FALSE
