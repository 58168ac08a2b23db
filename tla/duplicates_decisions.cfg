SPECIFICATION Spec
CONSTANTS
  e1 = e1
  e2 = e2
  e3 = e3
  p1 = p1
  m1 = m1
  m2 = m2
  None = None
  Entries <- TwoEntries
  Passes <- OnePass
  Merges <- OneMerge
PROPERTIES
  DecisionStands
