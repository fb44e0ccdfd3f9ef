SPECIFICATION Spec
CHECK_DEADLOCK FALSE
CONSTANTS
  a1 = a1
  a2 = a2
  i1 = i1
  i2 = i2
  s1 = s1
  s2 = s2
  Accounts = {a1, a2}
  Ids = {i1, i2}
  Legs <- MCLegs
  Slots = {s1, s2}
  MaxUpdates = 3
  MaxFaults = 0
  Begins <- MCHeld
SYMMETRY Symmetry
INVARIANT
  FlatIsTheOneShown
