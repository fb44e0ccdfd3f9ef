SPECIFICATION Spec
CHECK_DEADLOCK FALSE
CONSTANTS
  a1 = a1
  a2 = a2
  p1 = p1
  p2 = p2
  Users = {"u1", "u2"}
  Rows = {a1, a2}
  Legacy = {a1}
  Gateways = {"g1", "g2"}
  Requests = {p1, p2}
  MaxOps = 5
  MaxTokens = 3
SYMMETRY RequestSymmetry
PROPERTY
  RotationKeepsLinks
