SPECIFICATION Spec
CONSTANTS
  s1 = s1
  s2 = s2
  a = a
  b = b
  w1 = w1
  w2 = w2
  w3 = w3
  None = None
  Sessions = {s1, s2}
  Clients = {a, b}
  Ids = {w1, w2, w3}
  MaxLease = 1
SYMMETRY Symmetry
INVARIANTS
  IndexIsSound
  ClientIndexIsComplete
  OneOwner
