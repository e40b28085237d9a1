SPECIFICATION Spec
CONSTANTS
  alice = alice
  bob = bob
  NoOne = NoOne
  Ids = {g1, g2}
  Sessions = {s1, s2}
  Actions = {a1, a2}
  Principals = {alice, bob}
  Floors = {health}
  MaxExpiry = 2
  DefaultExpiry = 1
  Catalogues <- MC_Catalogues
  Horizon = 2
SYMMETRY Symmetry
INVARIANTS
  OneCrossing
  CrossingIsAuthorized
  RestartKeepsGrants
PROPERTIES
  RefusalHolds
