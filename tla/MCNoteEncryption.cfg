SPECIFICATION Spec
CONSTANTS
  alice = alice
  bob = bob
  carol = carol
  Keys = {alice, bob, carol}
  Ivks <- MCIvks
  Diversifiers = {d1, d2, d3}
  ValidDiversifiers = {d1, d2}
  Seeds = {s1, s2}
  ScalarSeeds = {s1}
  Ovks = {o1}
  None = None
  MaxOutputs = 2
  MaxAlterations = 1
SYMMETRY MCSymmetry
CHECK_DEADLOCK FALSE
INVARIANT IInv
INVARIANT OwnNotesFound
INVARIANT RoutesAgree
