SPECIFICATION BatchSpec
CONSTANTS
  I64Max = 1
  SmallOrder <- MCSmallOrder
  MalformedPoints <- MCMalformedPoints
  MalformedProofs <- MCMalformedProofs
  Bundles <- MCBundles
  SighashValues = {"h1", "h2"}
  MaxBundles = 3
CHECK_DEADLOCK FALSE
INVARIANT BatchIInv
INVARIANT VerdictIsValidity
INVARIANT FailureHasCulprit
