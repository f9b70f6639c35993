SPECIFICATION ContextSpec
CONSTANTS
  I64Max = 1
  SmallOrder <- MCSmallOrder
  MalformedPoints <- MCMalformedPoints
  MalformedProofs <- MCMalformedProofs
  Bundles <- MCBundles
  SighashValues = {"h1", "h2"}
  MaxChecks = 5
INVARIANT ContextIInv
PROPERTY FinalVerdictIsValidity
PROPERTY SkippedOrRepeatedIsCaught
