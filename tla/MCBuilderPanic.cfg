SPECIFICATION Spec
CONSTANTS
  I64Max = 1
  SpendRequests <- MCSpendRequests
  OutputRequests <- MCOutputRequests
  Anchors = {"a1"}
  DummyRoot = "random"
  ExtskSets <- MCExtskSets
  ValueTypes <- MCValueTypes
  SpendProvers <- MCSpendProvers
  Trapdoors = {1}
  MaxCalls = 2
  MaxListed = 0
CHECK_DEADLOCK FALSE
INVARIANT ValueBalanceNeverPanics
