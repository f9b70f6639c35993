SPECIFICATION Spec
CONSTANTS
  I64Max = 1
  SpendRequests <- MCSpendRequests
  OutputRequests <- MCOutputRequests
  Anchors = {"a1"}
  DummyRoot = "random"
  ExtskSets <- MCExtskSets
  ValueTypes <- MCValueTypes
  SpendProvers <- MCSpendProvers
  Trapdoors = {1, 5}
  MaxCalls = 3
  MaxListed = 2
CHECK_DEADLOCK FALSE
INVARIANT IInv
INVARIANT MetadataLocatesRequests
INVARIANT BuiltBalanceIsNet
INVARIANT BindingKeysAgree
INVARIANT BundleShape
PROPERTY DriftOnlyOnInvalidAmount
