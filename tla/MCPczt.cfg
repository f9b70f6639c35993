SPECIFICATION Spec
CONSTANTS
  NumSpends = 2
  NumOutputs = 1
  Asks = {alice}
  DummyAsk = dummy
  UpdaterKeys = {alice}
  Alphas = {r1}
  Sighashes = {h1, h2}
  NoSighash = NoSighash
  NoKey = NoKey
  NoSig = NoSig
  Redactable <- MCRedactable
SYMMETRY MCSymmetry
CHECK_DEADLOCK FALSE
INVARIANT IInv
INVARIANT AuthorizedIsSound
PROPERTY LostDummiesAreFinal
PROPERTY ImplementsAuthorization
