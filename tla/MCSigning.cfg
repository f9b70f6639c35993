SPECIFICATION Spec
CONSTANTS
  NumSpends = 2
  NumOutputs = 1
  Asks = {alice, bob}
  Alphas = {r1, r2}
  Sighashes = {h1, h2}
  NoSighash = NoSighash
  NoSig = NoSig
  SignatureLists <- MCSignatureLists
  AskSets <- MCAskSets
CHECK_DEADLOCK FALSE
INVARIANT IInv
INVARIANT DuplicateMeansReuse
PROPERTY SignaturesArePermanent
PROPERTY ImplementsAuthorization
