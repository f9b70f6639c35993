SPECIFICATION Spec
CONSTANTS
  MaxDepth = 1
  FirstHardened = 1
  MaxIndex = 1
  ValidDiversifiers = {0}
  Ciphers <- MCCiphers
  NOTE_COMMITMENT_TREE_DEPTH = 2
  WalletKey <- MCWalletKey
  OtherKeys <- MCOtherKeys
  Diversifiers = {0}
  Values = {0, 1}
  Rseeds <- MCRseeds
  MaxLeaves = 3
  MaxSpends = 2
CHECK_DEADLOCK FALSE
INVARIANT PoolIsBacked
INVARIANT OnlyTheWalletSpends
INVARIANT WalletIsNeverRefused
