SPECIFICATION Zip32Spec
CONSTANTS
  MaxDepth = 1
  FirstHardened = 2
  MaxIndex = 2
  ValidDiversifiers = {0, 2}
  Ciphers <- MCCiphers
  Seeds = {1}
  ChildIndices = {2, 3}
  Backups <- MCBackups
  MaxKeys = 2
  MaxUsed = 3
  MaxIssued = 1
CHECK_DEADLOCK FALSE
INVARIANT DecryptsOwnAddresses
