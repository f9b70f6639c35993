SPECIFICATION FieldsSpec
CONSTANTS
  MaxDepth = 1
  FirstHardened = 100
  MaxIndex = 1
  ValidDiversifiers = {0, 1}
  Ciphers <- MCCiphers
  NOTE_COMMITMENT_TREE_DEPTH = 2
  Spenders <- MCSpenders
  DummyKey <- MCDummyKey
  Accounts <- MCAccounts
  Recipient <- MCRecipient
  NoteValues = {0, 1}
  Deviations <- MCDeviations
CHECK_DEADLOCK FALSE
INVARIANT ApprovedIsOwn
INVARIANT ChecksAreExact
INVARIANT HonestSucceeds
PROPERTY V5KeepsProofs
