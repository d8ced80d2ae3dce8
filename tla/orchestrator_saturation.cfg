SPECIFICATION FairSpec
CONSTANTS
  Nodes = {1, 2, 3}
  Wallets = {w1, w2}
  Keys <- MCKeys
  Legacy = w1
  Policy <- MCPolicy
  Hash <- MCHash
  GlobalMaxInflight = 1
  ConfirmDeadScans = 2
  MigrateOversized = TRUE
  MaxTrouble = 1
  None = None
INVARIANTS CapHolds CommitteesCanSign
PROPERTY SelfHeals
