SPECIFICATION FairSpec
CONSTANTS
  Nodes = {1, 2, 3}
  Wallets = {w1}
  Keys <- MCKeys
  Legacy = w1
  Policy <- MCPolicy
  Hash <- MCHash
  GlobalMaxInflight = 2
  ConfirmDeadScans = 2
  MigrateOversized = TRUE
  MaxTrouble = 2
  None = None
PROPERTY EveryFamilyHeals
