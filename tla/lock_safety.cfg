SPECIFICATION Spec
CONSTANTS
  Instances = {i1, i2}
  Wallets = {w1}
  Sessions = {s1, s2, s3}
  Attempts = {a1, a2, a3}
  None = None
  GlobalMaxInflight = 2
  RenewalsTimely = FALSE
  SweepEnabled = FALSE
SYMMETRY Symmetric
INVARIANTS TypeOK Exclusion HeldIsReleased RecordCoversWork
PROPERTY RefinesWalletLock
