SPECIFICATION FairSpec
CONSTANTS
  Instances = {i1}
  Wallets = {w1}
  Sessions = {s1, s2}
  Attempts = {a1, a2}
  None = None
  GlobalMaxInflight = 2
  RenewalsTimely = FALSE
  SweepEnabled = TRUE
PROPERTY LeakReclaimed
