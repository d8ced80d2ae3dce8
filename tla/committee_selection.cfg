SPECIFICATION SelectSpec
CONSTANTS
  Ids = {1, 2, 3, 4}
  Policies <- MCPolicies
  Hashes <- MCHashes
  MaxPool = 4
  MaxOld = 3
INVARIANTS MatchesPromise Settles
PROPERTY KeepsLiveMembers
