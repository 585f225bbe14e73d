SPECIFICATION FairSpec
CONSTANTS
  Artifacts = {"a1", "a2x", "a3"}
  Exts = {"e"}
  ExtOf <- OneExt
  VersionOf <- Of
  Published = {"a1", "a2x"}
  Versions = {"v1", "v2", "v3"}
  Rank <- Order
  Position <- Order
  Workers = {w1, w2}
  Retries = 2
  Limits = {0, 1}
  Known <- Starts
  MaxRestarts = 1
  None = None
INVARIANTS TypeOK CompleteIsTotal Collected
PROPERTIES RunEnds
