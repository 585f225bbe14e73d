\* Two readers and a library limit; a page and a batch hold one extension.
SPECIFICATION SteadySpec
CONSTANTS
  Versions = {"v1", "v2"}
  Rank <- Order
  Position <- Order
  Exts = {1, 2}
  Keys = {"a1", "a2", "b1", "b2"}
  ExtOf <- Owned
  VersionOf <- Of
  Written = {"stored", "deleted"}
  Starts <- Databases
  Own = {}
  Limits = {0, 1}
  Readers = {r1, r2}
  Limiter = limiter
  Batch = 1
  MaxChanges = 1
  None = none
INVARIANTS
  TypeOK
  UnmarkedAreRight
  LimitApplied
PROPERTIES
  ReadsAreRecent
  RequestsEnd
