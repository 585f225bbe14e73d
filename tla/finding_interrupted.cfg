SPECIFICATION UninterruptedLimits
CONSTANTS
  Names <- TwoNames
  Keys <- TwoKeys
  Versions <- TwoVersions
  Rank <- TwoRank
  Position <- TwoRank
  Contents <- TwoArchives
  Junk = {}
  SizeOf <- TwoSizes
  KeyOf <- TwoKeyOf
  CanonicalName <- TwoCanonical
  Exts = {"ext"}
  ExtOf <- TwoExtOf
  VersionOf <- TwoVersionOf
  Times = {1, 2}
  IdemKeys = {}
  Offered = {}
  Limits = {1}
  Found <- OneFound
  MaxEdits = 1
  None = None
PROPERTY LimitAfterScan
