SPECIFICATION Spec
CONSTANTS
  Names <- TwoNames
  Keys <- TwoKeys
  Versions <- TwoVersions
  Rank <- TwoRank
  Position <- TwoRank
  Contents <- TwoArchives
  Junk = {}
  SizeOf <- TwoSizes
  KeyOf <- TwoKeyOf
  CanonicalName <- OneCanonical
  Exts = {"ext"}
  ExtOf <- TwoExtOf
  VersionOf <- TwoVersionOf
  Times = {1, 2}
  IdemKeys = {}
  Offered <- TwoArchives
  Limits = {1}
  Found <- TwoFound
  MaxEdits = 0
  None = None
PROPERTY DeletesOnlyDeleted
