SPECIFICATION Spec
CONSTANTS
  Names <- TwoNames
  Keys <- TwoKeys
  Versions <- TwoVersions
  Rank <- TwoRank
  Position <- TwoRank
  Contents <- TwoArchives
  Junk = {}
  SizeOf <- TwoSizes
  KeyOf <- TwoKeyOf
  CanonicalName <- TwoCanonical
  Exts = {"ext"}
  ExtOf <- TwoExtOf
  VersionOf <- TwoVersionOf
  Times = {1, 2}
  IdemKeys = {}
  Offered <- TwoArchives
  Limits = {}
  Found <- TwoFound
  MaxEdits = 0
  None = None
PROPERTY AcknowledgedIsDurable
