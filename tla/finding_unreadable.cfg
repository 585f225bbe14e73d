SPECIFICATION FaultySpec
CONSTANTS
  Names <- TwoNames
  Keys <- OneKey
  Versions <- OneVersion
  Rank <- RivalRank
  Position <- RivalRank
  Contents <- RivalArchives
  Junk = {"junk"}
  SizeOf <- RivalSizes
  KeyOf <- RivalKeyOf
  CanonicalName <- RivalCanonical
  Exts = {"ext"}
  ExtOf <- RivalExtOf
  VersionOf <- RivalVersionOf
  Times = {1, 2}
  IdemKeys = {}
  Offered <- RivalArchives
  Limits = {}
  Found <- TwoFound
  MaxEdits = 0
  None = None
PROPERTY MissingIsAbsent
