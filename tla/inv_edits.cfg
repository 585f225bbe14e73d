SPECIFICATION EditsSpec
CONSTANTS
  Names <- TwoNames
  Keys <- OneKey
  Versions <- OneVersion
  Rank <- RivalRank
  Position <- RivalRank
  Contents <- RivalArchives
  Junk = {"junk"}
  SizeOf <- RivalSizes
  KeyOf <- RivalKeyOf
  CanonicalName <- RivalCanonical
  Exts = {"ext"}
  ExtOf <- RivalExtOf
  VersionOf <- RivalVersionOf
  Times = {t1, t2}
  IdemKeys = {}
  Offered = {"a"}
  Limits = {}
  Found <- RivalFound
  MaxEdits = 2
  None = None
SYMMETRY AnyTimes
PROPERTIES FullScanTruth IdentityPinned ScanFindsEdits
