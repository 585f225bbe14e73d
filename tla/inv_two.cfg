SPECIFICATION Spec
CONSTANTS
  Names <- TwoNames
  Keys <- TwoKeys
  Versions <- TwoVersions
  Rank <- TwoRank
  Position <- TwoRank
  Contents <- TwoArchives
  Junk = {}
  SizeOf <- TwoSizes
  KeyOf <- TwoKeyOf
  CanonicalName <- TwoCanonical
  Exts = {"ext"}
  ExtOf <- TwoExtOf
  VersionOf <- TwoVersionOf
  Times = {t1, t2}
  IdemKeys = {}
  Offered <- TwoArchives
  Limits = {1}
  Found <- TwoFound
  MaxEdits = 0
  None = None
SYMMETRY AnyTimes
INVARIANTS TypeOK StoredIsThere OneClaim JournalComplete
PROPERTIES FilesLast StoredStays DeletesOnlyDeleted TrimIsExact ImplementsArchive
