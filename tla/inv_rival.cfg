SPECIFICATION FairSpec
CONSTANTS
  Names <- TwoNames
  Keys <- OneKey
  Versions <- OneVersion
  Rank <- RivalRank
  Position <- RivalRank
  Contents <- RivalArchives
  Junk = {"junk"}
  SizeOf <- RivalSizes
  KeyOf <- RivalKeyOf
  CanonicalName <- RivalCanonical
  Exts = {"ext"}
  ExtOf <- RivalExtOf
  VersionOf <- RivalVersionOf
  Times = {1, 2}
  IdemKeys = {"i1"}
  Offered <- RivalArchives
  Limits = {}
  Found <- RivalFound
  MaxEdits = 0
  None = None
INVARIANTS RowsHonest JournalComplete
PROPERTIES DeletedStays ReceiptsStand LockReleased StartupEnds ImplementsArchive
