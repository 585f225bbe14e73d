\* Three uploads, two of which have a slot, beside a deletion and a scan that a client asks for.
SPECIFICATION FairSpec
CONSTANTS
  Uploads = {u1, u2, u3}
  Edits = {d}
  Reconciles = {r1}
  Startup = startup
  Slots = 2
  None = none
INVARIANTS
  TypeOK
  StagingExact
  ScansAlone
  AdmittedAfterScan
  SlotsExact
PROPERTIES
  EveryoneEnds
  StopEnds
