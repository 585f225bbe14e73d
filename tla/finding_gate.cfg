\* Two reconciles after a failed startup scan.
SPECIFICATION FairSpec
CONSTANTS
  Uploads = {u1}
  Edits = {d}
  Reconciles = {r1, r2}
  Startup = startup
  Slots = 1
  None = none
PROPERTY GateStaysOpen
