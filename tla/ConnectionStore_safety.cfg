SPECIFICATION StoreFairSpec
CONSTANTS
  Items = {i1}
  Profiles = {p1}
  Syncs = {s1, s2}
  MaxEdits = 3
  MaxChanges = 1
  MaxFaults = 1
INVARIANTS
  EditsOutsideSyncsAreSafe
PROPERTY
  QuietSyncConverges
