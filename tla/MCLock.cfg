\* Exclusion and reclaim under crashes, restarts, a reboot and failing calls.
CONSTANTS
  Procs = {p1, p2}
  Nobody = Nobody
  Partial = Partial
  NoFile = NoFile
  MaxStarts = 2
  MaxBoots = 2
  MaxFailures = 1
SPECIFICATION FairSpec
CHECK_DEADLOCK FALSE
INVARIANTS
  ExclusionUnlessRaced
PROPERTIES
  AbandonedLockReclaimed
