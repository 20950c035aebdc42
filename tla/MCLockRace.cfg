\* Two processes in one boot, no failing call, everything within the grace period.
CONSTANTS
  Procs = {p1, p2}
  Nobody = Nobody
  Partial = Partial
  NoFile = NoFile
  MaxStarts = 1
  MaxBoots = 1
  MaxFailures = 0
SPECIFICATION QuickSpec
INVARIANTS MutualExclusion
CHECK_DEADLOCK FALSE
