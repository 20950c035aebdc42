SPECIFICATION SnapshotSpec
CONSTANTS
  p1 = p1  p2 = p2  p3 = p3  n1 = n1  n2 = n2  b1 = b1  boot1 = boot1
  Rejected = Rejected  Dropped = Dropped
  Payloads <- MCPayloads
  Names <- MCNames
  FieldOf <- MCFieldOf
  Buckets = {b1}
  DataBucket <- MCDataBucket
  FieldBucket <- MCFieldBucket
  Boots = {boot1}
  Requests <- MCRequests
  SeqnumOptions <- OnlyDefault
  Monotonics = {1}
  TrustedOptions = {FALSE}
  SeqnumMax = 100
  MonotonicMax = 100
  MinCapacity = 1
  Compact = FALSE
  CompactMax = 40
  TailModulus = 4096
  CacheMax = 2
  PublishEvery = 1
  Junk = 999
  MaxOffset = 40
  MaxEntries = 4
CHECK_DEADLOCK FALSE
INVARIANTS
  SnapshotExact
PROPERTIES
  VisitEnds
