SPECIFICATION StorageSpec
CONSTANTS
  p1 = p1  p2 = p2  n1 = n1  b1 = b1  boot1 = boot1
  Rejected = Rejected  Dropped = Dropped
  Payloads <- MCPayloads
  Names = {n1}
  FieldOf <- MCFieldOf
  Buckets = {b1}
  DataBucket <- MCDataBucket
  FieldBucket <- MCFieldBucket
  Boots = {boot1}
  Requests <- MCRequests
  SeqnumOptions <- OnlyDefault
  Monotonics = {1}
  TrustedOptions = {FALSE}
  SeqnumMax = 100
  MonotonicMax = 100
  MinCapacity = 1
  Compact = FALSE
  CompactMax = 40
  TailModulus = 4096
  CacheMax = 2
  PublishEvery = 1
  Junk = 999
  MaxOffset = 40
  MaxEntries = 3
  MaxCrashes = 2
  Layout <- MCLayout
  HeaderSize = 2
  Prefix = 1
  Increase = 4
  Existing = 4
  MaxChunks = 2
  Managers <- MCManagers
  TouchSet = {1}
  ReadSet = {3}
  N = 4
CHECK_DEADLOCK FALSE
INVARIANTS
  AckedSurvive StrictImpliesGraph MappingSound
PROPERTIES
  CommittedOnlyGrows DurableLog ChainWalksSound
