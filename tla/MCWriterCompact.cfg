SPECIFICATION Spec
CONSTANTS
  p1 = p1  p2 = p2  p3 = p3  n1 = n1  n2 = n2  b1 = b1  b2 = b2
  boot1 = boot1  boot2 = boot2
  Rejected = Rejected  Dropped = Dropped
  Payloads <- MCPayloads
  Names <- MCNames
  FieldOf <- MCFieldOf
  Buckets <- MCBuckets
  DataBucket <- MCDataBucket
  FieldBucket <- MCFieldBucket
  Boots = {boot1, boot2}
  Requests <- RepeatRequests
  SeqnumOptions <- SeqnumChoices
  Monotonics = {2}
  TrustedOptions = {TRUE, FALSE}
  SeqnumMax = 6
  MonotonicMax = 3
  MinCapacity = 1
  Compact = TRUE
  CompactMax = 16
  TailModulus = 4096
  CacheMax = 1
  PublishEvery = 2
  Junk = 999
  MaxOffset = 40
  MaxEntries = 4
CHECK_DEADLOCK FALSE
INVARIANTS
  SeqnumOrder HealthyArenaPublished AckedAccounting PublicationLag LinkStateFresh
  NoDamageMet
PROPERTIES
  EntriesWriteOnce StoresPoisoned
