SPECIFICATION ReaderOrWriterSpec
CONSTANTS
    Journals <- MCJournals
    Caps <- MCCaps
    SeqIds <- MCSeqIds
    FileSetups <- MCFileSetups
    DirSetups <- MCDirSetups
    Scripts <- MCScripts
    Data <- MCData
    Times <- MCTimes
    Anchors <- MCAnchors
    MaxCalls = 3
    MaxGrowth = 1
    Arrival = 6
    Replace = FALSE
    p1 = p1  p2 = p2  p3 = p3  n1 = n1  n2 = n2  b1 = b1  b2 = b2
    boot1 = boot1  boot2 = boot2
    Rejected = Rejected  Dropped = Dropped
    Payloads <- MCPayloads
    Names <- MCNames
    FieldOf <- MCFieldOf
    Buckets <- MCBuckets
    DataBucket <- MCDataBucket
    FieldBucket <- MCFieldBucket
    Boots = {boot1}
    Requests <- IndexRequests
    SeqnumOptions <- OnlyDefault
    Monotonics = {1}
    TrustedOptions = {FALSE}
    SeqnumMax = 100
    MonotonicMax = 100
    MinCapacity = 1
    Compact = FALSE
    CompactMax = 40
    TailModulus = 4096
    CacheMax = 1
    PublishEvery = 1
    Junk = 999
    MaxOffset = 40
    MaxEntries = 4
CHECK_DEADLOCK FALSE
INVARIANTS
  TypeOK CommittedLinked VerifierExact
PROPERTIES
  ReadsExact FailuresKept ImplementsAppendLog AppendReturns
