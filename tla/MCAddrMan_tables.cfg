SPECIFICATION Spec
CONSTANTS
    Service <- MCService
    IP <- MCIP
    Source = {"x", "y"}
    IpOf <- MCIpOf
    NewBucket = {"x", "y"}
    TriedBucket = {1}
    NewBucketOf <- MCNewBucketOf
    TriedBucketOf <- MCTriedBucketOf
    ADDRMAN_NEW_BUCKET_SIZE = 1
    ADDRMAN_TRIED_BUCKET_SIZE = 1
    ADDRMAN_NEW_BUCKETS_PER_ADDRESS = 2
    ADDRMAN_TRIED_ENTRIES_INSPECT_ON_EVICT = 2
    ADDRMAN_GETADDR_MAX_PCT = 67
    MaxId = 3
    MaxTime = 1
INVARIANTS
    Check
    DumpLoadKeepsTables
PROPERTIES
    TriedNeverForgotten
