CONSTANTS
    s1 = s1
    s2 = s2
    s3 = s3
    Srcs = {s1, s2, s3}
    Cycle = cycle
    NoOne = noone
    MaxEmits = 4
SPECIFICATION MuxFairSpec
INVARIANT MissedOnlyAfterCheck
PROPERTY WokenIsProcessed
