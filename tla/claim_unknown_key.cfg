SPECIFICATION Spec
CONSTANTS
    Disks <- MCUnknownDisks
    MaxBotIdentities = 2
    UInt64Range = 4096
    IntRange = 256
    TruncateUtf8 <- MCTruncateUtf8
    Subtags <- MCSubtags
INVARIANT UnknownKeysAreSkipped
CHECK_DEADLOCK FALSE
