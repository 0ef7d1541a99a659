SPECIFICATION Spec
CONSTANTS
    Disks <- MCDisks
    MaxBotIdentities = 2
    UInt64Range = 4096
    IntRange = 256
    TruncateUtf8 <- MCTruncateUtf8
    Subtags <- MCSubtags
INVARIANTS TypeOK ConfigIsRead BotsAreRead CutLosesTheEnd
PROPERTY ReadingEnds
CHECK_DEADLOCK FALSE
