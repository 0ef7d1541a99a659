--------------------------- MODULE MCSharedMemory ---------------------------
(* Values of the constants for TLC. *)
EXTENDS SharedMemory

\* a has no ping; b's is below the range, and the jitter takes it below the clamp.
MCPings == [x \in Bots |-> IF x = "a" THEN 0 ELSE 1]

MCRange(enabled, min, max) ==
    [enableFakePing |-> enabled, fakePingMin |-> min, fakePingMax |-> max,
     pingJitterPercent |-> 1]

\* One ping for everybody; none for a, who has none; none at all.
MCFeatures == {MCRange(TRUE, 5, 5), MCRange(TRUE, -1, 0), MCRange(FALSE, 5, 5)}

=============================================================================
