------------------------- MODULE MCDebouncingQueue -------------------------
EXTENDS DebouncingQueue
CONSTANTS r1, r2, r3, r4
MCRequests == {r1, r2, r3, r4}
MCBare == {r4}
=============================================================================
