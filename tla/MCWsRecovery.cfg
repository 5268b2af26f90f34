CONSTANTS
    Width <- Ascii
    Reply <- OneReply
    ChunkSize = 2
    Requests = {"r1"}
    Ping = "ping"
    MaxAttempts = 1
    MaxConns = 2
SPECIFICATION FairSpec
INVARIANT NeverReplayed
INVARIANT UpOrOver
PROPERTY EveryRequestSettles
CHECK_DEADLOCK FALSE
