CONSTANTS
    Width <- Ascii
    Reply <- TwoReplies
    ChunkSize = 1
    Requests = {"r1", "r2"}
    Ping = "ping"
    MaxAttempts = 2
    MaxConns = 1
SPECIFICATION Spec
INVARIANT AnswersAreIntact
INVARIANT PumpServesAll
CHECK_DEADLOCK FALSE
