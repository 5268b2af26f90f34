CONSTANTS
    Width <- Accented
    Reply <- AccentedReply
    ChunkSize = 2
    Requests = {"r1"}
    Ping = "ping"
    MaxAttempts = 0
    MaxConns = 1
SPECIFICATION Spec
INVARIANT AnswersAreIntact
CHECK_DEADLOCK FALSE
