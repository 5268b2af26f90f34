CONSTANTS
    Dirs = {d1}
    MaxStreams = 2
    MaxSubs = 3
    MaxAttempts = 1
SPECIFICATION FairSpec
INVARIANT SomeoneSettlesReady
INVARIANT WatchesAgree
PROPERTY CallsEnd
PROPERTY ChangesAreReported
PROPERTY ReconnectsOrGivesUp
CHECK_DEADLOCK FALSE
