\* An overflow behind a blocked write, malformed input and output of both
\* streams, against every way a terminal may end.
SPECIFICATION Spec
CONSTANTS
    Capacity = 1
    Msgs <- MCMsgs
    Junk <- MCJunk
    Streams <- MCStreams
    Bounds <- MCBounds
INVARIANTS InputHasNoGap NothingOutlivesHandler OutputIsComplete NoHalfSession
PROPERTIES EndsCompletely ImplementsOwner
CHECK_DEADLOCK FALSE
