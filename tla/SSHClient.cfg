SPECIFICATION ClientSpec
INVARIANTS FailureReleases UsableStaysOpen
PROPERTIES ClientImplementsOwner NoGoroutineLeaks
CHECK_DEADLOCK FALSE
