CONSTANT MaxChunks = 2
SPECIFICATION Spec
INVARIANTS TailIsShown
PROPERTIES EndsCompletely
CHECK_DEADLOCK FALSE
