CONSTANTS
  Limit = 2
  MaxFrames = 5
  MaxSize = 3
SPECIFICATION ConnectSpec
INVARIANTS InputHasNoGap LostInputIsTold
PROPERTIES InputArrives SizeArrives
CHECK_DEADLOCK FALSE
