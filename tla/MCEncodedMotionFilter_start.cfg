SPECIFICATION Spec
CONSTANTS
  MinFrames = 2
  MinEvent = 1
  Lookback = 2
  CoolDown = 2
  Gaps = {1, 2}
  MaxFrames = 6
INVARIANT MotionStartsEvent
CHECK_DEADLOCK FALSE
