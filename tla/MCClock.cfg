CONSTANTS
  TimeNear = 2
  TimeSlot = 2
  TimeWheelCount = 2
  TickWrap = 8
  StartTime = 5
  MaxLag = 2
  MaxTick = 10
  MaxTimers = 3
  Delays = {0, 3, 9}

SPECIFICATION FairSpec

INVARIANTS
  TickFollowsTime
  InPlace

PROPERTIES
  ImplementsTimerList
  LastOutFires

CHECK_DEADLOCK FALSE
