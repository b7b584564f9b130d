SPECIFICATION Spec
CONSTANTS
  Objects = {"pod", "dep"}
  Queries <- MCQueries
  Window = 1
  MaxEvents = 1
  MaxBytes = 1
  Sizes = {0, 3, 5}
  Stamps = {"legacy"}
  Skew = 0
  NoLog = NoLog
  MaxClock = 1
  MaxRecorded = 0
  MaxInstances = 2
INVARIANT LogEndKept
