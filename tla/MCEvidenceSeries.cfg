SPECIFICATION Spec
CONSTANTS
  Objects = {"pod", "dep"}
  Queries <- MCQueries
  Window = 1
  MaxEvents = 1
  MaxBytes = 1
  Sizes = {3}
  Stamps = {"legacy", "event"}
  Skew = 0
  NoLog = NoLog
  MaxClock = 3
  MaxRecorded = 1
  MaxInstances = 1
INVARIANT BothRecordersHandled
