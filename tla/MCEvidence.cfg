SPECIFICATION MCSpec
CONSTANTS
  Objects = {"pod", "dep"}
  Queries <- MCQueries
  Window = 1
  MaxEvents = 1
  MaxBytes = 1
  Sizes = {0, 3, 5}
  Skew = 1
  Stamps = {"legacy", "ahead", "event", "first", "none"}
  NoLog = NoLog
  MaxClock = 3
  MaxRecorded = 2
  MaxInstances = 2
INVARIANT TypeOK
INVARIANT EventsRecent
INVARIANT RecentEventKept
INVARIANT LogsExplainCrash
INVARIANT LastWordsKept
