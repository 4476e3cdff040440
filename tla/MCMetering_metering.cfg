CONSTANTS
  Keys = {k1}
  Minute = 1
  Limits = {0, 1}
  MaxTime = 3
  Requests = {1, 2}
  NoKey = NoKey
  Subscription = {sub}
  Metered = {api}
  Prices = {0, 1}
  Budget = 1
  MonthLength = 2
  BufferSize = 1
  BatchSize = 2
  MaxEvents = 1
SPECIFICATION FairSpec
INVARIANTS WithinTheRate EntriesAreConserved 
PROPERTIES LateOnlyAfterTimeout ChargesAreKept TrackedIsWritten
CHECK_DEADLOCK FALSE
