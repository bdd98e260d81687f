SPECIFICATION FairSpec
CONSTANTS
  Session = {s1, s2}
  Flusher = {f1, f2}
  Nobody = Nobody
  MaxRows = 1
  BatchSize = 2
  Refusals = TRUE
  IoErrors = TRUE
  MaxEvents = 2
  MaxForks = 1
  MaxCrashes = 1
PROPERTIES FlushReturns QueueDrains
