SPECIFICATION Spec
CONSTANTS
  Session = {s1}
  Flusher = {f1}
  Nobody = Nobody
  MaxRows = 3
  BatchSize = 2
  Refusals = FALSE
  IoErrors = TRUE
  MaxEvents = 3
  MaxForks = 0
  MaxCrashes = 0
SYMMETRY Symmetry
INVARIANTS FailedWriteLeavesNoTrace
