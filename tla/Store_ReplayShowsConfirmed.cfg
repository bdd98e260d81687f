SPECIFICATION Spec
CONSTANTS
  Session = {s1}
  Flusher = {f1, f2}
  Nobody = Nobody
  MaxRows = 2
  BatchSize = 2
  Refusals = FALSE
  IoErrors = FALSE
  MaxEvents = 3
  MaxForks = 0
  MaxCrashes = 0
SYMMETRY Symmetry
INVARIANTS ReplayShowsConfirmed
