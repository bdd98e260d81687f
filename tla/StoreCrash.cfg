SPECIFICATION TurnSpec
CONSTANTS
  Session = {s1, s2}
  Flusher = {f1, f2}
  Nobody = Nobody
  MaxRows = 2
  BatchSize = 2
  Refusals = TRUE
  IoErrors = FALSE
  MaxEvents = 3
  MaxForks = 1
  MaxCrashes = 1
SYMMETRY Symmetry
INVARIANTS TypeOK FilesContiguous ConfirmedKept IndexIsTrue ReplayOnce NoKeyConflict AnswerIsDurable
  ForkSeesPrefix
PROPERTIES AppendOnly RebuildHeals
