SPECIFICATION Spec
CONSTANTS
  Server = {s1, s2}
  Tx = {t1}
  NoTx = NoTx
  MaxRetries = 1
  MaxParticipants = 2
  DeadlineCanExpire = TRUE
  MaxCrashes = 1
SYMMETRY Symmetry
INVARIANTS TimeoutMeansRolledBack
