SPECIFICATION FairSpec
CONSTANTS
  Server = {s1}
  Tx = {t1}
  NoTx = NoTx
  MaxRetries = 2
  MaxParticipants = 2
  DeadlineCanExpire = TRUE
  MaxCrashes = 2
PROPERTIES CallReturns RecoveryEnds ReconcileEnds
