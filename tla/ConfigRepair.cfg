\* Re-pairing while requests of the old token are in flight; a clock, skewed
\* observations, receipts that travel for a while; targets force new deliveries.
SPECIFICATION Spec
CONSTANTS
  Sessions = {a}
  NoSession = NoSession
  Revisions = {r1}
  NoRev = NoRev
  Keep = 2
  FreshFor = 2
  Skew = 1
  Lag = 1
  Forced = {TRUE, FALSE}
  Claims = {TRUE}
  Mortal = {}
  MaxGenerations = 2
  MaxDeliveries = 3
  MaxEdits = 0
  MaxSeq = 1
  MaxGets = 2
  MaxTime = 5
INVARIANTS FreshIsRecent
PROPERTIES RevokedIsPowerless
CHECK_DEADLOCK FALSE
