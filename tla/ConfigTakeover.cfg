\* A process dies; its successor must become the head.
SPECIFICATION FairSpec
CONSTANTS
  Sessions = {a, b}
  NoSession = NoSession
  Revisions = {r1, r2}
  NoRev = NoRev
  Keep = 2
  FreshFor = 2
  Skew = 0
  Lag = 0
  Forced = {FALSE}
  Claims = {TRUE}
  Mortal = {a}
  MaxGenerations = 2
  MaxDeliveries = 8
  MaxEdits = 1
  MaxSeq = 0
  MaxGets = 1
  MaxTime = 0
PROPERTIES SurvivorTakesOver
CHECK_DEADLOCK FALSE
