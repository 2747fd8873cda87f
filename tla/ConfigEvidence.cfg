\* Two overlapping processes under one token, the desired state changes once.
SPECIFICATION Spec
CONSTANTS
  Sessions = {a, b}
  NoSession = NoSession
  Revisions = {r1, r2}
  NoRev = NoRev
  Keep = 2
  FreshFor = 2
  Skew = 0
  Lag = 0
  Forced = {FALSE}
  Claims = {TRUE}
  Mortal = {}
  MaxGenerations = 1
  MaxDeliveries = 3
  MaxEdits = 1
  MaxSeq = 1
  MaxGets = 2
  MaxTime = 0
SYMMETRY Symmetry
INVARIANTS HeadServes AppliedIsTrue
PROPERTIES SupersededIsSilent TakeoverIsProven HeadOnlyHandsOver
CHECK_DEADLOCK FALSE
