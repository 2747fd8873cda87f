\* Two plans in one tick, one of which cannot be published.
SPECIFICATION Spec
CONSTANTS
  Plans = {1, 2}
  Limit = 2
PROPERTIES OverduePauses
CHECK_DEADLOCK FALSE
