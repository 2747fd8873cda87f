\* The claim about cleanup order, for a release that is given up.
SPECIFICATION Spec
CONSTANTS
  Nodes = {1, 2, 3}
  Ports = {"p", "q"}
  MaxGroup = 2
  MaxHops = 3
INVARIANTS NeverDangling
CHECK_DEADLOCK FALSE
