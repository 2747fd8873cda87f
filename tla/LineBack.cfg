\* A line is moved, a server is paired again, the plan is compensated.
SPECIFICATION Spec
CONSTANTS
  Nodes <- MCNodes
  Ports <- MCPorts
  Landing = 4
  Intents <- OldOrNew
  Start <- Old
  MaxPlans = 2
  MaxDeliveries = 3
  MaxGets = 1
  MaxAttempts = 2
  Budget <- BackBudget
INVARIANTS EntriesServed CompletedIsClean RepairedInheritsNothing
CHECK_DEADLOCK FALSE
