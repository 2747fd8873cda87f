\* A line is created and removed; agents may fall silent at any time.
SPECIFICATION FairSpec
CONSTANTS
  Nodes <- MCNodes
  Ports <- MCPorts
  Landing = 4
  Intents <- NewOrNone
  Start <- NoLine
  MaxPlans = 2
  MaxDeliveries = 4
  MaxGets = 1
  MaxAttempts = 2
  Budget <- LifeBudget
PROPERTIES StopsByItself
CHECK_DEADLOCK FALSE
