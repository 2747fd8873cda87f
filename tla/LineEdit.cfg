\* A line is moved while another change reaches its servers and polls overlap.
SPECIFICATION Spec
CONSTANTS
  Nodes <- MCNodes
  Ports <- MCPorts
  Landing = 4
  Intents <- OldOrNew
  Start <- Old
  MaxPlans = 1
  MaxDeliveries = 3
  MaxGets = 2
  MaxAttempts = 2
  Budget <- EditBudget
INVARIANTS NeverDangling AttemptsAnswerThemselves ConfirmedIsInstalled
CHECK_DEADLOCK FALSE
