\* The claim about repeated callbacks, for an order refunded meanwhile.
SPECIFICATION BillingSpec
CONSTANTS
  Plans = {A, B}
  Endless = {B}
  Price = 4
  Discount = 1
  MaxUses = 1
  Percent = 50
  Money = 7
  Checkouts <- SomeCheckouts
  MaxOrders = 2
  LateRepeats = TRUE
PROPERTIES SettlesOnce
CHECK_DEADLOCK FALSE
