\* Two orders in any two ways of paying, with refunds, late payments and lapses;
\* two copies of a report in flight, one re-pairing, a gap of one batch and a
\* history of one row.
SPECIFICATION AccountSpec
CONSTANTS
  Plans = {A, B}
  Endless = {B}
  Price = 4
  Discount = 1
  MaxUses = 1
  Percent = 50
  Money = 7
  Checkouts <- SomeCheckouts
  MaxOrders = 2
  LateRepeats = FALSE
  Epochs = {none, e1}
  Legacy = none
  Gap = 1
  MaxSeq = 3
  MaxRows = 1
  MaxTokens = 2
  Slots = {r1, r2}
INVARIANTS PeriodsArePaidFor MoneyAddsUp HooksFollowOrders
PROPERTIES QueueMoves BilledOnce HistoryIsFirstReception BatchGetsThrough
CHECK_DEADLOCK FALSE
