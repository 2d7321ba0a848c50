SPECIFICATION Spec
CONSTANTS
  Markets <- MCMarkets
  TraderIds <- MCTraders
  Pubkeys <- MCKeys
  hex_encode <- MChex
  tick_size <- MCTick
  lot_size <- MCLot
  SignedOrders <- MCSignedOrders
  Times <- MCTimes
  NoOrder = NoOrder
  MaxEvents = 7
  WORD = 5
  MaxDepth = 1
  MaxTrades = 2
INVARIANTS
  ClosedOrderReported
CHECK_DEADLOCK FALSE
