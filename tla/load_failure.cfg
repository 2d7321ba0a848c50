SPECIFICATION RecoverySpec
CONSTANTS
  Markets <- MCMarkets
  TraderIds <- MCTraders
  Pubkeys <- MCKeys
  hex_encode <- MChex
  tick_size <- MCTick
  lot_size <- MCLot
  SignedOrders <- MCSignedOrders
  Times <- MCTimes
  NoOrder = NoOrder
  MaxEvents = 4
  MaxPending = 2
  MaxCrashes = 1
  LoadMayFail = TRUE
INVARIANTS
  CounterNeverReset
CHECK_DEADLOCK FALSE
