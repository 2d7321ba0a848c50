SPECIFICATION RecoverySpec
CONSTANTS
  Markets <- MCMarkets
  TraderIds <- MCTraders
  Pubkeys <- MCKeys
  hex_encode <- MChex
  tick_size <- MCTick
  lot_size <- MCLot
  SignedOrders <- MCSignedOrders
  Times <- MCTimes
  NoOrder = NoOrder
  MaxEvents = 4
  MaxPending = 2
  MaxCrashes = 2
  LoadMayFail = FALSE
INVARIANTS
  RecoveryTypeOK
  LogContiguous
  RowsAreLogged
  StoreMatchesReplay
  BooksMatchReplay
  IdempotencyMatchesLog
  QueuesHoldOpenOrders
  CrossedOnlyByOrphans
  PauseHolds
CHECK_DEADLOCK FALSE
