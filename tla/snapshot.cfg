SPECIFICATION SnapshotSpec
CONSTANTS
  Markets <- MCMarkets
  TraderIds <- MCTraders
  Pubkeys <- MCKeys
  hex_encode <- MChex
  tick_size <- MCTick
  lot_size <- MCLot
  SignedOrders <- MCSignedOrders
  Times <- MCTimes
  NoOrder = NoOrder
  NoSnapshot = NoSnapshot
  MaxEvents = 2
  MaxPending = 1
  MaxCrashes = 1
  MaxFailures = 1
  LoadMayFail = FALSE
INVARIANTS
  SnapshotTypeOK
  WholeSnapshotsLoad
  SnapshotsAgree
PROPERTIES
  EventsReachSnapshot
CHECK_DEADLOCK FALSE
