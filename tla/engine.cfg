SPECIFICATION Spec
CONSTANTS
  Markets <- MCMarkets
  TraderIds <- MCTraders
  Pubkeys <- MCKeys
  hex_encode <- MChex
  tick_size <- MCTick
  lot_size <- MCLot
  SignedOrders <- MCSignedOrders
  Times <- MCTimes
  NoOrder = NoOrder
  MaxEvents = 7
  WORD = 5
  MaxDepth = 2
  MaxTrades = 2
INVARIANTS
  TypeOK
  LogGapless
  IdempotencyMatchesLog
  NoncesRise
  EventsFollowAcceptance
  QueuesHoldOpenOrders
  BookNotCrossed
  SnapshotsStayFresh
  NoOverfill
  FillAccounting
  NoOrderLost
  DepthMatchesLog
  PagesMissNothing
  RetryAnswered
  CancelAnswered
PROPERTIES
  PriceTimePriority
  CallsComplete
  ImplementsExchange
CHECK_DEADLOCK FALSE
