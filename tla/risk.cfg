SPECIFICATION RiskSpec
CONSTANTS
  Handlers = {h1, h2}
  TraderIds <- MCTraders
  Markets <- MCMarkets
  Orders <- MCOrders
  Times <- MCTimes
  max_orders_per_window = 2
  window_ms = 1
  market_config <- MCConfig
  BPS = 10
  MAX = 30
  MaxSubmissions = 3
INVARIANTS
  RiskTypeOK
  WindowsBounded
  RateLimited
  ReferenceCurrent
PROPERTIES
  BandRespected
