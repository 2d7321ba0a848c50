SPECIFICATION FeedSpec
CONSTANTS
  Handlers = {h1, h2}
  Connections = {c1}
  Names <- MCNames
  Restored <- MCRestored
  Calls <- MCCalls
  Bookless <- MCBookless
  Channels <- MCChannels
  FromSeqs <- MCFromSeqs
  BROADCAST_CAPACITY = 5
  MaxRequests = 2
INVARIANTS
  WritesAreStreamed
