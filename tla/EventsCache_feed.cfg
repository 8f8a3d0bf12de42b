SPECIFICATION HSpec
CONSTANTS
  EventId = {1, 2, 3, 4}
  Project = {"p1", "p2"}
  Event <- FeedEvents
  MaxEntries = 2
  Limit = {1, 2}
  MaxHistory = 5
INVARIANTS
  TypeOK
  Bounded
  IndexExact
  AnswersMatchQuery
  StoreIsRecentHistory
PROPERTY ImplementsFeed
