CONSTANTS
  Timestamp <- MCTimestamp
  Subject = {}
  Contents <- MCContents
  Limit = 2
  ResumesFrom = "processed"
SPECIFICATION FairFeedSpec
INVARIANTS
  FloorCoversPruned
  FeedHasNoGaps
PROPERTY
  EventsArrive
