CONSTANTS
  Timestamp <- MCTimestamp
  alice = alice
  bob = bob
  Subject = {alice, bob}
  Contents <- MCContents
  SyncBatch = 2
SPECIFICATION IndexSpec
INVARIANTS
  IndexShowsWhatItRead
  SyncCatchesUp
