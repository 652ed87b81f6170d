CONSTANTS
  Records = {1, 2}
  MaxBatches = 4
  MaxDrops = 2
SPECIFICATION FairRepSpec
INVARIANTS
  SkipsOnlyAfterSingles
  RepeatsOnlyUnnoted
PROPERTY
  ReplicaFollows
CHECK_DEADLOCK FALSE
