SPECIFICATION Spec
CONSTANTS
  k1 = k1
  k2 = k2
  Keys <- MCKeys
  Shards = {1, 2}
  ShardOf <- MCShardOf
  Capacity = 1
  Workers = {w1}
  Flusher = flusher
  Main = main
INVARIANT
  SnapshotIsWhole
