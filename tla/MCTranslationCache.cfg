SPECIFICATION Spec
CONSTANTS
  k1 = k1
  k2 = k2
  v1 = v1
  v2 = v2
  Keys <- MCKeys
  Values = {v1, v2}
  Answers <- MCAnswers
  Shards = {1}
  ShardOf <- MCShardOf
  Capacity = 2
  Workers = {w1, w2}
  Flusher = flusher
  Main = main
  Garbage = garbage
  MaxLog = 2
SYMMETRY MCSymmetry
INVARIANTS LogRebuildsCache FinalSaveRestoresCache
PROPERTY ImplementsPersistence
