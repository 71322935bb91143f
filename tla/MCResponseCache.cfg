SPECIFICATION FairSpec
CONSTANTS
  k1 = k1
  k2 = k2
  k3 = k3
  k4 = k4
  small = small
  large = large
  Keys = {k1, k2, k3, k4}
  Values = {small, large}
  Callers = {c1}
  Clearers = {a1}
  NoValue = NoValue
  NumShards = 2
  ShardOf <- MCShardOf
  Size <- MCSize
  PackedSize <- MCPackedSize
  Configs <- MCConfigs
  CompressionMinSize = 2
  MaxSize = 4
  MinPerShard = 2
INVARIANTS Accounted ClearForgets
PROPERTIES InsertionMakesRoom ImplementsLossyCache ExpiredLeave
