\* Two workers, bevies of two chunks of two bytes or, with a parameter unset, of
\* none, two places; compressed or stored; writes that end inside a chunk and that
\* span three bevies; wakeups without a reason.
CONSTANTS
  Workers = {w1, w2}
  Main = main
  Threads = {w1, w2, main}
  Data = {0, 1, 2, 3}
  NoData = NoData
  maxsize = 2
  Spurious = TRUE
  ChunkSizes = {2}
  ChunkCounts = {0, 2}
  DefaultChunk = 2
  DefaultChunks = 2
  Compressions = {"ZIP_STORED", "ZIP_DEFLATE"}
  CompressFails = TRUE
  WriteLengths = {0, 3, 9}
  MaxTotal = 12
SPECIFICATION FairImageSpec
INVARIANTS EachJobOnce LossNeedsIdlePool BevyIntact FilePairs MissingAccounted FullBevies
PROPERTIES PoolServes CallsReturn
