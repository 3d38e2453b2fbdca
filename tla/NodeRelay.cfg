CONSTANTS
  MaxBatch = 3
  MaxPublished = 5
  MaxStops = 2
SPECIFICATION FairSpec
INVARIANTS TypeOK LossBounded
PROPERTIES Implements Drains
