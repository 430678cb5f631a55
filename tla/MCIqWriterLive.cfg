\* Liveness: a single-slot queue, three calls of enqueue(), two of finish().
CONSTANTS
  Blocks = {0, 1}
  Samples <- MCSamples
  MaxQueuedBlocks = 1
  MaxOffers = 3
  MaxFinishes = 2
SPECIFICATION FairSpec
PROPERTIES
  FinishReturns
  QueueDrains
