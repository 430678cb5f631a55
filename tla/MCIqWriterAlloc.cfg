\* The smallest instance in which push_back can fail to allocate.
CONSTANTS
  Blocks = {1}
  Samples <- MCSamples
  MaxQueuedBlocks = 1
  MaxOffers = 2
  MaxFinishes = 1
SPECIFICATION Spec
INVARIANT AcceptedSamplesExact
