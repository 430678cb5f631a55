\* Queue of two, so that it can be empty, partly filled and full; one block
\* more than the queue, the writer's hands and an overflow can use up.
CONSTANTS
  Blocks = {0, 1, 2}
  Samples <- MCSamples
  MaxQueuedBlocks = 2
  MaxOffers = 4
  MaxFinishes = 2
SPECIFICATION Spec
INVARIANTS
  TypeOK
  InOrder
  EveryOfferAccounted
  OkMeansRecorded
  NoLostWakeup
  OutputOutlivesWriter
  MessageNamesWriterFailure
  SamplesAgree
PROPERTIES
  FinalAfterFinish
  KeepsPromise
