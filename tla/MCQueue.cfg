SPECIFICATION FairSpec
CONSTANTS
  QUEUE_BUFSIZE = 2
  Blocks = {b1, b2, b3}
  Lens = {2}
  TryLens = {0, 1}
  NoBlock = NoBlock
INVARIANT TypeOK
INVARIANT PacketsOwnBlocks
INVARIANT ReaderSeesStream
PROPERTY ImplementsStream
PROPERTY WaiterServed
