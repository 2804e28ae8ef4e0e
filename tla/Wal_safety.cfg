SPECIFICATION Spec
CONSTANTS
  c1 = c1
  c2 = c2
  Clients = {c1, c2}
  Drainer = drainer
  NoOne = nobody
  QueueCapacity = 1
  ChannelCapacity = 1
  DrainChunk = 2
  RetryLimit = 0
  Limits = {1, 2}
  MaxRows = 2
  MaxPages = 1
  MaxEntries = 2
SYMMETRY Symmetry
INVARIANTS TypeOK ExactlyOnce NothingStranded BatchInOrder DrainInOrder
 
