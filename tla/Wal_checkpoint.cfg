SPECIFICATION FairSpec
CONSTANTS
  c1 = c1
  c2 = c2
  Clients = {c1, c2}
  Drainer = drainer
  NoOne = nobody
  QueueCapacity = 1
  ChannelCapacity = 1
  DrainChunk = 2
  RetryLimit = 0
  Limits = {2}
  MaxRows = 1
  MaxPages = 1
  MaxEntries = 1
PROPERTY FlushKeepsEntries
