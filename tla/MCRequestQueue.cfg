\* One request at a time inside, two workers, a channel of one frame.
SPECIFICATION FairSpec
CONSTANTS
  plain = plain
  stream = stream
  other = other
  id1 = id1
  id2 = id2
  w1 = w1
  w2 = w2
  Requests = {plain, stream, other}
  IdOf <- MCIdOf
  Priority <- MCPriority
  Streams = {stream}
  Workers = {w1, w2}
  MaxQueue = 2
  MaxConcurrent = 1
  ChannelSize = 1
  Chunks = 2
INVARIANTS
  TypeOK
  ActiveIsExact
  NobodySleepsOnWork
  EndedIsComplete
PROPERTIES
  StartedForClients
  Answered
  ReadersEnd
CHECK_DEADLOCK FALSE
