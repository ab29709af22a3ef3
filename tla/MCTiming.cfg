CONSTANTS
  Sources = {s1, s2}
  processor = processor
  NumRobots = 2
  BufferSize = 1
  Timeout = 3
  Jitter = 2
  Nap = 1
  Delays = {1, 2, 5}
  MaxDelay = 5
  SourceDelay = 2
  ProcessorDelay = 1
  UserEvents = 2
SPECIFICATION FairSpec
INVARIANTS TypeOK ShutdownBounded
PROPERTIES TimePasses SpinsBounded
