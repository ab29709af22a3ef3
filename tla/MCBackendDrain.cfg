CONSTANTS
  NumRobots = 1
  NumSources = 1
  BufferSize = 2
  UserEvents = 3
  LateBound = 0
  Switches = {0, processor}
  processor = processor
  gui = gui
  NoItem = NoItem
SPECIFICATION FairSpec
PROPERTY Drains
