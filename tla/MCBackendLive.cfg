CONSTANTS
  NumRobots = 2
  NumSources = 2
  BufferSize = 1
  UserEvents = 1
  LateBound = 0
  Switches = {processor}
  processor = processor
  gui = gui
  NoItem = NoItem
SPECIFICATION FairSpec
PROPERTIES ShutdownCompletes EveryRobotServed ImplementsPipeline
