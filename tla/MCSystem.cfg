CONSTANTS
  NumRobots = 2
  NumSources = 1
  MaxSize = 1
  UserEvents = 2
  LateBound = 1
  Switches = {processor}
  processor = processor
  gui = gui
  NoItem = NoItem
  NoThread = NoThread
  Threads <- MCThreads
  Uses <- MCUses
  Values <- MCReadings
SPECIFICATION SysFairSpec
INVARIANT DestroyedAtRest
PROPERTIES ImplementsBackend ClosingEnds
