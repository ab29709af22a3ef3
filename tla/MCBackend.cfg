CONSTANTS
  NumRobots = 2
  NumSources = 2
  BufferSize = 1
  UserEvents = 2
  LateBound = 3
  Switches = {0, 1, processor}
  processor = processor
  gui = gui
  NoItem = NoItem
SPECIFICATION Spec
INVARIANTS TypeOK NoUseAfterDestroy StaleForOneIteration RoundRobin
PROPERTIES ImplementsLifecycle ShutdownAdvances
