CONSTANTS
  Coordinates = {0, 1}
  MaxSize = 2
  MaxPosted = 2
  NumRobots = 2
  Shown = 0
SPECIFICATION FairSpec
PROPERTY ScreenCatchesUp
