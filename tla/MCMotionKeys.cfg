CONSTANTS
  Step = 20
  Width = 80
  Height = 20
  InFlight = 1
  processor = processor
  gui = gui
  None = None
SPECIFICATION Spec
PROPERTY KeyMovesOneCell
