CONSTANTS
  Step = 20
  Width = 60
  Height = 20
  InFlight = 2
  processor = processor
  gui = gui
  None = None
SPECIFICATION Spec
INVARIANTS OnGrid NoSourceLeadsAlone
PROPERTIES PipelineNeverJumps ApproachesMean ImplementsPipeline
