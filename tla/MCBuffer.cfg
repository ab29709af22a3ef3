CONSTANTS
  source = source
  writer = writer
  processor = processor
  gui = gui
  Threads <- MCThreads
  Uses <- MCUses
  Values = {v1, v2}
  MaxSize = 2
  NoItem = NoItem
  NoThread = NoThread
SPECIFICATION FairSpec
INVARIANTS TypeOK SlotAccounting DequeAccessSafe WaitsOnlyWithReason
PROPERTIES Linearizable TryReturns
