CONSTANTS
  Step = 20
  Width = 100
  Height = 80
  Empty = Empty
SPECIFICATION Spec
INVARIANTS TypeOK NearestCell NoDrift MajorityMoves
