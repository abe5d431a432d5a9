SPECIFICATION Spec
CONSTANTS
  Lists = {l1, l2}
  Links = {x1, x2, x3}
  SizeMod = 4
  PrependToEmpty = FALSE
INVARIANTS
  RingsIntact
  LengthValid
  LoopVisitsAll
PROPERTY
  ImplementsSequences
SYMMETRY Symmetry
