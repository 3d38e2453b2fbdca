CONSTANTS
  c1 = c1
  c2 = c2
  Half = 2
  One = 0
  Two = 8
  Callbacks = {c1, c2}
  MaxTorn = 2
SYMMETRY Symmetry
SPECIFICATION Spec
INVARIANTS TypeOK WithinBounds SinksByTornReads
PROPERTY SmallSteps
