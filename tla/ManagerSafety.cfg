CONSTANTS
  s1 = s1
  s2 = s2
  h1 = h1
  h2 = h2
  NRates = 2
  Senders = {s1, s2}
  Handlers = {h1, h2}
  MaxQueue = 2
  MaxCommands = 2
  MayCrash = TRUE
SYMMETRY MCSymmetry
SPECIFICATION Spec
INVARIANTS TypeOK StaleBounded NoFlipBack
PROPERTIES NoNewStale
