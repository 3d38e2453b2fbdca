CONSTANTS
  s1 = s1
  s2 = s2
  NRates = 1
  Senders = {s1, s2}
  Handlers = {h1}
  MaxQueue = 2
  MaxCommands = 1
  MayCrash = TRUE
  Languages = {"java"}
  MaxBatch = 1
  MaxFailures = 0
  Foreign = Foreign
  MaxFeed = 1
  MaxPosted = 1
  MaxSwitches = 2
SYMMETRY MCSymmetry
SPECIFICATION CountedSpec
INVARIANT NoFlicker
