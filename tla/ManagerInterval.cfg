CONSTANTS
  s1 = s1
  s2 = s2
  h1 = h1
  h2 = h2
  NRates = 1
  Senders = {s1}
  Handlers = {h1}
  MaxQueue = 1
  MaxCommands = 1
  MayCrash = FALSE
SPECIFICATION Spec
PROPERTY IntervalHasDefault
