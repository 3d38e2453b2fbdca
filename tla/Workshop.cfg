CONSTANTS
  NRates = 1
  Senders = {s1}
  Handlers = {h1}
  MaxQueue = 2
  MaxCommands = 1
  MayCrash = TRUE
  Languages = {"java"}
  MaxBatch = 2
  MaxFailures = 1
  Foreign = Foreign
  MaxFeed = 1
  MaxPosted = 1
SPECIFICATION Spec
INVARIANTS TypeOK
PROPERTIES GeneratorImplements ClientImplements FollowsFlags
