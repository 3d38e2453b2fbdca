CONSTANTS
  NRates = 2
  Asks = {1, 2}
  Foreign = Foreign
  Points = 2
  MaxFeed = 1
  MaxPosted = 1
SPECIFICATION FairSpec
INVARIANTS TypeOK ChartFaithful
PROPERTIES AsksOpposite ButtonSettles
