SPECIFICATION FairSpec
CONSTANTS
  w1 = w1
  w2 = w2
  n1 = n1
  n2 = n2
  Workers <- MCWorkers
  Items <- OneItem
  NoItem = NoItem
  RowResult = TRUE
  MaxRetries = 2
PROPERTY NoneAbandoned
