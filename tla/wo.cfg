SPECIFICATION FairSpec
CONSTANTS
  w1 = w1
  w2 = w2
  n1 = n1
  n2 = n2
  Workers <- MCWorkers
  Items <- MCItems
  NoItem = NoItem
  RowResult = TRUE
  MaxRetries = 3
INVARIANT TypeOK
INVARIANT OneSender
INVARIANT BoundedPosts
INVARIANT GivenUpIsSpent
INVARIANT ProcessedWasAccepted
PROPERTY OutboxDrains
