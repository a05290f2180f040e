SPECIFICATION FairSpec
CONSTANTS
  MaxMessage = 1
  Views <- MCViews
  Listings <- MCListings
  Writers <- MCWriters
  Ops <- MCOps
  MaxWrites = 2
PROPERTIES
  OwnWritesHold
  Converges
