\* Five loads, each answered by an error, no shows or one of two lists.
CONSTANTS
  a = a
  b = b
  Lists <- MCLists
  MaxFetches = 5
SPECIFICATION FairSpec
INVARIANTS DialogIsCurrent FeedInv
PROPERTIES LoadsNeverOverlap RowsAreFinal LoadsEnd
