\* Two collections with a callback each, and two transactions.
SPECIFICATION FairSpec
CONSTANTS
  n1 = n1
  n2 = n2
  Callbacks <- MCCallbacks
  Lasting <- MCLasting
  MaxVersion = 3
INVARIANTS NotifierInv NoChangeIsMissed NoChangeIsToldTwice
PROPERTIES CallsMatchTheRealm ChangesAreTold
