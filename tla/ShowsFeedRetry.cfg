\* The same instance; the retry dialog of a failed load gets lost.
CONSTANTS
  a = a
  b = b
  Lists <- MCLists
  MaxFetches = 5
SPECIFICATION Spec
INVARIANT FailureOffersRetry
