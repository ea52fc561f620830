\* Three fetches that overlap in every way; an empty answer and another one.
CONSTANTS
  Lists = {none, some}
  MaxFetches = 3
SPECIFICATION NetSpec
INVARIANT NetInv
PROPERTIES AnswersInOrder LastFetchAnswered
\* The caller stops fetching at MaxFetches.
CHECK_DEADLOCK FALSE
