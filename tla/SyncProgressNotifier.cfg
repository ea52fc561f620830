SPECIFICATION FairSpec
CONSTANTS
  MaxTokens = 2
  MaxVersion = 2
  MaxDownload = 1
INVARIANTS ProgressInv
PROPERTIES NotifiersEnd
CHECK_DEADLOCK FALSE
