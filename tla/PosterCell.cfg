\* A cell used three times, for two posters and shows without.
CONSTANTS
  Posters = {p1, p2}
  NoPoster = none
  MaxLoads = 3
SPECIFICATION PosterFairSpec
INVARIANT PosterInv
PROPERTY PosterArrives
\* The table stops using the cell at the bound, and the process may end.
CHECK_DEADLOCK FALSE
