SPECIFICATION MCSpec
CONSTANTS
  c1 = c1
  c2 = c2
  Keys = {1, 2}
  Queries = {{1, 2}, {1}}
  PageSize = 2
  MaxWords = 4
  Chains = {c1, c2}
  MaxRounds = 2
SYMMETRY Symmetry
INVARIANTS
  TypeOK
  ListsAreComplete
  StoredGamesAreWhole
  GamesMoveForward
CHECK_DEADLOCK FALSE
