CONSTANTS
  Keys <- MCKeys
  Writers = {w1, w2}
  PageSize = 2
  Settle = 1
  LastBegin = 2
  LastTick = 4
  MaxVersion = 2
SPECIFICATION FairSpec
INVARIANTS TypeOK NothingMissed LinesNotOlder
PROPERTIES Converges
CHECK_DEADLOCK FALSE
