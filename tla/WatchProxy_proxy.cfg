SPECIFICATION FairSpec
CONSTANTS
  Actor = {a1}
  OuterQueue = {q1}
  WatchType = {w1, w2}
  MaxUnderWay = 3
  MaxFaults = 1
INVARIANTS KeptWhileWatched WatcheeFollows NobodyLeftOut
PROPERTY WatcheeLearns
