SPECIFICATION FairSpec
CONSTANTS
  p1 = p1
  p2 = p2
  Payment <- Two
  Block = {1, 2, 3}
  Cap = 1
  MaxOutages = 1
INVARIANTS NothingSkipped ReorgsReported RemovedAfterReceived
PROPERTIES MinedIsHeard
