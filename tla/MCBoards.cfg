SPECIFICATION FairSpec
CONSTANTS
  Board = {b1, b2}
  Number = {1}
  Machine = {m1}
  NoBoard = NoBoard
  NoMachine = NoMachine
  NoChannel = NoChannel
  Gaps = {1}
  MaxGap = 1
  MaxFaults = 1
INVARIANTS OneOpenAlert AlertTellsLastCheck
PROPERTIES PulsesSpaced OfflineIsReported AnswerClearsAlert
