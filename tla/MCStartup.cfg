SPECIFICATION FairSpec
CONSTANTS
  Process = {serve, cli}
  Server = serve
  Last = 2
  Settings = 2
  Default <- Defaults
  Least <- Leasts
  Input = {0, 2}
  NodeSettings = 2
  Pass = 2
  Value = {v1, v2}
  Empty = Empty
  Request = {r1, r2}
  MaxSaves = 3
  MaxFaults = 2
INVARIANTS MigratedOnce SavedPageIsTrue EditsSurviveBoots
PROPERTIES PasswordKept ServerServes
