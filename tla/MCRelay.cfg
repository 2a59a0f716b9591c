SPECIFICATION FairSpec
CONSTANTS
  NoUser = NoUser
  NoPulse = NoPulse
  Pulse = {1, 2}
  Machine = {1}
  User = {1, 2}
  InitialUsers = {1, 2}
  MaxAttempts = {2}
  DefaultMaxAttempts = 5
  Purchases = {1}
  Adjustments = {1}
  MaxEntries = 1
  MaxFaults = 1
INVARIANTS NoFreePlay TokenSettled TokensConserved
PROPERTIES RefundReachesOwner LifecycleSpec PulsesSettle
