SPECIFICATION FairSpec
CONSTANTS
  d1 = d1
  a1 = a1
  NoDeposit = NoDeposit
  NoUser = NoUser
  NoMachine = NoMachine
  Deposit = {d1}
  Address = {a1}
  Machine = {}
  User = {1}
  InitialUsers = {1}
  Pool <- OnePool
  AddressOf <- PayUser
  Amount <- Ones
  MachineOf <- OneMachineOf
  InitialOwner <- OneOwner
  Retired = {}
  Confirmations = {0, 1, 2, 3}
  MinConfirmations = {2}
  ZeroConfMax = {0}
  TokenPrices = {1}
  MachinePrices = {}
  MaxCreditsPerTx = 0
  MaxFaults = 0
  Block = {1, 2}
  Cap = 2
  MaxOutages = 0
PROPERTIES ThresholdIsReached
