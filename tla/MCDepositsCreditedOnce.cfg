SPECIFICATION Spec
CONSTANTS
  d1 = d1
  d2 = d2
  a1 = a1
  a2 = a2
  m1 = m1
  NoDeposit = NoDeposit
  NoUser = NoUser
  NoMachine = NoMachine
  Deposit = {d1, d2}
  Address = {a1, a2}
  Pool = {a1, a2}
  Machine = {m1}
  User = {1, 2}
  InitialUsers = {1, 2}
  AddressOf <- PayUserAndMachine
  Amount <- Amounts
  MachineOf <- Machines
  InitialOwner <- Owners
  Retired = {a1}
  Confirmations = {1}
  MinConfirmations = {1}
  ZeroConfMax = {0}
  TokenPrices = {1}
  MachinePrices = {2}
  MaxCreditsPerTx = 2
  MaxFaults = 1
INVARIANTS CreditedOnce
