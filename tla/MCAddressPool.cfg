SPECIFICATION FairSpec
CONSTANTS
  x1 = x1
  x2 = x2
  m1 = m1
  h1 = h1
  Address = {x1, x2}
  Machine = {m1}
  User = {1, 2}
  NoMachine = NoMachine
  NoUser = NoUser
  Handler = {h1}
  RotateUses = {1}
  RotateByAge = {FALSE, TRUE}
  MaxUses = 1
  MaxFaults = 1
INVARIANTS RotationReplaces EnabledHasAddress
PROPERTIES BindingKept DueIsRotated
