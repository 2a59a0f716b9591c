SPECIFICATION FairSpec
CONSTANTS
  b1 = b1
  b2 = b2
  i1 = i1
  i2 = i2
  Browser = {b1, b2}
  Watched = {b1}
  Identity = {i1, i2}
  UserId = {1, 2}
  Address = {1}
  Deposit = {1}
  NoOne = NoOne
  NoCookie = NoCookie
  NoPage = NoPage
  NoHook = NoHook
  MaxAccounts = 3
  MaxPlays = 1
INVARIANTS OneAccountEach SessionIsOwn AddressIsOwn  BalanceIsOwn
PROPERTIES PageReportsCredit
