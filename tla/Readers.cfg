SPECIFICATION SpecReaders
CONSTANTS
  ada = ada
  bola = bola
  r1 = r1
  r2 = r2
  r3 = r3
  Null = Null
  FirstEntryId = 6
  MinAmount = 1
  MaxAmount = 2
  Limit = 1
  Reader = 1
  Wallets <- MCWallets
  Users <- MCUsers
  WalletOf <- MCWalletOf
  Opening <- MCOpening
  Requests <- MCRequests
  Calls <- MCCalls
SYMMETRY MCSymmetry
INVARIANTS PagesAreTheStatement ReferencesAreExact ReportsNoDrift
CHECK_DEADLOCK FALSE
