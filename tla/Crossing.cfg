SPECIFICATION FairSpec
CONSTANTS
  ada = ada
  bola = bola
  chidi = chidi
  r1 = r1
  r2 = r2
  r3 = r3
  Null = Null
  FirstEntryId = 8
  MinAmount = 1
  MaxAmount = 2
  Wallets <- MCWallets
  Users <- MCUsers
  WalletOf <- MCWalletOf
  Opening <- MCOpening
  Requests <- MCRequests
  Calls <- MCCalls
INVARIANT NoWaitCycle
PROPERTY TransactionsEnd
CHECK_DEADLOCK FALSE
