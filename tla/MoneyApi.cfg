SPECIFICATION SpecApi
CONSTANTS
  ada = ada
  bola = bola
  root = root
  key = key
  first = first
  retry = retry
  reuse = reuse
  spend = spend
  freeze = freeze
  Null = Null
  FirstEntryId = 6
  MinAmount = 1
  MaxAmount = 2
  MaxDeaths = 1
  BoundedLatency = TRUE
  Wallets <- MCWallets
  Users <- MCUsers
  WalletOf <- MCWalletOf
  Opening <- MCOpening
  Clients <- MCClients
  Admins <- MCAdmins
  Keys <- MCKeys
  KeyOf <- MCKeyOf
  CallOf <- MCCallOf
SYMMETRY MCSymmetry
PROPERTY ImplementsBank
CHECK_DEADLOCK FALSE
