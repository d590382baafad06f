SPECIFICATION Spec
CONSTANTS
  ada = ada
  bola = bola
  root = root
  r1 = r1
  r2 = r2
  r3 = r3
  r4 = r4
  Null = Null
  FirstEntryId = 6
  MinAmount = 1
  MaxAmount = 2
  Wallets <- MCWallets
  Users <- MCUsers
  WalletOf <- MCWalletOf
  Opening <- MCOpening
  Requests <- MCRequests
  Calls <- MCCalls
SYMMETRY MCSymmetry
INVARIANTS TypeOK LedgerChain BalancesStaySafe AuditReplaysStatus
PROPERTIES StatementAppends FrozenMovesNothing
CHECK_DEADLOCK FALSE
