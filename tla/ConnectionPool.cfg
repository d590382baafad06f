SPECIFICATION FairSpec
CONSTANTS
  pay = pay
  payBack = payBack
  accuse = accuse
  counter = counter
  freeze = freeze
  ada = ada
  bola = bola
  root = root
  boss = boss
  adaWallet = adaWallet
  bolaWallet = bolaWallet
  Null = Null
  PoolMax = 2
  Requests <- MCBusy
  OpOf <- MCOpOf
  RowsOf <- MCRowsOf
  CallerRow <- MCCallerRow
INVARIANTS TypeOK StallsAreExplained
PROPERTY RequestsEnd
CHECK_DEADLOCK FALSE
