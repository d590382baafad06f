SPECIFICATION Spec
CONSTANTS
  pay = pay
  payBack = payBack
  accuse = accuse
  counter = counter
  freeze = freeze
  ada = ada
  bola = bola
  root = root
  boss = boss
  adaWallet = adaWallet
  bolaWallet = bolaWallet
  Null = Null
  PoolMax = 2
  Requests <- MCCrossing
  OpOf <- MCCrossingOpOf
  RowsOf <- MCCrossingRowsOf
  CallerRow <- MCCrossingCallerRow
INVARIANT SomeoneMoves
CHECK_DEADLOCK FALSE
