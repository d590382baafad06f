SPECIFICATION DirectorySpec
CONSTANTS
  first = first
  second = second
  root = root
  Null = Null
  MaxAttempts = 2
  SignUps = {first, second}
  Bootstraps = {root}
  Identity <- MCIdentity
  Suspects = {200}
  Id <- MCId
  CreatedAt <- MCCreatedAt
  Filters <- MCFilters
  Limit = 1
INVARIANTS
  TypeOK BlacklistedStayOut AnswersAreTrue
  CustomersHaveWallets WalkSkipsNobody
PROPERTY SignUpsEnd
CHECK_DEADLOCK FALSE
