SPECIFICATION Spec
CONSTANTS
  ada = ada
  root = root
  boss = boss
  r1 = r1
  r2 = r2
  r3 = r3
  Null = Null
  Users <- MCUsers
  Admins <- MCAdmins
  Requests <- MCRequests
  Calls <- MCCalls
SYMMETRY MCSymmetry
INVARIANT SuspendedTokensAreUseless
CHECK_DEADLOCK FALSE
