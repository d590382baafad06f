SPECIFICATION FairSpec
CONSTANTS
  ada = ada
  root = root
  boss = boss
  r1 = r1
  r2 = r2
  r3 = r3
  Null = Null
  Users <- MCUsers
  Admins <- MCAdmins
  Requests <- MCRequests
  Calls <- MCCalls
INVARIANTS TypeOK AuditReplaysStatus SuspendedIsTurnedAway
PROPERTY RequestsEnd
CHECK_DEADLOCK FALSE
