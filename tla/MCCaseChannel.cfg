SPECIFICATION Spec
CONSTANTS
  a1 = a1
  a2 = a2
  b1 = b1
  n1 = n1
  n2 = n2
  None = None
  First = a1
  Creds <- MCCreds
  FabricOf <- MCFabricOf
  FabricId <- MCFabricId
  Nodes <- MCNodes
  MemberOf <- MCMemberOf
  LocalIds = {1, 3}
  MaxSessions = 2
  LastIndex = 2
  MaxAttempts = 3
  MaxChanges = 3
INVARIANTS SessionsAgree 
CHECK_DEADLOCK FALSE
