\* The screen for the users of Joruri Gw, alone.
SPECIFICATION Spec
CONSTANTS
  A = A B = B C = C L = L M = M u2 = u2 uL = uL uB = uB tOld = tOld tNew = tNew tLoc = tLoc p1 = p1 p2 = p2
  Groups <- mcGroups
  Users <- mcUsers
  Root = Root
  Lost = Lost
  Trees <- mcTrees
  FirstTree = tOld
  LdapTrees <- mcLdapTrees
  GwTrees <- mcGwTrees
  FirstGroups <- mcFirstGroups
  FirstUsers <- mcFirstUsers
  Processes <- mcProcesses
  Commands <- mcScreen
  MaxBegun = 1
  MaxOrders = 0
  MaxChanges = 1
  MaxFaults = 0
PROPERTY VanishedGroupsGo
CHECK_DEADLOCK FALSE
