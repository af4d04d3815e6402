\* Orders of Joruri Gw beside the administrator and the nightly task.
SPECIFICATION FairSpec
CONSTANTS
  A = A B = B C = C L = L M = M u2 = u2 uL = uL uB = uB tOld = tOld tNew = tNew tLoc = tLoc p1 = p1 p2 = p2
  Groups <- mcGroups
  Users <- mcUsers
  Root = Root
  Lost = Lost
  Trees <- mcTrees
  FirstTree = tOld
  LdapTrees <- mcLdapTrees
  GwTrees <- mcGwTrees
  FirstGroups <- mcFirstGroups
  FirstUsers <- mcFirstUsers
  Processes <- mcProcesses
  Commands <- mcCommands
  MaxBegun = 1
  MaxOrders = 1
  MaxChanges = 1
  MaxFaults = 1
INVARIANTS LocalUsersKept
PROPERTIES ListedAreSpared BackedUp SuccessMirrors OrdersEnd
CHECK_DEADLOCK FALSE
