\* The selector beside one form; answers in any order, and failures.
SPECIFICATION FairSpec
CONSTANTS
  sys = sys pri = pri gA = gA e1 = e1
  wOne = wOne wNone = wNone to = to cc = cc
  Books <- mcBooks
  Groups <- mcGroups
  Inside <- mcInside
  Top = Top
  Items <- mcItems
  Types <- mcTypes
  Emails <- mcEmails
  Filled <- mcFilled
  Words <- mcWords
  Result <- mcResult
  MaxOpens = 2
  MaxSearches = 2
  MaxFields = 1
  MaxFaults = 1
INVARIANTS FormComesBack NoGroupTwice AllBoxTrue
PROPERTIES OkGivesBack LoadsEnd
CHECK_DEADLOCK FALSE
