SPECIFICATION FairSpec
CONSTANTS
  Machines = {m1, m2}
  Requests = {r1}
  NoFile = NoFile
  BadFile = BadFile
  MaxVersion = 1
  Refused = {}
  MaxEdits = 0
  MaxOutages = 0
  MaxKills = 0
  MaxStarts = 1
PROPERTIES
  StackComesUp
CHECK_DEADLOCK FALSE
