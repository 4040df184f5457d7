SPECIFICATION Spec
CONSTANTS
  Machines = {m1, m2}
  Requests = {r1, r2}
  NoFile = NoFile
  BadFile = BadFile
  MaxVersion = 3
  Refused = {3}
  MaxEdits = 2
  MaxOutages = 1
  MaxKills = 1
  MaxStarts = 2
INVARIANTS
  TypeOK
  OnePool
  ServingIsSeeded
CHECK_DEADLOCK FALSE
