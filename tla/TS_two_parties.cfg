SPECIFICATION Spec
CONSTANTS
  Workers = {w1, w2}
  Tables = {t1}
  Locations = {l1}
  Sessions = {s1, s2}
  NoTable = NoTable
  NoLocation = NoLocation
  NoSession = NoSession
  SeededTables = {t1}
  SeededLocations = {l1}
  SeededServices <- MCSeededServices
  SeedLocation = l1
  ServiceSets <- MCServiceSets
  Ops <- SeatingOps
INVARIANT OneOpenSessionPerTable
