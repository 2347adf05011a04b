SPECIFICATION Spec
CONSTANTS
  Workers = {w1, w2}
  Tables = {t1}
  Locations = {l1}
  Sessions = {s1, s2}
  NoTable = NoTable
  NoLocation = NoLocation
  NoSession = NoSession
  SeededTables = {}
  SeededLocations = {}
  SeededServices <- MCSeededServices
  SeedLocation = l1
  ServiceSets <- MCServiceSets
  Ops <- FurnitureOps
SYMMETRY Symmetry
INVARIANTS SeatedTwiceOnlyByOverlap OrphanedOnlyByOverlap StrandedOnlyByOverlap ClosedAtExact
PROPERTIES ClosedForGood DeletedForGood FreedUnderPartyOnlyByOverlap
CHECK_DEADLOCK FALSE
VIEW View
