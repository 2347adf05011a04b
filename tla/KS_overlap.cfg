SPECIFICATION ScreenSpec
CONSTANTS
  Workers = {w1, w2}
  Orders = {o1, o2}
  Sessions = {s1}
  Tables = {}
  Keys = {}
  Bodies = {b1}
  NoOrder = NoOrder
  NoSession = NoSession
  NoTable = NoTable
  NoKey = NoKey
  NoBody = NoBody
  MaxHistory = 4
  Limit = 1
  MaxClock = 3
  TableOf <- MCTableOf
  Ops <- ScreenOps
SYMMETRY Symmetry
PROPERTIES OvertakenOnlyByOverlap PushedOffOnlyByOverlap
VIEW View
