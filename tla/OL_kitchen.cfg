SPECIFICATION Spec
CONSTANTS
  Workers = {w1, w2}
  Orders = {o1}
  Sessions = {s2}
  Tables = {t1}
  Keys = {}
  Bodies = {b1, b2}
  s1 = s1
  t1 = t1
  NoOrder = NoOrder
  NoSession = NoSession
  NoTable = NoTable
  NoKey = NoKey
  NoBody = NoBody
  MaxHistory = 5
  TableOf <- MCTableOf
  Ops <- KitchenOps
SYMMETRY Symmetry
INVARIANTS HistoryTellsStatus HistoryFollowsWorkflow EventsTellHistory OffQueueOnlyByOverlap
PROPERTIES ImplementsLedger LeavesWorkflowOnlyByOverlap EventsOutOfOrderOnlyByOverlap
