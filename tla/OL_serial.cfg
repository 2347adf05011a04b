SPECIFICATION Spec
CONSTANTS
  Workers = {w1}
  Orders = {o1}
  Sessions = {s1, s2}
  Tables = {t1}
  Keys = {k1}
  Bodies = {b1, b2}
  s1 = s1
  t1 = t1
  NoOrder = NoOrder
  NoSession = NoSession
  NoTable = NoTable
  NoKey = NoKey
  NoBody = NoBody
  MaxHistory = 5
  TableOf <- MCTableOf
  Ops <- EveryOp
INVARIANT TypeOK
PROPERTY ImplementsWorkflow
