SPECIFICATION Spec
CONSTANTS
  Workers = {w1, w2}
  Orders = {o1}
  Sessions = {s2}
  Tables = {t1}
  Keys = {}
  Bodies = {b1}
  s1 = s1
  t1 = t1
  NoOrder = NoOrder
  NoSession = NoSession
  NoTable = NoTable
  NoKey = NoKey
  NoBody = NoBody
  MaxHistory = 4
  TableOf <- MCTableOf
  Ops <- KitchenOps
INVARIANT CanceledBeforeKitchen
