SPECIFICATION Spec
CONSTANTS
  Workers = {w1, w2}
  Restaurants = {r1, r2, r3}
  Categories = {c1, c2, c3}
  Items = {i1, i2, i3}
  Prices = {p1, p2}
  Orders = {o1, o2}
  Sessions = {s1, s2}
  Keys = {k1}
  None = None
  MaxWrites = 2
  w1 = w1
  w2 = w2
  r1 = r1
  r2 = r2
  c1 = c1
  c2 = c2
  c3 = c3
  i1 = i1
  i2 = i2
  p1 = p1
  p2 = p2
  Opening <- MCOpening
  Seeded <- MCSeeded
  NewItems <- MCNewItems
  ItemPatches <- MCItemPatches
  Carts <- MCCarts
  Asks <- MCAsks
SYMMETRY Symmetry
INVARIANTS TypeOK ItemsStayHome PageTellsTheMenu ChargedOnce SameAmountForRetry SessionsAccountedFor
PROPERTIES DeletedForGood ChargedAsListed
