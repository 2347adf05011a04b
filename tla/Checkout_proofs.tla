--------------------------- MODULE Checkout_proofs ---------------------------
(***************************************************************************)
(* Proofs about Catalog and Checkout, for any number of workers, rows,     *)
(* keys and orders: CatalogInv and CheckoutInv are inductive.              *)
(***************************************************************************)
EXTENDS Checkout, TLAPS

\* The types of what requests start from.
LEMMA NoRowType == NoRow \in Row /\ Idle \in Request
  BY DEF NoRow, Idle, Row, Request, Life

\* The tables are disjoint, and None is in none of them.
LEMMA RowsApart ==
  /\ None \notin Rows /\ None \notin Prices /\ None \notin BOOLEAN
  /\ \A x \in Restaurants : x \in Rows /\ x \notin Items /\ x \notin Categories
  /\ \A x \in Categories : x \in Rows /\ x \notin Items
  /\ \A x \in Items : x \in Rows
  BY CatalogAssumption DEF Rows

----------------------------------------------------------------------------
(* The steps of a request to the catalog *)

\* Requests of others rely on what a step keeps.
LEMMA OthersRely ==
  ASSUME NEW u \in Workers, CommitRelies(u), PageRelies(u),
         CatalogTypeOK, catalog' \in [Rows -> Row],
         \A x \in Rows : ~Unused(x) => ~Unused(x)' /\ catalog'[x].home = catalog[x].home,
         req'[u] = req[u],
         seen'[u] = seen[u] \/ (seen[u] # {} /\ seen'[u] = seen[u] \cup {catalog'}),
         catalog' = catalog \/ (seen[u] # {} => catalog' \in seen'[u])
  PROVE  CommitRelies(u)' /\ PageRelies(u)'
<1>1. CommitRelies(u)'
  <2> SUFFICES ASSUME req[u].at = "commit" PROVE CommitRelies(u)'
    BY DEF CommitRelies
  <2>1. req[u] \in Request /\ req[u].want \in Row
    BY DEF CatalogTypeOK, Request
  <2>2. req[u].want.category # None => req[u].want.category \in Rows
    BY <2>1 DEF Row, Rows
  <2>3. MayHold(req[u].want.category, req[u].want.home)
          => MayHold(req[u].want.category, req[u].want.home)'
    BY <2>2 DEF MayHold
  <2>4. QED
    BY <2>3 DEF CommitRelies
<1>2. PageRelies(u)'
  <2> SUFFICES ASSUME req[u].op = "get_public_catalog" PROVE PageRelies(u)'
    BY DEF PageRelies
  <2>1. seen[u] \subseteq seen'[u] /\ catalog' \in seen'[u]
    BY DEF PageRelies
  <2>2. QED
    BY <2>1 DEF PageRelies, Listed, OnSale
<1>3. QED
  BY <1>1, <1>2

\* A worker's request changes, and nothing else but the count of writes.
LEMMA RequestStep ==
  ASSUME CatalogInv, NEW w \in Workers, NEW r \in Request,
         req' = [req EXCEPT ![w] = r],
         UNCHANGED catalog, writes' \in 0..MaxWrites,
         seen' \in [Workers -> SUBSET [Rows -> Row]],
         \A u \in Workers : u # w => seen'[u] = seen[u],
         CommitRelies(w)', PageRelies(w)'
  PROVE  CatalogInv'
<1>1. CatalogTypeOK'
  BY DEF CatalogInv, CatalogTypeOK
<1>2. ItemsStayHome' /\ RowsStay' /\ ItemsWhole'
  BY DEF CatalogInv, ItemsStayHome, AtHome, RowsStay, ItemsWhole, Unused
<1>3. ASSUME NEW u \in Workers, u # w PROVE CommitRelies(u)' /\ PageRelies(u)'
  <2>1. req'[u] = req[u]
    BY <1>3 DEF CatalogInv, CatalogTypeOK
  <2>2. catalog' \in [Rows -> Row]
    BY <1>1 DEF CatalogTypeOK
  <2>3. \A x \in Rows : ~Unused(x) => ~Unused(x)' /\ catalog'[x].home = catalog[x].home
    BY DEF Unused
  <2>4. QED
    BY <1>3, <2>1, <2>2, <2>3, OthersRely DEF CatalogInv
<1>4. QED
  BY <1>1, <1>2, <1>3 DEF CatalogInv

\* An idle worker relies on nothing.
LEMMA IdleRelies ==
  ASSUME NEW w \in Workers, req'[w] = Idle
  PROVE  CommitRelies(w)' /\ PageRelies(w)'
  BY DEF CommitRelies, PageRelies, Idle

LEMMA DoneInv ==
  ASSUME CatalogInv, NEW w \in Workers, Done(w)
  PROVE  CatalogInv'
<1>1. /\ req' = [req EXCEPT ![w] = Idle] /\ req'[w] = Idle
      /\ UNCHANGED catalog /\ writes' \in 0..MaxWrites
      /\ seen' \in [Workers -> SUBSET [Rows -> Row]]
      /\ \A u \in Workers : u # w => seen'[u] = seen[u]
  BY DEF Done, CatalogInv, CatalogTypeOK
<1>2. QED
  BY <1>1, IdleRelies, NoRowType, RequestStep

\* A handler that has read what its commit relies on.
LEMMA WriteInv ==
  ASSUME CatalogInv, NEW w \in Workers, NEW op \in WriteOp, NEW x \in Rows,
         NEW want \in Row, Write(w, op, x, want),
         op \in CreateOp => want.life = "live",
         op \notin CreateOp => ~Unused(x) /\ want.home = catalog[x].home,
         op = "create_menu_item" \/ (op \notin CreateOp /\ x \in Items) =>
             want.price # None /\ MayHold(want.category, want.home)
  PROVE  CatalogInv'
<1> DEFINE r == [Idle EXCEPT !.op = op, !.at = "commit", !.x = x,
                             !.read = catalog[x], !.want = want]
<1>1. /\ req' = [req EXCEPT ![w] = r] /\ UNCHANGED <<catalog, seen>>
      /\ writes < MaxWrites /\ writes' = writes + 1
  BY DEF Write, Begin
<1>2. /\ r \in Request
      /\ r.op = op /\ r.at = "commit" /\ r.x = x /\ r.want = want
  <2>1. catalog[x] \in Row
    BY DEF CatalogInv, CatalogTypeOK
  <2>2. QED
    BY <2>1 DEF Idle, Request
<1>3. req'[w] = r
  BY <1>1 DEF CatalogInv, CatalogTypeOK
<1>4. /\ writes' \in 0..MaxWrites
      /\ seen' \in [Workers -> SUBSET [Rows -> Row]]
  BY <1>1, CatalogAssumption DEF CatalogInv, CatalogTypeOK
<1> HIDE DEF r
<1>5. MayHold(want.category, want.home) => MayHold(want.category, want.home)'
  BY <1>1 DEF MayHold, Unused
<1>6. CommitRelies(w)'
  BY <1>1, <1>2, <1>3, <1>5 DEF CommitRelies, Unused
<1>7. PageRelies(w)'
  BY <1>2, <1>3 DEF PageRelies, WriteOp
<1>8. QED
  BY <1>1, <1>2, <1>4, <1>6, <1>7, RequestStep

\* A commit: it keeps the rows there are in their restaurants, and its items
\* have a price and are in a category of their restaurant.
LEMMA CommitInv ==
  ASSUME CatalogInv, NEW w \in Workers, NEW rows \in [Rows -> Row],
         Commit(w, rows), UNCHANGED writes \/ writes' \in 0..MaxWrites,
         \A x \in Rows : ~Unused(x) =>
             rows[x].life # "absent" /\ rows[x].home = catalog[x].home,
         \A i \in Items :
             /\ rows[i].life # "absent" => rows[i].price # None
             /\ rows[i].category # None =>
                    /\ rows[rows[i].category].life # "absent"
                    /\ rows[rows[i].category].home = rows[i].home
  PROVE  CatalogInv'
<1>1. /\ catalog' = rows /\ req' = [req EXCEPT ![w] = Idle]
      /\ seen' = [v \in Workers |-> IF seen[v] = {} THEN {} ELSE seen[v] \cup {rows}]
  BY DEF Commit
<1>2. CatalogTypeOK'
  BY <1>1, NoRowType DEF CatalogInv, CatalogTypeOK
<1>3. ItemsStayHome' /\ RowsStay' /\ ItemsWhole'
  <2>1. RowsStay'
    BY <1>1 DEF CatalogInv, RowsStay, Unused
  <2>2. QED
    BY <1>1, <2>1 DEF ItemsStayHome, AtHome, ItemsWhole, Unused
<1>4. ASSUME NEW u \in Workers, u # w PROVE CommitRelies(u)' /\ PageRelies(u)'
  <2>1. req'[u] = req[u]
    BY <1>1, <1>4 DEF CatalogInv, CatalogTypeOK
  <2>2. seen'[u] = seen[u] \/ (seen[u] # {} /\ seen'[u] = seen[u] \cup {catalog'})
    BY <1>1
  <2>3. seen[u] # {} => catalog' \in seen'[u]
    BY <1>1
  <2>4. \A x \in Rows : ~Unused(x) => ~Unused(x)' /\ catalog'[x].home = catalog[x].home
    BY <1>1 DEF Unused
  <2>5. QED
    BY <1>1, <1>4, <2>1, <2>2, <2>3, <2>4, OthersRely DEF CatalogInv
<1>5. req'[w] = Idle
  BY <1>1 DEF CatalogInv, CatalogTypeOK
<1>6. QED
  BY <1>2, <1>3, <1>4, <1>5, IdleRelies DEF CatalogInv

----------------------------------------------------------------------------
(* The handlers of the catalog *)

\* The rows of the handlers that write have the types and relations they need.
LEMMA WritingInv ==
  ASSUME CatalogInv, NEW w \in Workers,
         \/ UpdateRestaurant(w) \/ DeleteRestaurant(w)
         \/ CreateCategory(w) \/ UpdateCategory(w) \/ DeleteCategory(w)
  PROVE  CatalogInv'
<1>1. \A x \in Rows : catalog[x] \in Row
  BY DEF CatalogInv, CatalogTypeOK
<1>2. ASSUME NEW r \in Restaurants, Live(r),
             Write(w, "update_restaurant", r, [catalog[r] EXCEPT !.active = ~@])
      PROVE  CatalogInv'
  <2>1. [catalog[r] EXCEPT !.active = ~@] \in Row
    BY <1>1, RowsApart DEF Row
  <2>2. [catalog[r] EXCEPT !.active = ~@].home = catalog[r].home
    BY <1>1, RowsApart DEF Row
  <2>3. QED
    BY <1>2, <2>1, <2>2, RowsApart, WriteInv DEF WriteOp, CreateOp, Live, Unused
<1>3. ASSUME NEW r \in Restaurants, Live(r),
             Write(w, "delete_restaurant", r, [catalog[r] EXCEPT !.active = FALSE])
      PROVE  CatalogInv'
  <2>1. /\ [catalog[r] EXCEPT !.active = FALSE] \in Row
        /\ [catalog[r] EXCEPT !.active = FALSE].home = catalog[r].home
    BY <1>1, RowsApart DEF Row
  <2>2. QED
    BY <1>3, <2>1, RowsApart, WriteInv DEF WriteOp, CreateOp, Live, Unused
<1>4. ASSUME NEW r \in Restaurants, NEW active \in BOOLEAN, Live(r),
             Write(w, "create_category", r,
                   [NoRow EXCEPT !.life = "live", !.home = r, !.active = active])
      PROVE  CatalogInv'
  <2>1. /\ [NoRow EXCEPT !.life = "live", !.home = r, !.active = active] \in Row
        /\ [NoRow EXCEPT !.life = "live", !.home = r, !.active = active].life = "live"
    BY DEF NoRow, Row, Life
  <2>2. QED
    BY <1>4, <2>1, RowsApart, WriteInv DEF WriteOp, CreateOp
<1>5. ASSUME NEW c \in Categories, ~Unused(c),
             Write(w, "update_category", c, [catalog[c] EXCEPT !.active = ~@])
      PROVE  CatalogInv'
  <2>1. /\ [catalog[c] EXCEPT !.active = ~@] \in Row
        /\ [catalog[c] EXCEPT !.active = ~@].home = catalog[c].home
    BY <1>1, RowsApart DEF Row
  <2>2. QED
    BY <1>5, <2>1, RowsApart, WriteInv DEF WriteOp, CreateOp
<1>6. ASSUME NEW c \in Categories, ~Unused(c),
             Write(w, "delete_category", c, [catalog[c] EXCEPT !.active = FALSE])
      PROVE  CatalogInv'
  <2>1. /\ [catalog[c] EXCEPT !.active = FALSE] \in Row
        /\ [catalog[c] EXCEPT !.active = FALSE].home = catalog[c].home
    BY <1>1, RowsApart DEF Row
  <2>2. QED
    BY <1>6, <2>1, RowsApart, WriteInv DEF WriteOp, CreateOp
<1>7. QED
  BY <1>2, <1>3, <1>4, <1>5, <1>6
     DEF UpdateRestaurant, DeleteRestaurant, CreateCategory, UpdateCategory, DeleteCategory

\* A PATCH keeps an item's home and price, and its category if it asks for none.
LEMMA PatchedRow ==
  ASSUME NEW row \in Row, NEW p \in ItemPatch
  PROVE  /\ Patched(row, p) \in Row
         /\ Patched(row, p).home = row.home
         /\ row.price # None => Patched(row, p).price # None
         /\ Patched(row, p).category = Given(p.category, row.category)
  BY RowsApart, ZenonT(60) DEF Patched, Given, Row, ItemPatch, Rows

LEMMA CreateMenuItemInv ==
  ASSUME CatalogInv, NEW w \in Workers, CreateMenuItem(w)
  PROVE  CatalogInv'
<1>1. PICK r \in Restaurants, k \in Categories \cup {None}, new \in NewItems :
        /\ MayHold(k, r)
        /\ Write(w, "create_menu_item", r,
                 [life |-> "live", home |-> r, active |-> new.active,
                  available |-> new.available, price |-> new.price, category |-> k])
  BY DEF CreateMenuItem
<1> DEFINE row == [life |-> "live", home |-> r, active |-> new.active,
                   available |-> new.available, price |-> new.price, category |-> k]
<1>2. /\ row \in Row /\ row.life = "live" /\ row.home = r
      /\ row.price # None /\ row.category = k
  <2>1. new \in NewItem
    BY CatalogAssumption
  <2>2. QED
    BY <2>1, CatalogAssumption DEF NewItem, Row, Life
<1> HIDE DEF row
<1>3. Write(w, "create_menu_item", r, row)
  BY <1>1 DEF row
<1>4. QED
  BY <1>1, <1>2, <1>3, RowsApart, WriteInv DEF WriteOp, CreateOp

LEMMA ItemInv ==
  ASSUME CatalogInv, NEW w \in Workers, UpdateMenuItem(w) \/ DeleteMenuItem(w)
  PROVE  CatalogInv'
<1>1. ASSUME NEW i \in Items, ~Unused(i)
      PROVE  /\ i \in Rows /\ catalog[i] \in Row /\ catalog[i].price # None
             /\ MayHold(catalog[i].category, catalog[i].home)
  BY <1>1, RowsApart
     DEF CatalogInv, CatalogTypeOK, ItemsWhole, ItemsStayHome, AtHome, MayHold
<1>2. ASSUME NEW i \in Items, NEW p \in ItemPatches, ~Unused(i),
             MayHold(p.category, catalog[i].home),
             Write(w, "update_menu_item", i, Patched(catalog[i], p))
      PROVE  CatalogInv'
  <2>1. p \in ItemPatch
    BY CatalogAssumption
  <2> DEFINE want == Patched(catalog[i], p)
  <2>2. /\ want \in Row /\ want.home = catalog[i].home /\ want.price # None
        /\ want.category = p.category \/ want.category = catalog[i].category
    BY <1>1, <1>2, <2>1, PatchedRow DEF Given
  <2>3. MayHold(want.category, want.home)
    BY <1>1, <1>2, <2>2
  <2> HIDE DEF want
  <2>4. Write(w, "update_menu_item", i, want)
    BY <1>2 DEF want
  <2>5. QED
    BY <1>1, <1>2, <2>2, <2>3, <2>4, WriteInv DEF WriteOp, CreateOp
<1>3. ASSUME NEW i \in Items, ~Unused(i),
             Write(w, "delete_menu_item", i,
                   [catalog[i] EXCEPT !.active = FALSE, !.available = FALSE])
      PROVE  CatalogInv'
  <2> DEFINE want == [catalog[i] EXCEPT !.active = FALSE, !.available = FALSE]
  <2>1. /\ want \in Row /\ want.home = catalog[i].home
        /\ want.price = catalog[i].price /\ want.category = catalog[i].category
    BY <1>1, <1>3 DEF Row
  <2> HIDE DEF want
  <2>2. Write(w, "delete_menu_item", i, want)
    BY <1>3 DEF want
  <2>3. QED
    BY <1>1, <1>3, <2>1, <2>2, WriteInv DEF WriteOp, CreateOp
<1>4. QED
  BY <1>2, <1>3 DEF UpdateMenuItem, DeleteMenuItem

\* The row an UPDATE leaves has columns of the handler's row and of the stored one.
LEMMA UpdatedRow ==
  ASSUME NEW row \in Row, NEW r \in Request, row.life # "absent"
  PROVE  /\ Updated(row, r) \in Row
         /\ Updated(row, r).home = row.home
         /\ Updated(row, r).life # "absent"
         /\ row.life = "deleted" => Updated(row, r).life = "deleted"
         /\ Updated(row, r).price \in {r.want.price, row.price}
         /\ Updated(row, r).category \in {r.want.category, row.category}
<1> DEFINE life == IF r.op \in DeleteOp THEN "deleted" ELSE row.life
           active == Written(r.read.active, r.want.active, row.active)
           available == Written(r.read.available, r.want.available, row.available)
           price == Written(r.read.price, r.want.price, row.price)
           category == Written(r.read.category, r.want.category, row.category)
<1>1. r.read \in Row /\ r.want \in Row
  BY DEF Request
<1>2. /\ life \in Life /\ life # "absent" /\ (row.life = "deleted" => life = "deleted")
      /\ active \in BOOLEAN /\ available \in BOOLEAN
      /\ price \in Prices \cup {None} /\ price \in {r.want.price, row.price}
      /\ category \in Categories \cup {None} /\ category \in {r.want.category, row.category}
  BY <1>1 DEF Row, Life, Written
<1>3. Updated(row, r) = [row EXCEPT !.life = life, !.active = active,
                            !.available = available, !.price = price,
                            !.category = category]
  BY DEF Updated
<1> HIDE DEF life, active, available, price, category
<1>4. QED
  BY <1>2, <1>3 DEF Row

\* Where a commit puts an item holds, whatever committed since the handler read.
LEMMA UpdateCommitInv ==
  ASSUME CatalogInv, NEW w \in Workers, UpdateCommit(w)
  PROVE  CatalogInv'
<1> DEFINE r == req[w]
           new == Updated(catalog[r.x], r)
           rows == [catalog EXCEPT ![r.x] = new]
<1>1. /\ r \in Request /\ r.read \in Row /\ r.want \in Row
      /\ r.at = "commit" /\ r.op \notin CreateOp
  BY DEF UpdateCommit, CatalogInv, CatalogTypeOK, Request, CreateOp
<1>2. /\ r.x \in Rows /\ ~Unused(r.x) /\ r.want.home = catalog[r.x].home
      /\ r.x \in Items => r.want.price # None /\ MayHold(r.want.category, r.want.home)
  BY <1>1 DEF CatalogInv, CommitRelies
<1>3. catalog \in [Rows -> Row] /\ catalog[r.x] \in Row
  BY <1>2 DEF CatalogInv, CatalogTypeOK
<1>4. /\ new \in Row /\ new.home = catalog[r.x].home /\ new.life # "absent"
      /\ new.price \in {r.want.price, catalog[r.x].price}
      /\ new.category \in {r.want.category, catalog[r.x].category}
  BY <1>1, <1>2, <1>3, UpdatedRow DEF Unused
<1>5. Commit(w, rows) /\ UNCHANGED writes
  BY DEF UpdateCommit
<1> HIDE DEF new
<1>6. rows \in [Rows -> Row]
  BY <1>2, <1>3, <1>4
<1>7. \A x \in Rows : ~Unused(x) =>
         rows[x].life # "absent" /\ rows[x].home = catalog[x].home
  BY <1>2, <1>3, <1>4 DEF Unused
<1>8. ASSUME NEW i \in Items
      PROVE  /\ rows[i].life # "absent" => rows[i].price # None
             /\ rows[i].category # None => ~Unused(rows[i].category)
             /\ rows[i].category # None =>
                    catalog[rows[i].category].home = rows[i].home
  <2>1. /\ i \in Rows
        /\ ~Unused(i) => catalog[i].price # None
        /\ catalog[i].category # None =>
               ~Unused(catalog[i].category)
               /\ catalog[catalog[i].category].home = catalog[i].home
    BY RowsApart DEF CatalogInv, ItemsWhole, ItemsStayHome, AtHome
  <2>2. CASE i # r.x
    BY <1>3, <2>1, <2>2 DEF Unused
  <2>3. CASE i = r.x
    <3>1. rows[i] = new
      BY <1>2, <1>3, <2>3
    <3>2. QED
      BY <1>2, <1>4, <2>1, <2>3, <3>1 DEF MayHold
  <2>4. QED
    BY <2>2, <2>3
<1>9. ASSUME NEW i \in Items, rows[i].category # None
      PROVE  rows[i].category \in Rows
  BY <1>6, <1>9, RowsApart DEF Row
<1> HIDE DEF rows
<1>10. QED
  BY <1>5, <1>6, <1>7, <1>8, <1>9, CommitInv

\* A row that is made is in nobody's way: no item is in a category that was not.
LEMMA NewRowInv ==
  ASSUME CatalogInv, NEW w \in Workers, NEW x \in Rows, Unused(x), NEW row \in Row,
         row.life # "absent",
         x \in Items => row.price # None /\ MayHold(row.category, row.home),
         Commit(w, [catalog EXCEPT ![x] = row]),
         UNCHANGED writes \/ writes' \in 0..MaxWrites
  PROVE  CatalogInv'
<1> DEFINE rows == [catalog EXCEPT ![x] = row]
<1>1. catalog \in [Rows -> Row] /\ rows \in [Rows -> Row]
  BY DEF CatalogInv, CatalogTypeOK
<1>2. \A y \in Rows : ~Unused(y) => rows[y] = catalog[y]
  BY <1>1
<1>3. rows[x] = row
  BY <1>1
<1>4. ASSUME NEW i \in Items
      PROVE  /\ rows[i].life # "absent" => rows[i].price # None
             /\ rows[i].category # None =>
                    ~Unused(rows[i].category) /\ catalog[rows[i].category].home = rows[i].home
  <2>1. /\ i \in Rows
        /\ ~Unused(i) => catalog[i].price # None
        /\ catalog[i].category # None =>
               ~Unused(catalog[i].category)
               /\ catalog[catalog[i].category].home = catalog[i].home
    BY RowsApart DEF CatalogInv, ItemsWhole, ItemsStayHome, AtHome
  <2>2. CASE i = x
    BY <1>3, <2>2 DEF MayHold
  <2>3. CASE i # x
    BY <1>1, <2>1, <2>3 DEF Unused
  <2>4. QED
    BY <2>2, <2>3
<1>5. ASSUME NEW i \in Items, rows[i].category # None
      PROVE  rows[i].category \in Rows
  BY <1>1, <1>5, RowsApart DEF Row
<1>6. Commit(w, rows)
  OBVIOUS
<1> HIDE DEF rows
<1>7. QED
  BY <1>1, <1>2, <1>4, <1>5, <1>6, CommitInv DEF Unused

LEMMA CreateInv ==
  ASSUME CatalogInv, NEW w \in Workers,
         CreateRestaurant(w) \/ CreateCategoryCommit(w) \/ CreateMenuItemCommit(w)
  PROVE  CatalogInv'
<1>1. ASSUME NEW r \in Restaurants, NEW active \in BOOLEAN, Unused(r),
             writes < MaxWrites, writes' = writes + 1,
             Commit(w, [catalog EXCEPT ![r] = [NoRow EXCEPT !.life = "live", !.active = active]])
      PROVE  CatalogInv'
  <2>1. /\ [NoRow EXCEPT !.life = "live", !.active = active] \in Row
        /\ [NoRow EXCEPT !.life = "live", !.active = active].life # "absent"
    BY DEF NoRow, Row, Life
  <2>2. writes' \in 0..MaxWrites
    BY <1>1, CatalogAssumption DEF CatalogInv, CatalogTypeOK
  <2>3. QED
    BY <1>1, <2>1, <2>2, RowsApart, NewRowInv
<1>2. ASSUME req[w].at = "commit", req[w].op \in CreateOp
      PROVE  /\ req[w].want \in Row /\ req[w].want.life # "absent"
             /\ req[w].op = "create_menu_item" =>
                    req[w].want.price # None /\ MayHold(req[w].want.category, req[w].want.home)
  BY <1>2 DEF CatalogInv, CatalogTypeOK, CommitRelies, Request
<1>3. CASE CreateCategoryCommit(w)
  BY <1>2, <1>3, RowsApart, NewRowInv DEF CreateCategoryCommit, Doing, CreateOp
<1>4. CASE CreateMenuItemCommit(w)
  BY <1>2, <1>4, RowsApart, NewRowInv DEF CreateMenuItemCommit, Doing, CreateOp
<1>5. QED
  BY <1>1, <1>3, <1>4 DEF CreateRestaurant

\* The seed tool finds the categories of its items where it put them.
LEMMA SeedInv ==
  ASSUME CatalogInv, NEW w \in Workers, Seed(w)
  PROVE  CatalogInv'
<1> DEFINE rows == [x \in Rows |-> IF x \in Seeded THEN Opening[x] ELSE catalog[x]]
<1>1. /\ catalog \in [Rows -> Row] /\ rows \in [Rows -> Row]
      /\ \A x \in Seeded : x \in Rows /\ Opening[x].life = "live"
  BY CatalogAssumption DEF CatalogInv, CatalogTypeOK
<1>2. \A x \in Rows : ~Unused(x) =>
          rows[x].life # "absent" /\ rows[x].home = catalog[x].home
  BY <1>1 DEF CatalogInv, RowsStay, Unused
<1>3. ASSUME NEW i \in Items
      PROVE  /\ rows[i].life # "absent" => rows[i].price # None
             /\ rows[i].category # None =>
                    ~Unused(rows[i].category) /\ catalog[rows[i].category].home = rows[i].home
  <2>1. i \in Rows
    BY RowsApart
  <2>2. CASE i \notin Seeded
    BY <2>1, <2>2 DEF CatalogInv, ItemsWhole, ItemsStayHome, AtHome, Unused
  <2>3. CASE i \in Seeded
    <3>1. rows[i] = Opening[i] /\ Opening[i].life = "live" /\ Opening[i].price # None
      BY <1>1, <2>1, <2>3, CatalogAssumption
    <3>2. Opening[i].category # None =>
            /\ Opening[i].category \in Rows
            /\ Opening[Opening[i].category].life # "absent"
            /\ Opening[Opening[i].category].home = Opening[i].home
      BY <2>1, CatalogAssumption, RowsApart DEF AtHome, Row
    <3>3. QED
      BY <3>1, <3>2 DEF CatalogInv, RowsStay
  <2>4. QED
    BY <2>2, <2>3
<1>4. ASSUME NEW i \in Items, rows[i].category # None
      PROVE  rows[i].category \in Rows
  BY <1>1, <1>4, RowsApart DEF Row
<1>5. Commit(w, rows) /\ UNCHANGED writes
  BY DEF Seed
<1> HIDE DEF rows
<1>6. QED
  BY <1>1, <1>2, <1>3, <1>4, <1>5, CommitInv DEF Unused

----------------------------------------------------------------------------
(* The menu page *)

LEMMA ReadingInv ==
  ASSUME CatalogInv, NEW w \in Workers, Reading(w)
  PROVE  CatalogInv'
<1>1. /\ req[w] \in Request /\ req \in [Workers -> Request]
      /\ catalog \in [Rows -> Row] /\ writes \in 0..MaxWrites
      /\ seen \in [Workers -> SUBSET [Rows -> Row]]
      /\ PageRelies(w)
  BY DEF CatalogInv, CatalogTypeOK
<1>2. ASSUME NEW r \in Request, req' = [req EXCEPT ![w] = r],
             UNCHANGED <<catalog, writes, seen>>,
             r.op = "get_public_catalog", r.at # "commit", PageRelies(w)'
      PROVE  CatalogInv'
  <2>1. CommitRelies(w)'
    BY <1>1, <1>2 DEF CommitRelies
  <2>2. writes' \in 0..MaxWrites /\ seen' \in [Workers -> SUBSET [Rows -> Row]]
    BY <1>1, <1>2
  <2>3. QED
    BY <1>2, <2>1, <2>2, RequestStep
<1>3. CASE GetPublicCatalog(w)
  <2>1. PICK r \in Restaurants :
          req' = [req EXCEPT ![w] = [Idle EXCEPT !.op = "get_public_catalog",
                                                 !.at = "categories", !.x = r]]
    BY <1>3 DEF GetPublicCatalog, Begin
  <2>2. [Idle EXCEPT !.op = "get_public_catalog", !.at = "categories", !.x = r] \in Request
    BY RowsApart, NoRowType DEF Idle, Request
  <2>3. /\ UNCHANGED <<catalog, writes>> /\ seen' = [seen EXCEPT ![w] = {catalog}]
    BY <1>3 DEF GetPublicCatalog, Begin, Watches
  <2>4. req'[w].op = "get_public_catalog" /\ req'[w].at = "categories"
    BY <1>1, <2>1, RowsApart, NoRowType DEF Idle
  <2>5. CommitRelies(w)' /\ PageRelies(w)'
    BY <1>1, <2>3, <2>4 DEF CommitRelies, PageRelies
  <2>6. /\ seen' \in [Workers -> SUBSET [Rows -> Row]]
        /\ \A u \in Workers : u # w => seen'[u] = seen[u]
        /\ writes' \in 0..MaxWrites
    BY <1>1, <2>3
  <2>7. QED
    BY <2>1, <2>2, <2>3, <2>5, <2>6, RequestStep
<1>4. CASE GetPublicCatalogCategories(w)
  <2> DEFINE listed == {c \in Categories : Listed(catalog, c, req[w].x)}
             r == [req[w] EXCEPT !.at = "items", !.listed = listed]
  <2>1. /\ req' = [req EXCEPT ![w] = r] /\ UNCHANGED <<catalog, writes, seen>>
        /\ req[w].op = "get_public_catalog"
    BY <1>4 DEF GetPublicCatalogCategories, Proceed, Doing
  <2>2. listed \in SUBSET Categories
    OBVIOUS
  <2>3. \A c \in Categories : Listed(catalog, c, req[w].x) <=> c \in listed
    OBVIOUS
  <2> HIDE DEF listed
  <2>4. /\ r \in Request /\ r.op = req[w].op /\ r.at = "items" /\ r.x = req[w].x
        /\ r.listed = listed
    BY <1>1, <2>2 DEF Request
  <2> HIDE DEF r
  <2>5. req'[w] = r
    BY <1>1, <2>1
  <2>6. PageRelies(w)'
    BY <1>1, <2>1, <2>3, <2>4, <2>5 DEF PageRelies, Listed
  <2>7. QED
    BY <1>2, <2>1, <2>4, <2>6
<1>5. CASE GetPublicCatalogItems(w)
  <2> DEFINE page == {i \in Items : OnSale(catalog, i, req[w].x)
                                      /\ catalog[i].category \in req[w].listed}
             r == [req[w] EXCEPT !.at = "answer", !.page = page]
  <2>1. /\ req' = [req EXCEPT ![w] = r] /\ UNCHANGED <<catalog, writes, seen>>
        /\ req[w].op = "get_public_catalog" /\ req[w].at = "items"
    BY <1>5 DEF GetPublicCatalogItems, Proceed, Doing
  <2>2. page \in SUBSET Items
    OBVIOUS
  <2>3. \A i \in Items : OnSale(catalog, i, req[w].x) /\ catalog[i].category \in req[w].listed
                            <=> i \in page
    OBVIOUS
  <2> HIDE DEF page
  <2>4. /\ r \in Request /\ r.op = req[w].op /\ r.at = "answer" /\ r.x = req[w].x
        /\ r.listed = req[w].listed /\ r.page = page
    BY <1>1, <2>2 DEF Request
  <2> HIDE DEF r
  <2>5. req'[w] = r
    BY <1>1, <2>1
  <2>6. PageRelies(w)'
    BY <1>1, <2>1, <2>3, <2>4, <2>5 DEF PageRelies, Listed, OnSale
  <2>7. QED
    BY <1>2, <2>1, <2>4, <2>6
<1>6. CASE GetPublicCatalogAnswer(w)
  BY <1>6, DoneInv DEF GetPublicCatalogAnswer
<1>7. QED
  BY <1>3, <1>4, <1>5, <1>6 DEF Reading

LEMMA CatalogNextInv ==
  ASSUME CatalogInv, NEW w \in Workers, CatalogNext(w)
  PROVE  CatalogInv'
  BY WritingInv, CreateMenuItemInv, ItemInv, UpdateCommitInv, CreateInv, SeedInv,
     ReadingInv, DoneInv DEF CatalogNext, Writing, CatalogAbort

\* What a request to the catalog does to a worker that has none.
LEMMA CatalogOthers ==
  ASSUME CatalogTypeOK, NEW w \in Workers, CatalogNext(w), NEW u \in Workers, u # w
  PROVE  /\ req'[u] = req[u]
         /\ seen[u] \subseteq seen'[u]
         /\ catalog \in seen[u] => catalog' \in seen'[u]
<1>1. ASSUME NEW rows, Commit(w, rows)
      PROVE  /\ req'[u] = req[u] /\ seen[u] \subseteq seen'[u]
             /\ catalog \in seen[u] => catalog' \in seen'[u]
  BY <1>1 DEF Commit, CatalogTypeOK
<1>2. ASSUME NEW r, req' = [req EXCEPT ![w] = r], UNCHANGED catalog,
             NEW q, seen' = seen \/ seen' = [seen EXCEPT ![w] = q]
      PROVE  /\ req'[u] = req[u] /\ seen[u] \subseteq seen'[u]
             /\ catalog \in seen[u] => catalog' \in seen'[u]
  BY <1>2 DEF CatalogTypeOK
<1>3. CASE \/ UpdateRestaurant(w) \/ DeleteRestaurant(w) \/ CreateCategory(w)
           \/ UpdateCategory(w) \/ DeleteCategory(w) \/ CreateMenuItem(w)
           \/ UpdateMenuItem(w) \/ DeleteMenuItem(w)
  <2>1. PICK r : req' = [req EXCEPT ![w] = r] /\ UNCHANGED <<catalog, seen>>
    BY <1>3 DEF UpdateRestaurant, DeleteRestaurant, CreateCategory, UpdateCategory,
          DeleteCategory, CreateMenuItem, UpdateMenuItem, DeleteMenuItem, Write, Begin
  <2>2. QED
    BY <1>2, <2>1
<1>4. CASE \/ CreateRestaurant(w) \/ UpdateCommit(w) \/ CreateCategoryCommit(w)
           \/ CreateMenuItemCommit(w) \/ Seed(w)
  BY <1>1, <1>4 DEF CreateRestaurant, UpdateCommit, CreateCategoryCommit,
        CreateMenuItemCommit, Seed
<1>5. CASE Reading(w) \/ CatalogAbort(w)
  <2>1. CASE GetPublicCatalog(w)
    BY <1>2, <2>1 DEF GetPublicCatalog, Begin, Watches
  <2>2. CASE GetPublicCatalogCategories(w) \/ GetPublicCatalogItems(w)
    BY <1>2, <2>2 DEF GetPublicCatalogCategories, GetPublicCatalogItems, Proceed
  <2>3. CASE Done(w)
    BY <1>2, <2>3 DEF Done
  <2>4. QED
    BY <1>5, <2>1, <2>2, <2>3 DEF Reading, GetPublicCatalogAnswer, CatalogAbort
<1>6. QED
  BY <1>3, <1>4, <1>5 DEF CatalogNext, Writing

\* What the pages and the requests of CatalogInv amount to.
LEMMA PagesTell == CatalogInv => PageTellsTheMenu
<1> SUFFICES ASSUME CatalogInv, NEW w \in Workers,
                    Doing(w, "get_public_catalog", "answer")
             PROVE  LET r == req[w].x IN
        /\ \A i \in req[w].page :
            \E rows, others \in seen[w] :
                /\ OnSale(rows, i, r)
                /\ rows[i].category # None
                /\ Listed(others, rows[i].category, r)
        /\ \A i \in Items :
            (\E k \in Categories : \A rows \in seen[w] :
                i \in Menu(rows, r) /\ rows[i].category = k)
                    => i \in req[w].page
  BY DEF PageTellsTheMenu
<1> DEFINE r == req[w].x
<1>1. /\ \A c \in Categories : \E rows \in seen[w] :
             Listed(rows, c, r) <=> c \in req[w].listed
      /\ \A i \in Items : \E rows \in seen[w] :
             OnSale(rows, i, r) /\ rows[i].category \in req[w].listed <=> i \in req[w].page
  BY DEF CatalogInv, PageRelies, Doing
<1>2. req[w].page \subseteq Items /\ req[w].listed \subseteq Categories
  BY DEF CatalogInv, CatalogTypeOK, Request
<1>3. ASSUME NEW i \in req[w].page
      PROVE  \E rows, others \in seen[w] :
                /\ OnSale(rows, i, r)
                /\ rows[i].category # None
                /\ Listed(others, rows[i].category, r)
  <2>1. PICK rows \in seen[w] : OnSale(rows, i, r) /\ rows[i].category \in req[w].listed
    BY <1>1, <1>2
  <2>2. PICK others \in seen[w] : Listed(others, rows[i].category, r)
    BY <1>1, <1>2, <2>1
  <2>3. rows[i].category # None
    BY <1>2, <2>1, RowsApart
  <2>4. QED
    BY <2>1, <2>2, <2>3
<1>4. ASSUME NEW i \in Items, NEW k \in Categories,
             \A rows \in seen[w] : i \in Menu(rows, r) /\ rows[i].category = k
      PROVE  i \in req[w].page
  <2>1. \A rows \in seen[w] : OnSale(rows, i, r) /\ Listed(rows, k, r)
    BY <1>4 DEF Menu
  <2>2. k \in req[w].listed
    BY <1>1, <2>1
  <2>3. QED
    BY <1>1, <1>4, <2>1, <2>2
<1>5. QED
  BY <1>3, <1>4

----------------------------------------------------------------------------
(* Sales *)

\* A sale takes one worker, that has no request to the catalog.
LEMMA SaleCatalogInv ==
  ASSUME CatalogInv, NEW w \in Workers, req[w] = Idle, UNCHANGED catalogVars,
         \/ seen' = seen \/ seen' = [seen EXCEPT ![w] = {}]
         \/ seen' = [seen EXCEPT ![w] = {catalog}]
  PROVE  CatalogInv'
<1>1. /\ req' = [req EXCEPT ![w] = Idle] /\ req'[w] = Idle
      /\ UNCHANGED catalog /\ writes' \in 0..MaxWrites
      /\ seen' \in [Workers -> SUBSET [Rows -> Row]]
      /\ \A u \in Workers : u # w => seen'[u] = seen[u]
  BY DEF catalogVars, CatalogInv, CatalogTypeOK
<1>2. QED
  BY <1>1, IdleRelies, NoRowType, RequestStep

\* The sale of w opens a session nobody else knows of until its order is there.
Own(w) == sale[w].kind = "counter" /\ sale[w].s # None /\ ~HasPlaced(sale[w])

\* A sale relies on what the sales of others keep.
LEMMA OthersSell ==
  ASSUME CheckoutInv, NEW u \in Workers, sale'[u] = sale[u],
         UNCHANGED <<catalog, req>>, seen'[u] = seen[u],
         \A o \in Orders : Stored(o) => order'[o] = order[o],
         \A s \in Sessions : session[s].status # "absent" => session'[s].status # "absent",
         told \subseteq told',
         Own(u) =>
             /\ ~Known(sale[u].s)' /\ sale[u].s \notin failed'
             /\ session'[sale[u].s].status = "open"
             /\ \A x \in Workers : sale'[x].s = sale[u].s => x = u
  PROVE  SaleRelies(u)' /\ SessionOfSale(u)'
<1>1. /\ SaleRelies(u) /\ SessionOfSale(u)
      /\ sale[u] \in Sale /\ sale[u].s \in Sessions \cup {None}
      /\ sale[u].at = "answer" => sale[u].o \in Orders
  BY DEF CheckoutInv, TypeOK, Sale, SaleFields
<1>2. SaleRelies(u)'
  <2>1. sale[u].at = "answer" => order'[sale[u].o] = order[sale[u].o]
    BY <1>1 DEF SaleRelies, Stored
  <2>2. QED
    BY <1>1, <2>1 DEF SaleRelies, Orderable
<1>3. Known(sale[u].s) => Known(sale[u].s)'
  BY DEF Known, OrdersOf, Stored
<1>4. SessionOfSale(u)'
  BY <1>1, <1>3 DEF SessionOfSale, Own, HasPlaced
<1>5. QED
  BY <1>2, <1>4

LEMMA InCatalogInv ==
  ASSUME CheckoutInv, NEW w \in Workers, InCatalog(w)
  PROVE  CheckoutInv'
<1>1. /\ CatalogInv /\ CatalogTypeOK /\ TypeOK
      /\ CatalogNext(w) /\ sale[w] = NoSale
      /\ UNCHANGED <<session, order, sale, told, failed, replies>>
  BY DEF CheckoutInv, CatalogInv, InCatalog, saleVars
<1>2. CatalogInv' /\ CatalogTypeOK'
  BY <1>1, CatalogNextInv DEF CatalogInv
<1>3. TypeOK'
  BY <1>1, <1>2 DEF TypeOK
<1>4. ChargedOnce' /\ SessionsAccountedFor' /\ OrdersAndReplies'
  BY <1>1 DEF CheckoutInv, ChargedOnce, SessionsAccountedFor, OrdersAndReplies,
        Stored, OrdersOf
<1>5. ASSUME NEW u \in Workers PROVE SaleRelies(u)' /\ SessionOfSale(u)'
  <2>1. SaleRelies(u) /\ SessionOfSale(u)
    BY DEF CheckoutInv
  <2>2. SessionOfSale(u)'
    BY <1>1, <2>1 DEF SessionOfSale, Known, OrdersOf, Stored
  <2>3. sale[u].at # "none" => u # w
    BY <1>1 DEF NoSale
  <2>4. SaleRelies(u)'
    <3>1. CASE u # w
      BY <1>1, <2>1, <3>1, CatalogOthers DEF SaleRelies, Orderable
    <3>2. CASE u = w
      BY <1>1, <3>2 DEF SaleRelies, NoSale
    <3>3. QED
      BY <3>1, <3>2
  <2>5. QED
    BY <2>2, <2>4
<1>6. QED
  BY <1>2, <1>3, <1>4, <1>5 DEF CheckoutInv

\* A sale that begins or goes on, and stores nothing.
LEMMA MoveInv ==
  ASSUME CheckoutInv, NEW w \in Workers, NEW v \in Sale,
         sale' = [sale EXCEPT ![w] = v], req[w] = Idle,
         UNCHANGED <<catalogVars, session, order, told, failed, replies>>,
         seen' = seen \/ seen' = [seen EXCEPT ![w] = {catalog}],
         SaleRelies(w)', SessionOfSale(w)',
         \A u \in Workers : u # w /\ Own(u) => v.s # sale[u].s,
         sale[w].kind = "counter" /\ sale[w].s # None
             => v.kind = "counter" /\ v.s = sale[w].s
  PROVE  CheckoutInv'
<1>1. /\ CatalogInv /\ CatalogTypeOK /\ TypeOK /\ sale \in [Workers -> Sale]
  BY DEF CheckoutInv, TypeOK
<1>2. CatalogInv' /\ CatalogTypeOK'
  BY <1>1, SaleCatalogInv DEF CatalogInv
<1>3. TypeOK'
  BY <1>1, <1>2 DEF TypeOK
<1>4. ChargedOnce' /\ OrdersAndReplies'
  BY DEF CheckoutInv, ChargedOnce, OrdersAndReplies, Stored
<1>5. SessionsAccountedFor'
  <2>1. ASSUME NEW s \in Sessions, NEW u \in Workers, sale[u].kind = "counter", sale[u].s = s
        PROVE  sale'[u].kind = "counter" /\ sale'[u].s = s
    BY <1>1, <2>1, CheckoutAssumption
  <2>2. SessionsAccountedFor
    BY DEF CheckoutInv
  <2>3. QED
    BY <2>1, <2>2 DEF SessionsAccountedFor, OrdersOf, Stored
<1>6. ASSUME NEW u \in Workers, u # w PROVE SaleRelies(u)' /\ SessionOfSale(u)'
  <2>1. sale'[u] = sale[u] /\ seen'[u] = seen[u] /\ UNCHANGED <<catalog, req>>
    BY <1>1, <1>6 DEF catalogVars, CatalogTypeOK
  <2>2. SessionOfSale(u)
    BY DEF CheckoutInv
  <2>3. Own(u) => /\ ~Known(sale[u].s)' /\ sale[u].s \notin failed'
                  /\ session'[sale[u].s].status = "open"
    BY <2>2 DEF SessionOfSale, Own, Known, OrdersOf, Stored
  <2>4. Own(u) => \A x \in Workers : sale'[x].s = sale[u].s => x = u
    BY <1>1, <1>6, <2>2 DEF SessionOfSale, Own
  <2>5. QED
    BY <2>1, <2>3, <2>4, OthersSell
<1>7. QED
  BY <1>2, <1>3, <1>4, <1>5, <1>6 DEF CheckoutInv

\* What is known of the sale of a worker.
LEMMA SaleFacts ==
  ASSUME CheckoutInv, NEW w \in Workers, sale[w] # NoSale
  PROVE  /\ req[w] = Idle /\ sale[w].at # "none"
         /\ sale[w] \in Sale /\ sale[w] \in SaleFields
         /\ SaleRelies(w) /\ SessionOfSale(w)
  BY DEF CheckoutInv, TypeOK, SaleRelies, Sale

\* A sale keeps to its session: it is no other worker's own.
LEMMA SameSession ==
  ASSUME CheckoutInv, NEW w \in Workers, NEW u \in Workers, u # w, Own(u)
  PROVE  sale[w].s # sale[u].s
  BY DEF CheckoutInv, SessionOfSale, Own

LEMMA BeginSaleInv ==
  ASSUME CheckoutInv, NEW w \in Workers, PlaceOrder(w) \/ CounterOrder(w)
  PROVE  CheckoutInv'
<1>1. ASSUME NEW r \in Restaurants, NEW s \in Sessions, NEW key \in Keys, NEW cart \in Carts,
             Known(s), NEW op, Sell(w, op, [NoSale EXCEPT
               !.kind = "order", !.at = "session", !.r = r, !.s = s,
               !.key = key, !.asked = key, !.cart = cart])
      PROVE  CheckoutInv'
  <2> DEFINE v == [NoSale EXCEPT !.kind = "order", !.at = "session", !.r = r, !.s = s,
                                 !.key = key, !.asked = key, !.cart = cart]
  <2>1. /\ v \in SaleFields
        /\ v.kind = "order" /\ v.at = "session" /\ v.r = r /\ v.s = s
        /\ v.key = v.asked /\ v.cart = cart
    BY DEF NoSale, SaleFields
  <2>2. v \in Sale
    BY <2>1 DEF Sale
  <2>3. /\ sale' = [sale EXCEPT ![w] = v] /\ sale[w] = NoSale /\ req[w] = Idle
        /\ UNCHANGED <<catalogVars, session, order, told, failed, replies>>
        /\ seen' = [seen EXCEPT ![w] = {catalog}]
    BY <1>1 DEF Sell, Free, Watches
  <2> HIDE DEF v
  <2>4. sale'[w] = v /\ catalog' \in seen'[w] /\ req'[w] = Idle
    BY <2>3 DEF CheckoutInv, TypeOK, CatalogTypeOK, catalogVars
  <2>5. SaleRelies(w)'
    BY <2>1, <2>4 DEF SaleRelies
  <2>6. SessionOfSale(w)'
    <3>1. Known(s)' /\ session'[s].status # "absent"
      BY <1>1, <2>3 DEF Known, OrdersOf, Stored, CheckoutInv, OrdersAndReplies
    <3>2. QED
      BY <2>1, <2>4, <3>1 DEF SessionOfSale
  <2>7. \A u \in Workers : Own(u) => v.s # sale[u].s
    BY <1>1, <2>1 DEF CheckoutInv, SessionOfSale, Own
  <2>8. sale[w].kind # "counter"
    BY <2>3 DEF NoSale
  <2>9. QED
    BY <2>2, <2>3, <2>5, <2>6, <2>7, <2>8, MoveInv
<1>2. ASSUME NEW r \in Restaurants, NEW key \in Keys, NEW cart \in Carts, NEW op,
             Sell(w, op, [NoSale EXCEPT
               !.kind = "counter", !.at = "open", !.r = r,
               !.key = key, !.asked = key, !.cart = cart])
      PROVE  CheckoutInv'
  <2> DEFINE v == [NoSale EXCEPT !.kind = "counter", !.at = "open", !.r = r,
                                 !.key = key, !.asked = key, !.cart = cart]
  <2>1. /\ v \in SaleFields
        /\ v.kind = "counter" /\ v.at = "open" /\ v.r = r /\ v.s = None
        /\ v.key = v.asked /\ v.cart = cart
    BY DEF NoSale, SaleFields
  <2>2. v \in Sale
    BY <2>1 DEF Sale
  <2>3. /\ sale' = [sale EXCEPT ![w] = v] /\ sale[w] = NoSale /\ req[w] = Idle
        /\ UNCHANGED <<catalogVars, session, order, told, failed, replies>>
        /\ seen' = [seen EXCEPT ![w] = {catalog}]
    BY <1>2 DEF Sell, Free, Watches
  <2> HIDE DEF v
  <2>4. sale'[w] = v /\ catalog' \in seen'[w] /\ req'[w] = Idle
    BY <2>3 DEF CheckoutInv, TypeOK, CatalogTypeOK, catalogVars
  <2>5. SaleRelies(w)' /\ SessionOfSale(w)'
    BY <2>1, <2>4 DEF SaleRelies, SessionOfSale
  <2>6. \A u \in Workers : Own(u) => v.s # sale[u].s
    BY <2>1 DEF Own
  <2>7. sale[w].kind # "counter"
    BY <2>3 DEF NoSale
  <2>8. QED
    BY <2>2, <2>3, <2>5, <2>6, <2>7, MoveInv
<1>3. QED
  BY <1>1, <1>2 DEF PlaceOrder, CounterOrder

\* A sale that goes on with the session, key and cart it has.
LEMMA GoOnInv ==
  ASSUME CheckoutInv, NEW w \in Workers, sale[w] # NoSale, sale[w].s # None,
         sale[w].at \notin {"open", "commit", "answer"},
         NEW v \in SaleFields, Goes(w, v),
         v.kind = sale[w].kind, v.r = sale[w].r, v.s = sale[w].s, v.key = sale[w].key,
         v.asked = sale[w].asked, v.cart = sale[w].cart,
         v.at \in {"session", "lookup", "items", "commit"},
         v.at = "commit" => v.lines = [i \in v.cart |-> catalog[i].price]
                             /\ \A i \in v.cart : Orderable(catalog, i),
         UNCHANGED <<session, order, told, failed, replies>>
  PROVE  CheckoutInv'
<1>1. /\ req[w] = Idle /\ sale[w].at # "none" /\ sale[w] \in Sale
      /\ SaleRelies(w) /\ SessionOfSale(w)
  BY SaleFacts
<1>2. /\ sale' = [sale EXCEPT ![w] = v] /\ seen' = seen /\ UNCHANGED catalogVars
  BY DEF Goes
<1>3. v.cart \in Carts /\ v.cart \subseteq Items
  BY <1>1, CheckoutAssumption DEF Sale
<1>4. v.at = "commit" => v.lines \in [v.cart -> Prices]
  <2>1. ASSUME NEW i \in v.cart, Orderable(catalog, i) PROVE catalog[i].price \in Prices
    BY <1>3, <2>1, RowsApart
       DEF CheckoutInv, CatalogInv, CatalogTypeOK, ItemsWhole, Orderable, Unused, Row
  <2>2. QED
    BY <2>1
<1>5. v \in Sale
  BY <1>1, <1>4 DEF Sale
<1>6. /\ sale'[w] = v /\ catalog' = catalog /\ req' = req /\ seen'[w] = seen[w]
  BY <1>2 DEF CheckoutInv, TypeOK, catalogVars
<1>7. SaleRelies(w)'
  BY <1>1, <1>6 DEF SaleRelies, Orderable
<1>8. SessionOfSale(w)'
  <2>1. Known(v.s)' <=> Known(v.s)
    BY DEF Known, OrdersOf, Stored
  <2>2. ASSUME NEW u \in Workers PROVE sale'[u].s = sale[u].s
    BY <1>2 DEF CheckoutInv, TypeOK
  <2>3. QED
    BY <1>1, <1>6, <2>1, <2>2 DEF SessionOfSale, HasPlaced
<1>9. \A u \in Workers : u # w /\ Own(u) => v.s # sale[u].s
  BY SameSession
<1>10. QED
  BY <1>1, <1>2, <1>5, <1>7, <1>8, <1>9, MoveInv

LEMMA GoingOnInv ==
  ASSUME CheckoutInv, NEW w \in Workers,
         ReadSession(w) \/ Lookup(w) \/ ReadItems(w) \/ CounterOrderCheck(w)
  PROVE  CheckoutInv'
<1> DEFINE v == sale[w]
<1>1. v.at \in {"session", "lookup", "items", "check"}
  BY DEF ReadSession, Lookup, ReadItems, CounterOrderCheck, Selling
<1>2. v # NoSale
  BY <1>1 DEF NoSale
<1>3. v \in SaleFields /\ v.s # None /\ v.cart \in Carts
  BY <1>1, <1>2, SaleFacts, CheckoutAssumption DEF Sale
<1>4. CASE Lookup(w)
  <2>1. [v EXCEPT !.at = "items"] \in SaleFields
    BY <1>3 DEF SaleFields
  <2>2. QED
    BY <1>1, <1>2, <1>3, <1>4, <2>1, GoOnInv DEF Lookup, SaleFields
<1>5. CASE CounterOrderCheck(w)
  <2>1. [v EXCEPT !.at = "session"] \in SaleFields
    BY <1>3 DEF SaleFields
  <2>2. QED
    BY <1>1, <1>2, <1>3, <1>5, <2>1, GoOnInv DEF CounterOrderCheck, SaleFields
<1>6. CASE ReadItems(w)
  <2> DEFINE lines == [i \in v.cart |-> catalog[i].price]
             next == [v EXCEPT !.at = "commit", !.lines = lines]
  <2>1. /\ \A i \in v.cart : Orderable(catalog, i)
        /\ Goes(w, next)
        /\ UNCHANGED <<session, order, told, failed, replies>>
    BY <1>6 DEF ReadItems
  <2>2. lines \in Lines
    <3>1. ASSUME NEW i \in v.cart PROVE catalog[i].price \in Prices
      BY <1>3, <2>1, <3>1, RowsApart, CheckoutAssumption
         DEF CheckoutInv, CatalogInv, CatalogTypeOK, ItemsWhole, Orderable, Unused, Row
    <3>2. QED
      BY <1>3, <3>1 DEF Lines
  <2>3. /\ next \in SaleFields /\ next.kind = v.kind /\ next.r = v.r /\ next.s = v.s
        /\ next.key = v.key /\ next.asked = v.asked /\ next.cart = v.cart
        /\ next.at = "commit" /\ next.lines = lines
    <3> HIDE DEF lines
    <3> QED
      BY <1>3, <2>2 DEF SaleFields
  <2> HIDE DEF next
  <2>4. QED
    BY <1>1, <1>2, <1>3, <2>1, <2>3, GoOnInv
<1>7. CASE ReadSession(w)
  <2>1. [v EXCEPT !.at = "lookup"] \in SaleFields
    BY <1>3 DEF SaleFields
  <2>2. QED
    BY <1>1, <1>2, <1>3, <1>7, <2>1, GoOnInv DEF ReadSession, SaleFields
<1>8. QED
  BY <1>4, <1>5, <1>6, <1>7

\* The session of a counter order is new, and so nobody knows of it.
LEMMA CounterOrderSessionInv ==
  ASSUME CheckoutInv, NEW w \in Workers, CounterOrderSession(w)
  PROVE  CheckoutInv'
<1> DEFINE v == sale[w]
<1>1. PICK s \in Sessions :
        /\ session[s].status = "absent"
        /\ session' = [session EXCEPT ![s] = [status |-> "open", home |-> v.r]]
        /\ sale' = [sale EXCEPT ![w] = [v EXCEPT !.at = "check", !.s = s]]
        /\ UNCHANGED <<catalogVars, seen, order, told, failed, replies>>
        /\ v.at = "open"
  BY DEF CounterOrderSession, Selling, Goes
<1>2. v # NoSale
  BY <1>1 DEF NoSale
<1>3. /\ req[w] = Idle /\ v \in Sale /\ v \in SaleFields /\ SaleRelies(w)
      /\ v.kind = "counter" /\ v.s = None /\ v.r \in Restaurants /\ v.cart \in Carts
  BY <1>1, <1>2, SaleFacts DEF SessionOfSale, Sale
<1> DEFINE next == [v EXCEPT !.at = "check", !.s = s]
<1>4. /\ next \in SaleFields /\ next.kind = "counter" /\ next.at = "check" /\ next.s = s
      /\ next.r = v.r /\ next.key = v.key /\ next.asked = v.asked /\ next.cart = v.cart
  BY <1>3 DEF SaleFields
<1>5. next \in Sale
  BY <1>3, <1>4 DEF Sale
<1>6. sale' = [sale EXCEPT ![w] = next]
  BY <1>1
<1> HIDE DEF next
<1>7. /\ TypeOK /\ CatalogInv /\ SessionsAccountedFor /\ OrdersAndReplies
      /\ sale \in [Workers -> Sale] /\ session \in [Sessions -> SessionRow]
  BY DEF CheckoutInv, TypeOK
<1>8. CatalogInv' /\ CatalogTypeOK'
  BY <1>1, <1>3, <1>7, SaleCatalogInv DEF CatalogInv
<1>9. TypeOK'
  <2>1. session' \in [Sessions -> SessionRow]
    BY <1>1, <1>3, <1>7 DEF SessionRow
  <2>2. QED
    BY <1>1, <1>5, <1>6, <1>7, <1>8, <2>1 DEF TypeOK
<1>10. /\ \A t \in Sessions : t # s => session'[t] = session[t]
       /\ session'[s].status = "open"
  BY <1>1, <1>7
<1>11. ~Known(s) /\ s \notin failed /\ \A u \in Workers : sale[u].s # s
  <2>1. s \notin told \cup failed /\ OrdersOf(s) = {}
    BY <1>1, <1>7 DEF OrdersAndReplies, OrdersOf
  <2>2. \A u \in Workers : sale[u].s # s
    BY <1>1, CheckoutAssumption DEF CheckoutInv, SessionOfSale
  <2>3. QED
    BY <2>1, <2>2 DEF Known
<1>12. ~Known(s)' /\ s \notin failed'
  BY <1>1, <1>11 DEF Known, OrdersOf, Stored
<1>13. /\ sale'[w] = next
       /\ \A u \in Workers : u # w => sale'[u] = sale[u]
  BY <1>6, <1>7
<1>14. ChargedOnce' /\ OrdersAndReplies'
  <2>1. ChargedOnce'
    BY <1>1 DEF CheckoutInv, ChargedOnce, Stored
  <2>2. \A o \in Orders : Stored(o) => order[o].session \in Sessions
    BY <1>7 DEF TypeOK, OrderRow, Stored
  <2>3. told \cup failed \subseteq Sessions
    BY <1>7 DEF TypeOK
  <2>4. OrdersAndReplies'
    BY <1>1, <1>7, <1>10, <2>2, <2>3 DEF OrdersAndReplies, Stored
  <2>5. QED
    BY <2>1, <2>4
<1>15. SessionsAccountedFor'
  <2>1. ASSUME NEW t \in Sessions, session'[t].status = "open"
        PROVE  \/ t \in told' \cup failed' \/ OrdersOf(t)' # {}
               \/ \E u \in Workers : sale'[u].kind = "counter" /\ sale'[u].s = t
    <3>1. CASE t = s
      BY <1>4, <1>13, <3>1
    <3>2. CASE t # s
      <4>1. \A u \in Workers : sale[u].s = t => u # w
        BY <1>3, CheckoutAssumption
      <4>2. QED
        BY <1>1, <1>7, <1>10, <1>13, <2>1, <3>2, <4>1 DEF SessionsAccountedFor, OrdersOf, Stored
    <3>3. QED
      BY <3>1, <3>2
  <2>2. ASSUME NEW t \in failed'
        PROVE  t \notin told' /\ OrdersOf(t)' = {} /\ session'[t].status = "open"
    <3>1. t \in failed /\ t \in Sessions /\ t # s
      BY <1>1, <1>7, <1>11, <2>2 DEF TypeOK
    <3>2. QED
      BY <1>1, <1>7, <1>10, <3>1 DEF SessionsAccountedFor, OrdersOf, Stored
  <2>3. QED
    BY <2>1, <2>2 DEF SessionsAccountedFor
<1>16. SaleRelies(w)'
  BY <1>1, <1>2, <1>3, <1>4, <1>13, SaleFacts DEF SaleRelies, catalogVars
<1>17. SessionOfSale(w)'
  BY <1>4, <1>10, <1>11, <1>12, <1>13 DEF SessionOfSale
<1>18. ASSUME NEW u \in Workers, u # w PROVE SaleRelies(u)' /\ SessionOfSale(u)'
  <2>1. /\ sale'[u] = sale[u] /\ seen'[u] = seen[u] /\ UNCHANGED <<catalog, req>>
        /\ sale[u] \in Sale /\ sale[u].s \in Sessions \cup {None}
    BY <1>1, <1>7, <1>13, <1>18 DEF catalogVars, Sale, SaleFields
  <2>2. SessionOfSale(u)
    BY DEF CheckoutInv
  <2>3. Own(u) => /\ ~Known(sale[u].s)' /\ sale[u].s \notin failed'
                  /\ session'[sale[u].s].status = "open"
                  /\ \A x \in Workers : sale'[x].s = sale[u].s => x = u
    <3> SUFFICES ASSUME Own(u)
                 PROVE  /\ ~Known(sale[u].s)' /\ sale[u].s \notin failed'
                        /\ session'[sale[u].s].status = "open"
                        /\ \A x \in Workers : sale'[x].s = sale[u].s => x = u
      OBVIOUS
    <3>1. sale[u].s # s /\ sale[u].s \in Sessions
      BY <1>11, <2>1 DEF Own
    <3>2. QED
      BY <1>1, <1>4, <1>10, <1>13, <2>2, <3>1
         DEF SessionOfSale, Own, Known, OrdersOf, Stored
  <2>4. \A t \in Sessions : session[t].status # "absent" => session'[t].status # "absent"
    BY <1>10
  <2>5. \A o \in Orders : Stored(o) => order'[o] = order[o]
    BY <1>1
  <2>6. QED
    BY <1>1, <2>1, <2>3, <2>4, <2>5, OthersSell
<1>19. QED
  BY <1>8, <1>9, <1>14, <1>15, <1>16, <1>17, <1>18 DEF CheckoutInv

\* The order a sale stores: nobody else has its key, and it makes its session known.
LEMMA PlaceOrderCommitInv ==
  ASSUME CheckoutInv, NEW w \in Workers, PlaceOrderCommit(w)
  PROVE  CheckoutInv'
<1> DEFINE v == sale[w]
<1>1. PICK o \in Orders :
        /\ ~Stored(o)
        /\ order' = [order EXCEPT ![o] =
               [stored |-> TRUE, home |-> v.r, session |-> v.s, key |-> v.key,
                asked |-> v.asked, lines |-> v.lines]]
        /\ sale' = [sale EXCEPT ![w] = [v EXCEPT !.at = "answer", !.o = o]]
        /\ UNCHANGED <<catalogVars, seen, session, told, failed, replies>>
        /\ v.at = "commit" /\ WithKey(v.r, v.key) = {}
  BY DEF PlaceOrderCommit, Selling, Goes
<1>2. v # NoSale
  BY <1>1 DEF NoSale
<1>3. /\ req[w] = Idle /\ v \in Sale /\ v \in SaleFields /\ SaleRelies(w) /\ SessionOfSale(w)
      /\ v.r \in Restaurants /\ v.cart \in Carts /\ v.s \in Sessions
      /\ v.lines \in [v.cart -> Prices] /\ v.key = v.asked /\ v.s # None
  BY <1>1, <1>2, SaleFacts, CheckoutAssumption DEF SaleRelies, Sale
<1> DEFINE row == [stored |-> TRUE, home |-> v.r, session |-> v.s, key |-> v.key,
                   asked |-> v.asked, lines |-> v.lines]
           next == [v EXCEPT !.at = "answer", !.o = o]
<1>4. /\ row \in OrderFields /\ row.stored /\ row.home = v.r /\ row.session = v.s
      /\ row.key = v.key /\ row.asked = v.asked /\ row.lines = v.lines
      /\ row.lines \in Lines
  BY <1>3 DEF OrderFields, Lines, SaleFields
<1>5. row \in OrderRow
  BY <1>3, <1>4 DEF OrderRow
<1>6. /\ next \in SaleFields /\ next.kind = v.kind /\ next.at = "answer" /\ next.o = o
      /\ next.r = v.r /\ next.s = v.s /\ next.key = v.key /\ next.asked = v.asked
      /\ next.cart = v.cart /\ next.lines = v.lines
  BY <1>3 DEF SaleFields
<1>7. next \in Sale
  BY <1>1, <1>3, <1>6 DEF Sale
<1>8. /\ TypeOK /\ CatalogInv /\ ChargedOnce /\ SessionsAccountedFor /\ OrdersAndReplies
      /\ sale \in [Workers -> Sale] /\ order \in [Orders -> OrderRow]
      /\ told \subseteq Sessions /\ failed \subseteq Sessions
  BY DEF CheckoutInv, TypeOK
<1>9. /\ sale' = [sale EXCEPT ![w] = next] /\ sale'[w] = next
      /\ \A u \in Workers : u # w => sale'[u] = sale[u]
      /\ order' = [order EXCEPT ![o] = row] /\ order'[o] = row
      /\ \A p \in Orders : p # o => order'[p] = order[p]
  BY <1>1, <1>8
<1>10. row = [stored |-> TRUE, home |-> next.r, session |-> next.s, key |-> next.key,
              asked |-> next.asked, lines |-> next.lines]
  BY <1>6
<1> HIDE DEF row, next
<1>11. CatalogInv' /\ CatalogTypeOK'
  BY <1>1, <1>3, <1>8, SaleCatalogInv DEF CatalogInv
<1>12. TypeOK'
  BY <1>1, <1>5, <1>7, <1>8, <1>9, <1>11 DEF TypeOK
<1>13. \A p \in Orders : Stored(p) => order'[p] = order[p] /\ p # o
  BY <1>1, <1>9
<1>14. ChargedOnce'
  <2>1. ASSUME NEW p \in Orders, Stored(p), v.asked # None,
               order[p].asked = v.asked, order[p].home = v.r
        PROVE FALSE
    BY <1>1, <1>3, <1>8, <2>1 DEF WithKey, OrdersAndReplies
  <2> SUFFICES ASSUME NEW p \in Orders, NEW q \in Orders, order'[p].stored, order'[q].stored,
                      order'[p].asked # None, order'[q].asked # None,
                      order'[p].asked = order'[q].asked, order'[p].home = order'[q].home
               PROVE  p = q
    BY DEF ChargedOnce, Stored
  <2>2. CASE p # o /\ q # o
    BY <1>8, <1>9, <2>2 DEF ChargedOnce, Stored
  <2>3. CASE p = o /\ q # o
    BY <1>4, <1>9, <2>1, <2>3 DEF Stored
  <2>4. CASE p # o /\ q = o
    BY <1>4, <1>9, <2>1, <2>4 DEF Stored
  <2>5. QED
    BY <2>2, <2>3, <2>4
<1>15. OrdersAndReplies'
  <2>1. ASSUME NEW p \in Orders, order'[p].stored
        PROVE  order'[p].key = order'[p].asked /\ session'[order'[p].session].status # "absent"
    <3>1. CASE p = o
      BY <1>1, <1>3, <1>4, <1>9, <3>1 DEF SessionOfSale
    <3>2. CASE p # o
      BY <1>1, <1>8, <1>9, <2>1, <3>2 DEF OrdersAndReplies, Stored
    <3>3. QED
      BY <3>1, <3>2
  <2>2. \A a \in replies : a.order \in Orders
    BY <1>8 DEF TypeOK, Reply
  <2>3. \A a \in replies : order'[a.order] = order[a.order]
    BY <1>8, <1>13, <2>2 DEF OrdersAndReplies
  <2>4. QED
    BY <1>1, <1>8, <2>1, <2>3 DEF OrdersAndReplies, Stored
<1>16. ASSUME NEW t \in Sessions, t # v.s PROVE Known(t)' <=> Known(t)
  BY <1>1, <1>4, <1>9, <1>16 DEF Known, OrdersOf, Stored
<1>17. OrdersOf(v.s)' # {} /\ Known(v.s)'
  BY <1>4, <1>6, <1>9 DEF Known, OrdersOf, Stored
<1>18. v.s \notin failed /\ \A u \in Workers : u # w => ~(Own(u) /\ sale[u].s = v.s)
  <2>1. v.s \in failed => ~Known(v.s)
    BY <1>8 DEF SessionsAccountedFor, Known
  <2>2. CASE v.kind = "order"
    BY <1>3, <2>1, <2>2, SameSession DEF SessionOfSale
  <2>3. CASE v.kind = "counter"
    BY <1>1, <1>3, <2>3, SameSession DEF SessionOfSale, HasPlaced
  <2>4. QED
    BY <1>1, <1>3, <2>2, <2>3 DEF Sale, SaleFields
<1>19. SessionsAccountedFor'
  <2>1. ASSUME NEW t \in Sessions, session'[t].status = "open"
        PROVE  \/ t \in told' \cup failed' \/ OrdersOf(t)' # {}
               \/ \E u \in Workers : sale'[u].kind = "counter" /\ sale'[u].s = t
    <3>1. CASE OrdersOf(t) # {}
      <4>1. OrdersOf(t)' # {}
        BY <1>13, <3>1 DEF OrdersOf, Stored
      <4>2. QED
        BY <4>1
    <3>2. \A u \in Workers : sale'[u].kind = sale[u].kind /\ sale'[u].s = sale[u].s
      BY <1>6, <1>9
    <3>3. QED
      BY <1>1, <1>8, <2>1, <3>1, <3>2 DEF SessionsAccountedFor
  <2>2. ASSUME NEW t \in failed'
        PROVE  t \notin told' /\ OrdersOf(t)' = {} /\ session'[t].status = "open"
    <3>1. t \in failed /\ t \in Sessions /\ t # v.s
      BY <1>1, <1>8, <1>18, <2>2
    <3>2. OrdersOf(t)' = {}
      BY <1>4, <1>8, <1>9, <3>1 DEF SessionsAccountedFor, OrdersOf, Stored
    <3>3. QED
      BY <1>1, <1>8, <3>1, <3>2 DEF SessionsAccountedFor
  <2>3. QED
    BY <2>1, <2>2 DEF SessionsAccountedFor
<1>20. SaleRelies(w)'
  <2>1. /\ req'[w] = Idle /\ catalog' \in seen'[w] /\ next.key = next.asked
    BY <1>1, <1>3, <1>6 DEF SaleRelies, catalogVars
  <2>2. \E rows \in seen[w] : \A i \in v.cart : Orderable(rows, i) /\ v.lines[i] = rows[i].price
    BY <1>1, <1>3 DEF SaleRelies
  <2>3. seen' = seen
    BY <1>1
  <2>4. \E rows \in seen'[w] : \A i \in next.cart :
           Orderable(rows, i) /\ next.lines[i] = rows[i].price
    BY <1>6, <2>2, <2>3
  <2>5. order'[next.o] = [stored |-> TRUE, home |-> next.r, session |-> next.s,
            key |-> next.key, asked |-> next.asked, lines |-> next.lines]
    BY <1>6, <1>9, <1>10
  <2>6. sale'[w] = next /\ next.at = "answer"
    BY <1>6, <1>9
  <2>7. QED
    BY <2>1, <2>4, <2>5, <2>6 DEF SaleRelies, Orderable
<1>21. SessionOfSale(w)'
  BY <1>1, <1>3, <1>6, <1>9, <1>17 DEF SessionOfSale, HasPlaced
<1>22. ASSUME NEW u \in Workers, u # w PROVE SaleRelies(u)' /\ SessionOfSale(u)'
  <2>1. /\ sale'[u] = sale[u] /\ seen'[u] = seen[u] /\ UNCHANGED <<catalog, req>>
        /\ sale[u] \in Sale /\ sale[u].s \in Sessions \cup {None}
    BY <1>1, <1>8, <1>9, <1>22 DEF catalogVars, Sale, SaleFields
  <2>2. SessionOfSale(u)
    BY DEF CheckoutInv
  <2>3. ASSUME Own(u)
        PROVE  /\ ~Known(sale[u].s)' /\ sale[u].s \notin failed'
               /\ session'[sale[u].s].status = "open"
               /\ \A x \in Workers : sale'[x].s = sale[u].s => x = u
    <3>1. sale[u].s # v.s /\ sale[u].s \in Sessions
      BY <1>18, <1>22, <2>1, <2>3 DEF Own
    <3>2. ~Known(sale[u].s)'
      BY <1>16, <2>1, <2>2, <2>3, <3>1 DEF SessionOfSale, Own
    <3>3. \A x \in Workers : sale'[x].s = sale[x].s
      BY <1>6, <1>9
    <3>4. QED
      BY <1>1, <2>2, <2>3, <3>2, <3>3 DEF SessionOfSale, Own
  <2>4. QED
    BY <1>1, <1>13, <2>1, <2>3, OthersSell
<1>23. QED
  BY <1>11, <1>12, <1>14, <1>15, <1>19, <1>20, <1>21, <1>22 DEF CheckoutInv

\* What is known of a session whose order is stored stays known of it alone.
LEMMA OverInv ==
  ASSUME CheckoutInv, NEW w \in Workers, sale[w] # NoSale, Over(w),
         UNCHANGED <<session, order>>,
         told' = told \/ (sale[w].s \in Sessions /\ told' = told \cup {sale[w].s}),
         told' # told => OrdersOf(sale[w].s) # {},
         failed' = failed \/ (Own(w) /\ failed' = failed \cup {sale[w].s}),
         sale[w].kind = "counter" /\ sale[w].s # None =>
             sale[w].s \in told' \cup failed' \/ OrdersOf(sale[w].s) # {},
         \A a \in replies' : a \in replies \/
             /\ a \in Reply /\ a.key # None /\ Stored(a.order)
             /\ order[a.order].home = a.home /\ order[a.order].key = a.key
             /\ order[a.order].lines = a.lines
  PROVE  CheckoutInv'
<1> DEFINE v == sale[w]
<1>1. /\ sale' = [sale EXCEPT ![w] = NoSale] /\ seen' = [seen EXCEPT ![w] = {}]
      /\ UNCHANGED catalogVars
  BY DEF Over
<1>2. /\ req[w] = Idle /\ SessionOfSale(w) /\ v.s \in Sessions \cup {None}
  BY SaleFacts DEF SaleFields
<1>3. /\ TypeOK /\ CatalogInv /\ CatalogTypeOK /\ SessionsAccountedFor /\ OrdersAndReplies
      /\ sale \in [Workers -> Sale]
      /\ told \subseteq Sessions /\ failed \subseteq Sessions /\ replies \subseteq Reply
  BY DEF CheckoutInv, TypeOK
<1>4. NoSale \in Sale /\ NoSale.at = "none" /\ NoSale.kind = "none" /\ NoSale.s = None
  BY DEF NoSale, Sale, SaleFields
<1>5. /\ sale'[w] = NoSale
      /\ \A u \in Workers : u # w => sale'[u] = sale[u]
  BY <1>1, <1>3
<1>6. CatalogInv' /\ CatalogTypeOK'
  BY <1>1, <1>2, <1>3, SaleCatalogInv DEF CatalogInv
<1>7. failed' # failed => /\ v.s \in Sessions /\ ~Known(v.s) /\ session[v.s].status = "open"
                          /\ failed' = failed \cup {v.s} /\ told' = told
  <2> SUFFICES ASSUME failed' # failed, Own(w), failed' = failed \cup {v.s}
               PROVE  /\ v.s \in Sessions /\ ~Known(v.s) /\ session[v.s].status = "open"
                      /\ told' = told
    OBVIOUS
  <2>1. v.s \in Sessions /\ ~Known(v.s) /\ session[v.s].status = "open"
    BY <1>2 DEF Own, SessionOfSale
  <2>2. QED
    BY <2>1 DEF Known
<1>8. TypeOK'
  <2>1. told' \subseteq Sessions
    BY <1>3
  <2>2. failed' \subseteq Sessions
    BY <1>3, <1>7
  <2>3. replies' \subseteq Reply
    BY <1>3
  <2>4. sale' \in [Workers -> Sale]
    BY <1>1, <1>3, <1>4
  <2>5. QED
    BY <1>3, <1>6, <2>1, <2>2, <2>3, <2>4 DEF TypeOK
<1>9. ChargedOnce'
  BY DEF CheckoutInv, ChargedOnce, Stored
<1>10. OrdersAndReplies'
  <2>1. \A a \in replies' :
           /\ a.key # None /\ Stored(a.order)
           /\ order[a.order].home = a.home /\ order[a.order].key = a.key
           /\ order[a.order].lines = a.lines
    BY <1>3 DEF OrdersAndReplies
  <2>2. \A s \in told' \cup failed' : session[s].status # "absent"
    <3>1. sale[w].s \in Sessions => session[sale[w].s].status # "absent"
      BY <1>2, CheckoutAssumption DEF SessionOfSale
    <3>2. QED
      BY <1>3, <1>7, <3>1 DEF OrdersAndReplies
  <2>3. QED
    BY <1>3, <2>1, <2>2 DEF OrdersAndReplies, Stored
<1>11. SessionsAccountedFor'
  <2>1. ASSUME NEW t \in Sessions, session'[t].status = "open"
        PROVE  \/ t \in told' \cup failed' \/ OrdersOf(t)' # {}
               \/ \E u \in Workers : sale'[u].kind = "counter" /\ sale'[u].s = t
    <3>1. OrdersOf(t)' = OrdersOf(t)
      BY DEF OrdersOf, Stored
    <3>2. told \subseteq told' /\ failed \subseteq failed'
      OBVIOUS
    <3>3. CASE v.kind = "counter" /\ v.s = t
      BY <2>1, <3>1, <3>3, CheckoutAssumption
    <3>4. CASE ~(v.kind = "counter" /\ v.s = t)
      BY <1>3, <1>5, <2>1, <3>1, <3>2, <3>4 DEF SessionsAccountedFor
    <3>5. QED
      BY <3>3, <3>4
  <2>2. ASSUME NEW t \in failed'
        PROVE  t \notin told' /\ OrdersOf(t)' = {} /\ session'[t].status = "open"
    <3>1. OrdersOf(t)' = OrdersOf(t)
      BY DEF OrdersOf, Stored
    <3>2. CASE t \in failed
      <4>1. t \notin told /\ OrdersOf(t) = {} /\ session[t].status = "open"
        BY <1>3, <3>2 DEF SessionsAccountedFor
      <4>2. t \notin told'
        BY <4>1
      <4>3. QED
        BY <3>1, <4>1, <4>2
    <3>3. CASE t \notin failed
      BY <1>7, <2>2, <3>1, <3>3 DEF Known
    <3>4. QED
      BY <3>2, <3>3
  <2>3. QED
    BY <2>1, <2>2 DEF SessionsAccountedFor
<1>12. SaleRelies(w)' /\ SessionOfSale(w)'
  BY <1>4, <1>5 DEF SaleRelies, SessionOfSale
<1>13. ASSUME NEW u \in Workers, u # w PROVE SaleRelies(u)' /\ SessionOfSale(u)'
  <2>1. /\ sale'[u] = sale[u] /\ seen'[u] = seen[u] /\ UNCHANGED <<catalog, req>>
        /\ sale[u] \in Sale
    BY <1>1, <1>3, <1>5, <1>13 DEF catalogVars, CatalogTypeOK
  <2>2. SessionOfSale(u)
    BY DEF CheckoutInv
  <2>3. ASSUME Own(u)
        PROVE  /\ ~Known(sale[u].s)' /\ sale[u].s \notin failed'
               /\ session'[sale[u].s].status = "open"
               /\ \A x \in Workers : sale'[x].s = sale[u].s => x = u
    <3>1. /\ ~Known(sale[u].s) /\ sale[u].s \notin failed /\ sale[u].s # None
          /\ session[sale[u].s].status = "open" /\ sale[u].s # v.s
      BY <1>13, <2>2, <2>3, SameSession DEF SessionOfSale, Own
    <3>2. sale[u].s \notin told' /\ OrdersOf(sale[u].s) = {}
      BY <3>1 DEF Known
    <3>3. OrdersOf(sale[u].s)' = OrdersOf(sale[u].s)
      BY <2>1 DEF OrdersOf, Stored
    <3>4. ~Known(sale[u].s)'
      BY <2>1, <3>2, <3>3 DEF Known
    <3>5. \A x \in Workers : sale'[x].s = sale[u].s => x = u
      BY <1>4, <1>5, <2>2, <2>3, <3>1 DEF SessionOfSale, Own
    <3>6. QED
      BY <3>1, <3>4, <3>5
  <2>4. QED
    BY <2>1, <2>3, OthersSell
<1>14. QED
  BY <1>6, <1>8, <1>9, <1>10, <1>11, <1>12, <1>13 DEF CheckoutInv

\* An answer names an order that is stored, with its lines.
LEMMA ReplyStored ==
  ASSUME CheckoutInv, NEW v \in SaleFields, NEW o \in Orders, NEW lines,
         Stored(o), order[o].home = v.r, order[o].key = v.key, order[o].lines = lines,
         v.key = v.asked, Reply201(v, o, lines), NEW a \in replies'
  PROVE  a \in replies \/
             /\ a \in Reply /\ a.key # None /\ Stored(a.order)
             /\ order[a.order].home = a.home /\ order[a.order].key = a.key
             /\ order[a.order].lines = a.lines
<1> SUFFICES ASSUME a \notin replies
             PROVE  /\ a \in Reply /\ a.key # None /\ Stored(a.order)
                    /\ order[a.order].home = a.home /\ order[a.order].key = a.key
                    /\ order[a.order].lines = a.lines
  OBVIOUS
<1>1. v.asked # None /\ a = [home |-> v.r, key |-> v.asked, order |-> o, lines |-> lines]
  BY DEF Reply201
<1>2. v.r \in Restaurants /\ lines \in Lines /\ v.asked \in Keys
  BY <1>1 DEF CheckoutInv, TypeOK, OrderRow, Stored, SaleFields
<1>3. QED
  BY <1>1, <1>2 DEF Reply

LEMMA EndSaleInv ==
  ASSUME CheckoutInv, NEW w \in Workers, Replay(w) \/ PlaceOrderAnswer(w) \/ SaleFails(w)
  PROVE  CheckoutInv'
<1> DEFINE v == sale[w]
<1>1. v # NoSale /\ Over(w) /\ UNCHANGED <<session, order>>
  BY DEF Replay, PlaceOrderAnswer, SaleFails, Selling, NoSale
<1>2. /\ v \in Sale /\ v \in SaleFields /\ SaleRelies(w) /\ v.key = v.asked
      /\ v.s # None => v.s \in Sessions
  BY <1>1, SaleFacts DEF SaleRelies, SaleFields
<1>3. ASSUME NEW o \in Orders, Stored(o), order[o].session = v.s
      PROVE  OrdersOf(v.s) # {}
  BY <1>3 DEF OrdersOf
<1>4. CASE Replay(w)
  <2>1. PICK o \in WithKey(v.r, v.key) : SamePayload(v, o) /\ Reply201(v, o, order[o].lines)
    BY <1>4 DEF Replay
  <2>2. /\ o \in Orders /\ Stored(o) /\ order[o].home = v.r /\ order[o].key = v.key
        /\ order[o].session = v.s
    BY <2>1 DEF WithKey, SamePayload
  <2>3. told' = told /\ failed' = failed
    BY <1>4 DEF Replay
  <2>4. QED
    BY <1>1, <1>2, <1>3, <2>1, <2>2, <2>3, ReplyStored, OverInv
<1>5. CASE PlaceOrderAnswer(w)
  <2>1. /\ v.at = "answer" /\ Reply201(v, v.o, v.lines)
        /\ told' = told \cup {v.s} /\ failed' = failed
    BY <1>5 DEF PlaceOrderAnswer, Selling
  <2>2. v.o \in Orders /\ v.s \in Sessions
    BY <1>2, <2>1 DEF Sale
  <2>3. /\ Stored(v.o) /\ order[v.o].home = v.r /\ order[v.o].key = v.key
        /\ order[v.o].session = v.s /\ order[v.o].lines = v.lines
    BY <1>2, <2>1 DEF SaleRelies, Stored
  <2>4. QED
    BY <1>1, <1>2, <1>3, <2>1, <2>2, <2>3, ReplyStored, OverInv
<1>6. CASE SaleFails(w)
  <2>1. /\ told' = told /\ replies' = replies
        /\ failed' = IF Own(w) THEN failed \cup {v.s} ELSE failed
    BY <1>6 DEF SaleFails, Own
  <2>2. v.at = "answer" => OrdersOf(v.s) # {}
    BY <1>2, <1>3 DEF SaleRelies, Sale, Stored
  <2>3. v.kind = "counter" /\ v.s # None => v.s \in failed' \/ OrdersOf(v.s) # {}
    BY <2>1, <2>2 DEF Own, HasPlaced
  <2>4. QED
    BY <1>1, <2>1, <2>3, OverInv
<1>7. QED
  BY <1>4, <1>5, <1>6

\* A session that closes is one that a client can name, no sale's own.
LEMMA CloseSessionInv ==
  ASSUME CheckoutInv, NEW w \in Workers, CloseSession(w)
  PROVE  CheckoutInv'
<1>1. PICK s \in Sessions :
        /\ Known(s) /\ session[s].status = "open"
        /\ session' = [session EXCEPT ![s].status = "closed"]
        /\ UNCHANGED <<catalogVars, seen, order, sale, told, failed, replies>>
  BY DEF CloseSession
<1>2. /\ TypeOK /\ CatalogInv /\ SessionsAccountedFor /\ OrdersAndReplies
      /\ session \in [Sessions -> SessionRow] /\ failed \subseteq Sessions
  BY DEF CheckoutInv, TypeOK
<1>3. /\ session' \in [Sessions -> SessionRow] /\ session'[s].status = "closed"
      /\ \A t \in Sessions : t # s => session'[t] = session[t]
  BY <1>1, <1>2 DEF SessionRow
<1>4. CatalogInv'
  BY <1>1, <1>2 DEF catalogVars, CatalogInv, CatalogTypeOK, ItemsStayHome, RowsStay,
        ItemsWhole, CommitRelies, PageRelies, Unused, MayHold
<1>5. TypeOK'
  BY <1>1, <1>2, <1>3, <1>4 DEF TypeOK, CatalogInv
<1>6. ChargedOnce'
  BY <1>1 DEF CheckoutInv, ChargedOnce, Stored
<1>7. s \notin failed
  BY <1>1, <1>2 DEF SessionsAccountedFor, Known
<1>8. SessionsAccountedFor'
  BY <1>1, <1>2, <1>3, <1>7 DEF SessionsAccountedFor, OrdersOf, Stored
<1>9. OrdersAndReplies'
  <2>1. \A t \in Sessions : session[t].status # "absent" => session'[t].status # "absent"
    BY <1>3
  <2>2. \A o \in Orders : Stored(o) => order[o].session \in Sessions
    BY <1>2 DEF TypeOK, OrderRow, Stored
  <2>3. told \cup failed \subseteq Sessions
    BY <1>2 DEF TypeOK
  <2>4. QED
    BY <1>1, <1>2, <2>1, <2>2, <2>3 DEF OrdersAndReplies, Stored
<1>10. ASSUME NEW u \in Workers PROVE SaleRelies(u)' /\ SessionOfSale(u)'
  <2>1. SessionOfSale(u)
    BY DEF CheckoutInv
  <2>2. ASSUME Own(u)
        PROVE  /\ ~Known(sale[u].s)' /\ sale[u].s \notin failed'
               /\ session'[sale[u].s].status = "open"
               /\ \A x \in Workers : sale'[x].s = sale[u].s => x = u
    <3>1. /\ ~Known(sale[u].s) /\ session[sale[u].s].status = "open"
          /\ sale[u].s \in Sessions
      BY <1>2, <2>1, <2>2 DEF SessionOfSale, Own, TypeOK, Sale, SaleFields
    <3>2. ~Known(sale[u].s)'
      BY <1>1, <3>1 DEF Known, OrdersOf, Stored
    <3>3. sale[u].s # s
      BY <1>1, <3>1
    <3>4. QED
      BY <1>1, <1>3, <2>1, <2>2, <3>1, <3>2, <3>3 DEF SessionOfSale, Own
  <2>3. \A t \in Sessions : session[t].status # "absent" => session'[t].status # "absent"
    BY <1>3
  <2>4. QED
    BY <1>1, <2>2, <2>3, OthersSell DEF catalogVars
<1>11. QED
  BY <1>4, <1>5, <1>6, <1>8, <1>9, <1>10 DEF CheckoutInv

----------------------------------------------------------------------------
(* The theorems *)

LEMMA InitInv == Init => CheckoutInv
<1> SUFFICES ASSUME Init PROVE CheckoutInv
  OBVIOUS
<1>1. CatalogInv
  <2>1. CatalogTypeOK
    BY CatalogAssumption, NoRowType DEF Init, CatalogInit, CatalogTypeOK
  <2>2. ItemsStayHome /\ RowsStay /\ ItemsWhole
    BY CatalogAssumption, RowsApart
       DEF Init, CatalogInit, ItemsStayHome, RowsStay, ItemsWhole, Unused
  <2>3. ASSUME NEW w \in Workers PROVE CommitRelies(w) /\ PageRelies(w)
    BY DEF Init, CatalogInit, CommitRelies, PageRelies, Idle
  <2>4. QED
    BY <2>1, <2>2, <2>3 DEF CatalogInv
<1>2. NoSale \in Sale /\ NoOrder \in OrderRow /\ NoSession \in SessionRow
  BY DEF NoSale, Sale, SaleFields, NoOrder, OrderRow, OrderFields, NoSession, SessionRow
<1>3. TypeOK
  BY <1>1, <1>2 DEF Init, TypeOK, CatalogInv
<1>4. \A o \in Orders : ~Stored(o)
  BY DEF Init, Stored, NoOrder
<1>5. ChargedOnce /\ SessionsAccountedFor /\ OrdersAndReplies
  BY <1>4 DEF Init, ChargedOnce, SessionsAccountedFor, OrdersAndReplies, NoSession
<1>6. ASSUME NEW w \in Workers PROVE SaleRelies(w) /\ SessionOfSale(w)
  BY DEF Init, SaleRelies, SessionOfSale, NoSale
<1>7. QED
  BY <1>1, <1>3, <1>5, <1>6 DEF CheckoutInv

LEMMA CheckoutInvStep == CheckoutInv /\ [Next]_vars => CheckoutInv'
<1> SUFFICES ASSUME CheckoutInv, [Next]_vars PROVE CheckoutInv'
  OBVIOUS
<1>1. ASSUME NEW w \in Workers, Step(w) PROVE CheckoutInv'
  BY <1>1, InCatalogInv, CloseSessionInv, BeginSaleInv, GoingOnInv, CounterOrderSessionInv,
     PlaceOrderCommitInv, EndSaleInv DEF Step, Ordering, Counter
<1>2. CASE UNCHANGED vars
  BY <1>2 DEF vars, catalogVars, saleVars, CheckoutInv, TypeOK, CatalogInv, CatalogTypeOK,
        ItemsStayHome, RowsStay, ItemsWhole, CommitRelies, PageRelies, Unused, MayHold,
        ChargedOnce, SessionsAccountedFor, OrdersAndReplies, SaleRelies, SessionOfSale,
        Stored, OrdersOf, Known
<1>3. QED
  BY <1>1, <1>2 DEF Next

\* The invariant of the catalog, the pages, the sales and the orders holds.
THEOREM CheckoutCorrect == Spec => []CheckoutInv
<1>1. QED
  BY InitInv, CheckoutInvStep, PTL DEF Spec

\* Every variable keeps its type, whatever requests overlap.
THEOREM TypeCorrect == Spec => []TypeOK
<1>1. CheckoutInv => TypeOK
  BY DEF CheckoutInv
<1>2. QED
  BY <1>1, CheckoutCorrect, PTL

\* No item is in a category of another restaurant, whatever updates overlap.
THEOREM ItemsHome == Spec => []ItemsStayHome
<1>1. CheckoutInv => ItemsStayHome
  BY DEF CheckoutInv, CatalogInv
<1>2. QED
  BY <1>1, CheckoutCorrect, PTL

\* A page of two queries shows what was listed and on sale while it was made,
\* and leaves out nothing that was on the menu all the time.
THEOREM PageCorrect == Spec => []PageTellsTheMenu
<1>1. CheckoutInv => PageTellsTheMenu
  BY PagesTell DEF CheckoutInv
<1>2. QED
  BY <1>1, CheckoutCorrect, PTL

\* Two stored orders of a restaurant never have the same key of a client.
THEOREM OnceCharged == Spec => []ChargedOnce
<1>1. CheckoutInv => ChargedOnce
  BY DEF CheckoutInv
<1>2. QED
  BY <1>1, CheckoutCorrect, PTL

\* All answers to a key name one order, and the same amounts.
THEOREM RetryCorrect == Spec => []SameAmountForRetry
<1>1. CheckoutInv => SameAmountForRetry
  <2> SUFFICES ASSUME CheckoutInv, NEW a \in replies, NEW b \in replies,
                      a.key = b.key, a.home = b.home
               PROVE  a = b
    BY DEF SameAmountForRetry
  <2>1. a \in Reply /\ b \in Reply
    BY DEF CheckoutInv, TypeOK
  <2>2. /\ a.key # None /\ Stored(a.order) /\ Stored(b.order)
        /\ order[a.order].home = a.home /\ order[b.order].home = b.home
        /\ order[a.order].asked = a.key /\ order[b.order].asked = b.key
        /\ order[a.order].lines = a.lines /\ order[b.order].lines = b.lines
    BY <2>1 DEF CheckoutInv, OrdersAndReplies, Reply
  <2>3. a.order = b.order
    BY <2>1, <2>2 DEF CheckoutInv, ChargedOnce, Reply
  <2>4. QED
    BY <2>1, <2>2, <2>3 DEF Reply
<1>2. QED
  BY <1>1, CheckoutCorrect, PTL

\* An open session is known, in the making, or left by a failed counter order,
\* and then it has no order and stays open.
THEOREM SessionsAccounted == Spec => []SessionsAccountedFor
<1>1. CheckoutInv => SessionsAccountedFor
  BY DEF CheckoutInv
<1>2. QED
  BY <1>1, CheckoutCorrect, PTL

\* No handler brings back a row that is deleted.
LEMMA DeletedStep ==
  ASSUME CheckoutInv, [Next]_vars
  PROVE  [\/ \E w \in Workers : Seed(w)
          \/ \A x \in Rows :
              catalog[x].life = "deleted" => catalog'[x].life = "deleted"]_catalog
<1> SUFFICES ASSUME catalog' # catalog, NEW w \in Workers, Step(w), ~Seed(w),
                    NEW x \in Rows, catalog[x].life = "deleted"
             PROVE  catalog'[x].life = "deleted"
  BY DEF Next, vars, catalogVars
<1>1. catalog \in [Rows -> Row] /\ req[w] \in Request
  BY DEF CheckoutInv, TypeOK, CatalogTypeOK
<1>2. CreateRestaurant(w) \/ UpdateCommit(w) \/ CreateCategoryCommit(w) \/ CreateMenuItemCommit(w)
  <2>1. InCatalog(w)
    BY DEF Step, CloseSession, Ordering, PlaceOrder, ReadSession, Lookup, Replay, ReadItems,
           PlaceOrderCommit, PlaceOrderAnswer, Counter, CounterOrder, CounterOrderSession,
           CounterOrderCheck, SaleFails, Sell, Goes, Over, catalogVars
  <2>2. ~Reading(w) /\ ~CatalogAbort(w)
    BY DEF Reading, GetPublicCatalog, GetPublicCatalogCategories, GetPublicCatalogItems,
           GetPublicCatalogAnswer, CatalogAbort, Begin, Proceed, Done
  <2>3. QED
    BY <2>1, <2>2 DEF InCatalog, CatalogNext, Writing, UpdateRestaurant, DeleteRestaurant,
        CreateCategory, UpdateCategory, DeleteCategory, CreateMenuItem, UpdateMenuItem,
        DeleteMenuItem, Write, Begin
<1>3. ASSUME NEW y, Unused(y), NEW row, Commit(w, [catalog EXCEPT ![y] = row])
      PROVE  catalog'[x].life = "deleted"
  BY <1>1, <1>3 DEF Commit, Unused
<1>4. CASE UpdateCommit(w)
  BY <1>1, <1>4, UpdatedRow DEF UpdateCommit, Commit
<1>5. QED
  BY <1>2, <1>3, <1>4 DEF CreateRestaurant, CreateCategoryCommit, CreateMenuItemCommit

\* A deleted row comes back through the seed tool only.
THEOREM DeletedStays == Spec => DeletedForGood
<1>1. QED
  BY CheckoutCorrect, DeletedStep, PTL DEF Spec, DeletedForGood

\* A new order charges one price list of the time of its request.
LEMMA ChargedStep ==
  ASSUME CheckoutInv, [Next]_vars
  PROVE  [\A o \in Orders : ~Stored(o) /\ order'[o].stored =>
            \E w \in Workers : \E rows \in seen[w] :
              /\ sale'[w].o = o
              /\ sale[w].cart = DOMAIN order'[o].lines
              /\ \A i \in sale[w].cart :
                    Orderable(rows, i) /\ order'[o].lines[i] = rows[i].price]_order
<1> SUFFICES ASSUME order' # order, NEW w \in Workers, Step(w),
                    NEW o \in Orders, ~Stored(o), order'[o].stored
             PROVE  \E rows \in seen[w] :
              /\ sale'[w].o = o
              /\ sale[w].cart = DOMAIN order'[o].lines
              /\ \A i \in sale[w].cart :
                    Orderable(rows, i) /\ order'[o].lines[i] = rows[i].price
  BY DEF Next, vars, saleVars
<1>1. PlaceOrderCommit(w)
  BY DEF Step, InCatalog, saleVars, CloseSession, Ordering, PlaceOrder, ReadSession, Lookup,
         Replay, ReadItems, PlaceOrderAnswer, Counter, CounterOrder, CounterOrderSession,
         CounterOrderCheck, SaleFails, Sell
<1> DEFINE v == sale[w]
<1>2. PICK p \in Orders :
        /\ ~Stored(p)
        /\ order' = [order EXCEPT ![p] =
               [stored |-> TRUE, home |-> v.r, session |-> v.s, key |-> v.key,
                asked |-> v.asked, lines |-> v.lines]]
        /\ sale' = [sale EXCEPT ![w] = [v EXCEPT !.at = "answer", !.o = p]]
        /\ v.at = "commit"
  BY <1>1 DEF PlaceOrderCommit, Selling, Goes
<1>3. /\ order \in [Orders -> OrderRow] /\ sale \in [Workers -> Sale]
      /\ v \in Sale /\ v \in SaleFields /\ v.lines \in [v.cart -> Prices] /\ SaleRelies(w)
  BY <1>2 DEF CheckoutInv, TypeOK, Sale
<1>4. p = o /\ order'[o].lines = v.lines
  BY <1>2, <1>3 DEF Stored
<1>5. sale'[w].o = o
  BY <1>2, <1>3, <1>4 DEF SaleFields
<1>6. PICK rows \in seen[w] : \A i \in v.cart :
         Orderable(rows, i) /\ v.lines[i] = rows[i].price
  BY <1>2, <1>3 DEF SaleRelies
<1>7. QED
  BY <1>3, <1>4, <1>5, <1>6

\* What an order charges was listed together, on items that could be ordered.
THEOREM ChargedCorrect == Spec => ChargedAsListed
<1>1. QED
  BY CheckoutCorrect, ChargedStep, PTL DEF Spec, ChargedAsListed
=============================================================================
