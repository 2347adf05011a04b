------------------------------- MODULE Catalog -------------------------------
(***************************************************************************)
(* Restaurants, categories and menu items, the requests that change them   *)
(* and the public menu page (application/catalog/service.py, and the       *)
(* restaurants of application/commerce/service.py).  As in TableSessions a *)
(* worker is a thread with a database session of its own, each SELECT is a *)
(* step that sees what is committed, and the commit is one step that       *)
(* writes the columns the handler has changed.                             *)
(*                                                                         *)
(* A row's restaurant and the existence of a row never change: a check     *)
(* that reads nothing else is part of the step before it.  Names, texts,   *)
(* sort orders, currencies and slugs are left out.                         *)
(***************************************************************************)
EXTENDS Naturals

CONSTANTS
    Workers,
    Restaurants, Categories, Items,
    Prices,             \* as the column stores them
    None,               \* a field a request leaves out, and the NULL of a column
    Opening,            \* the rows the model starts with
    Seeded,             \* the ones tools/seed.py writes
    NewItems,           \* what a POST of an item may ask for
    ItemPatches,        \* what a PATCH of an item may ask for
    MaxWrites,          \* bound: requests that write the catalog
    Asks                \* the operations that come to each worker

Rows == Restaurants \cup Categories \cup Items

Life == {"absent", "live", "deleted"}

\* One shape for the three tables.  home is restaurant_id, active is is_active
\* or a restaurant's status; the other columns are those of items.
Row ==
    [life : Life, home : Restaurants \cup {None}, active : BOOLEAN,
     available : BOOLEAN, price : Prices \cup {None},
     category : Categories \cup {None}]

\* The category is any.
NewItem == [active : BOOLEAN, available : BOOLEAN, price : Prices]

ItemPatch ==
    [active : BOOLEAN \cup {None}, available : BOOLEAN \cup {None},
     price : Prices \cup {None}, category : Categories \cup {None}]

\* The item is in no category of another restaurant.
AtHome(rows, i) ==
    rows[i].category # None => rows[rows[i].category].home = rows[i].home

ASSUME CatalogAssumption ==
    /\ None \notin Prices \cup Rows \cup BOOLEAN
    /\ Restaurants \cap Categories = {}
    /\ Restaurants \cap Items = {}
    /\ Categories \cap Items = {}
    /\ Opening \in [Rows -> Row]
    /\ \A i \in Items : AtHome(Opening, i)
    /\ \A i \in Items : Opening[i].category # None
                            => Opening[Opening[i].category].life # "absent"
    /\ \A i \in Items : Opening[i].life # "absent" => Opening[i].price # None
    /\ Seeded \subseteq {x \in Rows : Opening[x].life = "live"}
    /\ NewItems \subseteq NewItem
    /\ ItemPatches \subseteq ItemPatch
    /\ MaxWrites \in Nat

VARIABLES
    catalog,    \* the rows
    writes,     \* how many requests to write them there were
    req,        \* what each worker is doing
    seen        \* history: the catalogs there were during the page or the sale
                \* of a worker

catalogVars == <<catalog, writes, req>>

WriteOp ==
    {"update_restaurant", "delete_restaurant", "update_category",
     "delete_category", "update_menu_item", "delete_menu_item",
     "create_category", "create_menu_item"}

Request ==
    [op : WriteOp \cup {"none", "get_public_catalog"},
     at : {"none", "commit", "categories", "items", "answer"},
     x : Rows \cup {None},              \* the row of the request
     read : Row, want : Row,            \* the row as read, and as changed
     listed : SUBSET Categories,        \* the page: the categories,
     page : SUBSET Items]               \* and the items below them

NoRow ==
    [life |-> "absent", home |-> None, active |-> FALSE, available |-> FALSE,
     price |-> None, category |-> None]

Idle ==
    [op |-> "none", at |-> "none", x |-> None, read |-> NoRow, want |-> NoRow,
     listed |-> {}, page |-> {}]

CatalogTypeOK ==
    /\ catalog \in [Rows -> Row]
    /\ writes \in 0..MaxWrites
    /\ req \in [Workers -> Request]
    /\ seen \in [Workers -> SUBSET [Rows -> Row]]

CatalogInit ==
    /\ catalog = Opening
    /\ writes = 0
    /\ req = [w \in Workers |-> Idle]
    /\ seen = [w \in Workers |-> {}]

----------------------------------------------------------------------------

Live(x) == catalog[x].life = "live"

\* The primary keys of new rows are random: any that was never used.
Unused(x) == catalog[x].life = "absent"

Doing(w, op, at) == req[w].op = op /\ req[w].at = at

Watches(w) == seen' = [seen EXCEPT ![w] = {catalog}]

Begin(w, r) ==
    /\ r.op \in Asks[w]
    /\ req[w] = Idle
    /\ req' = [req EXCEPT ![w] = r]
    /\ UNCHANGED catalog

Proceed(w, r) ==
    /\ req' = [req EXCEPT ![w] = r]
    /\ UNCHANGED <<catalog, writes, seen>>

\* The answer; or a check that fails, a database error or a crash.
Done(w) ==
    /\ req' = [req EXCEPT ![w] = Idle]
    /\ seen' = [seen EXCEPT ![w] = {}]
    /\ UNCHANGED <<catalog, writes>>

CatalogAbort(w) == req[w] # Idle /\ Done(w)

\* A commit, which the pages and sales in progress may see.
Commit(w, rows) ==
    /\ catalog' = rows
    /\ req' = [req EXCEPT ![w] = Idle]
    /\ seen' = [v \in Workers |-> IF seen[v] = {} THEN {} ELSE seen[v] \cup {rows}]

\* The handler op has read row x, and makes it want.
Write(w, op, x, want) ==
    /\ writes < MaxWrites
    /\ writes' = writes + 1
    /\ Begin(w, [Idle EXCEPT !.op = op, !.at = "commit", !.x = x,
                             !.read = catalog[x], !.want = want])
    /\ UNCHANGED seen

----------------------------------------------------------------------------
(* Writing *)

\* The request says whether what is created is active, and available.  For a
\* restaurant nothing is read before the INSERT.
CreateRestaurant(w) ==
    \E r \in Restaurants, active \in BOOLEAN :
        /\ "create_restaurant" \in Asks[w]
        /\ req[w] = Idle
        /\ Unused(r)
        /\ writes < MaxWrites
        /\ writes' = writes + 1
        /\ Commit(w, [catalog EXCEPT
               ![r] = [NoRow EXCEPT !.life = "live", !.active = active]])

\* A PATCH of what is modelled; others of restaurants and categories write
\* none of it.
UpdateRestaurant(w) ==
    \E r \in Restaurants :
        /\ Live(r)
        /\ Write(w, "update_restaurant", r, [catalog[r] EXCEPT !.active = ~@])

DeleteRestaurant(w) ==
    \E r \in Restaurants :
        /\ Live(r)
        /\ Write(w, "delete_restaurant", r, [catalog[r] EXCEPT !.active = FALSE])

\* create_category and create_menu_item read the restaurant first.
CreateCategory(w) ==
    \E r \in Restaurants, active \in BOOLEAN :
        /\ Live(r)
        /\ Write(w, "create_category", r,
                 [NoRow EXCEPT !.life = "live", !.home = r, !.active = active])

\* A deleted category may be changed, and deleted again.
UpdateCategory(w) ==
    \E c \in Categories :
        /\ ~Unused(c)
        /\ Write(w, "update_category", c, [catalog[c] EXCEPT !.active = ~@])

DeleteCategory(w) ==
    \E c \in Categories :
        /\ ~Unused(c)
        /\ Write(w, "delete_category", c, [catalog[c] EXCEPT !.active = FALSE])

\* The category may be deleted, but it is one of the restaurant.
MayHold(k, home) == k # None => ~Unused(k) /\ catalog[k].home = home

CreateMenuItem(w) ==
    \E r \in Restaurants, k \in Categories \cup {None}, new \in NewItems :
        /\ Live(r)
        /\ MayHold(k, r)
        /\ Write(w, "create_menu_item", r,
                 [life |-> "live", home |-> r, active |-> new.active,
                  available |-> new.available, price |-> new.price, category |-> k])

Given(value, old) == IF value = None THEN old ELSE value

Patched(row, p) ==
    [row EXCEPT !.active = Given(p.active, @), !.available = Given(p.available, @),
                !.price = Given(p.price, @), !.category = Given(p.category, @)]

\* Fault: a category of any restaurant will do.
UpdateMenuItemAnywhere(w) ==
    \E i \in Items, p \in ItemPatches :
        /\ ~Unused(i)
        /\ p.category # None => ~Unused(p.category)
        /\ Write(w, "update_menu_item", i, Patched(catalog[i], p))

\* A deleted item may be changed, and is active and available again if asked.
UpdateMenuItem(w) ==
    \E i \in Items, p \in ItemPatches :
        /\ ~Unused(i)
        /\ MayHold(p.category, catalog[i].home)
        /\ Write(w, "update_menu_item", i, Patched(catalog[i], p))

DeleteMenuItem(w) ==
    \E i \in Items :
        /\ ~Unused(i)
        /\ Write(w, "delete_menu_item", i,
                 [catalog[i] EXCEPT !.active = FALSE, !.available = FALSE])

\* The UPDATE of a column: it is written if the handler changed what it read.
Written(read, want, column) == IF want = read THEN column ELSE want

DeleteOp == {"delete_restaurant", "delete_category", "delete_menu_item"}

Updated(row, r) ==
    [row EXCEPT
        !.life = IF r.op \in DeleteOp THEN "deleted" ELSE @,
        !.active = Written(r.read.active, r.want.active, @),
        !.available = Written(r.read.available, r.want.available, @),
        !.price = Written(r.read.price, r.want.price, @),
        !.category = Written(r.read.category, r.want.category, @)]

\* Fault: the UPDATE writes every column as the handler has it.
UpdateCommitWhole(w) ==
    LET r == req[w] IN
    /\ r.at = "commit" /\ r.op \notin {"create_category", "create_menu_item"}
    /\ Commit(w, [catalog EXCEPT
           ![r.x] = [r.want EXCEPT
               !.life = IF r.op \in DeleteOp THEN "deleted" ELSE r.read.life]])
    /\ UNCHANGED writes

UpdateCommit(w) ==
    LET r == req[w] IN
    /\ r.at = "commit" /\ r.op \notin {"create_category", "create_menu_item"}
    /\ Commit(w, [catalog EXCEPT ![r.x] = Updated(@, r)])
    /\ UNCHANGED writes

CreateCategoryCommit(w) ==
    /\ Doing(w, "create_category", "commit")
    /\ \E c \in Categories :
        /\ Unused(c)
        /\ Commit(w, [catalog EXCEPT ![c] = req[w].want])
    /\ UNCHANGED writes

CreateMenuItemCommit(w) ==
    /\ Doing(w, "create_menu_item", "commit")
    /\ \E i \in Items :
        /\ Unused(i)
        /\ Commit(w, [catalog EXCEPT ![i] = req[w].want])
    /\ UNCHANGED writes

\* tools/seed.py, in one step: its rows are as they were at first.
Seed(w) ==
    /\ "seed" \in Asks[w]
    /\ req[w] = Idle
    /\ Commit(w, [x \in Rows |-> IF x \in Seeded THEN Opening[x] ELSE catalog[x]])
    /\ UNCHANGED writes

----------------------------------------------------------------------------
(* The menu page *)

\* The two queries of get_public_catalog, on the rows they find.
Listed(rows, c, r) ==
    rows[c].home = r /\ rows[c].life = "live" /\ rows[c].active

OnSale(rows, i, r) ==
    /\ rows[i].home = r /\ rows[i].life = "live"
    /\ rows[i].active /\ rows[i].available

GetPublicCatalog(w) ==
    \E r \in Restaurants :
        /\ Live(r)
        /\ Begin(w, [Idle EXCEPT !.op = "get_public_catalog",
                                 !.at = "categories", !.x = r])
        /\ Watches(w)
        /\ UNCHANGED writes

GetPublicCatalogCategories(w) ==
    /\ Doing(w, "get_public_catalog", "categories")
    /\ Proceed(w, [req[w] EXCEPT
           !.at = "items",
           !.listed = {c \in Categories : Listed(catalog, c, req[w].x)}])

\* Fault: the second query leaves out deleted_at.
GetPublicCatalogItemsDeleted(w) ==
    LET r == req[w] IN
    /\ Doing(w, "get_public_catalog", "items")
    /\ Proceed(w, [r EXCEPT
           !.at = "answer",
           !.page = {i \in Items :
                        /\ catalog[i].home = r.x /\ catalog[i].life # "absent"
                        /\ catalog[i].active /\ catalog[i].available
                        /\ catalog[i].category \in r.listed}])

\* An item is shown below its category, and nowhere if that is not listed.
GetPublicCatalogItems(w) ==
    LET r == req[w] IN
    /\ Doing(w, "get_public_catalog", "items")
    /\ Proceed(w, [r EXCEPT
           !.at = "answer",
           !.page = {i \in Items : OnSale(catalog, i, r.x)
                                     /\ catalog[i].category \in r.listed}])

GetPublicCatalogAnswer(w) == Doing(w, "get_public_catalog", "answer") /\ Done(w)

----------------------------------------------------------------------------

Writing(w) ==
    \/ CreateRestaurant(w) \/ UpdateRestaurant(w) \/ DeleteRestaurant(w)
    \/ CreateCategory(w) \/ UpdateCategory(w) \/ DeleteCategory(w)
    \/ CreateMenuItem(w) \/ UpdateMenuItem(w) \/ DeleteMenuItem(w)
    \/ UpdateCommit(w) \/ CreateCategoryCommit(w) \/ CreateMenuItemCommit(w)
    \/ Seed(w)

Reading(w) ==
    \/ GetPublicCatalog(w) \/ GetPublicCatalogCategories(w)
    \/ GetPublicCatalogItems(w) \/ GetPublicCatalogAnswer(w)

CatalogNext(w) == Writing(w) \/ Reading(w) \/ CatalogAbort(w)

----------------------------------------------------------------------------

\* No item is in a category of another restaurant, where the page of neither
\* would show it: not by a PATCH, by overlapping ones, or by the seed tool.
ItemsStayHome == \A i \in Items : AtHome(catalog, i)

\* The items rows tell the page of r to show.
Menu(rows, r) ==
    {i \in Items : OnSale(rows, i, r) /\ rows[i].category # None
                       /\ Listed(rows, rows[i].category, r)}

\* Each item of a page was on sale, and its category listed, while the page was
\* put together, though perhaps not at the same moment; and an item that was on
\* the menu all that time, in one category, is on the page.  A page that nobody
\* wrote during is thus exactly the menu, whatever deleted items were changed.
PageTellsTheMenu ==
    \A w \in Workers : Doing(w, "get_public_catalog", "answer") =>
        LET r == req[w].x IN
        /\ \A i \in req[w].page :
            \E rows, others \in seen[w] :
                /\ OnSale(rows, i, r)
                /\ rows[i].category # None
                /\ Listed(others, rows[i].category, r)
        /\ \A i \in Items :
            (\E k \in Categories : \A rows \in seen[w] :
                i \in Menu(rows, r) /\ rows[i].category = k)
                    => i \in req[w].page

\* A soft-deleted restaurant, category or item comes back through the seed tool
\* only: no handler writes deleted_at back that read the row before.
DeletedForGood ==
    [][\/ \E w \in Workers : Seed(w)
       \/ \A x \in Rows :
              catalog[x].life = "deleted" => catalog'[x].life = "deleted"]_catalog

----------------------------------------------------------------------------
(* The inductive invariant *)

CreateOp == {"create_category", "create_menu_item"}

\* Rows that exist stay, in their restaurant.
RowsStay ==
    \A x \in Rows : Opening[x].life # "absent" =>
        ~Unused(x) /\ catalog[x].home = Opening[x].home

ItemsWhole ==
    \A i \in Items :
        /\ ~Unused(i) => catalog[i].price # None
        /\ catalog[i].category # None => ~Unused(catalog[i].category)

\* What a commit relies on, of the rows its handler read before.
CommitRelies(w) ==
    LET r == req[w] IN
    r.at = "commit" =>
        /\ r.op \in WriteOp /\ r.x \in Rows
        /\ r.op \in CreateOp => r.want.life = "live"
        /\ r.op \notin CreateOp => ~Unused(r.x) /\ r.want.home = catalog[r.x].home
        /\ r.op = "create_menu_item" \/ (r.op \notin CreateOp /\ r.x \in Items) =>
               r.want.price # None /\ MayHold(r.want.category, r.want.home)

\* What a page shows or leaves out is what rows of its time say.
PageRelies(w) ==
    LET r == req[w] IN
    r.op = "get_public_catalog" =>
        /\ catalog \in seen[w]
        /\ r.at \in {"items", "answer"} => \A c \in Categories : \E rows \in seen[w] :
               Listed(rows, c, r.x) <=> c \in r.listed
        /\ r.at = "answer" => \A i \in Items : \E rows \in seen[w] :
               OnSale(rows, i, r.x) /\ rows[i].category \in r.listed <=> i \in r.page

CatalogInv ==
    /\ CatalogTypeOK
    /\ ItemsStayHome
    /\ RowsStay
    /\ ItemsWhole
    /\ \A w \in Workers : CommitRelies(w) /\ PageRelies(w)
=============================================================================
