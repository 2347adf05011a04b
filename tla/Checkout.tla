------------------------------- MODULE Checkout -------------------------------
(***************************************************************************)
(* Selling from the catalog: what create_order reads of menu items and     *)
(* charges (application/commerce/service.py 613-729), and the counter      *)
(* order, which opens a session and then creates an order, in two          *)
(* transactions (application/staff/service.py 41-60).                      *)
(*                                                                         *)
(* Sessions have no table here, come from counter orders, and close in one *)
(* step: TableSessions and OrderLifecycle have the other handlers, and the *)
(* rest of the order's life.                                               *)
(* A worker has a request to the catalog or a sale, never both.            *)
(***************************************************************************)
EXTENDS Catalog

CONSTANTS
    Orders, Sessions,
    Keys,           \* what requests send as Idempotency-Key: None, or a key
    Carts           \* sets of items a request orders, one of each

ASSUME CheckoutAssumption ==
    /\ None \notin Orders \cup Sessions
    /\ Carts \subseteq (SUBSET Items) \ {{}}

VARIABLES
    session,    \* status and restaurant of each session
    order,      \* rows of orders, and what their lines charge
    sale,       \* what each worker sells
    told,       \* history: the sessions some client was told of
    failed,     \* history: the sessions of counter orders that failed
    replies     \* history: the answers to keyed requests

saleVars == <<session, order, sale, told, failed, replies>>
vars == <<catalogVars, seen, saleVars>>

SessionRow ==
    [status : {"absent", "open", "closed"}, home : Restaurants \cup {None}]

\* The unit prices of the lines, one for each item of the cart.
Lines == UNION {[cart -> Prices] : cart \in Carts}

\* asked is the key the client sent, and key the one that is stored.
OrderFields ==
    [stored : BOOLEAN, home : Restaurants \cup {None},
     session : Sessions \cup {None}, key : Keys \cup {None},
     asked : Keys \cup {None}, lines : Lines \cup {<<>>}]

OrderRow ==
    {r \in OrderFields : r.stored =>
        r.home \in Restaurants /\ r.session \in Sessions /\ r.lines \in Lines}

SaleFields ==
    [kind : {"none", "order", "counter"},
     at : {"none", "open", "check", "session", "lookup", "items", "commit", "answer"},
     r : Restaurants \cup {None}, s : Sessions \cup {None},
     key : Keys \cup {None}, asked : Keys \cup {None}, cart : Carts \cup {{}},
     lines : Lines \cup {<<>>}, o : Orders \cup {None}]

Sale ==
    {v \in SaleFields :
        /\ v.at = "none" <=> v.kind = "none"
        /\ v.at # "none" => v.r \in Restaurants /\ v.cart \in Carts
        /\ v.at \notin {"none", "open"} => v.s \in Sessions
        /\ v.at \in {"commit", "answer"} => v.lines \in [v.cart -> Prices]
        /\ v.at = "answer" => v.o \in Orders}

Reply ==
    [home : Restaurants, key : Keys, order : Orders, lines : Lines]

NoSession == [status |-> "absent", home |-> None]

NoOrder ==
    [stored |-> FALSE, home |-> None, session |-> None, key |-> None,
     asked |-> None, lines |-> <<>>]

NoSale ==
    [kind |-> "none", at |-> "none", r |-> None, s |-> None, key |-> None,
     asked |-> None, cart |-> {}, lines |-> <<>>, o |-> None]

TypeOK ==
    /\ CatalogTypeOK
    /\ session \in [Sessions -> SessionRow]
    /\ order \in [Orders -> OrderRow]
    /\ sale \in [Workers -> Sale]
    /\ told \subseteq Sessions
    /\ failed \subseteq Sessions
    /\ replies \subseteq Reply

Init ==
    /\ CatalogInit
    /\ session = [s \in Sessions |-> NoSession]
    /\ order = [o \in Orders |-> NoOrder]
    /\ sale = [w \in Workers |-> NoSale]
    /\ told = {}
    /\ failed = {}
    /\ replies = {}

----------------------------------------------------------------------------

Stored(o) == order[o].stored

WithKey(home, key) ==
    {o \in Orders : /\ Stored(o) /\ key # None
                    /\ order[o].home = home /\ order[o].key = key}

OrdersOf(s) == {o \in Orders : Stored(o) /\ order[o].session = s}

\* Its id is known: from an answer, or from an order on the kitchen queue.
Known(s) == s \in told \/ OrdersOf(s) # {}

Free(w) == req[w] = Idle /\ sale[w] = NoSale

Selling(w, at) == sale[w].at = at

Sell(w, op, v) ==
    /\ op \in Asks[w]
    /\ Free(w)
    /\ sale' = [sale EXCEPT ![w] = v]
    /\ Watches(w)
    /\ UNCHANGED <<catalogVars, session, order, told, failed, replies>>

Goes(w, v) ==
    /\ sale' = [sale EXCEPT ![w] = v]
    /\ UNCHANGED <<catalogVars, seen>>

Over(w) ==
    /\ sale' = [sale EXCEPT ![w] = NoSale]
    /\ seen' = [seen EXCEPT ![w] = {}]
    /\ UNCHANGED catalogVars

\* The client of sale v gets the order o as the answer.
Reply201(v, o, lines) ==
    replies' = IF v.asked = None THEN replies
               ELSE replies \cup {[home |-> v.r, key |-> v.asked, order |-> o,
                                   lines |-> lines]}

----------------------------------------------------------------------------
(* Sessions *)

\* update_session and delete_session.
CloseSession(w) ==
    \E s \in Sessions :
        /\ "close_session" \in Asks[w]
        /\ Free(w)
        /\ Known(s)
        /\ session[s].status = "open"
        /\ session' = [session EXCEPT ![s].status = "closed"]
        /\ UNCHANGED <<catalogVars, seen, order, sale, told, failed, replies>>

----------------------------------------------------------------------------
(* create_order *)

\* The restaurant is read first.
PlaceOrder(w) ==
    \E r \in Restaurants, s \in Sessions, key \in Keys, cart \in Carts :
        /\ Known(s) /\ session[s].home = r
        /\ Live(r)
        /\ Sell(w, "create_order", [NoSale EXCEPT
               !.kind = "order", !.at = "session", !.r = r, !.s = s,
               !.key = key, !.asked = key, !.cart = cart])

ReadSession(w) ==
    /\ Selling(w, "session")
    /\ session[sale[w].s].status = "open"
    /\ Goes(w, [sale[w] EXCEPT !.at = "lookup"])
    /\ UNCHANGED <<session, order, told, failed, replies>>

\* Fault: the handler goes on to the commit.
LookupOnly(w) ==
    /\ Selling(w, "lookup")
    /\ WithKey(sale[w].r, sale[w].key) = {}
    /\ Goes(w, [sale[w] EXCEPT !.at = "commit"])
    /\ UNCHANGED <<session, order, told, failed, replies>>

Lookup(w) ==
    /\ Selling(w, "lookup")
    /\ WithKey(sale[w].r, sale[w].key) = {}
    /\ Goes(w, [sale[w] EXCEPT !.at = "items"])
    /\ UNCHANGED <<session, order, told, failed, replies>>

\* Fault: the hash leaves out the session, which no client of a counter gave.
SamePayloadButSession(v, o) == DOMAIN order[o].lines = v.cart

\* What the hash of the payload covers: the session too, and no price.
SamePayload(v, o) ==
    order[o].session = v.s /\ DOMAIN order[o].lines = v.cart

\* Fault: the answer is priced again.
ReplayPricedAgain(w) ==
    LET v == sale[w] IN
    /\ Selling(w, "lookup")
    /\ \E o \in WithKey(v.r, v.key) :
        /\ order[o].session = v.s /\ DOMAIN order[o].lines = v.cart
        /\ Reply201(v, o, [i \in v.cart |-> catalog[i].price])
    /\ Over(w)
    /\ UNCHANGED <<session, order, told, failed>>

\* The order exists: it is returned with the amounts it was stored with.
Replay(w) ==
    LET v == sale[w] IN
    /\ Selling(w, "lookup")
    /\ \E o \in WithKey(v.r, v.key) :
        /\ SamePayload(v, o)
        /\ Reply201(v, o, order[o].lines)
    /\ Over(w)
    /\ UNCHANGED <<session, order, told, failed>>

\* Neither the restaurant nor is_active nor the category is looked at.
Orderable(rows, i) == rows[i].life = "live" /\ rows[i].available

\* One query reads all the items.
ReadItems(w) ==
    LET v == sale[w] IN
    /\ Selling(w, "items")
    /\ \A i \in v.cart : Orderable(catalog, i)
    /\ Goes(w, [v EXCEPT !.at = "commit",
                         !.lines = [i \in v.cart |-> catalog[i].price]])
    /\ UNCHANGED <<session, order, told, failed, replies>>

\* Fault: the lines take the prices of the moment of the commit.
PlaceOrderCommitLate(w) ==
    LET v == sale[w] IN
    /\ Selling(w, "commit")
    /\ WithKey(v.r, v.key) = {}
    /\ \E o \in Orders :
        /\ ~Stored(o)
        /\ order' = [order EXCEPT ![o] =
               [stored |-> TRUE, home |-> v.r, session |-> v.s, key |-> v.key,
                asked |-> v.asked, lines |-> [i \in v.cart |-> catalog[i].price]]]
        /\ Goes(w, [v EXCEPT !.at = "answer", !.o = o])
    /\ UNCHANGED <<session, told, failed, replies>>

\* The unique constraint on restaurant and key admits the row.
PlaceOrderCommit(w) ==
    LET v == sale[w] IN
    /\ Selling(w, "commit")
    /\ WithKey(v.r, v.key) = {}
    /\ \E o \in Orders :
        /\ ~Stored(o)
        /\ order' = [order EXCEPT ![o] =
               [stored |-> TRUE, home |-> v.r, session |-> v.s, key |-> v.key,
                asked |-> v.asked, lines |-> v.lines]]
        /\ Goes(w, [v EXCEPT !.at = "answer", !.o = o])
    /\ UNCHANGED <<session, told, failed, replies>>

\* The answer of a counter order is the first to name its session.
PlaceOrderAnswer(w) ==
    LET v == sale[w] IN
    /\ Selling(w, "answer")
    /\ Reply201(v, v.o, v.lines)
    /\ told' = told \cup {v.s}
    /\ Over(w)
    /\ UNCHANGED <<session, order, failed>>

----------------------------------------------------------------------------
(* create_counter_order *)

\* Fault: the key is not handed on to create_order.
CounterOrderUnkeyed(w) ==
    \E r \in Restaurants, key \in Keys, cart \in Carts :
        /\ Live(r)
        /\ Sell(w, "create_counter_order", [NoSale EXCEPT
               !.kind = "counter", !.at = "open", !.r = r,
               !.asked = key, !.cart = cart])

\* create_session reads the restaurant, and its location.
CounterOrder(w) ==
    \E r \in Restaurants, key \in Keys, cart \in Carts :
        /\ Live(r)
        /\ Sell(w, "create_counter_order", [NoSale EXCEPT
               !.kind = "counter", !.at = "open", !.r = r,
               !.key = key, !.asked = key, !.cart = cart])

\* Its commit: from now on there is a session, whatever becomes of the order.
CounterOrderSession(w) ==
    LET v == sale[w] IN
    /\ Selling(w, "open")
    /\ \E s \in Sessions :
        /\ session[s].status = "absent"
        /\ session' = [session EXCEPT ![s] = [status |-> "open", home |-> v.r]]
        /\ Goes(w, [v EXCEPT !.at = "check", !.s = s])
    /\ UNCHANGED <<order, told, failed, replies>>

\* create_order reads the restaurant anew.
CounterOrderCheck(w) ==
    LET v == sale[w] IN
    /\ Selling(w, "check")
    /\ Live(v.r)
    /\ Goes(w, [v EXCEPT !.at = "session"])
    /\ UNCHANGED <<session, order, told, failed, replies>>

\* The sale v has stored its order.
HasPlaced(v) == v.at = "answer"

\* A check that fails, the answer 409 to a key that names another payload, the
\* unique constraint, a lost connection or a crash.  Nothing removes the
\* session of a counter order.
SaleFails(w) ==
    LET v == sale[w] IN
    /\ v # NoSale
    /\ failed' = IF v.kind = "counter" /\ v.s # None /\ ~HasPlaced(v)
                   THEN failed \cup {v.s} ELSE failed
    /\ Over(w)
    /\ UNCHANGED <<session, order, told, replies>>

----------------------------------------------------------------------------

Ordering(w) ==
    \/ PlaceOrder(w) \/ ReadSession(w) \/ Lookup(w) \/ Replay(w) \/ ReadItems(w)
    \/ PlaceOrderCommit(w) \/ PlaceOrderAnswer(w)

Counter(w) == CounterOrder(w) \/ CounterOrderSession(w) \/ CounterOrderCheck(w)

\* A request to the catalog, by a worker that sells nothing.
InCatalog(w) == CatalogNext(w) /\ sale[w] = NoSale /\ UNCHANGED saleVars

Step(w) ==
    \/ InCatalog(w)
    \/ CloseSession(w)
    \/ Ordering(w) \/ Counter(w) \/ SaleFails(w)

Next == \E w \in Workers : Step(w)

Spec == Init /\ [][Next]_vars

----------------------------------------------------------------------------

\* What a new order charges is one price list, in force at some moment of its
\* request, on which all its items could be ordered at that moment: never the
\* price of one moment for an item and of another for the next.
ChargedAsListed ==
    [][\A o \in Orders : ~Stored(o) /\ order'[o].stored =>
          \E w \in Workers : \E rows \in seen[w] :
              /\ sale'[w].o = o
              /\ sale[w].cart = DOMAIN order'[o].lines
              /\ \A i \in sale[w].cart :
                    Orderable(rows, i) /\ order'[o].lines[i] = rows[i].price]_order

\* A client that sends its key again, whatever failed before, is charged once,
\* also at the counter, where each attempt has a session of its own.
ChargedOnce ==
    \A o, p \in {o \in Orders : Stored(o) /\ order[o].asked # None} :
        order[o].asked = order[p].asked /\ order[o].home = order[p].home => o = p

\* All successful answers to a key name one order and one set of prices, though
\* the items were priced anew between the attempts.
SameAmountForRetry ==
    \A a, b \in replies : a.key = b.key /\ a.home = b.home => a = b

\* An open session is known to a client, or shows on the kitchen queue with its
\* order, or its request is in progress, or it is one that a failed counter
\* order left.  Those nobody can name: they are open for good, without an order.
SessionsAccountedFor ==
    /\ \A s \in Sessions : session[s].status = "open" =>
        \/ s \in told \cup failed
        \/ OrdersOf(s) # {}
        \/ \E w \in Workers : sale[w].kind = "counter" /\ sale[w].s = s
    /\ \A s \in failed :
        s \notin told /\ OrdersOf(s) = {} /\ session[s].status = "open"

----------------------------------------------------------------------------
(* The inductive invariant *)

\* A worker in a sale, whose prices are those of one moment of it.
SaleRelies(w) ==
    LET v == sale[w] IN
    /\ v.at = "none" => v = NoSale
    /\ v.at # "none" => req[w] = Idle /\ catalog \in seen[w] /\ v.key = v.asked
    /\ v.at \in {"commit", "answer"} => \E rows \in seen[w] : \A i \in v.cart :
           Orderable(rows, i) /\ v.lines[i] = rows[i].price
    /\ v.at = "answer" => order[v.o] =
           [stored |-> TRUE, home |-> v.r, session |-> v.s, key |-> v.key,
            asked |-> v.asked, lines |-> v.lines]

\* The session of a sale: one that others know of, or its own.
SessionOfSale(w) ==
    LET v == sale[w] IN
    /\ v.at = "open" => v.kind = "counter" /\ v.s = None
    /\ v.s # None => session[v.s].status # "absent"
    /\ v.kind = "order" => Known(v.s)
    /\ v.kind = "counter" /\ v.s # None /\ ~HasPlaced(v) =>
           /\ ~Known(v.s)
           /\ v.s \notin failed
           /\ session[v.s].status = "open"
           /\ \A u \in Workers : sale[u].s = v.s => u = w

OrdersAndReplies ==
    /\ \A o \in Orders : Stored(o) =>
           /\ order[o].key = order[o].asked
           /\ session[order[o].session].status # "absent"
    /\ \A a \in replies :
           /\ a.key # None /\ Stored(a.order)
           /\ order[a.order].home = a.home /\ order[a.order].key = a.key
           /\ order[a.order].lines = a.lines
    /\ \A s \in told \cup failed : session[s].status # "absent"

CheckoutInv ==
    /\ TypeOK
    /\ CatalogInv
    /\ ChargedOnce
    /\ SessionsAccountedFor
    /\ OrdersAndReplies
    /\ \A w \in Workers : SaleRelies(w) /\ SessionOfSale(w)
=============================================================================
