# FoodBiz backend: TLA+ models, model checking and proofs

This directory holds the formal model of the FoodBiz backend
(`src/repo/backend`): what its request handlers do to the database when many
run at once, what the code promises, what TLC finds on small instances and what
TLAPS proves for instances of every size. Paths below are relative to
`src/repo/backend/src/rop` unless they start with `src/`; `service.py` alone is
`application/commerce/service.py`.

## 1. The system

One FastAPI process over PostgreSQL and Redis. A restaurant has locations,
tables at locations, sessions (a party at a table, or a pickup, delivery or
third-party visit without one) and orders inside sessions. Guests and staff
open sessions and place orders, the kitchen moves the orders along, and every
change is announced on Redis and forwarded to websockets.

| component | state it keeps | operations | interacts with |
|---|---|---|---|
| floor (`service.py` 411-599) | rows of `tables` and `sessions` | create/update/delete table; create/update/delete session, open and close a table's session, walk-in | orders check session and table; the seed tool rewrites tables |
| locations (`service.py` 332-409) | rows of `locations` | create, update, delete | sessions check the channel's support; deletion checks sessions |
| orders (`service.py` 601-770) | `orders`, `order_lines`, `order_status_history` | create (with `Idempotency-Key`), patch notes, cancel | reads session, table, menu items; marks the table; publishes |
| kitchen (`application/kitchen`, `domain/kitchen`) | the status of orders | accept, ready, served, settled; the queue query | as orders |
| staff (`application/staff`) | none | walk-in session, manual order, counter order | calls the floor and the orders |
| database session (`infrastructure/db`, `api/dependencies.py`) | one transaction per request | SELECT, commit, rollback | all of the above |
| publisher (`infrastructure/messaging/redis_publisher.py`) | none | publish, swallowing errors | called after a commit |
| fan-out (`infrastructure/messaging/redis_event_listener.py`, `api/ws`) | the websockets of each restaurant | subscribe, reconnect with backoff, register, unregister, broadcast | Redis, websockets |
| catalog (`application/catalog`) | `categories`, `menu_items` | create, update, delete; the public menu page | orders read items and prices |
| restaurants (`service.py` 273-330) | rows of `restaurants` | create, update, delete | every handler reads its restaurant first |
| seed and deployment (`tools/seed.py`, `src/repo/scripts`) | none | upsert fixed rows; migrate, seed, restart | writes the tables behind the handlers' backs |
| the rest | none that matters here | health, metrics, logs, inventory stub, unused cache store, migrations | |

What is hard here is concurrency. Every route is a synchronous function, so
FastAPI runs it in a thread of its pool; every request has a database session of
its own; isolation is READ COMMITTED; no row carries a version, no UPDATE a
condition, no SELECT a lock. A handler is a row of SELECTs, some `if`s, and one
commit, and whatever it checked may have changed by then. Then come the usual
ones: a crash between the commit and the publish, events lost or out of order,
a retry of a request whose answer was lost, a request of two transactions that
fails between them. The fan-out is different: it runs on one event loop, so its
interleavings are between awaits, and it has tasks that must come to something. `PROJECT.json` lists the hazards
line by line, with the properties that cover them.

What makes each component correct:

- floor: at most one open session per table; no session open on a deleted table
  or at a deleted location; a table with a party is marked as occupied;
  `closed_at` agrees with the status; what was closed or deleted stays so;
- orders: a key names one order and always answers with it; orders are placed
  only in open sessions; the history accounts for every status; nothing is
  settled that was not accepted, made ready and served; a cancellation only
  before the kitchen starts;
- kitchen queue: what is to be worked on is in the queue; an order keeps its place in
  it, and on the screen, which shows the oldest orders up to a limit;
- events: only committed changes are announced, in their order;
- fan-out: a websocket is shown the events of its restaurant, in order and once,
  and misses none that the listener took, whatever other clients do; the
  listener comes back after a failure; the manager forgets connections that are
  gone;
- catalog: an item stays with its restaurant; what was deleted stays so; the menu
  page shows what was on the menu;
- sales: an order charges one price list; a client that repeats its key is charged
  once, and told the same amounts; every open session is somebody's.

## 2. The modules

| module | what it is |
|---|---|
| `CommerceRules` | the pure rules: enums, `rules.py`, the workflow table |
| `Floor` | abstract specification: parties, tables, retirement |
| `TableSessions` | sessions, tables, locations, the seed tool, step by step |
| `OrderWorkflow` | abstract specification: the life of an order and its notes, as a lone request changes them |
| `OrderLedger` | abstract specification: the record of an order, its answers and events, with any number of requests |
| `OrderLifecycle` | orders, keys, history, events, the kitchen queue, step by step |
| `KitchenScreen` | extends `OrderLifecycle`: when orders were created, and which of them the queue shows |
| `Feed` | abstract specification: what the event stream promises a display |
| `EventFanout` | Redis subscription, listener task, connection manager, endpoints, clients |
| `Catalog` | restaurants, categories, items and the menu page, step by step |
| `Checkout` | extends `Catalog`: the composition with orders and counter orders |
| `MCTableSessions`, `MCOrderLifecycle`, `MCKitchenScreen`, `MCEventFanout`, `MCCheckout` | sets of operations, symmetry and small functions for TLC |
| `TableSessions_proofs`, `OrderLifecycle_proofs`, `OrderLedger_proofs`, `KitchenScreen_proofs`, `EventFanout_proofs`, `Checkout_proofs` | theorems and proofs |

### How a handler becomes actions

A *worker* is a thread handling a request. `req[w]` is what its handler knows:
the operation, the step it is at, the arguments, and the columns it has read. A
handler is

- one action for its first SELECT (with the conditions on what it finds), which
  makes an idle worker busy;
- one action per further SELECT, each seeing what is committed *then*
  (READ COMMITTED; a row that is already in the SQLAlchemy identity map is not
  read again, which is why `open_table_session` goes on with the table it read
  first);
- one action for the commit, which writes the columns whose value differs from
  the value read and leaves the others alone, as SQLAlchemy's unit of work does
  (`Written`);
- after the commit of an order, one for the refresh and one for the publish.

`Abort` may end any request at any step: it stands for the 4xx answers, for
IntegrityErrors, lost connections and crashes of the process. So an action says
when a handler goes *on*, and a condition that fails needs no action of its own.
What was committed stays, so `Abort` between commit and publish is the crash that
loses an event. Three refusals do matter to a property and have
actions or alternatives of their own: `CreateOrderRefused` (the session has
ended), `CreateOrderCollision` (the unique constraint) and the alternative of
`Publish` in which Redis fails.

| code | actions |
|---|---|
| `create_session`, walk-in session | `CreateSession`, `CreateSessionTable`, `CreateSessionActive`, `CreateSessionCommit` |
| `open_table_session` | `OpenTableSession`, `OpenTableSessionLocation`, then as above |
| `update_session`, `delete_session`, `close_table_session` | `UpdateSession`, `DeleteSession`, `CloseTableSession`, then `CloseSessionTable`, `CloseSessionCommit` |
| `create_table`, `update_table`, `delete_table` | `CreateTable*`, `UpdateTable*`, `DeleteTable*` |
| `create_location`, `update_location`, `delete_location` | `CreateLocation`, `UpdateLocation*`, `DeleteLocation*` |
| `tools/seed.py` | `Seed` |
| `create_order`, manual order | `CreateOrder*`, `Refresh`, `Publish` |
| `update_order` | `UpdateOrder`, `UpdateOrderCommit` |
| `delete_order` | `DeleteOrder`, `DeleteOrderCommit`, `Refresh`, `Publish` |
| `KitchenService.transition` | `Transition`, `TransitionCommit`, `Refresh`, `Publish` |
| `KitchenService.queue` | `Queue`, the set the default query selects from; `Screen`, the oldest of them up to the limit |
| `CatalogService`: categories and items | `Create*`, `Update*`, `Delete*`, then `UpdateCommit`, `CreateCategoryCommit`, `CreateMenuItemCommit` |
| restaurants in `service.py` | `CreateRestaurant`; `UpdateRestaurant`, `DeleteRestaurant`, `UpdateCommit` |
| `get_public_catalog` | `GetPublicCatalog`, `GetPublicCatalogCategories`, `GetPublicCatalogItems`, `GetPublicCatalogAnswer` |
| `create_order`, with its items and prices | `PlaceOrder` (the restaurant), `ReadSession`, `Lookup`, `Replay`, `ReadItems`, `PlaceOrderCommit`, `PlaceOrderAnswer` |
| `create_counter_order` | `CounterOrder`, `CounterOrderSession`, `CounterOrderCheck`, then as above from `ReadSession`; `SaleFails` |

State: `table[t]`, `location[l]`, `session[s]` and `order[o]` are rows,
restricted to the columns some handler checks; `life` is `absent` for an id not
used yet and `deleted` for a row with `deleted_at`. `history[o]` is the rows of
`order_status_history` in commit order. `openedMeanwhile`, `deletedMeanwhile`,
`openedBeside`, `deletedBeside`, the `row` of an event, `replied`, `refused`,
`ordersMissed` and `sessionsMissed`, and in `Checkout` `seen`, `failed` and `replies`
and the key `asked` for, are history: no handler decides by them. (`told` is
what clients know: `CloseSession` and `PlaceOrder` need the id of a session.)
`openedMeanwhile[w]` and `deletedMeanwhile[w]` are the sessions that other requests
have opened, and the tables and locations they have deleted, since the request of `w`
came; its commit stores them in the row it writes, as `openedBeside` and
`deletedBeside`. So a row says what happened during the very request that opened or
deleted it, and two rows that name each other come from requests that overlapped: a
worker's other requests do not count. `OrderLifecycle` has the same for orders:
`ordersMissed[w]` are those whose status was written by others, and
`sessionsMissed[w]` the sessions that were ended, since the request of `w` came.

In `OrderLifecycle` sessions and tables are there only for what `create_order`
checks, so `update_session`, `delete_session` and `update_table` are one step
each; the races inside them are the subject of `TableSessions`.

`KitchenScreen` takes the steps of `OrderLifecycle` and adds the time. `created_at`
is filled in by PostgreSQL as `now()`, the start of the inserting transaction, so
`began[w]` is taken from `clock` at the first SELECT of a POST /orders and becomes
`created[o]` at its commit. Only these transactions take a number: no other time is
compared with them. A counter order begins its transaction a moment earlier, at
`create_session`'s refresh, which is one more order in which two requests can
begin. Two orders with the same microsecond are left out: the query says nothing of
their order.

`Checkout` looks at the same `create_order` from its other side: items, prices and
the two transactions of a counter order, where `OrderLifecycle` has statuses,
history and events. What one of them has, the other leaves out.

### How the event loop becomes actions

Everything in `EventFanout` but Redis and the clients runs on one event loop, so
an action is what happens between two awaits that suspend. The manager's lock is
never waited for: nobody suspends while holding it.

| code | actions |
|---|---|
| `start_redis_fanout` and its listener | `Subscribe`, `ConnectFails`, `PollFails`, `Wake` (the backoff is over and the old connection closed), `CloseFails` (closing it raised, and the task has ended), `TakeMessage` |
| `ConnectionManager.broadcast` | its snapshot in `TakeMessage`; `Send`, `SendWaits`, `SendRaises`, `SendVanishes`; `EndBroadcast` unregisters what was stale |
| `websocket_endpoint` | `Connect`, `Register`, `AcceptFails`, `Disconnect`, `ReceiveFails`, the last two with `Unregister` |
| `lifespan` | `Restart` |
| Redis, the network, the clients (not in the repository) | `Publish`, `Break`; `Drop`, `Stall`, `Settle` |

`log` is what was published; `reached` and `handled` bound the part of it that is
in the listener's stream. What is published while the listener is not subscribed
is in no stream: it is lost, as Redis pub/sub loses it. `owed` and `received` are
history variables.

Definitions that begin with `\* Fault:` are not part of a specification. Each is
an action or operator with a plausible mistake in it, and the list of mutants in
`PROJECT.json` says which property notices when it replaces the real one.

## 3. The runs

All were run with two TLC workers; the longest takes less than three minutes.

| run | instance | what it checks |
|---|---|---|
| `TS_serial` | 1 worker, 2 tables (one seeded, one still to be created), 1 location, 2 sessions, every operation and the seed; 0.6M states | `TypeOK`, `OpenSessionHasTable`, `ImplementsFloor` |
| `TS_race` | 2 workers, 1 location and 1 table, both still to be created, 2 sessions, sessions against changes and deletions of the table and the location; 2.2M states | `SeatedTwiceOnlyByOverlap`, `OrphanedOnlyByOverlap`, `StrandedOnlyByOverlap`, `FreedUnderPartyOnlyByOverlap`, `ClosedAtExact`, `ClosedForGood`, `DeletedForGood` |
| `OL_serial` | 1 worker, 1 order, 2 sessions (one with a table), 1 key, 2 bodies, every operation; 1.6M states | `TypeOK`, `ImplementsWorkflow` |
| `OL_intake` | 2 workers, 2 orders, 2 sessions, 1 key, POST /orders against closings and table changes; 0.8M states | `OneOrderPerKey`, `SameAnswerPerKey`, `PlacedLateOnlyByOverlap` |
| `OL_kitchen` | 2 workers, 1 order, 2 bodies, edit, cancel and transitions; 1.6M states | `HistoryTellsStatus`, `HistoryFollowsWorkflow`, `EventsTellHistory`, `OffQueueOnlyByOverlap`, `ImplementsLedger`, `LeavesWorkflowOnlyByOverlap`, `EventsOutOfOrderOnlyByOverlap` |
| `KS_overlap` | 2 workers, 2 orders without a table or a key, 3 requests that place orders, a screen of one; 0.8M states | `OvertakenOnlyByOverlap`, `PushedOffOnlyByOverlap` |
| `EF_stream` | 2 clients, 2 restaurants, 2 events, every failure of Redis, listener, clients and process; 0.1M states | `TypeOK`, `MapsAgree`, `StaysRegistered`, `MissesOnlyWhatIsLost`, `ImplementsFeed`, `EventsArrive`, `ListenerComesBack`, `GoneAreForgotten` |
| `CO_menu` | 2 workers, 3 restaurants, categories and items (some seeded, one deleted, one of each still to be made), 2 prices, 2 orders, 2 sessions, 1 key; 1.8M states | `TypeOK`, `ItemsStayHome`, `PageTellsTheMenu`, `DeletedForGood`, `ChargedAsListed`, `ChargedOnce`, `SameAmountForRetry`, `SessionsAccountedFor` |

The *serial* runs ask whether the checks in the code are the right ones: with one
request at a time they give the properties their error messages name, and the
handlers implement `Floor` and `OrderWorkflow` under the refinement mappings
`F` and `W` of the two modules (`party` is the open session of a table; `status`
and `notes` are the columns). The *race* runs ask what is left when requests overlap.
`SeatedTwiceOnlyByOverlap`, `OrphanedOnlyByOverlap` and `StrandedOnlyByOverlap`
say exactly how things can go wrong: of two sessions open on one table, one was
opened while the request that opened the other was in progress, so that the check at
`service.py:500` of that one could not see it; and so with an opening and the
deletion of its table or location. Requests that do not overlap
never do any of it, however many threads there are. `FreedUnderPartyOnlyByOverlap` is
about the status of a table: under an open session it stays occupied, unless a PATCH
says otherwise (of the table, or of a session that had ended before,
`service.py:560`), the seed tool runs, or a close, deletion or opening frees it that
overlapped another request. `OffQueueOnlyByOverlap` does
the same for the kitchen's queue: an order in work is missing there only if a
transition overlapped its cancellation, and then its history shows both.
`LeavesWorkflowOnlyByOverlap` asks of every single step, under any interleaving, that
it is one of `OrderWorkflow`, or a commit to an order that another request has written
since it was read; `EventsOutOfOrderOnlyByOverlap` that an event is the next one of the
history and carries the status of its own row, unless another request has written the
order; and `PlacedLateOnlyByOverlap` that an order goes to an open session, or to one
that was ended behind the back of its request.
`ImplementsLedger` says what no overlap can spoil: an order is placed once, its
rows and its events are only ever added to, each row by a step of the workflow and
each event for a row of its own, and an answer to a key is about its order.

`KS_overlap` asks whether the kitchen can rely on its screen. The queue is ordered
by `created_at` and cut off at the limit, so an order stays where it is until it is
done, and those that wait move up: unless a transaction that began earlier commits
later (its order is the older one, and takes a place in front), or a stale
transition brings an order back.

`EF_stream` asks what a display can rely on. It is shown a sequence that `Feed`
allows; `MissesOnlyWhatIsLost` says that the only events it misses are those Redis
lost; and the liveness properties say that an event in the stream arrives unless
the connection breaks or the client leaves, that the listener subscribes again
for ever unless its own clean-up ends it, and that a connection that is gone leaves
the manager.

`CO_menu` asks what a guest can rely on while the catalog is being changed and
seeded: the page, the prices of an order, one charge for one key. In this instance
all first orders are counter orders, since sessions come from nowhere else;
`PlaceOrder` meets their sessions, and its key is theirs already, so that it
replays an order, conflicts with one, or takes part in the race for the key.

### Bounds, and why they are enough

- Two workers: every condition the code checks is about one row that one other
  handler changes between check and commit, so two suffice to pass a check that
  is stale; what is true for two and could fail for three is proved for any
  number (section 5), except where section 6 says otherwise.
- Two sessions per table are needed to see a second party; two orders to see a key
  used twice, or a place in the line; two bodies to see a replay with another
  payload. A table that is moved needs a second location and is left to the
  theorems, which have no such bound.
- `MaxHistory` (4 or 5): no new request is begun for an order that has so many
  history rows. Under races an order can go round the workflow for ever (a stale
  accept moves a ready order back), so some bound is needed. A full life takes 5
  rows; with two requests in progress a history may exceed the bound by one.
  The theorems do not depend on it.
- `MaxEvents` is 2: one event being broadcast while another is in the stream, or
  lost, or of another restaurant. Two clients are one to be slow or gone and one
  to suffer from it; two restaurants are one too many to be shown.
- `Limit` is 1 and `MaxClock` 3: with two orders one is on the screen and one waits,
  and a third request may take its time and fail.
- `MaxWrites` is 2: a page or a sale is overlapped by one change before and one
  after its read, or by two overlapping changes of one row. What needs more, a
  series of changes, is covered by the theorems, which have no such bound.
- `NewItems` and `ItemPatches` are the bodies that requests send: items to be had, and
  one that is created inactive; a price, a switch on or off, another category.
- `Asks` gives each worker of `CO_menu` its operations: one writes the catalog,
  the other sells, reads the page and deletes items, and both sell at the counter.
  Every pair of overlapping requests that touch the same row is then between two
  different workers, and the state space stays within reach.
- Ids are used once: a session or order that ended stays in its pool, and an
  instance ends when the pool is used up.
- `View` in `TS_race` leaves out the history that nothing will read any more: of a
  session that has ended, unless a close in progress still takes it for open, and of
  a request that neither opens, closes nor deletes; and in `KS_overlap` what was published and answered and
  what the rows of a history say, which neither a guard nor a property of that run
  reads. States that agree on the rest have the same future.
- `TS_race` may stop: when its only location was deleted before anybody came, and it has
  no seed tool to bring it back, nothing is left to be done. Deadlock is checked in all other runs.
- `Symmetry` permutes workers and sessions (`TS_race`) or workers and orders
  (`OL_intake`, `OL_kitchen`, `KS_overlap`); `ClosedForGood`, `DeletedForGood`,
  `FreedUnderPartyOnlyByOverlap` and those of `KS_overlap` are action properties, for which this is sound, and
  `ImplementsLedger` has no liveness. `CO_menu` permutes orders and
  sessions, with properties of the same two kinds. `EF_stream` has liveness
  properties and no symmetry.

### Fairness

None is assumed of the request handlers, and no liveness property is stated of
them: a request may fail at any step, nothing retries it, and the code promises
only what happens if it succeeds. The fan-out has tasks that run for ever, and
`Fairness` in `EventFanout` says what they may count on:

- weak fairness of `Wake`, `TakeMessage` and `Broadcasting`: the event loop
  resumes every task that can run, and `asyncio.sleep` ends;
- strong fairness of `Subscribe`: the listener tries once per round, and each
  attempt may fail. Redis is assumed to be reachable at infinitely many of them;
  weak fairness would say nothing, for `ConnectFails` disables the action;
- no fairness keeps `CloseFails` from happening: nothing catches an exception of the
  `finally` block (`redis_event_listener.py:68-80`), so a listener may end there and
  come back with the process only. `ListenerComesBack` allows for it and for nothing
  else;
- weak fairness of `PollFails`: a broken connection to Redis is reported. One that
  is half open and silent is not covered: the code has no timeout of its own;
- weak fairness of `Disconnect(c)`: an endpoint whose connection is gone learns of
  it, from `receive_text`;
- weak fairness of `Settle(c)`: a client that does not read starts to read again
  or is dropped by the ping timeout of the server. The broadcast has no timeout, so
  without this one client could hold up all restaurants for ever.

No fairness is given to publishers, clients, breaks or restarts.

## 4. Where the code and what is said about it differ

Each has a run that TLC ends with a counterexample.

- `TS_two_parties`: "table already has an open session" (`service.py:502`) does
  not keep two overlapping requests from opening two sessions on one table. The
  query, the status check and the commit are separate steps, and no constraint in
  the schema makes up for it.
- `TS_orphan`: "cannot delete a table with an open session" (`service.py:462`)
  does not hold for a session being opened meanwhile. No route can close such a
  session: all of them answer 404 for its table.
- `OL_cancel`: "order can only be canceled before kitchen work starts"
  (`service.py:753`) is checked on a status that may have changed by the commit.
  The version column the project log asks for (`src/CODEX Prompt
  logbook.txt:1856-1858`) is no longer in the schema.
- `OL_retry`: a retry of a keyed order is promised the original order
  (`src/CODEX Prompt logbook.txt:1846-1847`, `src/repo/backend/tests/integration/test_orders_api.py:46-48`),
  but the status of the session is checked before the key is looked up, so once
  the session is closed the retry is refused with 409.

The models reach further ones that no run is spent on. A counter order that is
retried with its key opens another session first, and the id of that session is in
the hash of the payload: the retry is always refused with 409, though the first
attempt stored its order, and the new session stays open without an order. No
answer names such a session and no list shows it, so nobody can close it, and
it keeps its location from being deleted (`failed` in `SessionsAccountedFor` is the
set of them). A transition that overlaps a cancellation leaves an order in work
that the kitchen's screen does not show. The queue is ordered oldest first with a
limit and no cursor (`application/kitchen/service.py:35`), where the project log
(`src/CODEX Prompt logbook.txt:1837-1838`) asks for newest first with a cursor: with
more orders in work than the limit, the newest are on no page. An order whose
transaction began early and commits late pushes one off the screen that the kitchen
has already seen. An item may be ordered that the menu page
hides, since `create_order` looks neither at `is_active` nor at the category.
`delete_location` has the same gap as `delete_table`, and an order may be committed in a session closed
after `service.py:625`. `expires_at` is stored and returned and never compared
with a clock.

## 5. What is proved

`tlapm` checks every step of the six proof modules. The assumptions are
`FloorAssumption`, `OrderAssumption`, `ScreenAssumption`, `FanoutAssumption`, `CatalogAssumption` and
`CheckoutAssumption`: the null values are not ids, the sets of ids are apart,
functions have their domains, and the rows the model starts with are such as the
seed and the handlers make (an item has a price and is in a category of its own
restaurant), and for `KitchenScreen` that the set of orders is finite and the limit
not 0 (the route refuses less than 1). Nothing else is assumed about the number of workers, rows, keys, clients
or events. "With one worker" is the hypothesis `\A v, w \in Workers : v = w` of
the theorem.

`TableSessions_proofs`:

- `FloorCorrect`: `FloorInv` is an invariant. From it `TypeCorrect`,
  `DoubleSeating`, `Orphaning`, `ClosedAtCorrect`, and the action property
  `FreedByOverlap`.
- `LocationsCorrect`: `LocationInv`, on top of it, is one. From it `Stranding`.
- `SerialSeating`, `SerialTables`, `SerialLocations`: with one worker, at most one
  open session per table, none on a deleted table and none at a deleted location.
  They follow from `DoubleSeating`, `Orphaning` and `Stranding` and from
  `NobodyBeside`, that nothing happens during the request of a lone worker. So the properties that fail for two workers
  are proved for one without another induction. (`OpenSessionHasLocation` is proved
  only; `StrandedOnlyByOverlap`, which TLC checks, says more.)
- `SerialFloor`: with one worker `TableSessions` implements `Floor`.
- `EndedStaysEnded`, `DeletionLasts`: the action properties.

`SeatedTwiceOnlyByOverlap` is not inductive: of a request at its commit something
must be known about the sessions that are open on its table by then. `Relies(w, r)`
records what a request has established and nobody else can undo without its being
noted. A request between its check and its commit knows that every session open on
its table is in its `openedMeanwhile`, and that a table it saw is not deleted unless
it is in its `deletedMeanwhile`: the check found none before. A close knows that the
session it read as ended has not come back, and that whoever else sits at the table of
one it read as open came meanwhile, or came together with it. `TablesExist` keeps an
id that was never used from being taken for a table. The proof has one step per
action; a reading step changes `req[w]` only and needs `Relies` for the new request,
while a commit needs the `Relies` of all others kept, which it is because `Noted` puts
what was opened or deleted into the history of every other request.
`LocationRelies` and `LocationsExist` are the same for locations.

`OrderLifecycle_proofs`:

- `OrdersCorrect`: `OrderInv` is an invariant. From it `TypeCorrect`,
  `KeysNameOneOrder`, `RetriesAgree`, `HistoryComplete`, `WorkflowKept`.
- `EventsCorrect`: `EventInv`, on top of it, is one. From it `EventsTell`,
  `QueueCorrect`.
- `OverlapCorrect`: `OverlapInv`, on top of both, is one. From it
  `WorkflowByOverlap`, `EventsByOverlap`, `PlacedByOverlap`.
- `LoneCorrect`: with one worker `LoneInv`, on top of all three, is one. From it
  `SerialEvents`, `SerialQueue`, `SerialSessions`, and
  `SerialWorkflow`: `OrderLifecycle` implements `OrderWorkflow`. (`EventsInOrder`,
  `WorkIsOnQueue` and `OrdersInOpenSessions` are proved only; the properties of
  overlapping requests, which TLC checks, say more.)

`HistoryFollowsWorkflow` needs that the status a transition has read is in the
history already, which stays true because a history only grows; a cancellation
needs only that every history begins with pending. `SameAnswerPerKey` needs
`AnswersStored` (an answer names a stored order with its key and payload), from
which it follows with `OneOrderPerKey`; and that needs that key and payload of a
stored order never change. The lemmas `RecordRows`, `AppendRows`, `PlaceRows`,
`AdvanceRows` and `NotesRows` state what each kind of commit does to the rows, so
the proof of an action only says which kind it is. `EventsTellHistory` needs
`Announces`: between its commit and its publish a request is the only one with its
row of the history, and no event has that row. `OffQueueOnlyByOverlap` needs
`DeletedWasCanceled`: whoever sets `deleted_at` writes a canceled row. An order that
is not stored has no rows (`NothingBefore`).

What a request knows of what it has read is `OverlapRelies`: the status is still the
one it read, its row is the last of the history, the session is open, each unless it is
in what the request has missed. A step of another worker changes none of this without
putting it there (`OthersMeanwhile`), so the proof for the others is one lemma
(`OverlapOthers`) whatever the step. A lone worker misses nothing, for `MissOrder` and
`MissSession` name the requests of others only (`LoneMisses`): so what holds up to an
overlap holds without exception, and only `DeletedIsCanceled` and the order of all
events need an induction of their own.

`OrderLedger_proofs`:

- `LedgerImplemented`: with any number of workers `OrderLifecycle` implements
  `OrderLedger`. `placed`, the key, session and body of the row, is the refinement
  mapping, with the history, the answers with a key and the events as they are.

Every kind of step has a lemma that says which step of the ledger it is:
`PlaceStep` (the insert), `AdvanceStep` (a cancellation or transition),
`ReportStep` (a refresh or publish of a request that has written), `ReplayStep`;
`NotesStep` and all other steps are stutters. Nothing beyond `OrderInv` and
`EventInv` is needed: that the key of a new order is on no other is the unique
constraint with `KeysNameOneOrder`; that the row is by an edge of the workflow from
a status reached before is `ReadsAreHistory`; that its announcement is the first one
of its row is `Announces`; and that a replay is of the order it names is
`AnswersStored`. `NothingBefore` says that an id that is not stored has no rows and
no key.

`KitchenScreen_proofs`:

- `ScreenImplementsOrders`: every behaviour of `KitchenScreen` is one of
  `OrderLifecycle`, so that everything above holds of it.
- `TimesCorrect`: `TimesPassed`, that the clock is ahead of every time taken from it.
- `OvertakenByOverlap`, `PushedOffByOverlap`: the action properties. A step puts at
  most one order into the queue (`QueueGrows`), and only an insert or a stale
  transition puts it in front of another. For the screen it takes an argument about
  cardinalities: the line before an order on it has fewer than `Limit` orders, and a
  line that nobody joined is a subset of what it was.
- `LineCorrect`, and from it `SerialLine`, `SerialScreen`: with one worker the line
  before an order only gets shorter, and what is on the screen stays (`NoOvertaking`
  and `StaysOnScreen` are proved only; the run checks the properties of overlapping
  requests, which say more).

`EventFanout_proofs`:

- `FanoutCorrect`: `FanoutInv` is an invariant. From it `TypeCorrect`,
  `MapsCorrect`, `NobodyPruned`, `NothingTakenIsMissed`.
- `FeedImplemented`: `EventFanout` implements `Feed`, for any number of clients,
  restaurants and events.

`Bookkeeping(c)` is the strengthening: it ties together what the manager, the
endpoint and a broadcast know of one client. A socket that is stale is gone, so
unregistering it harms nobody who is still connected; and a socket still among the
targets has only been sent events before the one at hand, so its next is a new one,
and of its own restaurant.

`Checkout_proofs`, about `Catalog` and `Checkout` together:

- `CheckoutCorrect`: `CheckoutInv` is an invariant. From it `TypeCorrect`,
  `ItemsHome`, `PageCorrect`, `OnceCharged`, `RetryCorrect`, `SessionsAccounted`.
- `DeletedStays` and `ChargedCorrect`: the action properties.

`CatalogInv` says that rows that exist stay in their restaurant (`RowsStay`), what
a commit relies on of the row it read (`CommitRelies`), and that what a page has
collected agrees with some catalog it has seen (`PageRelies`). `SaleRelies` says
the same of the prices of a sale, `SessionOfSale` that nobody else knows the
session of a counter order before its answer, and `OrdersAndReplies` that answers
name stored orders with their amounts.

## 6. What is only model-checked

- Liveness: `EventsArrive`, `ListenerComesBack`, `GoneAreForgotten`. Fairness and
  ENABLED are beyond the prover. For the same reason `FeedImplemented` is about
  safety, which is all that `Feed` states.
- The four violations of section 4, which TLC shows by counterexamples.

Everything else the runs check is also proved, for all values of the constants.

## 7. What is not modelled

- Times, labels, addresses, metadata, currencies, sort orders and the texts of
  errors. A price is an abstract value, as the column stores it: that the column
  rounds to two places (0.004 becomes 0.00) is in the list of hazards only.
- `ensure_third_party_metadata`. In `TableSessions` and `OrderLifecycle` there is
  one restaurant, and requests name it; restaurants that come and go are in
  `Catalog` and `Checkout`. A request that fails a check of either kind is aborted
  like any other.
- `is_active` of a location and `expires_at` of a session: stored, and read by no
  handler that changes state.
- In `OrderLifecycle` an order's lines are part of its body; in `Checkout` an order
  has no status but stored. Requests without a key are in the model of `Checkout`
  only as far as `asked` may be `None`, which its instance does not use.
- The lists of the storefront (restaurants, locations, tables) are single queries
  whose answers nothing else depends on. Of the queue, its filter by one status, the
  age shown with an entry, and orders with the same microsecond.
- Of the fan-out: the length of the backoff, messages on channels that name no
  restaurant or with no payload (skipped), a missing `REDIS_URL` (no listener) and
  a websocket that names no restaurant (closed with 1008). redis-py may reconnect
  within `get_message`; that has the effect of `PollFails`, `Wake` and `Subscribe`.
- The seed's SELECTs and its commit are one step, and a deployment's order of
  migrating, seeding and restarting is left to `Seed` and `Restart` happening at
  any time.
- Health, metrics, logging, tracing, the cache store nothing calls, the inventory
  stub, the empty iam and integrations packages, migrations, CI and the linter:
  no state that another part reads, or no run-time behaviour.

`PROJECT.json` lists every component with its status and the reason.

## 8. What could follow

Built in this order: `CommerceRules`, `TableSessions` with `Floor`, `OrderLifecycle`
with `OrderWorkflow`, `EventFanout` with `Feed`, `Catalog`, `Checkout`, and after
each its theorems; then `KitchenScreen` and `OrderLedger`. What the plan has left:

1. A composition of `TableSessions` and `OrderLifecycle` in which closing a session
   keeps its steps. `PlacedLateOnlyByOverlap` says already who may be late; what is
   missing is the table that such an order marks after its party has left.
2. A deployment as steps: the old process serving on the migrated schema and the
   seeded rows, then the restart.
