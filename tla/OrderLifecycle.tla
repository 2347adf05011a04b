--------------------------- MODULE OrderLifecycle ---------------------------
(***************************************************************************)
(* Orders from create_order to settlement (application/commerce/service.py *)
(* and application/kitchen/service.py).  As in TableSessions a worker is a *)
(* thread with a database session of its own, each SELECT is a step that   *)
(* sees what is committed, and the commit is one step that writes the      *)
(* changed columns.  After its commit a handler reads the order again and  *)
(* publishes an event that carries what it has read.                       *)
(*                                                                         *)
(* Sessions are only closed here, and tables only change status: their own *)
(* handlers are those of TableSessions, one step each.                     *)
(***************************************************************************)
EXTENDS CommerceRules, Sequences

CONSTANTS
    Workers, Orders, Sessions, Tables,
    TableOf,            \* the table of each session, or NoTable
    Keys,               \* idempotency keys, after strip()
    Bodies,             \* what a request or a PATCH asks for: lines and notes
    NoOrder, NoSession, NoTable, NoKey, NoBody,
    MaxHistory,         \* bound: no new request for an order with this many rows
    Ops

ASSUME OrderAssumption ==
    /\ NoOrder \notin Orders
    /\ NoSession \notin Sessions
    /\ NoTable \notin Tables
    /\ NoKey \notin Keys
    /\ NoBody \notin Bodies
    /\ TableOf \in [Sessions -> Tables \cup {NoTable}]
    /\ MaxHistory \in Nat

VARIABLES
    session,        \* status of each session
    tableStatus,    \* status of each table
    order,          \* rows of table orders
    history,        \* rows of order_status_history, in commit order
    events,         \* the events published for each order, in that order
    replied,        \* successful answers to keyed POST /orders requests
    refused,        \* the keyed ones refused as their session had ended, or
                    \* by the unique constraint
    req,
    ordersMissed,   \* orders whose status others have written, and sessions
    sessionsMissed  \* they have ended, since the request of each worker came

floorVars == <<session, tableStatus>>
orderVars == <<order, history>>
answers == <<replied, refused>>
missed == <<ordersMissed, sessionsMissed>>
vars == <<floorVars, orderVars, events, answers, req, missed>>

EventType ==
    [pending |-> "order.created", accepted |-> "order.accepted",
     ready |-> "order.ready", served |-> "order.served",
     settled |-> "order.settled", canceled |-> "order.canceled"]

\* key NoKey: the request had no Idempotency-Key.  body is what the stored
\* hash covers besides the session; notes start as the body's.
OrderRow ==
    [status : OrderStatus \cup {"absent"}, session : Sessions \cup {NoSession},
     key : Keys \cup {NoKey}, body : Bodies \cup {NoBody},
     notes : Bodies \cup {NoBody}, deleted : BOOLEAN]

HistoryRow ==
    [from : OrderStatus \cup {"none"}, to : OrderStatus, actor : ActorType]

\* row is history: the handler's own row in order_status_history.
Event ==
    [type : {EventType[s] : s \in OrderStatus}, status : OrderStatus, row : Nat]

KeyedRequest == [key : Keys, session : Sessions, body : Bodies]

Reply == [key : Keys, session : Sessions, body : Bodies, order : Orders]

RequestFields ==
    [op : {"none", "create_order", "update_order", "delete_order", "transition"},
     at : {"none", "table", "lookup", "commit", "refresh", "publish"},
     o : Orders \cup {NoOrder}, s : Sessions \cup {NoSession},
     key : Keys \cup {NoKey}, body : Bodies \cup {NoBody},
     action : WorkflowAction \cup {"none"}, read : OrderStatus,
     tableRead : TableStatus, notesRead : Bodies \cup {NoBody}, row : Nat]

\* The request r has read or created its order.
HasOrder(r) ==
    \/ r.at \in {"refresh", "publish"}
    \/ r.at = "commit" /\ r.op # "create_order"

Request ==
    {r \in RequestFields :
        /\ r.op = "create_order" => r.s \in Sessions /\ r.body \in Bodies
        /\ r.op # "create_order" => r.key = NoKey
        /\ r.op = "transition" => r.action \in WorkflowAction
        /\ HasOrder(r) => r.o \in Orders
        /\ r.at \in {"refresh", "publish"} =>
               r.op \in {"create_order", "delete_order", "transition"}}

Idle ==
    [op |-> "none", at |-> "none", o |-> NoOrder, s |-> NoSession,
     key |-> NoKey, body |-> NoBody, action |-> "none", read |-> "pending",
     tableRead |-> "available", notesRead |-> NoBody, row |-> 0]

TypeOK ==
    /\ session \in [Sessions -> SessionStatus]
    /\ tableStatus \in [Tables -> TableStatus]
    /\ order \in [Orders -> OrderRow]
    /\ history \in [Orders -> Seq(HistoryRow)]
    /\ events \in [Orders -> Seq(Event)]
    /\ replied \in SUBSET Reply
    /\ refused \in SUBSET KeyedRequest
    /\ req \in [Workers -> Request]
    /\ ordersMissed \in [Workers -> SUBSET Orders]
    /\ sessionsMissed \in [Workers -> SUBSET Sessions]

NoOrderRow ==
    [status |-> "absent", session |-> NoSession, key |-> NoKey,
     body |-> NoBody, notes |-> NoBody, deleted |-> FALSE]

Init ==
    /\ session = [s \in Sessions |-> "open"]
    /\ tableStatus = [t \in Tables |-> "occupied"]
    /\ order = [o \in Orders |-> NoOrderRow]
    /\ history = [o \in Orders |-> <<>>]
    /\ events = [o \in Orders |-> <<>>]
    /\ replied = {}
    /\ refused = {}
    /\ req = [w \in Workers |-> Idle]
    /\ ordersMissed = [w \in Workers |-> {}]
    /\ sessionsMissed = [w \in Workers |-> {}]

----------------------------------------------------------------------------

Stored(o) == order[o].status # "absent"

WithKey(key) == {o \in Orders : Stored(o) /\ key # NoKey /\ order[o].key = key}

\* The hashes of request r and of order o are equal.
SamePayload(r, o) == order[o].session = r.s /\ order[o].body = r.body

\* The request r arrives and its first SELECT succeeds.
Begin(w, r) ==
    /\ r.op \in Ops
    /\ req[w] = Idle
    /\ req' = [req EXCEPT ![w] = r]
    /\ UNCHANGED <<floorVars, orderVars, events, answers, missed>>

Proceed(w, r) ==
    /\ req' = [req EXCEPT ![w] = r]
    /\ UNCHANGED <<floorVars, orderVars, events, answers, missed>>

Doing(w, op, at) == req[w].op = op /\ req[w].at = at

Done(w) ==
    /\ req' = [req EXCEPT ![w] = Idle]
    /\ ordersMissed' = [ordersMissed EXCEPT ![w] = {}]
    /\ sessionsMissed' = [sessionsMissed EXCEPT ![w] = {}]

\* A commit of w to an order, or to a session, behind the backs of all other
\* requests in progress.
Overlooked(w, v) == v # w /\ req[v] # Idle

MissOrder(w, o) ==
    /\ ordersMissed' = [v \in Workers |->
           IF Overlooked(w, v) THEN ordersMissed[v] \cup {o} ELSE ordersMissed[v]]
    /\ UNCHANGED sessionsMissed

MissSession(w, s) ==
    /\ sessionsMissed' = [v \in Workers |->
           IF Overlooked(w, v) THEN sessionsMissed[v] \cup {s} ELSE sessionsMissed[v]]
    /\ UNCHANGED ordersMissed

\* A failing check, a database error or a crash: what is not committed is
\* rolled back, what is committed stays, and nobody publishes or answers.
Abort(w) ==
    /\ req[w] # Idle
    /\ Done(w)
    /\ UNCHANGED <<floorVars, orderVars, events, answers>>

\* The answer 409 or 500 to a keyed POST; without a key nothing is recorded.
Refuse(r) ==
    refused' = refused \cup
        (IF r.key = NoKey THEN {}
         ELSE {[key |-> r.key, session |-> r.s, body |-> r.body]})

Answer(r, o) ==
    replied' = replied \cup
        (IF r.key = NoKey THEN {}
         ELSE {[key |-> r.key, session |-> r.s, body |-> r.body, order |-> o]})

\* A status change: the row of orders and the new row of its history.
Record(o, row, from, actor) ==
    /\ order' = [order EXCEPT ![o] = row]
    /\ history' = [history EXCEPT ![o] =
           Append(@, [from |-> from, to |-> row.status, actor |-> actor])]

----------------------------------------------------------------------------
(* create_order *)

CreateOrder(w) ==
    \E s \in Sessions, key \in Keys \cup {NoKey}, body \in Bodies :
        /\ SessionAcceptsOrders(session[s])
        /\ Begin(w, [Idle EXCEPT
                        !.op = "create_order", !.s = s, !.key = key, !.body = body,
                        !.at = IF TableOf[s] = NoTable THEN "lookup" ELSE "table"])

\* The session's status is checked before the key is looked up.
CreateOrderRefused(w) ==
    \E s \in Sessions, key \in Keys, body \in Bodies :
        /\ "create_order" \in Ops
        /\ req[w] = Idle
        /\ ~SessionAcceptsOrders(session[s])
        /\ Refuse([key |-> key, s |-> s, body |-> body])
        /\ UNCHANGED <<floorVars, orderVars, events, replied, req, missed>>

CreateOrderTable(w) ==
    LET t == TableOf[req[w].s] IN
    /\ Doing(w, "create_order", "table")
    /\ DineInTableReady(tableStatus[t])
    /\ Proceed(w, [req[w] EXCEPT !.at = "lookup", !.tableRead = tableStatus[t]])

CreateOrderLookup(w) ==
    /\ Doing(w, "create_order", "lookup")
    /\ WithKey(req[w].key) = {}
    /\ Proceed(w, [req[w] EXCEPT !.at = "commit"])

\* Fault: the hash is not compared.
CreateOrderReplayAny(w) ==
    /\ Doing(w, "create_order", "lookup")
    /\ \E o \in WithKey(req[w].key) : Answer(req[w], o)
    /\ Done(w)
    /\ UNCHANGED <<floorVars, orderVars, events, refused>>

\* The order exists: return it, as it is now, or refuse another payload.
CreateOrderReplay(w) ==
    /\ Doing(w, "create_order", "lookup")
    /\ \E o \in WithKey(req[w].key) : SamePayload(req[w], o) /\ Answer(req[w], o)
    /\ Done(w)
    /\ UNCHANGED <<floorVars, orderVars, events, refused>>

\* Fault: uq_orders_restaurant_idempotency does not exist.
CreateOrderUnconstrained(w) ==
    LET r == req[w] IN
    /\ Doing(w, "create_order", "commit")
    /\ \E o \in Orders :
        /\ ~Stored(o)
        /\ Record(o, [status |-> "pending", session |-> r.s, key |-> r.key,
                      body |-> r.body, notes |-> r.body, deleted |-> FALSE],
                  "none", "system")
        /\ req' = [req EXCEPT ![w] = [r EXCEPT !.at = "refresh", !.o = o, !.row = 1]]
        /\ MissOrder(w, o)
    /\ UNCHANGED <<floorVars, events, answers>>

\* The unique constraint admits the row.  A table read as available is marked.
CreateOrderCommit(w) ==
    LET r == req[w]
        t == TableOf[r.s] IN
    /\ Doing(w, "create_order", "commit")
    /\ WithKey(r.key) = {}
    /\ \E o \in Orders :
        /\ ~Stored(o)
        /\ Record(o, [status |-> "pending", session |-> r.s, key |-> r.key,
                      body |-> r.body, notes |-> r.body, deleted |-> FALSE],
                  "none", "system")
        /\ req' = [req EXCEPT ![w] = [r EXCEPT !.at = "refresh", !.o = o, !.row = 1]]
        /\ MissOrder(w, o)
    /\ IF t # NoTable /\ r.tableRead = "available"
         THEN tableStatus' = [tableStatus EXCEPT ![t] = "occupied"]
         ELSE UNCHANGED tableStatus
    /\ UNCHANGED <<session, events, answers>>

\* It does not: the IntegrityError ends as a 500.
CreateOrderCollision(w) ==
    /\ Doing(w, "create_order", "commit")
    /\ WithKey(req[w].key) # {}
    /\ Refuse(req[w])
    /\ Done(w)
    /\ UNCHANGED <<floorVars, orderVars, events, replied>>

----------------------------------------------------------------------------
(* update_order, delete_order, transition *)

BeginChange(w, o, r) ==
    /\ Stored(o)
    /\ Len(history[o]) < MaxHistory
    /\ Begin(w, [r EXCEPT !.at = "commit", !.o = o, !.read = order[o].status])

UpdateOrder(w) ==
    \E o \in Orders, notes \in Bodies :
        /\ CanPatchOrder(order[o].status)
        /\ BeginChange(w, o, [Idle EXCEPT !.op = "update_order", !.body = notes,
                                          !.notesRead = order[o].notes])

\* Fault: the UPDATE writes the status column as the handler has it.
UpdateOrderWholeRow(w) ==
    LET r == req[w] IN
    /\ Doing(w, "update_order", "commit")
    /\ order' = [order EXCEPT ![r.o].notes = r.body, ![r.o].status = r.read]
    /\ Done(w)
    /\ UNCHANGED <<floorVars, history, events, answers>>

UpdateOrderCommit(w) ==
    LET r == req[w] IN
    /\ Doing(w, "update_order", "commit")
    /\ order' = [order EXCEPT
           ![r.o].notes = IF r.body = r.notesRead THEN @ ELSE r.body]
    /\ Done(w)
    /\ UNCHANGED <<floorVars, history, events, answers>>

\* Fault: an order may be deleted at any stage.
DeleteOrderAnyStage(w) ==
    \E o \in Orders : BeginChange(w, o, [Idle EXCEPT !.op = "delete_order"])

DeleteOrder(w) ==
    \E o \in Orders :
        /\ CanDeleteOrder(order[o].status)
        /\ BeginChange(w, o, [Idle EXCEPT !.op = "delete_order"])

\* Fault: the status is not set, only the history and deleted_at.
DeleteOrderUncanceled(w) ==
    LET o == req[w].o IN
    /\ Doing(w, "delete_order", "commit")
    /\ Record(o, [order[o] EXCEPT !.deleted = TRUE], "pending", "staff")
    /\ req' = [req EXCEPT ![w].at = "refresh", ![w].row = Len(history[o]) + 1]
    /\ MissOrder(w, o)
    /\ UNCHANGED <<floorVars, events, answers>>

DeleteOrderCommit(w) ==
    LET o == req[w].o IN
    /\ Doing(w, "delete_order", "commit")
    /\ Record(o, [order[o] EXCEPT !.status = "canceled", !.deleted = TRUE],
              "pending", "staff")
    /\ req' = [req EXCEPT ![w].at = "refresh", ![w].row = Len(history[o]) + 1]
    /\ MissOrder(w, o)
    /\ UNCHANGED <<floorVars, events, answers>>

\* Fault: apply_action does not compare the status with the required one.
TransitionAnyStage(w) ==
    \E o \in Orders, action \in WorkflowAction :
        BeginChange(w, o, [Idle EXCEPT !.op = "transition", !.action = action])

\* accept, ready, served, settled
Transition(w) ==
    \E o \in Orders, action \in WorkflowAction :
        /\ Stored(o)
        /\ ActionAllowed(order[o].status, action)
        /\ BeginChange(w, o, [Idle EXCEPT !.op = "transition", !.action = action])

\* Fault: the row gets the name of the action, not the status it leads to.
TransitionToAction(w) ==
    LET r == req[w] IN
    /\ Doing(w, "transition", "commit")
    /\ Record(r.o, [order[r.o] EXCEPT !.status = r.action],
              r.read, ActorOf(r.action))
    /\ req' = [req EXCEPT ![w].at = "refresh", ![w].row = Len(history[r.o]) + 1]
    /\ MissOrder(w, r.o)
    /\ UNCHANGED <<floorVars, events, answers>>

\* The new status differs from the one read: the column is always written.
TransitionCommit(w) ==
    LET r == req[w] IN
    /\ Doing(w, "transition", "commit")
    /\ Record(r.o, [order[r.o] EXCEPT !.status = ApplyAction(r.action)],
              r.read, ActorOf(r.action))
    /\ req' = [req EXCEPT ![w].at = "refresh", ![w].row = Len(history[r.o]) + 1]
    /\ MissOrder(w, r.o)
    /\ UNCHANGED <<floorVars, events, answers>>

----------------------------------------------------------------------------
(* After the commit *)

\* Fault: the payload is put together from the order as it was before the change.
RefreshBeforeChange(w) ==
    /\ req[w].at = "refresh"
    /\ Proceed(w, [req[w] EXCEPT !.at = "publish"])

Refresh(w) ==
    /\ req[w].at = "refresh"
    /\ Proceed(w, [req[w] EXCEPT !.at = "publish", !.read = order[req[w].o].status])

\* Fault: the type of the event is taken from the order that was read again.
EventOfStatus(r) == EventType[r.read]

\* The type of the event is fixed by the route.
EventOf(r) ==
    CASE r.op = "create_order" -> "order.created"
      [] r.op = "delete_order" -> "order.canceled"
      [] OTHER -> EventType[ApplyAction(r.action)]

\* Publish and answer.  An error of Redis is swallowed: the event is lost.
Publish(w) ==
    LET r == req[w] IN
    /\ r.at = "publish"
    /\ \/ events' = [events EXCEPT ![r.o] =
              Append(@, [type |-> EventOf(r), status |-> r.read, row |-> r.row])]
       \/ UNCHANGED events
    /\ Answer(r, r.o)
    /\ Done(w)
    /\ UNCHANGED <<floorVars, orderVars, refused>>

----------------------------------------------------------------------------
(* The kitchen's screen *)

InWork == {"pending", "accepted", "ready"}

\* What queue shows when no status is asked for, but for the limit: it takes the
\* oldest ones.
Queue == {o \in Orders : order[o].status \in InWork /\ ~order[o].deleted}

----------------------------------------------------------------------------
(* The floor: handlers of TableSessions, one step each *)

\* update_session and delete_session
CloseSession(w) ==
    \E s \in Sessions, to \in SessionStatus \ {"open"} :
        /\ "close_session" \in Ops
        /\ req[w] = Idle
        /\ session' = [session EXCEPT ![s] = to]
        /\ tableStatus' = [t \in Tables |->
               IF t = TableOf[s] THEN "available" ELSE tableStatus[t]]
        /\ MissSession(w, s)
        /\ UNCHANGED <<orderVars, events, answers, req>>

\* update_table
SetTable(w) ==
    \E t \in Tables, status \in TableStatus :
        /\ "update_table" \in Ops
        /\ req[w] = Idle
        /\ tableStatus' = [tableStatus EXCEPT ![t] = status]
        /\ UNCHANGED <<session, orderVars, events, answers, req, missed>>

----------------------------------------------------------------------------

Creating(w) ==
    \/ CreateOrder(w) \/ CreateOrderRefused(w) \/ CreateOrderTable(w)
    \/ CreateOrderLookup(w) \/ CreateOrderReplay(w)
    \/ CreateOrderCommit(w) \/ CreateOrderCollision(w)

Changing(w) ==
    \/ UpdateOrder(w) \/ UpdateOrderCommit(w)
    \/ DeleteOrder(w) \/ DeleteOrderCommit(w)
    \/ Transition(w) \/ TransitionCommit(w)

Finishing(w) == Refresh(w) \/ Publish(w) \/ Abort(w)

Floor(w) == CloseSession(w) \/ SetTable(w)

Next ==
    \E w \in Workers : Creating(w) \/ Changing(w) \/ Finishing(w) \/ Floor(w)

Spec == Init /\ [][Next]_vars

----------------------------------------------------------------------------
(* What holds however many requests are in progress *)

\* An idempotency key names at most one order, also when two first requests
\* with the key run at once and neither sees the other's order.
OneOrderPerKey ==
    \A o, p \in Orders :
        Stored(o) /\ Stored(p) /\ order[o].key = order[p].key /\ order[o].key # NoKey
            => o = p

\* All successful answers to one key name the same order, and answer the same
\* payload: a retry is told of the original order, never of another one.
SameAnswerPerKey ==
    \A a, b \in replied : a.key = b.key => a = b

\* The last row of the history is the order's status: no commit, that of a
\* concurrent PATCH included, changes the status without leaving a row.
HistoryTellsStatus ==
    \A o \in Orders : Stored(o) =>
        /\ history[o] # <<>>
        /\ history[o][Len(history[o])].to = order[o].status

WorkflowEdges ==
    {<<Required[a], TargetStatus[a]>> : a \in WorkflowAction}
        \cup {<<"pending", "canceled">>}

\* The history starts with the creation, and every other row is a step of the
\* workflow from a status that an earlier row led to.  Overlapping requests may
\* repeat a step, but never skip one: an order settles only after it was
\* accepted, ready and served.
HistoryFollowsWorkflow ==
    \A o \in Orders : \A i \in 1..Len(history[o]) :
        LET row == history[o][i] IN
        IF i = 1 THEN row.from = "none" /\ row.to = "pending"
        ELSE /\ <<row.from, row.to>> \in WorkflowEdges
             /\ \E j \in 1..(i - 1) : history[o][j].to = row.from

\* An event announces a committed row of the history, each row at most once,
\* with a status the order had from that row on.
EventsTellHistory ==
    \A o \in Orders : \A i \in 1..Len(events[o]) :
        LET e == events[o][i] IN
        /\ e.row \in 1..Len(history[o])
        /\ e.type = EventType[history[o][e.row].to]
        /\ \E j \in e.row..Len(history[o]) : history[o][j].to = e.status
        /\ \A k \in 1..(i - 1) : events[o][k].row # e.row

\* An order that is to be worked on is on the kitchen's screen, unless a request
\* that overlapped its cancellation moved it on from there: nobody sees it then,
\* but its history shows both.
OffQueueOnlyByOverlap ==
    \A o \in Orders : order[o].status \in InWork /\ o \notin Queue =>
        \E i, j \in 1..Len(history[o]) :
            /\ i < j
            /\ history[o][i].to = "canceled"
            /\ history[o][j].to = order[o].status

(***************************************************************************)
(* The inductive invariant behind the first four.  A request that has read *)
(* its order relies on what no other request undoes: that the order is     *)
(* there, that an order it created keeps its key and payload, and that the *)
(* status a transition starts from was once reached.                       *)
(***************************************************************************)
Relies(r) ==
    /\ HasOrder(r) => Stored(r.o)
    /\ HasOrder(r) /\ r.op = "create_order" =>
           order[r.o].key = r.key /\ SamePayload(r, r.o)
    /\ r.at = "commit" /\ r.op = "transition" =>
           /\ r.read = Required[r.action]
           /\ \E i \in 1..Len(history[r.o]) : history[r.o][i].to = r.read

\* An answer names a stored order that has its key and payload.
AnswersStored ==
    \A a \in replied :
        /\ Stored(a.order)
        /\ order[a.order].key = a.key
        /\ order[a.order].session = a.session
        /\ order[a.order].body = a.body

NothingBefore ==
    \A o \in Orders : ~Stored(o) => history[o] = <<>> /\ order[o].key = NoKey

OrderInv ==
    /\ TypeOK
    /\ OneOrderPerKey
    /\ HistoryTellsStatus
    /\ HistoryFollowsWorkflow
    /\ NothingBefore
    /\ AnswersStored
    /\ \A w \in Workers : Relies(req[w])

(***************************************************************************)
(* The one behind the other two.  A request that has committed is the only *)
(* one to announce its row of the history, and carries a status that the   *)
(* order had from that row on.                                             *)
(***************************************************************************)
Announces(w) ==
    LET r == req[w] IN
    r.at \in {"refresh", "publish"} =>
        /\ r.row \in 1..Len(history[r.o])
        /\ EventOf(r) = EventType[history[r.o][r.row].to]
        /\ \A k \in 1..Len(events[r.o]) : events[r.o][k].row # r.row
        /\ \A u \in Workers \ {w} :
               req[u].at \in {"refresh", "publish"} /\ req[u].o = r.o => req[u].row # r.row
        /\ r.at = "publish" =>
               \E j \in r.row..Len(history[r.o]) : history[r.o][j].to = r.read

DeletedWasCanceled ==
    \A o \in Orders : order[o].deleted =>
        \E i \in 1..Len(history[o]) : history[o][i].to = "canceled"

EventInv ==
    /\ OrderInv
    /\ EventsTellHistory
    /\ DeletedWasCanceled
    /\ \A w \in Workers : Announces(w)

\* A step of w that writes or announces an order o which another request has
\* changed since w read it.
Overlap(w, o) ==
    req'[w] # req[w] /\ req[w].at \in {"commit", "publish"} /\ o \in ordersMissed[w]

(***************************************************************************)
(* The workflow as the kitchen and the guest see it (module OrderWorkflow).*)
(***************************************************************************)
W == INSTANCE OrderWorkflow
        WITH status <- [o \in Orders |-> order[o].status],
             notes <- [o \in Orders |-> order[o].notes]

\* Every step is one of the workflow, or is a commit that writes over what another
\* request has done to its order (the checks of service.py:736, 751 and workflow.py
\* are made on what was read, and the UPDATE has no condition).
LeavesWorkflowOnlyByOverlap ==
    [][\/ [W!Next]_<<[o \in Orders |-> order[o].status],
                     [o \in Orders |-> order[o].notes]>>
       \/ \E w \in Workers : req[w].at = "commit" /\ Overlap(w, req[w].o)]_vars

\* An event comes after those of earlier rows and carries the status of its own row,
\* unless another request has changed the order since its request came.
EventsOutOfOrderOnlyByOverlap ==
    [][\A o \in Orders : events'[o] # events[o] =>
          LET e == events'[o][Len(events'[o])] IN
          \/ /\ e.status = history[o][e.row].to
             /\ \A k \in 1..Len(events[o]) : events[o][k].row < e.row
          \/ \E w \in Workers : req[w].o = o /\ Overlap(w, o)]_vars

\* An order is placed in a session that is open when it is committed
\* (rules.py:35-45), and a table marked as occupied with it only if that session
\* sits there, not for a party that has left (service.py:722): unless the session
\* was ended while the request was in progress.
PlacedLateOnlyByOverlap ==
    [][\A o \in Orders : ~Stored(o) /\ Stored(o)' =>
          LET s == order'[o].session IN
          /\ \A t \in Tables : tableStatus'[t] # tableStatus[t] => t = TableOf[s]
          /\ \/ session[s] = "open"
             \/ \E w \in Workers :
                    req[w].s = s /\ req'[w].o = o /\ s \in sessionsMissed[w]]_vars

(***************************************************************************)
(* The invariant behind these.  What a request has read is still so, and   *)
(* the row it is to announce is the last one of the history, unless others *)
(* have been there.                                                        *)
(***************************************************************************)
OverlapRelies(w) ==
    LET r == req[w] IN
    /\ r.op = "create_order" /\ r.at \in {"table", "lookup", "commit"} =>
           session[r.s] = "open" \/ r.s \in sessionsMissed[w]
    /\ r.at = "commit" /\ r.op # "create_order" =>
           order[r.o].status = r.read \/ r.o \in ordersMissed[w]
    /\ r.at = "commit" /\ r.op = "update_order" =>
           CanPatchOrder(r.read) /\ r.body \in Bodies
    /\ r.at = "commit" /\ r.op = "delete_order" => CanDeleteOrder(r.read)
    /\ r.at \in {"refresh", "publish"} =>
           r.row = Len(history[r.o]) \/ r.o \in ordersMissed[w]
    /\ r.at = "publish" =>
           r.read = history[r.o][r.row].to \/ r.o \in ordersMissed[w]

OverlapInv == EventInv /\ \A w \in Workers : OverlapRelies(w)

(***************************************************************************)
(* The record of the orders (module OrderLedger).                          *)
(***************************************************************************)
placed ==
    [o \in Orders |->
        [key |-> order[o].key, session |-> order[o].session, body |-> order[o].body]]

L == INSTANCE OrderLedger
        WITH rows <- history, told <- replied, announced <- events

\* The handlers implement the ledger, however many of them run at once: nothing that
\* was written, answered or announced is changed or taken back by another request.
ImplementsLedger == L!Spec

----------------------------------------------------------------------------
(* What holds when requests are handled one at a time *)

\* Events of an order come in the order of its history and carry the status
\* of their own row.
EventsInOrder ==
    \A o \in Orders : \A i \in 1..Len(events[o]) :
        LET e == events[o][i] IN
        /\ e.status = history[o][e.row].to
        /\ \A k \in 1..(i - 1) : events[o][k].row < e.row

\* With one worker every order that is to be worked on is on the kitchen's screen.
WorkIsOnQueue == {o \in Orders : order[o].status \in InWork} = Queue

\* An order is created only in a session that is open when it is committed, and a
\* table is marked occupied with it only if that session sits there.
OrdersInOpenSessions ==
    [][\A o \in Orders : ~Stored(o) /\ Stored(o)' =>
          LET s == order'[o].session IN
          /\ session[s] = "open"
          /\ \A t \in Tables : tableStatus'[t] # tableStatus[t] => t = TableOf[s]]_vars

\* The handlers implement the workflow.
ImplementsWorkflow == W!Spec

(***************************************************************************)
(* The invariant behind these: a lone request misses nothing.              *)
(***************************************************************************)
NothingMissed ==
    \A w \in Workers : ordersMissed[w] = {} /\ sessionsMissed[w] = {}

DeletedIsCanceled ==
    \A o \in Orders : order[o].deleted => order[o].status = "canceled"

LoneInv ==
    /\ OverlapInv
    /\ NothingMissed
    /\ EventsInOrder
    /\ DeletedIsCanceled

----------------------------------------------------------------------------
(* What the repository says and the code does not do *)

\* A canceled order was not accepted before.
CanceledBeforeKitchen ==
    \A o \in Orders : order[o].status = "canceled" =>
        \A i \in 1..Len(history[o]) : history[o][i].to # "accepted"

\* A keyed request equal to the one that made a stored order is not refused.
RetryIsAnswered ==
    \A f \in refused : \A o \in WithKey(f.key) :
        ~(order[o].session = f.session /\ order[o].body = f.body)

=============================================================================
