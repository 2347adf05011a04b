------------------------ MODULE OrderLifecycle_proofs ------------------------
(***************************************************************************)
(* Proofs about OrderLifecycle, for any number of requests in progress.    *)
(* OrderInv is inductive: only two kinds of commit touch what it says of   *)
(* the rows, one that places an order and one that advances it (PlaceRows, *)
(* AdvanceRows), and every commit keeps what requests and answers rely on  *)
(* (Keeps).  EventInv adds what is announced, and OverlapInv what a        *)
(* request has read and nobody has written since; with one worker nobody   *)
(* has (LoneInv).                                                          *)
(***************************************************************************)
EXTENDS OrderLifecycle, TLAPS

\* What OrderInv says of orders and history alone.
RowInv ==
    /\ OneOrderPerKey
    /\ HistoryTellsStatus
    /\ HistoryFollowsWorkflow
    /\ NothingBefore

\* A step keeps every stored order, its key and payload, and its history.
Keeps ==
    \A o \in Orders : Stored(o) =>
        /\ order'[o].status # "absent"
        /\ order'[o].key = order[o].key
        /\ order'[o].session = order[o].session
        /\ order'[o].body = order[o].body
        /\ Len(history[o]) <= Len(history'[o])
        /\ \A i \in 1..Len(history[o]) : history'[o][i] = history[o][i]

----------------------------------------------------------------------------
(* The rows *)

\* Rows and what Record does to them, with their types.
LEMMA RecordRows ==
  ASSUME TypeOK, NEW o \in Orders, NEW row \in OrderRow, NEW from, NEW actor,
         Record(o, row, from, actor)
  PROVE  /\ order'[o] = row
         /\ history'[o] = Append(history[o], [from |-> from, to |-> row.status,
                                              actor |-> actor])
         /\ \A p \in Orders : p # o =>
               order'[p] = order[p] /\ history'[p] = history[p]
  BY DEF Record, TypeOK

\* The last row of an appended history, and the ones before it.
LEMMA AppendRows ==
  ASSUME NEW h \in Seq(HistoryRow), NEW new
  PROVE  /\ Len(h) \in Nat
         /\ Len(Append(h, new)) = Len(h) + 1
         /\ \A i \in 1..Len(h) : Append(h, new)[i] = h[i]
         /\ Append(h, new)[Len(h) + 1] = new
         /\ Append(h, new) # <<>>
<1>1. Len(h) \in Nat /\ Len(Append(h, new)) = Len(h) + 1
  OBVIOUS
<1>2. \A i \in 1..Len(h) : Append(h, new)[i] = h[i]
  OBVIOUS
<1>3. Append(h, new)[Len(h) + 1] = new
  OBVIOUS
<1>4. Append(h, new) # <<>>
  BY <1>1
<1>5. QED
  BY <1>1, <1>2, <1>3, <1>4

\* The commit of create_order: the unique constraint admits the key.
LEMMA PlaceRows ==
  ASSUME TypeOK, RowInv, NEW o \in Orders, ~Stored(o), NEW row \in OrderRow,
         row.status = "pending", WithKey(row.key) = {},
         Record(o, row, "none", "system")
  PROVE  RowInv' /\ Keeps
<1>1. /\ order'[o] = row
      /\ history'[o] = Append(history[o], [from |-> "none", to |-> row.status,
                                           actor |-> "system"])
      /\ \A p \in Orders : p # o => order'[p] = order[p] /\ history'[p] = history[p]
  BY RecordRows
<1>2. history[o] = <<>>
  BY DEF RowInv, NothingBefore
<1>3. /\ Len(history'[o]) = 1
      /\ history'[o][1].from = "none"
      /\ history'[o][1].to = "pending"
      /\ history'[o] # <<>>
  BY <1>1, <1>2
<1>4. OneOrderPerKey'
  BY <1>1 DEF RowInv, OneOrderPerKey, WithKey, Stored
<1>5. HistoryTellsStatus'
  BY <1>1, <1>3 DEF RowInv, HistoryTellsStatus, Stored
<1>6. HistoryFollowsWorkflow'
  <2> SUFFICES ASSUME NEW p \in Orders, NEW i \in 1..Len(history'[p])
               PROVE  IF i = 1 THEN history'[p][i].from = "none" /\ history'[p][i].to = "pending"
                      ELSE /\ <<history'[p][i].from, history'[p][i].to>> \in WorkflowEdges
                           /\ \E j \in 1..(i - 1) : history'[p][j].to = history'[p][i].from
    BY DEF HistoryFollowsWorkflow, WorkflowEdges
  <2>1. CASE p = o
    BY <1>3, <2>1
  <2>2. CASE p # o
    BY <1>1, <2>2 DEF RowInv, HistoryFollowsWorkflow
  <2>3. QED
    BY <2>1, <2>2
<1>7. NothingBefore'
  BY <1>1 DEF RowInv, NothingBefore, Stored
<1>8. Keeps
  <2> SUFFICES ASSUME NEW p \in Orders, Stored(p)
               PROVE  /\ order'[p] = order[p]
                      /\ history'[p] = history[p]
                      /\ Len(history[p]) \in Nat
    BY DEF Keeps, Stored
  <2>1. history[p] \in Seq(HistoryRow)
    BY DEF TypeOK
  <2>2. QED
    BY <1>1, <2>1
<1>9. QED
  BY <1>4, <1>5, <1>6, <1>7, <1>8 DEF RowInv

\* A commit that changes the status of a stored order by a step of the
\* workflow, from a status its history holds.
LEMMA AdvanceRows ==
  ASSUME TypeOK, RowInv, NEW o \in Orders, Stored(o), NEW row \in OrderRow,
         row.status # "absent", row.key = order[o].key,
         row.session = order[o].session, row.body = order[o].body,
         NEW from, NEW actor, <<from, row.status>> \in WorkflowEdges,
         \E i \in 1..Len(history[o]) : history[o][i].to = from,
         Record(o, row, from, actor)
  PROVE  RowInv' /\ Keeps
<1>1. /\ order'[o] = row
      /\ history'[o] = Append(history[o], [from |-> from, to |-> row.status,
                                           actor |-> actor])
      /\ \A p \in Orders : p # o => order'[p] = order[p] /\ history'[p] = history[p]
  BY RecordRows
<1>2. /\ Len(history[o]) \in Nat
      /\ Len(history'[o]) = Len(history[o]) + 1
      /\ \A i \in 1..Len(history[o]) : history'[o][i] = history[o][i]
      /\ history'[o][Len(history[o]) + 1].from = from
      /\ history'[o][Len(history[o]) + 1].to = row.status
      /\ history'[o] # <<>>
  <2> DEFINE new == [from |-> from, to |-> row.status, actor |-> actor]
  <2>1. history[o] \in Seq(HistoryRow)
    BY DEF TypeOK
  <2>2. history'[o] = Append(history[o], new) /\ new.from = from /\ new.to = row.status
    BY <1>1
  <2> HIDE DEF new
  <2>3. QED
    BY <2>1, <2>2, AppendRows
<1>3. OneOrderPerKey'
  BY <1>1 DEF RowInv, OneOrderPerKey, Stored
<1>4. HistoryTellsStatus'
  BY <1>1, <1>2 DEF RowInv, HistoryTellsStatus, Stored
<1>5. HistoryFollowsWorkflow'
  <2> SUFFICES ASSUME NEW p \in Orders, NEW i \in 1..Len(history'[p])
               PROVE  IF i = 1 THEN history'[p][i].from = "none" /\ history'[p][i].to = "pending"
                      ELSE /\ <<history'[p][i].from, history'[p][i].to>> \in WorkflowEdges
                           /\ \E j \in 1..(i - 1) : history'[p][j].to = history'[p][i].from
    BY DEF HistoryFollowsWorkflow, WorkflowEdges
  <2>1. CASE p # o
    BY <1>1, <2>1, SMTT(30) DEF RowInv, HistoryFollowsWorkflow
  <2>2. CASE p = o /\ i \in 1..Len(history[o])
    <3>1. history'[p][i] = history[o][i]
      BY <1>2, <2>2
    <3>2. \A j \in 1..(i - 1) : history'[p][j] = history[o][j]
      BY <1>2, <2>2
    <3>3. QED
      BY <2>2, <3>1, <3>2 DEF RowInv, HistoryFollowsWorkflow
  <2>3. CASE p = o /\ i \notin 1..Len(history[o])
    <3>1. i = Len(history[o]) + 1
      BY <1>2, <2>3
    <3>2. PICK j \in 1..Len(history[o]) : history[o][j].to = from
      OBVIOUS
    <3>3. i # 1 /\ j \in 1..(i - 1)
      BY <1>2, <3>1, <3>2
    <3>4. QED
      BY <1>2, <2>3, <3>1, <3>2, <3>3
  <2>4. QED
    BY <2>1, <2>2, <2>3
<1>6. NothingBefore'
  BY <1>1 DEF RowInv, NothingBefore, Stored
<1>7. Keeps
  <2> SUFFICES ASSUME NEW p \in Orders, Stored(p)
               PROVE  /\ order'[p].status # "absent"
                      /\ order'[p].key = order[p].key
                      /\ order'[p].session = order[p].session
                      /\ order'[p].body = order[p].body
                      /\ Len(history[p]) <= Len(history'[p])
                      /\ \A i \in 1..Len(history[p]) : history'[p][i] = history[p][i]
    BY DEF Keeps
  <2>1. CASE p = o
    BY <1>1, <1>2, <2>1
  <2>2. CASE p # o
    <3>1. history[p] \in Seq(HistoryRow)
      BY DEF TypeOK
    <3>2. Len(history[p]) \in Nat
      BY <3>1
    <3>3. QED
      BY <1>1, <2>2, <3>2 DEF Stored
  <2>3. QED
    BY <2>1, <2>2
<1>8. QED
  BY <1>3, <1>4, <1>5, <1>6, <1>7 DEF RowInv

\* A commit of notes leaves the rest as it is.
LEMMA NotesRows ==
  ASSUME TypeOK, RowInv, UNCHANGED history,
         \A o \in Orders : /\ order'[o].status = order[o].status
                           /\ order'[o].key = order[o].key
                           /\ order'[o].session = order[o].session
                           /\ order'[o].body = order[o].body
  PROVE  RowInv' /\ Keeps
<1>1. \A o \in Orders : Stored(o)' <=> Stored(o)
  BY DEF Stored
<1>2. \A o \in Orders : Len(history[o]) \in Nat
  <2> SUFFICES ASSUME NEW o \in Orders PROVE Len(history[o]) \in Nat
    OBVIOUS
  <2>1. history[o] \in Seq(HistoryRow)
    BY DEF TypeOK
  <2>2. QED
    BY <2>1
<1>3. OneOrderPerKey' /\ HistoryTellsStatus' /\ NothingBefore'
  BY <1>1 DEF RowInv, OneOrderPerKey, HistoryTellsStatus, NothingBefore
<1>4. HistoryFollowsWorkflow'
  BY DEF RowInv, HistoryFollowsWorkflow, WorkflowEdges
<1>5. Keeps
  BY <1>2 DEF Keeps, Stored
<1>6. QED
  BY <1>3, <1>4, <1>5 DEF RowInv

----------------------------------------------------------------------------
(* Requests *)

\* A worker with nothing to do is a well-formed request state.
LEMMA IdleType == Idle \in Request /\ ~HasOrder(Idle) /\ Idle.key = NoKey
  BY DEF Idle, Request, RequestFields, HasOrder, OrderStatus, TableStatus

\* The columns of well-formed rows.
LEMMA RowTypes ==
  ASSUME TypeOK, NEW o \in Orders
  PROVE  /\ order[o] \in OrderRow
         /\ order[o].status \in OrderStatus \cup {"absent"}
         /\ order[o].session \in Sessions \cup {NoSession}
         /\ order[o].key \in Keys \cup {NoKey}
         /\ order[o].body \in Bodies \cup {NoBody}
         /\ order[o].notes \in Bodies \cup {NoBody}
         /\ history[o] \in Seq(HistoryRow)
         /\ Len(history[o]) \in Nat
<1>1. order[o] \in OrderRow /\ history[o] \in Seq(HistoryRow)
  BY DEF TypeOK
<1>2. QED
  BY <1>1 DEF OrderRow

\* The fields of a well-formed request.
LEMMA RequestTypes ==
  ASSUME NEW r \in Request
  PROVE  /\ r.s \in Sessions \cup {NoSession}
         /\ r.o \in Orders \cup {NoOrder}
         /\ r.key \in Keys \cup {NoKey}
         /\ r.body \in Bodies \cup {NoBody}
         /\ r.read \in OrderStatus
         /\ r.tableRead \in TableStatus
         /\ r.row \in Nat
         /\ r.op = "create_order" => r.s \in Sessions /\ r.body \in Bodies
         /\ r.op # "create_order" => r.key = NoKey
         /\ r.op = "transition" => r.action \in WorkflowAction
         /\ HasOrder(r) => r.o \in Orders
         /\ r.at \in {"refresh", "publish"} =>
                r.op \in {"create_order", "delete_order", "transition"}
  BY DEF Request, RequestFields

\* What others have written meanwhile is noted as orders and sessions.
MissedTypeOK ==
    /\ ordersMissed \in [Workers -> SUBSET Orders]
    /\ sessionsMissed \in [Workers -> SUBSET Sessions]

LEMMA MissedType ==
  ASSUME TypeOK, NEW w \in Workers,
         Creating(w) \/ Changing(w) \/ Finishing(w) \/ Floor(w)
  PROVE  MissedTypeOK'
<1>1. MissedTypeOK
  BY DEF TypeOK, MissedTypeOK
<1>2. \A o \in Orders : MissOrder(w, o) => MissedTypeOK'
  BY <1>1 DEF MissOrder, MissedTypeOK
<1>3. \A s \in Sessions : MissSession(w, s) => MissedTypeOK'
  BY <1>1 DEF MissSession, MissedTypeOK
<1>4. Done(w) \/ UNCHANGED missed => MissedTypeOK'
  BY <1>1 DEF Done, missed, MissedTypeOK
<1>5. CASE DeleteOrderCommit(w) \/ TransitionCommit(w)
  <2>1. req[w] \in Request /\ HasOrder(req[w])
    BY <1>5 DEF DeleteOrderCommit, TransitionCommit, Doing, HasOrder, TypeOK
  <2>2. req[w].o \in Orders
    BY <2>1, RequestTypes
  <2>3. QED
    BY <1>2, <1>5, <2>2 DEF DeleteOrderCommit, TransitionCommit
<1>6. CASE CreateOrderCommit(w)
  BY <1>2, <1>6 DEF CreateOrderCommit
<1>7. CASE CloseSession(w)
  BY <1>3, <1>7 DEF CloseSession
<1>8. QED
  BY <1>4, <1>5, <1>6, <1>7
     DEF Creating, Changing, Finishing, Floor, CreateOrder, CreateOrderRefused,
         CreateOrderTable, CreateOrderLookup, CreateOrderReplay, CreateOrderCollision,
         UpdateOrder, UpdateOrderCommit, DeleteOrder, Transition, Refresh, Publish,
         Abort, SetTable, BeginChange, Begin, Proceed

\* What a request relies on survives a step that Keeps.
LEMMA ReliesKept ==
  ASSUME TypeOK, Keeps
  PROVE  \A r \in Request : Relies(r) => Relies(r)'
<1> SUFFICES ASSUME NEW r \in Request, Relies(r) PROVE Relies(r)'
  OBVIOUS
<1>1. HasOrder(r) => r.o \in Orders /\ Stored(r.o)
  BY RequestTypes DEF Relies
<1>2. CASE ~HasOrder(r)
  BY <1>2 DEF Relies, HasOrder
<1>3. CASE HasOrder(r)
  <2>1. /\ Stored(r.o)'
        /\ order'[r.o].key = order[r.o].key
        /\ order'[r.o].session = order[r.o].session
        /\ order'[r.o].body = order[r.o].body
    BY <1>1, <1>3 DEF Keeps, Stored
  <2>2. /\ Len(history[r.o]) \in Nat
        /\ Len(history'[r.o]) \in Nat => 1..Len(history[r.o]) \subseteq 1..Len(history'[r.o])
        /\ \A i \in 1..Len(history[r.o]) :
              i <= Len(history'[r.o]) /\ history'[r.o][i] = history[r.o][i]
    BY <1>1, <1>3, RowTypes DEF Keeps
  <2>3. QED
    BY <1>3, <2>1, <2>2 DEF Relies, SamePayload
<1>4. QED
  BY <1>2, <1>3

\* So do the answers that were given.
LEMMA AnswersKept ==
  ASSUME TypeOK, AnswersStored, Keeps
  PROVE  \A a \in replied :
            /\ Stored(a.order)'
            /\ order'[a.order].key = a.key
            /\ order'[a.order].session = a.session
            /\ order'[a.order].body = a.body
<1>1. \A a \in replied : a.order \in Orders
  BY DEF TypeOK, Reply
<1>2. QED
  BY <1>1 DEF AnswersStored, Keeps, Stored

\* A step that keeps rows and types, and after which the only request that
\* changed relies on what is there, preserves the invariant.
LEMMA StepInv ==
  ASSUME OrderInv, RowInv', Keeps,
         NEW w \in Workers, NEW r \in Request,
         req' = [req EXCEPT ![w] = r], Relies(r)',
         session' \in [Sessions -> SessionStatus],
         tableStatus' \in [Tables -> TableStatus],
         order' \in [Orders -> OrderRow],
         history' \in [Orders -> Seq(HistoryRow)],
         events' \in [Orders -> Seq(Event)],
         replied' \in SUBSET Reply, refused' \in SUBSET KeyedRequest,
         AnswersStored', MissedTypeOK'
  PROVE  OrderInv'
<1>1. TypeOK'
  BY DEF OrderInv, TypeOK, MissedTypeOK
<1>2. \A v \in Workers : Relies(req[v])'
  <2> SUFFICES ASSUME NEW v \in Workers PROVE Relies(req[v])'
    OBVIOUS
  <2>1. CASE v = w
    <3>1. req'[v] = r
      BY <2>1 DEF OrderInv, TypeOK
    <3>2. QED
      BY <3>1 DEF Relies
  <2>2. CASE v # w
    <3>1. req'[v] = req[v] /\ req[v] \in Request /\ Relies(req[v])
      BY <2>2 DEF OrderInv, TypeOK
    <3>2. \A q \in Request : Relies(q) => Relies(q)'
      BY ReliesKept DEF OrderInv
    <3>3. QED
      BY <3>1, <3>2 DEF Relies
  <2>3. QED
    BY <2>1, <2>2
<1>3. QED
  BY <1>1, <1>2 DEF OrderInv, RowInv

\* The rows of OrderInv, when no row changes.
LEMMA RowsAsTheyAre ==
  ASSUME OrderInv, UNCHANGED orderVars
  PROVE  /\ RowInv' /\ Keeps
         /\ order' \in [Orders -> OrderRow]
         /\ history' \in [Orders -> Seq(HistoryRow)]
         /\ \A r \in Request : Relies(r) => Relies(r)'
<1>1. TypeOK /\ RowInv
  BY DEF OrderInv, RowInv
<1>2. RowInv' /\ Keeps
  BY <1>1, NotesRows DEF orderVars
<1>3. QED
  BY <1>1, <1>2, ReliesKept DEF TypeOK, orderVars

\* A handler that reads, or that ends without a commit.
LEMMA ReadInv ==
  ASSUME OrderInv, NEW w \in Workers, NEW r \in Request, Relies(r),
         req' = [req EXCEPT ![w] = r], MissedTypeOK',
         UNCHANGED <<floorVars, orderVars, events, answers>>
  PROVE  OrderInv'
<1>1. /\ RowInv' /\ Keeps
      /\ order' \in [Orders -> OrderRow]
      /\ history' \in [Orders -> Seq(HistoryRow)]
      /\ Relies(r)'
  BY RowsAsTheyAre
<1>2. /\ session' \in [Sessions -> SessionStatus]
      /\ tableStatus' \in [Tables -> TableStatus]
      /\ events' \in [Orders -> Seq(Event)]
      /\ replied' \in SUBSET Reply /\ refused' \in SUBSET KeyedRequest
  BY DEF OrderInv, TypeOK, floorVars, answers
<1>3. AnswersStored'
  BY DEF OrderInv, AnswersStored, Stored, answers, orderVars
<1>4. QED
  BY <1>1, <1>2, <1>3, StepInv

----------------------------------------------------------------------------
(* Steps that change no row *)

\* The requests of create_order on their way to the commit.
LEMMA ReadingInv ==
  ASSUME OrderInv, NEW w \in Workers,
         CreateOrder(w) \/ CreateOrderTable(w) \/ CreateOrderLookup(w) \/ Abort(w)
  PROVE  OrderInv'
<1>1. req[w] \in Request /\ req[w] \in RequestFields /\ MissedTypeOK'
  BY MissedType DEF OrderInv, TypeOK, Request, Creating, Finishing
<1>2. CASE CreateOrder(w)
  <2>1. PICK s \in Sessions, key \in Keys \cup {NoKey}, body \in Bodies :
          Begin(w, [Idle EXCEPT
                      !.op = "create_order", !.s = s, !.key = key, !.body = body,
                      !.at = IF TableOf[s] = NoTable THEN "lookup" ELSE "table"])
    BY <1>2 DEF CreateOrder
  <2> DEFINE r == [Idle EXCEPT
                      !.op = "create_order", !.s = s, !.key = key, !.body = body,
                      !.at = IF TableOf[s] = NoTable THEN "lookup" ELSE "table"]
  <2>2. Idle \in RequestFields
    BY IdleType DEF Request
  <2>3. r \in RequestFields /\ r.op = "create_order" /\ r.s = s /\ r.body = body
          /\ r.at \in {"lookup", "table"}
    BY <2>2, ZenonT(60) DEF RequestFields, Idle
  <2>4. r \in Request /\ Relies(r)
    BY <2>3 DEF Request, HasOrder, Relies
  <2>5. req' = [req EXCEPT ![w] = r]
          /\ UNCHANGED <<floorVars, orderVars, events, answers>>
    BY <2>1 DEF Begin
  <2> HIDE DEF r
  <2>6. QED
    BY <1>1, <2>4, <2>5, ReadInv
<1>3. CASE CreateOrderTable(w)
  <2> DEFINE r == [req[w] EXCEPT !.at = "lookup",
                                 !.tableRead = tableStatus[TableOf[req[w].s]]]
  <2>1. tableStatus[TableOf[req[w].s]] \in TableStatus
    BY <1>3 DEF CreateOrderTable, DineInTableReady, TableStatus
  <2>2. r \in RequestFields
    BY <1>1, <2>1 DEF RequestFields
  <2>3. r.op = "create_order" /\ r.at = "lookup" /\ r.s = req[w].s /\ r.body = req[w].body
          /\ req[w].op = "create_order"
    BY <1>1, <1>3 DEF CreateOrderTable, Doing, RequestFields
  <2>4. r \in Request /\ Relies(r)
    BY <1>1, <2>2, <2>3 DEF Request, HasOrder, Relies
  <2>5. req' = [req EXCEPT ![w] = r]
          /\ UNCHANGED <<floorVars, orderVars, events, answers>>
    BY <1>3 DEF CreateOrderTable, Proceed
  <2> HIDE DEF r
  <2>6. QED
    BY <1>1, <2>4, <2>5, ReadInv
<1>4. CASE CreateOrderLookup(w)
  <2> DEFINE r == [req[w] EXCEPT !.at = "commit"]
  <2>2. r \in RequestFields
    BY <1>1 DEF RequestFields
  <2>3. r.op = "create_order" /\ r.at = "commit" /\ r.s = req[w].s /\ r.body = req[w].body
          /\ req[w].op = "create_order"
    BY <1>1, <1>4 DEF CreateOrderLookup, Doing, RequestFields
  <2>4. r \in Request /\ Relies(r)
    BY <1>1, <2>2, <2>3 DEF Request, HasOrder, Relies
  <2>5. req' = [req EXCEPT ![w] = r]
          /\ UNCHANGED <<floorVars, orderVars, events, answers>>
    BY <1>4 DEF CreateOrderLookup, Proceed
  <2> HIDE DEF r
  <2>6. QED
    BY <1>1, <2>4, <2>5, ReadInv
<1>5. CASE Abort(w)
  <2>1. Idle \in Request /\ Relies(Idle)
    BY IdleType DEF Relies, Idle
  <2>2. QED
    BY <1>1, <1>5, <2>1, ReadInv DEF Abort, Done
<1>6. QED
  BY <1>2, <1>3, <1>4, <1>5

\* A request to change an order starts from one of that order's columns.
LEMMA ChangeBegins ==
  ASSUME OrderInv, NEW w \in Workers,
         UpdateOrder(w) \/ DeleteOrder(w) \/ Transition(w)
  PROVE  \E o \in Orders, r \in RequestFields :
            /\ r.op \in {"update_order", "delete_order", "transition"}
            /\ r.key = NoKey
            /\ r.op = "transition" => /\ r.action \in WorkflowAction
                                      /\ ActionAllowed(order[o].status, r.action)
            /\ BeginChange(w, o, r)
<1>0. Idle \in RequestFields
  BY IdleType DEF Request
<1>1. CASE UpdateOrder(w)
  <2>1. PICK o \in Orders, notes \in Bodies :
          BeginChange(w, o, [Idle EXCEPT !.op = "update_order", !.body = notes,
                                         !.notesRead = order[o].notes])
    BY <1>1 DEF UpdateOrder
  <2>2. order[o].notes \in Bodies \cup {NoBody}
    BY RowTypes DEF OrderInv
  <2> DEFINE q == [Idle EXCEPT !.op = "update_order", !.body = notes,
                               !.notesRead = order[o].notes]
  <2>3. q \in RequestFields /\ q.op = "update_order" /\ q.key = NoKey
    BY <1>0, <2>2 DEF RequestFields, Idle
  <2> HIDE DEF q
  <2>4. BeginChange(w, o, q)
    BY <2>1 DEF q
  <2>5. QED
    BY <2>3, <2>4
<1>2. CASE DeleteOrder(w)
  <2> DEFINE q == [Idle EXCEPT !.op = "delete_order"]
  <2>1. q \in RequestFields /\ q.op = "delete_order" /\ q.key = NoKey
    BY <1>0 DEF RequestFields, Idle
  <2>2. PICK o \in Orders : BeginChange(w, o, q)
    BY <1>2 DEF DeleteOrder
  <2> HIDE DEF q
  <2>3. QED
    BY <2>1, <2>2
<1>3. CASE Transition(w)
  <2>1. PICK o \in Orders, action \in WorkflowAction :
          /\ ActionAllowed(order[o].status, action)
          /\ BeginChange(w, o, [Idle EXCEPT !.op = "transition", !.action = action])
    BY <1>3 DEF Transition
  <2> DEFINE q == [Idle EXCEPT !.op = "transition", !.action = action]
  <2>2. q \in RequestFields /\ q.op = "transition" /\ q.key = NoKey /\ q.action = action
    BY <1>0 DEF RequestFields, Idle
  <2>3. BeginChange(w, o, q)
    BY <2>1
  <2> HIDE DEF q
  <2>4. QED
    BY <2>1, <2>2, <2>3
<1>4. QED
  BY <1>1, <1>2, <1>3

\* The requests that change an order, once they have read it.
LEMMA BeginningInv ==
  ASSUME OrderInv, NEW w \in Workers,
         UpdateOrder(w) \/ DeleteOrder(w) \/ Transition(w)
  PROVE  OrderInv'
<1>1. Idle \in RequestFields
  BY IdleType DEF Request
<1>2. PICK o \in Orders, r \in RequestFields :
        /\ r.op \in {"update_order", "delete_order", "transition"}
        /\ r.key = NoKey
        /\ r.op = "transition" => /\ r.action \in WorkflowAction
                                  /\ ActionAllowed(order[o].status, r.action)
        /\ BeginChange(w, o, r)
  BY ChangeBegins
<1> DEFINE r2 == [r EXCEPT !.at = "commit", !.o = o, !.read = order[o].status]
<1>3. /\ Stored(o)
      /\ req' = [req EXCEPT ![w] = r2]
      /\ UNCHANGED <<floorVars, orderVars, events, answers>>
  BY <1>2 DEF BeginChange, Begin
<1>4. order[o].status \in OrderStatus
  BY <1>3, RowTypes DEF OrderInv, Stored
<1>5. r2 \in RequestFields /\ r2.o = o /\ r2.op = r.op /\ r2.at = "commit"
        /\ r2.key = NoKey /\ r2.action = r.action /\ r2.read = order[o].status
  BY <1>2, <1>4 DEF RequestFields
<1>6. r2 \in Request
  BY <1>2, <1>5 DEF Request
<1>7. \E i \in 1..Len(history[o]) : history[o][i].to = order[o].status
  <2>1. /\ history[o] # <<>>
        /\ history[o][Len(history[o])].to = order[o].status
    BY <1>3 DEF OrderInv, HistoryTellsStatus
  <2>2. history[o] \in Seq(HistoryRow)
    BY RowTypes DEF OrderInv
  <2>3. Len(history[o]) \in 1..Len(history[o])
    BY <2>1, <2>2
  <2>4. QED
    BY <2>1, <2>3
<1> HIDE DEF r2
<1>8. Relies(r2)
  BY <1>2, <1>3, <1>5, <1>7 DEF Relies, HasOrder, ActionAllowed
<1>9. MissedTypeOK'
  BY MissedType DEF OrderInv, Changing
<1>10. QED
  BY <1>3, <1>6, <1>8, <1>9, ReadInv

\* Answers and refusals are well formed.
LEMMA AnswerTypes ==
  ASSUME OrderInv, NEW r \in Request
  PROVE  /\ \A o \in Orders : Answer(r, o) => replied' \in SUBSET Reply
         /\ Refuse(r) => refused' \in SUBSET KeyedRequest
<1>1. r.key # NoKey => r.key \in Keys /\ r.s \in Sessions /\ r.body \in Bodies
  BY RequestTypes
<1>2. replied \in SUBSET Reply /\ refused \in SUBSET KeyedRequest
  BY DEF OrderInv, TypeOK
<1>3. QED
  BY <1>1, <1>2 DEF Answer, Refuse, Reply, KeyedRequest

\* A request that ends without a commit, with an answer, a refusal or neither.
LEMMA EndingInv ==
  ASSUME OrderInv, NEW w \in Workers, UNCHANGED <<floorVars, orderVars>>,
         events' \in [Orders -> Seq(Event)],
         replied' \in SUBSET Reply, refused' \in SUBSET KeyedRequest,
         AnswersStored', MissedTypeOK', req' = req \/ Done(w)
  PROVE  OrderInv'
<1>1. /\ RowInv' /\ Keeps
      /\ order' \in [Orders -> OrderRow]
      /\ history' \in [Orders -> Seq(HistoryRow)]
      /\ \A r \in Request : Relies(r) => Relies(r)'
  BY RowsAsTheyAre
<1>2. /\ session' \in [Sessions -> SessionStatus]
      /\ tableStatus' \in [Tables -> TableStatus]
  BY DEF OrderInv, TypeOK, floorVars
<1>3. PICK r \in Request : Relies(r) /\ req' = [req EXCEPT ![w] = r]
  <2>1. CASE Done(w)
    <3>1. Idle \in Request /\ Relies(Idle)
      BY IdleType DEF Relies, Idle
    <3>2. QED
      BY <2>1, <3>1 DEF Done
  <2>2. CASE req' = req
    <3>1. req[w] \in Request /\ Relies(req[w]) /\ req' = [req EXCEPT ![w] = req[w]]
      BY <2>2 DEF OrderInv, TypeOK
    <3>2. QED
      BY <3>1
  <2>3. QED
    BY <2>1, <2>2
<1>4. Relies(r)'
  BY <1>1, <1>3
<1>5. QED
  BY <1>1, <1>2, <1>3, <1>4, StepInv

\* create_order refused, replayed, or stopped by the unique constraint.
LEMMA UnplacedInv ==
  ASSUME OrderInv, NEW w \in Workers,
         CreateOrderRefused(w) \/ CreateOrderReplay(w) \/ CreateOrderCollision(w)
  PROVE  OrderInv'
<1>1. req[w] \in Request /\ events \in [Orders -> Seq(Event)]
        /\ replied \in SUBSET Reply /\ refused \in SUBSET KeyedRequest /\ AnswersStored
        /\ MissedTypeOK'
  BY MissedType DEF OrderInv, TypeOK, Creating
<1>2. CASE CreateOrderRefused(w)
  <2>1. refused' \in SUBSET KeyedRequest
    BY <1>1, <1>2 DEF CreateOrderRefused, Refuse, KeyedRequest
  <2>2. QED
    BY <1>1, <1>2, <2>1, EndingInv
       DEF CreateOrderRefused, AnswersStored, Stored, orderVars
<1>3. CASE CreateOrderReplay(w)
  <2>1. PICK o \in WithKey(req[w].key) : SamePayload(req[w], o) /\ Answer(req[w], o)
    BY <1>3 DEF CreateOrderReplay
  <2>2. o \in Orders /\ Stored(o) /\ order[o].key = req[w].key
    BY DEF WithKey
  <2>3. replied' \in SUBSET Reply
    BY <1>1, <2>1, <2>2, AnswerTypes
  <2>4. UNCHANGED <<floorVars, orderVars, events, refused>> /\ Done(w)
    BY <1>3 DEF CreateOrderReplay
  <2>5. AnswersStored'
    BY <1>1, <2>1, <2>2, <2>4 DEF AnswersStored, Answer, SamePayload, Stored, orderVars
  <2>6. QED
    BY <1>1, <2>3, <2>4, <2>5, EndingInv
<1>4. CASE CreateOrderCollision(w)
  <2>1. refused' \in SUBSET KeyedRequest
    BY <1>1, <1>4, AnswerTypes DEF CreateOrderCollision
  <2>2. QED
    BY <1>1, <1>4, <2>1, EndingInv
       DEF CreateOrderCollision, AnswersStored, Stored, orderVars
<1>5. QED
  BY <1>2, <1>3, <1>4

----------------------------------------------------------------------------
(* Commits *)

\* An appended row keeps the type of the history.
LEMMA RecordType ==
  ASSUME TypeOK, NEW o \in Orders, NEW row \in OrderRow, row.status \in OrderStatus,
         NEW from \in OrderStatus \cup {"none"}, NEW actor \in ActorType,
         Record(o, row, from, actor)
  PROVE  /\ order' \in [Orders -> OrderRow]
         /\ history' \in [Orders -> Seq(HistoryRow)]
<1>1. [from |-> from, to |-> row.status, actor |-> actor] \in HistoryRow
  BY DEF HistoryRow
<1>2. Append(history[o], [from |-> from, to |-> row.status, actor |-> actor])
        \in Seq(HistoryRow)
  BY <1>1, RowTypes
<1>3. QED
  BY <1>2 DEF Record, TypeOK

\* A commit that records a status change and goes on to refresh.
LEMMA CommitInv ==
  ASSUME OrderInv, RowInv', Keeps, NEW w \in Workers, NEW r \in Request,
         req' = [req EXCEPT ![w] = r], Relies(r)',
         order' \in [Orders -> OrderRow],
         history' \in [Orders -> Seq(HistoryRow)],
         tableStatus' \in [Tables -> TableStatus], MissedTypeOK',
         UNCHANGED <<session, events, answers>>
  PROVE  OrderInv'
<1>1. /\ session' \in [Sessions -> SessionStatus]
      /\ events' \in [Orders -> Seq(Event)]
      /\ replied' \in SUBSET Reply /\ refused' \in SUBSET KeyedRequest
  BY DEF OrderInv, TypeOK, answers
<1>2. AnswersStored'
  <2>1. replied' = replied
    BY DEF answers
  <2>2. \A a \in replied : /\ Stored(a.order)'
                           /\ order'[a.order].key = a.key
                           /\ order'[a.order].session = a.session
                           /\ order'[a.order].body = a.body
    BY AnswersKept DEF OrderInv
  <2>3. QED
    BY <2>1, <2>2 DEF AnswersStored
<1>3. QED
  BY <1>1, <1>2, StepInv

\* create_order commits.
LEMMA CreateOrderCommitInv ==
  ASSUME OrderInv, NEW w \in Workers, CreateOrderCommit(w)
  PROVE  OrderInv'
<1>1. req[w] \in Request /\ req[w] \in RequestFields /\ TypeOK /\ RowInv
  BY DEF OrderInv, TypeOK, Request, RowInv
<1>2. /\ req[w].op = "create_order" /\ req[w].at = "commit"
      /\ req[w].s \in Sessions /\ req[w].body \in Bodies
      /\ req[w].key \in Keys \cup {NoKey}
  BY <1>1, RequestTypes DEF CreateOrderCommit, Doing
<1> DEFINE row == [status |-> "pending", session |-> req[w].s, key |-> req[w].key,
                   body |-> req[w].body, notes |-> req[w].body, deleted |-> FALSE]
<1>3. PICK o \in Orders :
        /\ ~Stored(o)
        /\ Record(o, row, "none", "system")
        /\ req' = [req EXCEPT ![w] = [req[w] EXCEPT !.at = "refresh", !.o = o, !.row = 1]]
  BY DEF CreateOrderCommit
<1>4. /\ row \in OrderRow /\ row.status = "pending" /\ row.status \in OrderStatus
      /\ row.key = req[w].key /\ row.session = req[w].s /\ row.body = req[w].body
  BY <1>2 DEF OrderRow, OrderStatus
<1>5. PICK r \in RequestFields :
        /\ r = [req[w] EXCEPT !.at = "refresh", !.o = o, !.row = 1]
        /\ r.op = "create_order" /\ r.at = "refresh" /\ r.o = o
        /\ r.s = req[w].s /\ r.body = req[w].body /\ r.key = req[w].key
  <2> DEFINE r0 == [req[w] EXCEPT !.at = "refresh", !.o = o, !.row = 1]
  <2>1. r0 \in RequestFields /\ r0.op = "create_order" /\ r0.at = "refresh" /\ r0.o = o
          /\ r0.s = req[w].s /\ r0.body = req[w].body /\ r0.key = req[w].key
    BY <1>1, <1>2 DEF RequestFields
  <2> HIDE DEF r0
  <2>2. QED
    BY <2>1 DEF r0
<1>6. r \in Request
  BY <1>2, <1>5 DEF Request
<1>7. WithKey(row.key) = {}
  BY <1>4 DEF CreateOrderCommit
<1>8. req' = [req EXCEPT ![w] = r]
  BY <1>3, <1>5
<1> HIDE DEF row
<1>9. RowInv' /\ Keeps
  BY <1>1, <1>3, <1>4, <1>7, PlaceRows
<1>10. order' \in [Orders -> OrderRow] /\ history' \in [Orders -> Seq(HistoryRow)]
  BY <1>1, <1>3, <1>4, RecordType DEF ActorType
<1>11. order'[o] = row /\ order'[o].status = "pending" /\ order'[o].key = r.key
         /\ order'[o].session = r.s /\ order'[o].body = r.body
  BY <1>1, <1>3, <1>4, <1>5, RecordRows
<1>12. Relies(r)'
  BY <1>5, <1>11 DEF Relies, SamePayload, Stored
<1>13. tableStatus' \in [Tables -> TableStatus]
  BY <1>1 DEF CreateOrderCommit, TypeOK, TableStatus
<1>14. UNCHANGED <<session, events, answers>>
  BY DEF CreateOrderCommit
<1>15. MissedTypeOK'
  BY <1>1, MissedType DEF Creating
<1>16. QED
  BY <1>6, <1>8, <1>9, <1>10, <1>12, <1>13, <1>14, <1>15, CommitInv

\* update_order commits: it touches the notes alone.
LEMMA UpdateOrderCommitInv ==
  ASSUME OrderInv, NEW w \in Workers, UpdateOrderCommit(w)
  PROVE  OrderInv'
<1>1. req[w] \in Request /\ TypeOK /\ RowInv /\ Relies(req[w])
  BY DEF OrderInv, TypeOK, RowInv
<1>2. req[w].body \in Bodies \cup {NoBody} /\ req[w].o \in Orders
  BY <1>1, RequestTypes DEF UpdateOrderCommit, Doing, HasOrder
<1>3. PICK notes \in Bodies \cup {NoBody} :
        order' = [order EXCEPT ![req[w].o].notes = notes]
  <2>1. order[req[w].o].notes \in Bodies \cup {NoBody}
    BY <1>1, <1>2, RowTypes
  <2>2. QED
    BY <1>2, <2>1 DEF UpdateOrderCommit
<1>4. \A o \in Orders : /\ order'[o] \in OrderRow
                       /\ order'[o].status = order[o].status
                       /\ order'[o].key = order[o].key
                       /\ order'[o].session = order[o].session
                       /\ order'[o].body = order[o].body
  <2> SUFFICES ASSUME NEW o \in Orders
               PROVE  /\ order'[o] \in OrderRow
                      /\ order'[o].status = order[o].status
                      /\ order'[o].key = order[o].key
                      /\ order'[o].session = order[o].session
                      /\ order'[o].body = order[o].body
    OBVIOUS
  <2>1. order[o] \in OrderRow
    BY <1>1, RowTypes
  <2>2. order'[o] = order[o] \/ order'[o] = [order[o] EXCEPT !.notes = notes]
    BY <1>1, <1>3 DEF TypeOK
  <2>3. QED
    BY <1>3, <2>1, <2>2 DEF OrderRow
<1>5. order' \in [Orders -> OrderRow]
  BY <1>1, <1>3, <1>4 DEF TypeOK
<1>6. UNCHANGED <<floorVars, history, events, answers>> /\ Done(w)
  BY DEF UpdateOrderCommit
<1>7. RowInv' /\ Keeps
  BY <1>1, <1>4, <1>6, NotesRows
<1>8. Idle \in Request /\ Relies(Idle)'
  BY IdleType DEF Relies, Idle
<1>9. history' \in [Orders -> Seq(HistoryRow)] /\ tableStatus' \in [Tables -> TableStatus]
  BY <1>1, <1>6 DEF TypeOK, floorVars
<1>10. MissedTypeOK'
  BY <1>1, MissedType DEF Changing
<1>11. QED
  BY <1>5, <1>6, <1>7, <1>8, <1>9, <1>10, CommitInv DEF Done, floorVars

\* delete_order and transition commit: a status change of an order whose
\* history holds the status that the handler read.
LEMMA ChangeCommitInv ==
  ASSUME OrderInv, NEW w \in Workers, DeleteOrderCommit(w) \/ TransitionCommit(w)
  PROVE  OrderInv'
<1>0. PICK q, o : q \in Request /\ q = req[w] /\ o = q.o
  BY DEF OrderInv, TypeOK
<1>1. /\ q \in RequestFields /\ TypeOK /\ RowInv /\ Relies(q)
      /\ HistoryFollowsWorkflow /\ HistoryTellsStatus
  BY <1>0 DEF OrderInv, Request, RowInv
<1>2. /\ q.op \in {"delete_order", "transition"} /\ q.at = "commit" /\ HasOrder(q)
      /\ o \in Orders /\ Stored(o) /\ q.key = NoKey /\ q.read \in OrderStatus
      /\ q.op = "transition" => q.action \in WorkflowAction
  BY <1>0, <1>1, RequestTypes DEF DeleteOrderCommit, TransitionCommit, Doing, HasOrder, Relies
<1>3. order[o] \in OrderRow /\ history[o] \in Seq(HistoryRow) /\ Len(history[o]) \in Nat
  BY <1>1, <1>2, RowTypes
<1>4. PICK row \in OrderRow, from \in OrderStatus, actor \in ActorType :
        /\ row.status \in OrderStatus
        /\ row.key = order[o].key /\ row.session = order[o].session
        /\ row.body = order[o].body
        /\ <<from, row.status>> \in WorkflowEdges
        /\ \E i \in 1..Len(history[o]) : history[o][i].to = from
        /\ Record(o, row, from, actor)
  <2>1. CASE DeleteOrderCommit(w)
    <3> DEFINE row == [order[o] EXCEPT !.status = "canceled", !.deleted = TRUE]
    <3>1. row \in OrderRow /\ row.status = "canceled"
            /\ row.key = order[o].key /\ row.session = order[o].session
            /\ row.body = order[o].body
      BY <1>3 DEF OrderRow, OrderStatus
    <3>2. history[o] # <<>>
      BY <1>1, <1>2 DEF HistoryTellsStatus
    <3>3. 1 \in 1..Len(history[o])
      BY <1>3, <3>2
    <3>4. history[o][1].to = "pending"
      BY <1>1, <1>2, <3>3 DEF HistoryFollowsWorkflow
    <3>5. <<"pending", "canceled">> \in WorkflowEdges
      BY DEF WorkflowEdges
    <3>6. Record(o, row, "pending", "staff")
      BY <1>0, <2>1 DEF DeleteOrderCommit
    <3> HIDE DEF row
    <3>7. "pending" \in OrderStatus /\ "canceled" \in OrderStatus /\ "staff" \in ActorType
      BY DEF OrderStatus, ActorType
    <3>8. QED
      BY <3>1, <3>3, <3>4, <3>5, <3>6, <3>7
  <2>2. CASE TransitionCommit(w)
    <3> DEFINE row == [order[o] EXCEPT !.status = ApplyAction(q.action)]
    <3>1. q.op = "transition" /\ q.action \in WorkflowAction
      BY <1>0, <1>2, <2>2 DEF TransitionCommit, Doing
    <3>2. ApplyAction(q.action) \in OrderStatus
      BY <3>1 DEF ApplyAction, TargetStatus, WorkflowAction, OrderStatus
    <3>3. row \in OrderRow /\ row.status = ApplyAction(q.action)
            /\ row.key = order[o].key /\ row.session = order[o].session
            /\ row.body = order[o].body
      BY <1>3, <3>2 DEF OrderRow
    <3>4. /\ q.read = Required[q.action]
          /\ \E i \in 1..Len(history[o]) : history[o][i].to = q.read
      BY <1>0, <1>1, <1>2, <3>1 DEF Relies
    <3>5. <<q.read, row.status>> \in WorkflowEdges
      BY <3>1, <3>3, <3>4 DEF WorkflowEdges, ApplyAction
    <3>6. ActorOf(q.action) \in ActorType
      BY DEF ActorOf, ActorType
    <3>7. Record(o, row, q.read, ActorOf(q.action))
      BY <1>0, <2>2 DEF TransitionCommit
    <3> HIDE DEF row
    <3>8. QED
      BY <1>2, <3>2, <3>3, <3>4, <3>5, <3>6, <3>7
  <2>3. QED
    BY <2>1, <2>2
<1>5. RowInv' /\ Keeps
  <2>1. row.status # "absent"
    BY <1>4 DEF OrderStatus
  <2>2. QED
    BY <1>1, <1>2, <1>4, <2>1, AdvanceRows
<1>6. order' \in [Orders -> OrderRow] /\ history' \in [Orders -> Seq(HistoryRow)]
  BY <1>1, <1>2, <1>4, RecordType
<1>7. PICK r \in RequestFields :
        /\ r = [q EXCEPT !.at = "refresh", !.row = Len(history[o]) + 1]
        /\ r.at = "refresh" /\ r.o = o /\ r.op = q.op /\ r.key = NoKey
        /\ r.action = q.action
  <2>0. PICK n \in Nat : n = Len(history[o]) + 1
    BY <1>3
  <2> DEFINE r0 == [q EXCEPT !.at = "refresh", !.row = n]
  <2>1. r0 \in RequestFields /\ r0.at = "refresh" /\ r0.o = o /\ r0.op = q.op
          /\ r0.key = NoKey /\ r0.action = q.action
    BY <1>0, <1>1, <1>2 DEF RequestFields
  <2> HIDE DEF r0
  <2>2. QED
    BY <2>0, <2>1 DEF r0
<1>8. r \in Request
  BY <1>2, <1>7 DEF Request
<1>9. /\ req' = [req EXCEPT ![w].at = "refresh", ![w].row = Len(history[o]) + 1]
      /\ UNCHANGED <<floorVars, events, answers>>
  BY <1>0 DEF DeleteOrderCommit, TransitionCommit
<1>10. req' = [req EXCEPT ![w] = r]
  BY <1>0, <1>1, <1>7, <1>9 DEF TypeOK
<1>11. Stored(o)'
  BY <1>2, <1>5 DEF Keeps, Stored
<1>12. Relies(r)'
  BY <1>2, <1>7, <1>11 DEF Relies
<1>13. tableStatus' \in [Tables -> TableStatus]
  BY <1>1, <1>9 DEF TypeOK, floorVars
<1>14. MissedTypeOK'
  BY <1>1, MissedType DEF Changing
<1>15. QED
  BY <1>5, <1>6, <1>8, <1>9, <1>10, <1>12, <1>13, <1>14, CommitInv DEF floorVars

\* Reading the order again after the commit, and publishing its event.
LEMMA FinishInv ==
  ASSUME OrderInv, NEW w \in Workers, Refresh(w) \/ Publish(w)
  PROVE  OrderInv'
<1>0. PICK q \in Request : q = req[w]
  BY DEF OrderInv, TypeOK
<1>1. q \in RequestFields /\ TypeOK /\ Relies(q) /\ MissedTypeOK'
  BY <1>0, MissedType DEF OrderInv, Request, Finishing
<1>2. /\ q.at \in {"refresh", "publish"} /\ HasOrder(q) /\ q.o \in Orders /\ Stored(q.o)
      /\ q.op = "create_order" => order[q.o].key = q.key /\ SamePayload(q, q.o)
  BY <1>0, <1>1, RequestTypes DEF Refresh, Publish, HasOrder, Relies
<1>3. CASE Refresh(w)
  <2>1. order[q.o].status \in OrderStatus
    BY <1>1, <1>2, RowTypes DEF Stored
  <2> DEFINE r == [q EXCEPT !.at = "publish", !.read = order[q.o].status]
  <2>2. r \in RequestFields /\ r.at = "publish" /\ r.o = q.o /\ r.op = q.op
          /\ r.key = q.key /\ r.s = q.s /\ r.body = q.body /\ r.action = q.action
    BY <1>1, <2>1 DEF RequestFields
  <2>3. r \in Request
    BY <1>2, <2>2 DEF Request
  <2>4. req' = [req EXCEPT ![w] = r]
          /\ UNCHANGED <<floorVars, orderVars, events, answers>>
    BY <1>0, <1>3 DEF Refresh, Proceed
  <2> HIDE DEF r
  <2>5. Relies(r)
    BY <1>2, <2>2 DEF Relies, SamePayload
  <2>6. QED
    BY <1>1, <2>3, <2>4, <2>5, ReadInv
<1>4. CASE Publish(w)
  <2>1. UNCHANGED <<floorVars, orderVars, refused>> /\ Done(w) /\ Answer(q, q.o)
    BY <1>0, <1>4 DEF Publish
  <2>2. events' \in [Orders -> Seq(Event)]
    <3> DEFINE e == [type |-> EventOf(q), status |-> q.read, row |-> q.row]
    <3>1. events' = [events EXCEPT ![q.o] = Append(@, e)] \/ events' = events
      BY <1>0, <1>4 DEF Publish
    <3>2. EventOf(q) \in {EventType[s] : s \in OrderStatus}
      <4>1. q.op \in {"create_order", "delete_order", "transition"}
        BY <1>2, RequestTypes
      <4>2. CASE q.op = "create_order"
        BY <4>2 DEF EventOf, EventType, OrderStatus
      <4>3. CASE q.op = "delete_order"
        BY <4>3 DEF EventOf, EventType, OrderStatus
      <4>4. CASE q.op = "transition"
        BY <1>1, <4>4, RequestTypes
           DEF EventOf, ApplyAction, TargetStatus, WorkflowAction, OrderStatus
      <4>5. QED
        BY <4>1, <4>2, <4>3, <4>4
    <3>3. e \in Event
      BY <1>1, <3>2, RequestTypes DEF Event
    <3> HIDE DEF e
    <3>4. events \in [Orders -> Seq(Event)]
      BY <1>1 DEF TypeOK
    <3>5. Append(events[q.o], e) \in Seq(Event)
      BY <1>2, <3>3, <3>4
    <3>6. QED
      BY <3>1, <3>4, <3>5
  <2>3. replied' \in SUBSET Reply /\ refused' \in SUBSET KeyedRequest
    BY <1>1, <1>2, <2>1, AnswerTypes DEF TypeOK
  <2>4. AnswersStored'
    <3>1. AnswersStored
      BY DEF OrderInv
    <3>2. q.key # NoKey => q.op = "create_order"
      BY RequestTypes
    <3>3. QED
      BY <1>2, <2>1, <3>1, <3>2
         DEF AnswersStored, Answer, SamePayload, Stored, orderVars
  <2>5. QED
    BY <1>1, <2>1, <2>2, <2>3, <2>4, EndingInv
<1>5. QED
  BY <1>3, <1>4

\* Handlers of the floor.
LEMMA FloorStepInv ==
  ASSUME OrderInv, NEW w \in Workers, Floor(w)
  PROVE  OrderInv'
<1>1. /\ UNCHANGED <<orderVars, events, answers, req>>
      /\ session' \in [Sessions -> SessionStatus]
      /\ tableStatus' \in [Tables -> TableStatus]
  BY DEF Floor, CloseSession, SetTable, OrderInv, TypeOK, TableStatus
<1>2. /\ RowInv' /\ Keeps
      /\ order' \in [Orders -> OrderRow]
      /\ history' \in [Orders -> Seq(HistoryRow)]
      /\ \A r \in Request : Relies(r) => Relies(r)'
  BY <1>1, RowsAsTheyAre
<1>3. PICK r \in Request : Relies(r) /\ req' = [req EXCEPT ![w] = r]
  <2>1. req[w] \in Request /\ Relies(req[w]) /\ req' = [req EXCEPT ![w] = req[w]]
    BY <1>1 DEF OrderInv, TypeOK
  <2>2. QED
    BY <2>1
<1>4. Relies(r)'
  BY <1>2, <1>3
<1>5. /\ events' \in [Orders -> Seq(Event)]
      /\ replied' \in SUBSET Reply /\ refused' \in SUBSET KeyedRequest
  BY <1>1 DEF OrderInv, TypeOK, answers
<1>6. AnswersStored'
  BY <1>1 DEF OrderInv, AnswersStored, Stored, answers, orderVars
<1>7. MissedTypeOK'
  BY MissedType DEF OrderInv
<1>8. QED
  BY <1>1, <1>2, <1>3, <1>4, <1>5, <1>6, <1>7, StepInv

----------------------------------------------------------------------------
(* The theorems *)

\* Before the first request there are no orders.
LEMMA InitInv == Init => OrderInv
<1> SUFFICES ASSUME Init PROVE OrderInv
  OBVIOUS
<1>1. \A o \in Orders : ~Stored(o)
  BY DEF Init, Stored, NoOrderRow
<1>2. \A o \in Orders :
        history[o] = <<>> /\ Len(history[o]) = 0 /\ order[o].key = NoKey
  BY DEF Init, NoOrderRow
<1>3. TypeOK
  <2>1. order \in [Orders -> OrderRow]
    BY DEF Init, NoOrderRow, OrderRow
  <2>2. history \in [Orders -> Seq(HistoryRow)] /\ events \in [Orders -> Seq(Event)]
    BY DEF Init
  <2>3. session \in [Sessions -> SessionStatus] /\ tableStatus \in [Tables -> TableStatus]
    BY DEF Init, SessionStatus, TableStatus
  <2>4. req \in [Workers -> Request]
    BY IdleType DEF Init
  <2>5. QED
    BY <2>1, <2>2, <2>3, <2>4 DEF Init, TypeOK
<1>4. \A w \in Workers : Relies(req[w])
  BY IdleType DEF Init, Relies, Idle
<1>5. OneOrderPerKey /\ HistoryTellsStatus /\ NothingBefore
  BY <1>1, <1>2 DEF OneOrderPerKey, HistoryTellsStatus, NothingBefore
<1>6. HistoryFollowsWorkflow
  BY <1>2 DEF HistoryFollowsWorkflow
<1>7. AnswersStored
  BY DEF Init, AnswersStored
<1>8. QED
  BY <1>3, <1>4, <1>5, <1>6, <1>7 DEF OrderInv

\* The invariant is inductive.
LEMMA OrderInvStep == OrderInv /\ [Next]_vars => OrderInv'
<1> SUFFICES ASSUME OrderInv, [Next]_vars PROVE OrderInv'
  OBVIOUS
<1>1. ASSUME NEW w \in Workers, Creating(w) PROVE OrderInv'
  BY <1>1, ReadingInv, UnplacedInv, CreateOrderCommitInv DEF Creating
<1>2. ASSUME NEW w \in Workers, Changing(w) PROVE OrderInv'
  BY <1>2, BeginningInv, UpdateOrderCommitInv, ChangeCommitInv DEF Changing
<1>3. ASSUME NEW w \in Workers, Finishing(w) PROVE OrderInv'
  BY <1>3, ReadingInv, FinishInv DEF Finishing
<1>4. ASSUME NEW w \in Workers, Floor(w) PROVE OrderInv'
  BY <1>4, FloorStepInv
<1>5. CASE UNCHANGED vars
  BY <1>5 DEF vars, floorVars, orderVars, answers, missed, OrderInv, TypeOK, OneOrderPerKey,
      HistoryTellsStatus, HistoryFollowsWorkflow, WorkflowEdges, NothingBefore,
      AnswersStored, Relies, Stored, SamePayload
<1>6. QED
  BY <1>1, <1>2, <1>3, <1>4, <1>5 DEF Next

\* The inductive invariant holds throughout.
THEOREM OrdersCorrect == Spec => []OrderInv
  BY InitInv, OrderInvStep, PTL DEF Spec

\* Every row, event, answer and request is well formed.
THEOREM TypeCorrect == Spec => []TypeOK
<1>1. OrderInv => TypeOK
  BY DEF OrderInv
<1>2. QED
  BY <1>1, OrdersCorrect, PTL

\* An idempotency key never makes two orders, however the requests overlap.
THEOREM KeysNameOneOrder == Spec => []OneOrderPerKey
<1>1. OrderInv => OneOrderPerKey
  BY DEF OrderInv
<1>2. QED
  BY <1>1, OrdersCorrect, PTL

\* Retries with a key are all answered with the same order.
THEOREM RetriesAgree == Spec => []SameAnswerPerKey
<1>1. OrderInv => SameAnswerPerKey
  <2> SUFFICES ASSUME OrderInv, NEW a \in replied, NEW b \in replied, a.key = b.key
               PROVE  a = b
    BY DEF SameAnswerPerKey
  <2>1. a \in Reply /\ b \in Reply /\ a.key # NoKey
    BY OrderAssumption DEF OrderInv, TypeOK, Reply
  <2>2. /\ Stored(a.order) /\ order[a.order].key = a.key
        /\ order[a.order].session = a.session /\ order[a.order].body = a.body
        /\ Stored(b.order) /\ order[b.order].key = b.key
        /\ order[b.order].session = b.session /\ order[b.order].body = b.body
    BY DEF OrderInv, AnswersStored
  <2>3. a.order = b.order
    BY <2>1, <2>2 DEF OrderInv, OneOrderPerKey, Reply
  <2>4. QED
    BY <2>1, <2>2, <2>3 DEF Reply
<1>2. QED
  BY <1>1, OrdersCorrect, PTL

\* No status change is missing from an order's history.
THEOREM HistoryComplete == Spec => []HistoryTellsStatus
<1>1. OrderInv => HistoryTellsStatus
  BY DEF OrderInv
<1>2. QED
  BY <1>1, OrdersCorrect, PTL

\* No order skips a step of the workflow, however many requests race.
THEOREM WorkflowKept == Spec => []HistoryFollowsWorkflow
<1>1. OrderInv => HistoryFollowsWorkflow
  BY DEF OrderInv
<1>2. QED
  BY <1>1, OrdersCorrect, PTL

----------------------------------------------------------------------------
(* Events, and orders that are deleted *)

\* The types that EventInv needs of orders, histories and requests.
LEMMA EventTypes ==
  ASSUME OrderInv
  PROVE  /\ order \in [Orders -> OrderRow]
         /\ \A o \in Orders : history[o] \in Seq(HistoryRow) /\ Len(history[o]) \in Nat
         /\ events \in [Orders -> Seq(Event)]
         /\ \A o \in Orders : events[o] \in Seq(Event) /\ Len(events[o]) \in Nat
         /\ history \in [Orders -> Seq(HistoryRow)]
         /\ req \in [Workers -> Request]
         /\ \A w \in Workers : /\ req[w].row \in Nat
                               /\ HasOrder(req[w]) => req[w].o \in Orders /\ Stored(req[w].o)
  BY DEF OrderInv, TypeOK, Request, RequestFields, Relies

\* Steps that leave history and events alone and commit nothing for w.
LEMMA QuietInv ==
  ASSUME EventInv, OrderInv', NEW w \in Workers, UNCHANGED <<history, events>>,
         \A o \in Orders : order'[o].deleted = order[o].deleted,
         \A u \in Workers : u # w => req'[u] = req[u],
         req'[w].at \notin {"refresh", "publish"} \/ req'[w] = req[w]
  PROVE  EventInv'
<1>1. EventsTellHistory' /\ DeletedWasCanceled'
  BY DEF EventInv, EventsTellHistory, DeletedWasCanceled
<1>2. ASSUME NEW u \in Workers PROVE Announces(u)'
  <2>1. Announces(u)
    BY DEF EventInv
  <2>2. CASE req'[u].at \notin {"refresh", "publish"}
    BY <2>2 DEF Announces
  <2>3. CASE req'[u].at \in {"refresh", "publish"}
    <3>1. req'[u] = req[u]
      BY <2>3
    <3>2. \A v \in Workers : req'[v].at \in {"refresh", "publish"} => req'[v] = req[v]
      OBVIOUS
    <3>3. QED
      BY <2>1, <2>3, <3>1, <3>2 DEF Announces, EventOf
  <2>4. QED
    BY <2>2, <2>3
<1>3. QED
  BY <1>1, <1>2 DEF EventInv

\* Two workers announce different rows.
LEMMA AnnounceApart ==
  ASSUME EventInv, NEW w \in Workers, NEW u \in Workers, u # w,
         req[w].at \in {"refresh", "publish"}, req[u].at \in {"refresh", "publish"},
         req[u].o = req[w].o
  PROVE  req[u].row # req[w].row
  BY DEF EventInv, Announces

\* A commit that adds a row to the history of o, which w is to announce.
LEMMA CommitAnnounces ==
  ASSUME EventInv, OrderInv', NEW w \in Workers, NEW o \in Orders,
         NEW row \in OrderRow, NEW from, NEW actor, Record(o, row, from, actor),
         UNCHANGED events, NEW r, req' = [req EXCEPT ![w] = r],
         r.at = "refresh", r.o = o, r.row = Len(history[o]) + 1,
         EventOf(r) = EventType[row.status],
         row.deleted => order[o].deleted \/ row.status = "canceled"
  PROVE  EventInv'
<1> DEFINE new == [from |-> from, to |-> row.status, actor |-> actor]
<1>1. OrderInv /\ TypeOK
  BY DEF EventInv, OrderInv
<1>2. /\ order'[o] = row /\ history'[o] = Append(history[o], new)
      /\ \A p \in Orders : p # o => order'[p] = order[p] /\ history'[p] = history[p]
  BY <1>1, RecordRows
<1>3. /\ Len(history[o]) \in Nat /\ Len(history'[o]) = Len(history[o]) + 1
      /\ \A i \in 1..Len(history[o]) : history'[o][i] = history[o][i]
      /\ history'[o][Len(history[o]) + 1] = new
  <2>1. history[o] \in Seq(HistoryRow)
    BY <1>1, EventTypes
  <2> HIDE DEF new
  <2>2. QED
    BY <1>2, <2>1, AppendRows
<1>4. /\ new.to = row.status
      /\ req'[w] = r
      /\ \A u \in Workers : u # w => req'[u] = req[u]
  BY <1>1, EventTypes
<1> HIDE DEF new
<1>5. \A p \in Orders : /\ Len(history[p]) \in Nat /\ Len(history'[p]) \in Nat
                        /\ Len(history[p]) <= Len(history'[p])
                        /\ \A i \in 1..Len(history[p]) : history'[p][i] = history[p][i]
  <2> SUFFICES ASSUME NEW p \in Orders
               PROVE  /\ Len(history[p]) \in Nat /\ Len(history'[p]) \in Nat
                      /\ Len(history[p]) <= Len(history'[p])
                      /\ \A i \in 1..Len(history[p]) : history'[p][i] = history[p][i]
    OBVIOUS
  <2>1. CASE p = o
    BY <1>3, <2>1
  <2>2. CASE p # o
    <3>1. Len(history[p]) \in Nat
      BY <1>1, EventTypes
    <3>2. history'[p] = history[p]
      BY <1>2, <2>2
    <3>3. QED
      BY <3>1, <3>2
  <2>3. QED
    BY <2>1, <2>2
<1>6. EventsTellHistory'
  <2> SUFFICES ASSUME NEW p \in Orders, NEW i \in 1..Len(events[p])
               PROVE  /\ events[p][i].row \in 1..Len(history'[p])
                      /\ events[p][i].type = EventType[history'[p][events[p][i].row].to]
                      /\ \E j \in events[p][i].row..Len(history'[p]) :
                            history'[p][j].to = events[p][i].status
                      /\ \A k \in 1..(i - 1) : events[p][k].row # events[p][i].row
    BY SMTT(30) DEF EventsTellHistory
  <2>1. /\ events[p][i].row \in 1..Len(history[p])
        /\ events[p][i].type = EventType[history[p][events[p][i].row].to]
        /\ \A k \in 1..(i - 1) : events[p][k].row # events[p][i].row
    BY DEF EventInv, EventsTellHistory
  <2>2. PICK j \in events[p][i].row..Len(history[p]) : history[p][j].to = events[p][i].status
    BY DEF EventInv, EventsTellHistory
  <2>3. j \in 1..Len(history[p]) /\ j \in events[p][i].row..Len(history'[p])
    BY <1>5, <2>1, <2>2
  <2>4. events[p][i].row \in 1..Len(history'[p])
    BY <1>5, <2>1
  <2>5. QED
    BY <1>5, <2>1, <2>2, <2>3, <2>4
<1>7. DeletedWasCanceled'
  <2> SUFFICES ASSUME NEW p \in Orders, order'[p].deleted
               PROVE  \E i \in 1..Len(history'[p]) : history'[p][i].to = "canceled"
    BY DEF DeletedWasCanceled
  <2>1. CASE order[p].deleted
    <3>1. PICK i \in 1..Len(history[p]) : history[p][i].to = "canceled"
      BY <2>1 DEF EventInv, DeletedWasCanceled
    <3>2. i \in 1..Len(history'[p]) /\ history'[p][i] = history[p][i]
      BY <1>5, <3>1
    <3>3. QED
      BY <3>1, <3>2
  <2>2. CASE ~order[p].deleted
    <3>1. p = o /\ row.status = "canceled"
      BY <1>2, <2>2
    <3>2. Len(history[o]) + 1 \in 1..Len(history'[o])
      BY <1>3
    <3>3. QED
      BY <1>3, <1>4, <3>1, <3>2
  <2>3. QED
    BY <2>1, <2>2
<1>8. Announces(w)'
  <2>1. r.row \in 1..Len(history'[o]) /\ history'[o][r.row].to = row.status
    BY <1>3, <1>4
  <2>2. \A k \in 1..Len(events[o]) : events[o][k].row # r.row
    BY <1>3 DEF EventInv, EventsTellHistory
  <2>3. ASSUME NEW u \in Workers, u # w, req[u].at \in {"refresh", "publish"}, req[u].o = o
        PROVE  req[u].row # r.row
    <3>1. req[u].row \in 1..Len(history[o])
      BY <2>3 DEF EventInv, Announces
    <3>2. QED
      BY <1>3, <3>1
  <2>4. EventOf(r)' = EventOf(r)
    BY DEF EventOf
  <2>5. QED
    BY <1>4, <2>1, <2>2, <2>3, <2>4 DEF Announces, EventOf
<1>9. ASSUME NEW u \in Workers, u # w PROVE Announces(u)'
  <2> DEFINE q == req[u]
  <2> SUFFICES ASSUME q.at \in {"refresh", "publish"} PROVE Announces(u)'
    BY <1>4, <1>9 DEF Announces
  <2>1. /\ Announces(u) /\ req'[u] = q
        /\ q.o \in Orders /\ q.row \in Nat /\ q.row \in 1..Len(history[q.o])
    BY <1>1, <1>4, <1>9, EventTypes DEF EventInv, Announces, HasOrder
  <2>2. q.row \in 1..Len(history'[q.o]) /\ history'[q.o][q.row] = history[q.o][q.row]
    BY <1>5, <2>1
  <2>3. q.at = "publish" => \E j \in q.row..Len(history'[q.o]) : history'[q.o][j].to = q.read
    <3> SUFFICES ASSUME q.at = "publish"
                 PROVE \E j \in q.row..Len(history'[q.o]) : history'[q.o][j].to = q.read
      OBVIOUS
    <3>1. PICK j \in q.row..Len(history[q.o]) : history[q.o][j].to = q.read
      BY <2>1 DEF Announces
    <3>2. j \in q.row..Len(history'[q.o]) /\ history'[q.o][j] = history[q.o][j]
      BY <1>5, <2>1, <3>1
    <3>3. QED
      BY <3>1, <3>2
  <2>4. ASSUME NEW v \in Workers \ {u}, req'[v].at \in {"refresh", "publish"}, req'[v].o = q.o
        PROVE  req'[v].row # q.row
    <3>1. CASE v = w
      BY <1>3, <1>4, <2>1, <2>4, <3>1
    <3>2. CASE v # w
      BY <1>4, <2>1, <2>4, <3>2 DEF Announces
    <3>3. QED
      BY <3>1, <3>2
  <2>5. QED
    BY <2>1, <2>2, <2>3, <2>4 DEF Announces, EventOf
<1>10. QED
  BY <1>6, <1>7, <1>8, <1>9 DEF EventInv

LEMMA CreateAnnounces ==
  ASSUME EventInv, OrderInv', NEW w \in Workers, CreateOrderCommit(w)
  PROVE  EventInv'
<1> DEFINE q == req[w]
<1>1. PICK o \in Orders :
        /\ Record(o, [status |-> "pending", session |-> q.s, key |-> q.key,
                      body |-> q.body, notes |-> q.body, deleted |-> FALSE],
                  "none", "system")
        /\ req' = [req EXCEPT ![w] = [q EXCEPT !.at = "refresh", !.o = o, !.row = 1]]
        /\ ~Stored(o) /\ UNCHANGED events /\ q.op = "create_order"
  BY DEF CreateOrderCommit, Doing
<1>2. /\ OrderInv /\ q \in RequestFields /\ q.s \in Sessions /\ q.body \in Bodies
      /\ q.key \in Keys \cup {NoKey}
  BY <1>1 DEF EventInv, OrderInv, TypeOK, Request, RequestFields
<1> DEFINE row == [status |-> "pending", session |-> q.s, key |-> q.key,
                   body |-> q.body, notes |-> q.body, deleted |-> FALSE]
           r == [q EXCEPT !.at = "refresh", !.o = o, !.row = 1]
<1>3. row \in OrderRow /\ row.status = "pending" /\ row.deleted = FALSE
  BY <1>2 DEF OrderRow, OrderStatus
<1>4. r.at = "refresh" /\ r.o = o /\ r.row = 1 /\ r.op = "create_order"
  BY <1>1, <1>2 DEF RequestFields
<1>5. Len(history[o]) = 0
  BY <1>1, <1>2 DEF OrderInv, NothingBefore
<1>6. EventOf(r) = EventType[row.status]
  BY <1>3, <1>4 DEF EventOf, EventType
<1>7. /\ Record(o, row, "none", "system") /\ req' = [req EXCEPT ![w] = r]
      /\ UNCHANGED events
  BY <1>1
<1> HIDE DEF row, r
<1>8. r.row = Len(history[o]) + 1
  BY <1>4, <1>5
<1>9. row.deleted => order[o].deleted \/ row.status = "canceled"
  BY <1>3
<1>10. QED
  BY <1>3, <1>4, <1>6, <1>7, <1>8, <1>9, CommitAnnounces

LEMMA ChangeAnnounces ==
  ASSUME EventInv, OrderInv', NEW w \in Workers, DeleteOrderCommit(w) \/ TransitionCommit(w)
  PROVE  EventInv'
<1> DEFINE q == req[w]
           o == q.o
           r == [q EXCEPT !.at = "refresh", !.row = Len(history[o]) + 1]
<1>1. /\ OrderInv /\ q \in Request /\ q \in RequestFields /\ q.at = "commit"
      /\ q.op \in {"delete_order", "transition"}
      /\ q.op = "transition" => q.action \in WorkflowAction
  BY DEF EventInv, OrderInv, TypeOK, Request, DeleteOrderCommit, TransitionCommit, Doing
<1>2. o \in Orders /\ order[o] \in OrderRow
  BY <1>1, EventTypes DEF HasOrder
<1>3. r.at = "refresh" /\ r.o = o /\ r.row = Len(history[o]) + 1 /\ r.op = q.op
        /\ r.action = q.action
  BY <1>1 DEF RequestFields
<1>4. req' = [req EXCEPT ![w] = r] /\ UNCHANGED events
  <2>1. req' = [req EXCEPT ![w].at = "refresh", ![w].row = Len(history[o]) + 1]
    BY DEF DeleteOrderCommit, TransitionCommit
  <2>2. req \in [Workers -> Request]
    BY <1>1 DEF OrderInv, TypeOK
  <2>3. UNCHANGED events
    BY DEF DeleteOrderCommit, TransitionCommit
  <2>4. QED
    BY <2>1, <2>2, <2>3
<1> HIDE DEF r
<1>5. CASE DeleteOrderCommit(w)
  <2> DEFINE row == [order[o] EXCEPT !.status = "canceled", !.deleted = TRUE]
  <2>1. row \in OrderRow /\ row.status = "canceled"
    BY <1>2 DEF OrderRow, OrderStatus
  <2>2. Record(o, row, "pending", "staff") /\ q.op = "delete_order"
    BY <1>5 DEF DeleteOrderCommit, Doing
  <2> HIDE DEF row
  <2>3. EventOf(r) = EventType[row.status]
    BY <1>3, <2>1, <2>2 DEF EventOf, EventType
  <2>4. QED
    BY <1>2, <1>3, <1>4, <2>1, <2>2, <2>3, CommitAnnounces
<1>6. CASE TransitionCommit(w)
  <2> DEFINE row == [order[o] EXCEPT !.status = ApplyAction(q.action)]
  <2>1. q.op = "transition" /\ ApplyAction(q.action) \in OrderStatus
    BY <1>1, <1>6 DEF TransitionCommit, Doing, ApplyAction, TargetStatus, WorkflowAction,
          OrderStatus
  <2>2. row \in OrderRow /\ row.status = ApplyAction(q.action) /\ row.deleted = order[o].deleted
    BY <1>2, <2>1 DEF OrderRow
  <2>3. Record(o, row, q.read, ActorOf(q.action))
    BY <1>6 DEF TransitionCommit
  <2> HIDE DEF row
  <2>4. EventOf(r) = EventType[row.status]
    BY <1>3, <2>1, <2>2 DEF EventOf
  <2>5. QED
    BY <1>2, <1>3, <1>4, <2>2, <2>3, <2>4, CommitAnnounces
<1>7. QED
  BY <1>5, <1>6

\* The status read again is that of the last row: the order's, or a later one.
LEMMA RefreshAnnounces ==
  ASSUME EventInv, OrderInv', NEW w \in Workers, Refresh(w)
  PROVE  EventInv'
<1> DEFINE q == req[w]
           r == [q EXCEPT !.at = "publish", !.read = order[q.o].status]
<1>1. /\ OrderInv /\ q \in RequestFields /\ q.at = "refresh"
      /\ req' = [req EXCEPT ![w] = r] /\ UNCHANGED <<order, history, events>>
  BY DEF EventInv, OrderInv, TypeOK, Request, Refresh, Proceed, orderVars
<1>2. /\ r.at = "publish" /\ r.o = q.o /\ r.row = q.row /\ r.op = q.op
      /\ r.action = q.action /\ r.read = order[q.o].status
  BY <1>1 DEF RequestFields
<1>3. /\ req'[w] = r
      /\ \A u \in Workers : u # w => req'[u] = req[u]
  BY <1>1, EventTypes
<1> HIDE DEF r
<1>4. EventsTellHistory' /\ DeletedWasCanceled'
  BY <1>1 DEF EventInv, EventsTellHistory, DeletedWasCanceled
<1>5. q.o \in Orders /\ Stored(q.o) /\ Len(history[q.o]) \in Nat
  BY <1>1, EventTypes DEF HasOrder
<1>6. q.row \in 1..Len(history[q.o]) /\ Announces(w)
  BY <1>1 DEF EventInv, Announces
<1>7. /\ Len(history[q.o]) \in q.row..Len(history[q.o])
      /\ history[q.o][Len(history[q.o])].to = r.read
  BY <1>1, <1>2, <1>5, <1>6 DEF OrderInv, HistoryTellsStatus
<1>8. ASSUME NEW u \in Workers PROVE Announces(u)'
  <2>1. CASE u = w
    <3>1. EventOf(r) = EventOf(q)
      BY <1>2 DEF EventOf
    <3>2. /\ EventOf(q) = EventType[history[q.o][q.row].to]
          /\ \A k \in 1..Len(events[q.o]) : events[q.o][k].row # q.row
          /\ \A v \in Workers \ {w} :
                 req[v].at \in {"refresh", "publish"} /\ req[v].o = q.o
                   => req[v].row # q.row
      BY <1>1, <1>6 DEF Announces
    <3>3. \A v \in Workers \ {w} :
             req'[v].at \in {"refresh", "publish"} /\ req'[v].o = q.o
               => req'[v].row # q.row
      BY <1>3, <3>2
    <3>4. \E j \in q.row..Len(history[q.o]) : history[q.o][j].to = r.read
      BY <1>7
    <3> HIDE DEF q
    <3>5. QED
      BY <1>1, <1>2, <1>3, <1>6, <2>1, <3>1, <3>2, <3>3, <3>4 DEF Announces, EventOf
  <2>2. CASE u # w
    <3>1. Announces(u)
      BY DEF EventInv
    <3>2. QED
      BY <1>1, <1>2, <1>3, <2>2, <3>1 DEF Announces, EventOf
  <2>3. QED
    BY <2>1, <2>2
<1>9. QED
  BY <1>4, <1>8 DEF EventInv

LEMMA PublishAnnounces ==
  ASSUME EventInv, OrderInv', NEW w \in Workers, Publish(w)
  PROVE  EventInv'
<1> DEFINE q == req[w]
           o == q.o
           e == [type |-> EventOf(q), status |-> q.read, row |-> q.row]
<1>1. /\ OrderInv /\ q.at = "publish" /\ UNCHANGED <<order, history>>
      /\ req' = [req EXCEPT ![w] = Idle]
      /\ events' = [events EXCEPT ![o] = Append(@, e)] \/ UNCHANGED events
  BY DEF EventInv, Publish, Done, orderVars
<1>2. /\ req'[w] = Idle
      /\ \A u \in Workers : u # w => req'[u] = req[u]
  BY <1>1, EventTypes
<1>3. CASE UNCHANGED events
  BY <1>1, <1>2, <1>3, QuietInv DEF Idle
<1>4. CASE events' = [events EXCEPT ![o] = Append(@, e)]
  <2>1. o \in Orders /\ events[o] \in Seq(Event) /\ Len(events[o]) \in Nat
    BY <1>1, EventTypes DEF HasOrder
  <2>2. e.type = EventOf(q) /\ e.status = q.read /\ e.row = q.row
    OBVIOUS
  <2> HIDE DEF e
  <2>3. events'[o] = Append(events[o], e) /\ \A p \in Orders : p # o => events'[p] = events[p]
    <3>1. events \in [Orders -> Seq(Event)]
      BY <1>1, EventTypes
    <3>2. QED
      BY <1>4, <2>1, <3>1
  <2>4. /\ Len(events'[o]) = Len(events[o]) + 1
        /\ \A k \in 1..Len(events[o]) : events'[o][k] = events[o][k]
        /\ events'[o][Len(events[o]) + 1] = e
    BY <2>1, <2>3
  <2>5. /\ q.row \in 1..Len(history[o])
        /\ EventOf(q) = EventType[history[o][q.row].to]
        /\ \A k \in 1..Len(events[o]) : events[o][k].row # q.row
        /\ \E j \in q.row..Len(history[o]) : history[o][j].to = q.read
    BY <1>1 DEF EventInv, Announces
  <2>6. EventsTellHistory'
    <3> SUFFICES ASSUME NEW p \in Orders, NEW i \in 1..Len(events'[p])
                 PROVE  /\ events'[p][i].row \in 1..Len(history[p])
                        /\ events'[p][i].type = EventType[history[p][events'[p][i].row].to]
                        /\ \E j \in events'[p][i].row..Len(history[p]) :
                              history[p][j].to = events'[p][i].status
                        /\ \A k \in 1..(i - 1) : events'[p][k].row # events'[p][i].row
      BY <1>1 DEF EventsTellHistory
    <3>1. CASE p # o
      <4>1. events'[p] = events[p]
        BY <2>3, <3>1
      <4>2. EventsTellHistory /\ i \in 1..Len(events[p])
        BY <4>1 DEF EventInv
      <4>3. QED
        BY <4>1, <4>2 DEF EventsTellHistory
    <3>2. CASE p = o /\ i = Len(events[o]) + 1
      <4>1. events'[p][i] = e
        BY <2>4, <3>2
      <4>2. \A k \in 1..(i - 1) : k \in 1..Len(events[o])
        BY <2>1, <3>2
      <4>3. \A k \in 1..(i - 1) : events'[p][k].row # e.row
        BY <2>2, <2>4, <2>5, <3>2, <4>2
      <4>4. QED
        BY <2>2, <2>5, <3>2, <4>1, <4>3
    <3>3. CASE p = o /\ i # Len(events[o]) + 1
      <4>1. i \in 1..Len(events[o])
        BY <2>1, <2>4, <3>3
      <4>2. /\ events[o][i].row \in 1..Len(history[o])
            /\ events[o][i].type = EventType[history[o][events[o][i].row].to]
            /\ \E j \in events[o][i].row..Len(history[o]) :
                  history[o][j].to = events[o][i].status
            /\ \A k \in 1..(i - 1) : events[o][k].row # events[o][i].row
        BY <2>1, <4>1 DEF EventInv, EventsTellHistory
      <4>3. \A k \in 1..(i - 1) : events'[o][k] = events[o][k]
        BY <2>1, <2>4, <4>1
      <4>4. QED
        BY <2>4, <3>3, <4>1, <4>2, <4>3
    <3>4. QED
      BY <3>1, <3>2, <3>3
  <2>7. DeletedWasCanceled'
    BY <1>1 DEF EventInv, DeletedWasCanceled
  <2>8. ASSUME NEW u \in Workers PROVE Announces(u)'
    <3> SUFFICES ASSUME u # w, req[u].at \in {"refresh", "publish"} PROVE Announces(u)'
      BY <1>2 DEF Announces, Idle
    <3>1. Announces(u) /\ req'[u] = req[u] /\ req[u].o \in Orders
      BY <1>1, <1>2, EventTypes DEF EventInv, HasOrder
    <3>2. req[u].o = o => req[u].row # q.row
      BY <1>1, AnnounceApart
    <3>3. \A k \in 1..Len(events'[req[u].o]) : events'[req[u].o][k].row # req[u].row
      <4>1. CASE req[u].o # o
        BY <2>3, <3>1, <4>1 DEF Announces
      <4>2. CASE req[u].o = o
        <5>1. \A k \in 1..Len(events[o]) : events[o][k].row # req[u].row
          BY <3>1, <4>2 DEF Announces
        <5>2. \A k \in 1..Len(events'[o]) :
                 k \in 1..Len(events[o]) \/ k = Len(events[o]) + 1
          BY <2>1, <2>4
        <5>3. e.row # req[u].row
          BY <2>2, <3>2, <4>2
        <5>4. QED
          BY <2>4, <4>2, <5>1, <5>2, <5>3
      <4>3. QED
        BY <4>1, <4>2
    <3>4. \A v \in Workers : req'[v].at \in {"refresh", "publish"} => req'[v] = req[v]
      BY <1>2 DEF Idle
    <3>5. QED
      BY <1>1, <3>1, <3>3, <3>4 DEF Announces, EventOf
  <2>9. QED
    BY <2>6, <2>7, <2>8 DEF EventInv
<1>5. QED
  BY <1>1, <1>3, <1>4

\* Every other step leaves history and events alone, and commits no row.
LEMMA OtherAnnounces ==
  ASSUME EventInv, OrderInv', NEW w \in Workers,
         \/ CreateOrder(w) \/ CreateOrderRefused(w) \/ CreateOrderTable(w)
         \/ CreateOrderLookup(w) \/ CreateOrderReplay(w) \/ CreateOrderCollision(w)
         \/ UpdateOrder(w) \/ UpdateOrderCommit(w) \/ DeleteOrder(w) \/ Transition(w)
         \/ Abort(w) \/ Floor(w)
  PROVE  EventInv'
<1>1. OrderInv /\ order \in [Orders -> OrderRow] /\ req \in [Workers -> Request]
  BY DEF EventInv, OrderInv, TypeOK
<1>2. UNCHANGED <<history, events>>
  BY DEF CreateOrder, CreateOrderRefused, CreateOrderTable, CreateOrderLookup,
        CreateOrderReplay, CreateOrderCollision, UpdateOrder, UpdateOrderCommit,
        DeleteOrder, Transition, Abort, Floor, CloseSession, SetTable, BeginChange,
        Begin, Proceed, orderVars
<1>3. \A o \in Orders : order'[o].deleted = order[o].deleted
  <2>1. CASE UpdateOrderCommit(w)
    <3>1. order' = [order EXCEPT ![req[w].o].notes =
                       IF req[w].body = req[w].notesRead THEN @ ELSE req[w].body]
      BY <2>1 DEF UpdateOrderCommit
    <3>2. QED
      BY <1>1, <3>1 DEF OrderRow
  <2>2. CASE UNCHANGED order
    BY <2>2
  <2>3. QED
    BY <2>1, <2>2 DEF CreateOrder, CreateOrderRefused, CreateOrderTable, CreateOrderLookup,
          CreateOrderReplay, CreateOrderCollision, UpdateOrder, DeleteOrder, Transition,
          Abort, Floor, CloseSession, SetTable, BeginChange, Begin, Proceed, orderVars
<1>4. \A u \in Workers : u # w => req'[u] = req[u]
  BY <1>1 DEF CreateOrder, CreateOrderRefused, CreateOrderTable, CreateOrderLookup,
        CreateOrderReplay, CreateOrderCollision, UpdateOrder, UpdateOrderCommit,
        DeleteOrder, Transition, Abort, Floor, CloseSession, SetTable, BeginChange,
        Begin, Proceed, Done
<1>5. req'[w].at \notin {"refresh", "publish"} \/ req'[w] = req[w]
  <2>1. CASE CreateOrder(w)
    <3>1. PICK s \in Sessions, key \in Keys \cup {NoKey}, body \in Bodies :
            req' = [req EXCEPT ![w] =
              [Idle EXCEPT
                 !.op = "create_order", !.s = s, !.key = key, !.body = body,
                 !.at = IF TableOf[s] = NoTable THEN "lookup" ELSE "table"]]
      BY <2>1 DEF CreateOrder, Begin
    <3>2. QED
      BY <1>1, <3>1 DEF Idle
  <2>2. CASE CreateOrderTable(w) \/ CreateOrderLookup(w)
    BY <1>1, <2>2 DEF CreateOrderTable, CreateOrderLookup, Proceed, Request, RequestFields
  <2>3. CASE UpdateOrder(w) \/ DeleteOrder(w) \/ Transition(w)
    <3>1. CASE UpdateOrder(w)
      <4>1. PICK o \in Orders, notes \in Bodies : req' = [req EXCEPT ![w] =
              [[Idle EXCEPT !.op = "update_order", !.body = notes,
                            !.notesRead = order[o].notes] EXCEPT
                 !.at = "commit", !.o = o, !.read = order[o].status]]
        BY <3>1 DEF UpdateOrder, BeginChange, Begin
      <4>2. QED
        BY <1>1, <4>1 DEF Idle
    <3>2. CASE DeleteOrder(w)
      <4>1. PICK o \in Orders : req' = [req EXCEPT ![w] =
              [[Idle EXCEPT !.op = "delete_order"] EXCEPT
                 !.at = "commit", !.o = o, !.read = order[o].status]]
        BY <3>2 DEF DeleteOrder, BeginChange, Begin
      <4>2. QED
        BY <1>1, <4>1 DEF Idle
    <3>3. CASE Transition(w)
      <4>1. PICK o \in Orders, action \in WorkflowAction : req' = [req EXCEPT ![w] =
              [[Idle EXCEPT !.op = "transition", !.action = action] EXCEPT
                 !.at = "commit", !.o = o, !.read = order[o].status]]
        BY <3>3 DEF Transition, BeginChange, Begin
      <4>2. QED
        BY <1>1, <4>1 DEF Idle
    <3>4. QED
      BY <2>3, <3>1, <3>2, <3>3
  <2>4. CASE CreateOrderReplay(w) \/ CreateOrderCollision(w) \/ UpdateOrderCommit(w) \/ Abort(w)
    BY <1>1, <2>4 DEF CreateOrderReplay, CreateOrderCollision, UpdateOrderCommit, Abort,
          Done, Idle
  <2>5. CASE CreateOrderRefused(w) \/ Floor(w)
    BY <2>5 DEF CreateOrderRefused, Floor, CloseSession, SetTable
  <2>6. QED
    BY <2>1, <2>2, <2>3, <2>4, <2>5
<1>6. QED
  BY <1>2, <1>3, <1>4, <1>5, QuietInv

LEMMA EventInvStep == EventInv /\ [Next]_vars => EventInv'
<1> SUFFICES ASSUME EventInv, [Next]_vars PROVE EventInv'
  OBVIOUS
<1>1. OrderInv'
  BY OrderInvStep DEF EventInv
<1>2. CASE Next
  <2> PICK w \in Workers : Creating(w) \/ Changing(w) \/ Finishing(w) \/ Floor(w)
    BY <1>2 DEF Next
  <2>1. CASE CreateOrderCommit(w)
    BY <1>1, <2>1, CreateAnnounces
  <2>2. CASE DeleteOrderCommit(w) \/ TransitionCommit(w)
    BY <1>1, <2>2, ChangeAnnounces
  <2>3. CASE Refresh(w)
    BY <1>1, <2>3, RefreshAnnounces
  <2>4. CASE Publish(w)
    BY <1>1, <2>4, PublishAnnounces
  <2>5. QED
    BY <1>1, <2>1, <2>2, <2>3, <2>4, OtherAnnounces DEF Creating, Changing, Finishing
<1>3. CASE UNCHANGED vars
  <2>1. UNCHANGED <<order, history, events, req>>
    BY <1>3 DEF vars, orderVars
  <2>2. EventsTellHistory' /\ DeletedWasCanceled'
    BY <2>1 DEF EventInv, EventsTellHistory, DeletedWasCanceled
  <2>3. \A u \in Workers : Announces(u)'
    BY <2>1 DEF EventInv, Announces, EventOf
  <2>4. QED
    BY <1>1, <2>2, <2>3 DEF EventInv
<1>4. QED
  BY <1>2, <1>3

LEMMA EventInit == Init => EventInv
<1> SUFFICES ASSUME Init PROVE EventInv
  OBVIOUS
<1>1. OrderInv
  BY InitInv
<1>2. EventsTellHistory
  BY DEF Init, EventsTellHistory
<1>3. DeletedWasCanceled
  BY DEF Init, DeletedWasCanceled, NoOrderRow
<1>4. \A w \in Workers : Announces(w)
  BY DEF Init, Announces, Idle
<1>5. QED
  BY <1>1, <1>2, <1>3, <1>4 DEF EventInv

\* The invariant of the events: a request that has committed is the only one to
\* announce its row of the history.
THEOREM EventsCorrect == Spec => []EventInv
  BY EventInit, EventInvStep, PTL DEF Spec

\* An event announces a committed row of the history, each row at most once,
\* with a status the order had from that row on (kitchen/service.py and
\* commerce/service.py publish after the commit, from what they read again).
THEOREM EventsTell == Spec => []EventsTellHistory
<1>1. EventInv => EventsTellHistory
  BY DEF EventInv
<1>2. QED
  BY <1>1, EventsCorrect, PTL

\* An order in work that the kitchen's screen does not show was canceled, and
\* moved on by a request that overlapped the cancellation.
THEOREM QueueCorrect == Spec => []OffQueueOnlyByOverlap
<1>1. EventInv => OffQueueOnlyByOverlap
  <2> SUFFICES ASSUME EventInv, NEW o \in Orders, order[o].status \in InWork, o \notin Queue
               PROVE  \E i, j \in 1..Len(history[o]) :
                          /\ i < j
                          /\ history[o][i].to = "canceled"
                          /\ history[o][j].to = order[o].status
    BY DEF OffQueueOnlyByOverlap
  <2>1. /\ OrderInv /\ Stored(o) /\ order[o].deleted /\ order[o].status # "canceled"
        /\ Len(history[o]) \in Nat
    BY EventTypes DEF EventInv, Queue, InWork, Stored
  <2>2. PICK i \in 1..Len(history[o]) : history[o][i].to = "canceled"
    BY <2>1 DEF EventInv, DeletedWasCanceled
  <2>3. history[o][Len(history[o])].to = order[o].status
    BY <2>1 DEF OrderInv, HistoryTellsStatus
  <2>4. i < Len(history[o]) /\ Len(history[o]) \in 1..Len(history[o])
    BY <2>1, <2>2, <2>3
  <2>5. QED
    BY <2>2, <2>3, <2>4
<1>2. QED
  BY <1>1, EventsCorrect, PTL
----------------------------------------------------------------------------
(* Requests that overlap *)

\* A step of one worker leaves the requests of the others alone.
LEMMA OthersKept ==
  ASSUME OrderInv, NEW w \in Workers,
         Creating(w) \/ Changing(w) \/ Finishing(w) \/ Floor(w)
  PROVE  \A v \in Workers : v # w => req'[v] = req[v]
<1>1. req \in [Workers -> Request]
  BY DEF OrderInv, TypeOK
<1>2. QED
  BY <1>1
     DEF Creating, Changing, Finishing, Floor, CreateOrder, CreateOrderRefused,
         CreateOrderTable, CreateOrderLookup, CreateOrderReplay, CreateOrderCommit,
         CreateOrderCollision, UpdateOrder, UpdateOrderCommit, DeleteOrder,
         DeleteOrderCommit, Transition, TransitionCommit, Refresh, Publish, Abort,
         CloseSession, SetTable, BeginChange, Begin, Proceed, Done

\* What a step does to a request of another worker: its orders and sessions stay
\* as they are, or it is noted that they do not.
Meanwhile(v) ==
    /\ req'[v] = req[v]
    /\ ordersMissed[v] \subseteq ordersMissed'[v]
    /\ sessionsMissed[v] \subseteq sessionsMissed'[v]
    /\ \A s \in Sessions : session'[s] = session[s] \/ s \in sessionsMissed'[v]
    /\ \A o \in Orders : \/ /\ order'[o].status = order[o].status
                            /\ history'[o] = history[o]
                         \/ o \in ordersMissed'[v]

\* A commit that writes the status of an order.
LEMMA MeanwhileCommit ==
  ASSUME TypeOK, NEW w \in Workers, NEW v \in Workers, v # w, req[v] # Idle,
         NEW o \in Orders, NEW row, NEW from, NEW actor, NEW r,
         Record(o, row, from, actor), MissOrder(w, o),
         req' = [req EXCEPT ![w] = r], UNCHANGED session
  PROVE  Meanwhile(v)
<1>1. /\ req'[v] = req[v]
      /\ \A p \in Orders : p # o => order'[p] = order[p] /\ history'[p] = history[p]
  BY DEF TypeOK, Record
<1>2. ordersMissed'[v] = ordersMissed[v] \cup {o} /\ sessionsMissed'[v] = sessionsMissed[v]
  BY DEF TypeOK, MissOrder, Overlooked
<1>3. QED
  BY <1>1, <1>2 DEF Meanwhile

\* A step that begins a request, goes on with it or ends it, and writes no status.
LEMMA MeanwhileOther ==
  ASSUME TypeOK, NEW w \in Workers, NEW v \in Workers, v # w, NEW r,
         req' = [req EXCEPT ![w] = r], Done(w) \/ UNCHANGED missed,
         UNCHANGED <<session, history>>,
         \A o \in Orders : order'[o].status = order[o].status
  PROVE  Meanwhile(v)
<1>1. req'[v] = req[v]
  BY DEF TypeOK
<1>2. ordersMissed'[v] = ordersMissed[v] /\ sessionsMissed'[v] = sessionsMissed[v]
  BY DEF TypeOK, Done, missed
<1>3. QED
  BY <1>1, <1>2 DEF Meanwhile

\* update_order writes the notes only.
LEMMA UpdateKeepsStatus ==
  ASSUME TypeOK, NEW w \in Workers, UpdateOrderCommit(w)
  PROVE  \A o \in Orders : order'[o].status = order[o].status
                           /\ order'[o].deleted = order[o].deleted
<1>1. order' = [order EXCEPT ![req[w].o].notes =
                   IF req[w].body = req[w].notesRead THEN @ ELSE req[w].body]
  BY DEF UpdateOrderCommit
<1>2. order \in [Orders -> OrderRow]
  BY DEF TypeOK
<1>3. QED
  BY <1>1, <1>2 DEF OrderRow

LEMMA OthersMeanwhile ==
  ASSUME OrderInv, NEW w \in Workers, NEW v \in Workers, v # w, req[v] # Idle,
         Creating(w) \/ Changing(w) \/ Finishing(w) \/ Floor(w)
  PROVE  Meanwhile(v)
<1>1. TypeOK /\ req[w] \in Request
  BY DEF OrderInv, TypeOK
<1>2. CASE CreateOrderCommit(w)
  <2> DEFINE q == req[w]
             row == [status |-> "pending", session |-> q.s, key |-> q.key,
                     body |-> q.body, notes |-> q.body, deleted |-> FALSE]
  <2>1. PICK o \in Orders :
          /\ Record(o, row, "none", "system")
          /\ req' = [req EXCEPT ![w] = [q EXCEPT !.at = "refresh", !.o = o, !.row = 1]]
          /\ MissOrder(w, o) /\ UNCHANGED session
    BY <1>2 DEF CreateOrderCommit
  <2>2. QED
    BY <1>1, <2>1, MeanwhileCommit
<1>3. CASE DeleteOrderCommit(w) \/ TransitionCommit(w)
  <2> DEFINE o == req[w].o
             r == [req[w] EXCEPT !.at = "refresh", !.row = Len(history[o]) + 1]
  <2>1. o \in Orders
    BY <1>1, <1>3, RequestTypes DEF DeleteOrderCommit, TransitionCommit, Doing, HasOrder
  <2>2. req' = [req EXCEPT ![w] = r] /\ MissOrder(w, o) /\ UNCHANGED session
    BY <1>1, <1>3 DEF DeleteOrderCommit, TransitionCommit, floorVars, TypeOK
  <2>3. CASE DeleteOrderCommit(w)
    <3>1. Record(o, [order[o] EXCEPT !.status = "canceled", !.deleted = TRUE],
                 "pending", "staff")
      BY <2>3 DEF DeleteOrderCommit
    <3>2. QED
      BY <1>1, <2>1, <2>2, <3>1, MeanwhileCommit
  <2>4. CASE TransitionCommit(w)
    <3>1. Record(o, [order[o] EXCEPT !.status = ApplyAction(req[w].action)],
                 req[w].read, ActorOf(req[w].action))
      BY <2>4 DEF TransitionCommit
    <3>2. QED
      BY <1>1, <2>1, <2>2, <3>1, MeanwhileCommit
  <2>5. QED
    BY <1>3, <2>3, <2>4
<1>4. CASE CloseSession(w)
  <2>1. PICK s \in Sessions, to \in SessionStatus \ {"open"} :
          /\ session' = [session EXCEPT ![s] = to]
          /\ MissSession(w, s) /\ UNCHANGED <<order, history, req>>
    BY <1>4 DEF CloseSession, orderVars
  <2>2. sessionsMissed'[v] = sessionsMissed[v] \cup {s} /\ ordersMissed'[v] = ordersMissed[v]
    BY <1>1, <2>1 DEF TypeOK, MissSession, Overlooked
  <2>3. \A p \in Sessions : p # s => session'[p] = session[p]
    BY <1>1, <2>1 DEF TypeOK
  <2>4. QED
    BY <2>1, <2>2, <2>3 DEF Meanwhile
<1>5. CASE \/ CreateOrder(w) \/ CreateOrderTable(w) \/ CreateOrderLookup(w)
           \/ CreateOrderReplay(w) \/ CreateOrderCollision(w) \/ CreateOrderRefused(w)
           \/ UpdateOrder(w) \/ UpdateOrderCommit(w) \/ DeleteOrder(w) \/ Transition(w)
           \/ Refresh(w) \/ Publish(w) \/ Abort(w) \/ SetTable(w)
  <2>1. (\E r : req' = [req EXCEPT ![w] = r]) /\ (Done(w) \/ UNCHANGED missed)
    <3>1. req = [req EXCEPT ![w] = req[w]]
      BY <1>1 DEF TypeOK
    <3>2. QED
      BY <1>5, <3>1
         DEF CreateOrder, CreateOrderTable, CreateOrderLookup, CreateOrderReplay,
             CreateOrderCollision, CreateOrderRefused, UpdateOrder, UpdateOrderCommit,
             DeleteOrder, Transition, Refresh, Publish, Abort, SetTable, BeginChange,
             Begin, Proceed, Done
  <2>2. UNCHANGED <<session, history>>
    BY <1>5
       DEF CreateOrder, CreateOrderTable, CreateOrderLookup, CreateOrderReplay,
           CreateOrderCollision, CreateOrderRefused, UpdateOrder, UpdateOrderCommit,
           DeleteOrder, Transition, Refresh, Publish, Abort, SetTable, BeginChange,
           Begin, Proceed, floorVars, orderVars
  <2>3. \A o \in Orders : order'[o].status = order[o].status
    <3>1. CASE UpdateOrderCommit(w)
      BY <1>1, <3>1, UpdateKeepsStatus
    <3>2. CASE UNCHANGED order
      BY <3>2
    <3>3. QED
      BY <1>5, <3>1, <3>2
         DEF CreateOrder, CreateOrderTable, CreateOrderLookup, CreateOrderReplay,
             CreateOrderCollision, CreateOrderRefused, UpdateOrder, DeleteOrder,
             Transition, Refresh, Publish, Abort, SetTable, BeginChange, Begin, Proceed,
             orderVars
  <2>4. QED
    BY <1>1, <2>1, <2>2, <2>3, MeanwhileOther
<1>6. QED
  BY <1>2, <1>3, <1>4, <1>5 DEF Creating, Changing, Finishing, Floor

\* So what a request relies on holds, or it is noted that it need not.
LEMMA OverlapOthers ==
  ASSUME OrderInv, NEW v \in Workers, OverlapRelies(v), Meanwhile(v)
  PROVE  OverlapRelies(v)'
<1> DEFINE r == req[v]
<1>1. /\ r \in Request /\ req'[v] = r
      /\ r.op = "create_order" => r.s \in Sessions
      /\ HasOrder(r) => r.o \in Orders
  BY RequestTypes DEF OrderInv, TypeOK, Meanwhile
<1>2. r.op = "create_order" /\ r.at \in {"table", "lookup", "commit"} =>
         session'[r.s] = "open" \/ r.s \in sessionsMissed'[v]
  BY <1>1 DEF Meanwhile, OverlapRelies
<1>3. r.at = "commit" /\ r.op # "create_order" =>
         order'[r.o].status = r.read \/ r.o \in ordersMissed'[v]
  BY <1>1 DEF Meanwhile, OverlapRelies, HasOrder
<1>4. r.at \in {"refresh", "publish"} =>
         r.row = Len(history'[r.o]) \/ r.o \in ordersMissed'[v]
  BY <1>1 DEF Meanwhile, OverlapRelies, HasOrder
<1>5. r.at = "publish" =>
         r.read = history'[r.o][r.row].to \/ r.o \in ordersMissed'[v]
  BY <1>1 DEF Meanwhile, OverlapRelies, HasOrder
<1>6. /\ r.at = "commit" /\ r.op = "update_order" =>
             CanPatchOrder(r.read) /\ r.body \in Bodies
      /\ r.at = "commit" /\ r.op = "delete_order" => CanDeleteOrder(r.read)
  BY DEF OverlapRelies
<1> HIDE DEF r
<1>7. QED
  BY <1>1, <1>2, <1>3, <1>4, <1>5, <1>6 DEF OverlapRelies

\* A request that begins has read what is there, and one that goes on to another
\* read still has it.
LEMMA OverlapReads ==
  ASSUME OrderInv, NEW w \in Workers, OverlapRelies(w),
         \/ CreateOrder(w) \/ CreateOrderTable(w) \/ CreateOrderLookup(w)
         \/ UpdateOrder(w) \/ DeleteOrder(w) \/ Transition(w)
  PROVE  OverlapRelies(w)'
<1>0. /\ order \in [Orders -> OrderRow] /\ req \in [Workers -> Request]
      /\ session \in [Sessions -> SessionStatus]
  BY DEF OrderInv, TypeOK
<1>1. CASE CreateOrder(w)
  <2>1. PICK s \in Sessions, key \in Keys \cup {NoKey}, body \in Bodies :
          /\ SessionAcceptsOrders(session[s]) /\ UNCHANGED session
          /\ req' = [req EXCEPT ![w] =
               [Idle EXCEPT
                  !.op = "create_order", !.s = s, !.key = key, !.body = body,
                  !.at = IF TableOf[s] = NoTable THEN "lookup" ELSE "table"]]
    BY <1>1 DEF CreateOrder, Begin, floorVars
  <2>2. /\ req'[w].op = "create_order" /\ req'[w].s = s
        /\ req'[w].at \in {"lookup", "table"}
    BY <1>0, <2>1 DEF Idle
  <2>3. session'[s] = "open"
    BY <1>0, <2>1 DEF SessionAcceptsOrders, SessionStatus
  <2>4. QED
    BY <2>2, <2>3 DEF OverlapRelies
<1>2. CASE CreateOrderTable(w) \/ CreateOrderLookup(w)
  <2>1. /\ req[w].op = "create_order" /\ req[w].at \in {"table", "lookup"}
        /\ UNCHANGED <<session, sessionsMissed>> /\ req[w] \in RequestFields
    BY <1>0, <1>2 DEF CreateOrderTable, CreateOrderLookup, Proceed, Doing, Request,
          floorVars, missed
  <2>2. /\ req'[w].op = "create_order" /\ req'[w].s = req[w].s
        /\ req'[w].at \in {"lookup", "commit"}
    <3>1. CASE CreateOrderTable(w)
      <4>1. req' = [req EXCEPT ![w] = [req[w] EXCEPT
                       !.at = "lookup", !.tableRead = tableStatus[TableOf[req[w].s]]]]
        BY <3>1 DEF CreateOrderTable, Proceed
      <4>2. QED
        BY <1>0, <2>1, <4>1 DEF RequestFields
    <3>2. CASE CreateOrderLookup(w)
      <4>1. req' = [req EXCEPT ![w] = [req[w] EXCEPT !.at = "commit"]]
        BY <3>2 DEF CreateOrderLookup, Proceed
      <4>2. QED
        BY <1>0, <2>1, <4>1 DEF RequestFields
    <3>3. QED
      BY <1>2, <3>1, <3>2
  <2>3. QED
    BY <1>0, <2>1, <2>2 DEF OverlapRelies
<1>3. CASE UpdateOrder(w)
  <2>1. PICK o \in Orders, notes \in Bodies :
          /\ CanPatchOrder(order[o].status) /\ UNCHANGED order
          /\ req' = [req EXCEPT ![w] =
               [[Idle EXCEPT !.op = "update_order", !.body = notes,
                             !.notesRead = order[o].notes] EXCEPT
                  !.at = "commit", !.o = o, !.read = order[o].status]]
    BY <1>3 DEF UpdateOrder, BeginChange, Begin, orderVars
  <2>2. /\ req'[w].op = "update_order" /\ req'[w].at = "commit" /\ req'[w].o = o
        /\ req'[w].read = order[o].status /\ req'[w].body = notes
    BY <1>0, <2>1 DEF Idle
  <2>3. QED
    BY <2>1, <2>2 DEF OverlapRelies
<1>4. CASE DeleteOrder(w)
  <2>1. PICK o \in Orders :
          /\ CanDeleteOrder(order[o].status) /\ UNCHANGED order
          /\ req' = [req EXCEPT ![w] =
               [[Idle EXCEPT !.op = "delete_order"] EXCEPT
                  !.at = "commit", !.o = o, !.read = order[o].status]]
    BY <1>4 DEF DeleteOrder, BeginChange, Begin, orderVars
  <2>2. /\ req'[w].op = "delete_order" /\ req'[w].at = "commit" /\ req'[w].o = o
        /\ req'[w].read = order[o].status
    BY <1>0, <2>1 DEF Idle
  <2>3. QED
    BY <2>1, <2>2 DEF OverlapRelies
<1>5. CASE Transition(w)
  <2>1. PICK o \in Orders, action \in WorkflowAction :
          /\ UNCHANGED order
          /\ req' = [req EXCEPT ![w] =
               [[Idle EXCEPT !.op = "transition", !.action = action] EXCEPT
                  !.at = "commit", !.o = o, !.read = order[o].status]]
    BY <1>5 DEF Transition, BeginChange, Begin, orderVars
  <2>2. /\ req'[w].op = "transition" /\ req'[w].at = "commit" /\ req'[w].o = o
        /\ req'[w].read = order[o].status
    BY <1>0, <2>1 DEF Idle
  <2>3. QED
    BY <2>1, <2>2 DEF OverlapRelies
<1>6. QED
  BY <1>1, <1>2, <1>3, <1>4, <1>5

\* A commit writes the last row of the history, and that is the one to announce.
LEMMA OverlapCommits ==
  ASSUME OrderInv, NEW w \in Workers,
         CreateOrderCommit(w) \/ DeleteOrderCommit(w) \/ TransitionCommit(w)
  PROVE  OverlapRelies(w)'
<1> DEFINE q == req[w]
<1>1. TypeOK /\ NothingBefore /\ q \in Request /\ q \in RequestFields
  BY DEF OrderInv, TypeOK, Request
<1>2. PICK o \in Orders :
        /\ req'[w].at = "refresh" /\ req'[w].o = o /\ req'[w].row = Len(history[o]) + 1
        /\ \E new : history' = [history EXCEPT ![o] = Append(@, new)]
  <2>1. CASE CreateOrderCommit(w)
    <3>1. PICK o \in Orders :
            /\ ~Stored(o)
            /\ Record(o, [status |-> "pending", session |-> q.s, key |-> q.key,
                          body |-> q.body, notes |-> q.body, deleted |-> FALSE],
                      "none", "system")
            /\ req' = [req EXCEPT ![w] = [q EXCEPT !.at = "refresh", !.o = o, !.row = 1]]
      BY <2>1 DEF CreateOrderCommit
    <3>2. Len(history[o]) = 0
      BY <1>1, <3>1 DEF NothingBefore
    <3>3. req'[w].at = "refresh" /\ req'[w].o = o /\ req'[w].row = 1
      BY <1>1, <3>1 DEF TypeOK, RequestFields
    <3>4. \E new : history' = [history EXCEPT ![o] = Append(@, new)]
      BY <3>1 DEF Record
    <3>5. o \in Orders /\ req'[w].row = Len(history[o]) + 1
      BY <3>1, <3>2, <3>3
    <3>6. QED
      BY <3>3, <3>4, <3>5
  <2>2. CASE DeleteOrderCommit(w) \/ TransitionCommit(w)
    <3>1. q.o \in Orders
      BY <1>1, <2>2, RequestTypes DEF DeleteOrderCommit, TransitionCommit, Doing, HasOrder
    <3>2. req' = [req EXCEPT ![w].at = "refresh", ![w].row = Len(history[q.o]) + 1]
      BY <2>2 DEF DeleteOrderCommit, TransitionCommit
    <3>3. /\ req'[w].at = "refresh" /\ req'[w].o = q.o
          /\ req'[w].row = Len(history[q.o]) + 1
      BY <1>1, <3>2 DEF TypeOK, RequestFields
    <3>4. \E new : history' = [history EXCEPT ![q.o] = Append(@, new)]
      BY <2>2 DEF DeleteOrderCommit, TransitionCommit, Record
    <3>5. QED
      BY <3>1, <3>3, <3>4
  <2>3. QED
    BY <2>1, <2>2
<1>3. Len(history'[o]) = Len(history[o]) + 1
  <2>1. history \in [Orders -> Seq(HistoryRow)] /\ history[o] \in Seq(HistoryRow)
    BY <1>1 DEF TypeOK
  <2>2. PICK new : history' = [history EXCEPT ![o] = Append(@, new)]
    BY <1>2
  <2>3. history'[o] = Append(history[o], new)
    BY <2>1, <2>2
  <2>4. QED
    BY <2>1, <2>3, AppendRows
<1>4. QED
  BY <1>2, <1>3 DEF OverlapRelies

\* The order still has the status of the row the request wrote, or others have
\* written one.
LEMMA OverlapRefresh ==
  ASSUME EventInv, NEW w \in Workers, OverlapRelies(w), Refresh(w)
  PROVE  OverlapRelies(w)'
<1> DEFINE q == req[w]
           r == [q EXCEPT !.at = "publish", !.read = order[q.o].status]
<1>1. /\ OrderInv /\ q \in RequestFields /\ q.at = "refresh"
      /\ req \in [Workers -> Request] /\ req' = [req EXCEPT ![w] = r]
      /\ UNCHANGED <<order, history, ordersMissed>>
  BY DEF EventInv, OrderInv, TypeOK, Request, Refresh, Proceed, orderVars, missed
<1>2. r.at = "publish" /\ r.o = q.o /\ r.row = q.row /\ r.read = order[q.o].status
  BY <1>1 DEF RequestFields
<1>3. req'[w] = r
  BY <1>1
<1> HIDE DEF r
<1>4. /\ q.o \in Orders /\ Stored(q.o)
      /\ q.row = Len(history[q.o]) \/ q.o \in ordersMissed[w]
  BY <1>1, EventTypes DEF HasOrder, OverlapRelies
<1>5. history[q.o][q.row].to = order[q.o].status \/ q.o \in ordersMissed[w]
  BY <1>1, <1>4 DEF OrderInv, HistoryTellsStatus
<1>6. QED
  BY <1>1, <1>2, <1>3, <1>4, <1>5 DEF OverlapRelies

LEMMA OverlapStep == OverlapInv /\ [Next]_vars => OverlapInv'
<1> SUFFICES ASSUME OverlapInv, [Next]_vars PROVE OverlapInv'
  OBVIOUS
<1>1. EventInv /\ OrderInv /\ EventInv'
  BY EventInvStep DEF OverlapInv, EventInv
<1>2. CASE UNCHANGED vars
  <2>1. \A v \in Workers : OverlapRelies(v)'
    BY <1>2 DEF vars, floorVars, orderVars, missed, OverlapInv, OverlapRelies
  <2>2. QED
    BY <1>1, <2>1 DEF OverlapInv
<1>3. CASE Next
  <2> PICK w \in Workers : Creating(w) \/ Changing(w) \/ Finishing(w) \/ Floor(w)
    BY <1>3 DEF Next
  <2>1. OverlapRelies(w)'
    <3>1. OverlapRelies(w) /\ req \in [Workers -> Request]
      BY <1>1 DEF OverlapInv, OrderInv, TypeOK
    <3>2. CASE req'[w] = Idle
      BY <3>2 DEF OverlapRelies, Idle
    <3>3. CASE \/ CreateOrderReplay(w) \/ CreateOrderCollision(w) \/ UpdateOrderCommit(w)
               \/ Publish(w) \/ Abort(w) \/ CreateOrderRefused(w) \/ Floor(w)
      <4>1. req'[w] = Idle
        BY <3>1, <3>3 DEF CreateOrderReplay, CreateOrderCollision, UpdateOrderCommit,
              Publish, Abort, Done, CreateOrderRefused, Floor, CloseSession, SetTable
      <4>2. QED
        BY <3>2, <4>1
    <3>4. QED
      BY <1>1, <3>1, <3>3, OverlapReads, OverlapCommits, OverlapRefresh
         DEF Creating, Changing, Finishing
  <2>2. ASSUME NEW v \in Workers, v # w PROVE OverlapRelies(v)'
    <3>1. CASE req[v] = Idle
      <4>1. req'[v] = Idle
        BY <1>1, <2>2, <3>1, OthersKept
      <4>2. QED
        BY <4>1 DEF OverlapRelies, Idle
    <3>2. CASE req[v] # Idle
      <4>1. Meanwhile(v)
        BY <1>1, <2>2, <3>2, OthersMeanwhile
      <4>2. QED
        BY <1>1, <4>1, OverlapOthers DEF OverlapInv
    <3>3. QED
      BY <3>1, <3>2
  <2>3. QED
    BY <1>1, <2>1, <2>2 DEF OverlapInv
<1>4. QED
  BY <1>2, <1>3

\* A request works on what it has read, and announces the last row of the history,
\* unless another has written the order, or ended the session, since.
THEOREM OverlapCorrect == Spec => []OverlapInv
<1>1. Init => OverlapInv
  <2> SUFFICES ASSUME Init, EventInv PROVE OverlapInv
    BY EventInit
  <2>1. \A w \in Workers : OverlapRelies(w)
    BY DEF Init, OverlapRelies, Idle
  <2>2. QED
    BY <2>1 DEF OverlapInv
<1>2. QED
  BY <1>1, OverlapStep, PTL DEF Spec

\* What a request that publishes adds to the events of its order, if it adds any.
LEMMA PublishedEvent ==
  ASSUME EventInv, NEW w \in Workers, OverlapRelies(w), Publish(w), events' # events
  PROVE  /\ req[w].o \in Orders /\ UNCHANGED <<order, history>>
         /\ \A p \in Orders : p # req[w].o => events'[p] = events[p]
         /\ Len(events[req[w].o]) \in Nat
         /\ Len(events'[req[w].o]) = Len(events[req[w].o]) + 1
         /\ \A k \in 1..Len(events[req[w].o]) : events'[req[w].o][k] = events[req[w].o][k]
         /\ LET e == events'[req[w].o][Len(events'[req[w].o])] IN
            \/ /\ e.status = history[req[w].o][e.row].to
               /\ \A k \in 1..Len(events[req[w].o]) : events[req[w].o][k].row < e.row
            \/ req[w].o \in ordersMissed[w]
<1> DEFINE q == req[w]
           o == q.o
           e == [type |-> EventOf(q), status |-> q.read, row |-> q.row]
<1>1. /\ OrderInv /\ q.at = "publish" /\ UNCHANGED <<order, history>>
      /\ events' = [events EXCEPT ![o] = Append(@, e)]
  BY DEF EventInv, Publish, orderVars
<1>2. /\ o \in Orders /\ events[o] \in Seq(Event) /\ Len(events[o]) \in Nat
      /\ events \in [Orders -> Seq(Event)] /\ Len(history[o]) \in Nat
  BY <1>1, EventTypes DEF HasOrder
<1>3. e.status = q.read /\ e.row = q.row
  OBVIOUS
<1> HIDE DEF e
<1>4. events'[o] = Append(events[o], e) /\ \A p \in Orders : p # o => events'[p] = events[p]
  BY <1>1, <1>2
<1>5. /\ Len(events'[o]) = Len(events[o]) + 1
      /\ \A k \in 1..Len(events[o]) : events'[o][k] = events[o][k]
      /\ events'[o][Len(events'[o])] = e
  BY <1>2, <1>4
<1>6. ASSUME o \notin ordersMissed[w]
      PROVE  /\ q.read = history[o][q.row].to
             /\ \A k \in 1..Len(events[o]) : events[o][k].row < q.row
  <2>1. q.row = Len(history[o]) /\ q.read = history[o][q.row].to
    BY <1>1, <1>6 DEF OverlapRelies
  <2>2. ASSUME NEW k \in 1..Len(events[o]) PROVE events[o][k].row < q.row
    <3>1. events[o][k].row # q.row
      BY <1>1 DEF EventInv, Announces
    <3>2. events[o][k].row \in 1..Len(history[o])
      BY <1>1, <1>2 DEF EventInv, EventsTellHistory
    <3>3. QED
      BY <1>2, <2>1, <3>1, <3>2
  <2>3. QED
    BY <2>1, <2>2
<1>7. QED
  BY <1>1, <1>2, <1>3, <1>4, <1>5, <1>6

\* The step that EventsOutOfOrderOnlyByOverlap allows.
EventInOrder ==
    \A o \in Orders : events'[o] # events[o] =>
        LET e == events'[o][Len(events'[o])] IN
        \/ /\ e.status = history[o][e.row].to
           /\ \A k \in 1..Len(events[o]) : events[o][k].row < e.row
        \/ \E w \in Workers : req[w].o = o /\ Overlap(w, o)

\* Only Publish announces.
LEMMA EventStep == OverlapInv /\ [Next]_vars => [EventInOrder]_vars
<1> SUFFICES ASSUME OverlapInv, NEW w \in Workers,
                    Creating(w) \/ Changing(w) \/ Finishing(w) \/ Floor(w)
             PROVE  EventInOrder
  BY DEF Next
<1>1. CASE events' = events
  BY <1>1 DEF EventInOrder
<1>2. CASE Publish(w) /\ events' # events
  <2> DEFINE o == req[w].o
             e == events'[o][Len(events'[o])]
  <2>1. /\ \A p \in Orders : p # o => events'[p] = events[p]
        /\ \/ /\ e.status = history[o][e.row].to
              /\ \A k \in 1..Len(events[o]) : events[o][k].row < e.row
           \/ o \in ordersMissed[w]
    BY <1>2, PublishedEvent DEF OverlapInv
  <2>2. req'[w] # req[w] /\ req[w].at = "publish"
    <3>1. req' = [req EXCEPT ![w] = Idle] /\ req[w].at = "publish"
      BY <1>2 DEF Publish, Done
    <3>2. req'[w] = Idle
      BY <3>1 DEF OverlapInv, EventInv, OrderInv, TypeOK
    <3>3. QED
      BY <3>1, <3>2 DEF Idle
  <2> HIDE DEF e
  <2>3. \A p \in Orders : events'[p] # events[p] => p = o
    BY <2>1
  <2>4. o \in ordersMissed[w] => Overlap(w, o)
    BY <2>2 DEF Overlap
  <2>5. QED
    BY <2>1, <2>3, <2>4 DEF EventInOrder, e
<1>3. events' = events \/ Publish(w)
  BY DEF Creating, Changing, Finishing, Floor, CreateOrder, CreateOrderRefused,
         CreateOrderTable, CreateOrderLookup, CreateOrderReplay, CreateOrderCommit,
         CreateOrderCollision, UpdateOrder, UpdateOrderCommit, DeleteOrder,
         DeleteOrderCommit, Transition, TransitionCommit, Refresh, Abort,
         CloseSession, SetTable, BeginChange, Begin, Proceed
<1>4. QED
  BY <1>1, <1>2, <1>3

\* An event is announced out of its turn, or with a status that is not that of its
\* row, only by a request whose order another has written since the request came
\* (after its commit a handler reads the order again, then publishes).
THEOREM EventsByOverlap == Spec => EventsOutOfOrderOnlyByOverlap
<1>1. OverlapInv /\ [Next]_vars => [EventInOrder]_vars
  BY EventStep
<1>2. QED
  BY <1>1, OverlapCorrect, PTL DEF Spec, EventsOutOfOrderOnlyByOverlap, EventInOrder

\* The step that PlacedLateOnlyByOverlap allows.
Placed ==
    \A o \in Orders : ~Stored(o) /\ Stored(o)' =>
        LET s == order'[o].session IN
        /\ \A t \in Tables : tableStatus'[t] # tableStatus[t] => t = TableOf[s]
        /\ \/ session[s] = "open"
           \/ \E w \in Workers :
                  req[w].s = s /\ req'[w].o = o /\ s \in sessionsMissed[w]

\* Only the commit of create_order places an order.
LEMMA PlacedStep == OverlapInv /\ [Next]_vars => [Placed]_vars
<1> SUFFICES ASSUME OverlapInv, NEW w \in Workers,
                    Creating(w) \/ Changing(w) \/ Finishing(w) \/ Floor(w)
             PROVE  Placed
  BY DEF Next
<1>1. TypeOK /\ OrderInv /\ EventInv /\ OverlapRelies(w)
  BY DEF OverlapInv, EventInv, OrderInv
<1>2. CASE CreateOrderCommit(w)
  <2> DEFINE q == req[w]
  <2>1. /\ q \in RequestFields /\ q.s \in Sessions
        /\ session[q.s] = "open" \/ q.s \in sessionsMissed[w]
    BY <1>1, <1>2 DEF CreateOrderCommit, Doing, OverlapRelies, TypeOK, Request
  <2>2. PICK o \in Orders :
          /\ order' = [order EXCEPT ![o] =
                         [status |-> "pending", session |-> q.s, key |-> q.key,
                          body |-> q.body, notes |-> q.body, deleted |-> FALSE]]
          /\ req' = [req EXCEPT ![w] = [q EXCEPT !.at = "refresh", !.o = o, !.row = 1]]
    BY <1>2 DEF CreateOrderCommit, Record
  <2>3. \A p \in Orders : ~Stored(p) /\ Stored(p)' => p = o /\ order'[p].session = q.s
    BY <1>1, <2>2 DEF Stored, TypeOK
  <2>4. req'[w].o = o
    BY <1>1, <2>1, <2>2 DEF TypeOK, RequestFields
  <2>5. tableStatus' = [tableStatus EXCEPT ![TableOf[q.s]] = "occupied"]
           \/ UNCHANGED tableStatus
    BY <1>2 DEF CreateOrderCommit
  <2>6. \A t \in Tables : tableStatus'[t] # tableStatus[t] => t = TableOf[q.s]
    BY <1>1, <2>5 DEF TypeOK
  <2>7. QED
    BY <2>1, <2>3, <2>4, <2>6 DEF Placed
<1>3. CASE UpdateOrderCommit(w) \/ DeleteOrderCommit(w) \/ TransitionCommit(w)
  <2> DEFINE q == req[w]
  <2>1. q.o \in Orders /\ Stored(q.o) /\ order \in [Orders -> OrderRow]
    BY <1>1, <1>3, EventTypes DEF UpdateOrderCommit, DeleteOrderCommit, TransitionCommit,
          Doing, HasOrder
  <2>2. \A o \in Orders : o # q.o => order'[o] = order[o]
    BY <1>3, <2>1 DEF UpdateOrderCommit, DeleteOrderCommit, TransitionCommit, Record
  <2>3. QED
    BY <2>1, <2>2 DEF Placed, Stored
<1>4. CASE UNCHANGED order
  BY <1>4 DEF Placed, Stored
<1>5. QED
  BY <1>2, <1>3, <1>4
     DEF Creating, Changing, Finishing, Floor, CreateOrder, CreateOrderRefused,
         CreateOrderTable, CreateOrderLookup, CreateOrderReplay, CreateOrderCollision,
         UpdateOrder, DeleteOrder, Transition, Refresh, Publish, Abort, CloseSession,
         SetTable, BeginChange, Begin, Proceed, orderVars

\* An order is placed in a session that is open at that moment (rules.py:35-45),
\* or that was ended while the request was in progress; the only table marked with
\* it is the one at which that session sits (service.py:722).
THEOREM PlacedByOverlap == Spec => PlacedLateOnlyByOverlap
<1>1. OverlapInv /\ [Next]_vars => [Placed]_vars
  BY PlacedStep
<1>2. QED
  BY <1>1, OverlapCorrect, PTL DEF Spec, PlacedLateOnlyByOverlap, Placed

----------------------------------------------------------------------------
(* The workflow *)

\* A commit is a step of the workflow, or changes nothing that the workflow shows,
\* unless the order was written since the request read it; no other step changes an
\* order.
LEMMA WorkflowStep ==
  ASSUME OverlapInv, [Next]_vars
  PROVE  \/ [W!Next]_<<[o \in Orders |-> order[o].status],
                       [o \in Orders |-> order[o].notes]>>
         \/ \E w \in Workers : req[w].at = "commit" /\ Overlap(w, req[w].o)
<1> DEFINE status == [o \in Orders |-> order[o].status]
           notes == [o \in Orders |-> order[o].notes]
<1>1. /\ TypeOK /\ OrderInv /\ order \in [Orders -> OrderRow] /\ req \in [Workers -> Request]
      /\ \A w \in Workers : OverlapRelies(w) /\ req[w] \in RequestFields
  BY DEF OverlapInv, EventInv, OrderInv, TypeOK, Request
<1>2. CASE UNCHANGED order
  BY <1>2
<1>3. ASSUME NEW w \in Workers, CreateOrderCommit(w)
      PROVE  \E o \in Orders : W!Place(o)
  <2> DEFINE q == req[w]
  <2>1. q.body \in Bodies
    BY <1>1, <1>3 DEF CreateOrderCommit, Doing, Request
  <2>2. PICK o \in Orders :
          /\ ~Stored(o)
          /\ order' = [order EXCEPT ![o] =
                        [status |-> "pending", session |-> q.s, key |-> q.key,
                         body |-> q.body, notes |-> q.body, deleted |-> FALSE]]
    BY <1>3 DEF CreateOrderCommit, Record
  <2>3. status[o] = "absent"
    BY <2>2 DEF Stored
  <2>4. status' = [status EXCEPT ![o] = "pending"]
    BY <1>1, <2>2
  <2>5. notes' = [notes EXCEPT ![o] = q.body]
    BY <1>1, <2>2
  <2>6. W!Place(o)
    BY <2>1, <2>3, <2>4, <2>5 DEF W!Place
  <2>7. QED
    BY <2>6
<1>4. ASSUME NEW w \in Workers, DeleteOrderCommit(w), req[w].o \notin ordersMissed[w]
      PROVE  \E o \in Orders : W!Cancel(o)
  <2>1. PICK o \in Orders : o = req[w].o /\ order[o].status = "pending"
    BY <1>1, <1>4, EventTypes
       DEF DeleteOrderCommit, Doing, HasOrder, OverlapRelies, CanDeleteOrder
  <2>2. order' = [order EXCEPT ![o] = [order[o] EXCEPT !.status = "canceled", !.deleted = TRUE]]
    BY <1>4, <2>1 DEF DeleteOrderCommit, Record
  <2>3. /\ order'[o].status = "canceled" /\ order'[o].notes = order[o].notes
        /\ \A p \in Orders : p # o => order'[p] = order[p]
    BY <1>1, <2>1, <2>2 DEF OrderRow
  <2>4. status' = [status EXCEPT ![o] = "canceled"] /\ notes' = notes
    BY <2>1, <2>3
  <2>5. W!Cancel(o)
    BY <2>1, <2>4 DEF W!Cancel
  <2>6. QED
    BY <2>1, <2>5
<1>5. ASSUME NEW w \in Workers, TransitionCommit(w), req[w].o \notin ordersMissed[w]
      PROVE  \E o \in Orders : W!Advance(o)
  <2> DEFINE q == req[w]
  <2>1. PICK o \in Orders :
        /\ o = q.o /\ q.op = "transition" /\ q.action \in WorkflowAction
        /\ order[o].status = q.read /\ q.read = Required[q.action]
    BY <1>1, <1>5, EventTypes
       DEF TransitionCommit, Doing, HasOrder, OverlapRelies, OrderInv, Relies, Request
  <2>2. order' = [order EXCEPT ![o] = [order[o] EXCEPT !.status = TargetStatus[q.action]]]
    BY <1>5, <2>1 DEF TransitionCommit, Record, ApplyAction
  <2>3. /\ order'[o].status = TargetStatus[q.action] /\ order'[o].notes = order[o].notes
        /\ \A p \in Orders : p # o => order'[p] = order[p]
    BY <1>1, <2>1, <2>2 DEF OrderRow
  <2>4. order[o].status \in DOMAIN W!Successor
        /\ TargetStatus[q.action] = W!Successor[order[o].status]
    BY <2>1 DEF W!Successor, Required, TargetStatus, WorkflowAction
  <2>5. status' = [status EXCEPT ![o] = W!Successor[status[o]]] /\ notes' = notes
    BY <2>1, <2>3, <2>4
  <2>6. W!Advance(o)
    BY <2>1, <2>4, <2>5 DEF W!Advance
  <2>7. QED
    BY <2>1, <2>6
<1>6. ASSUME NEW w \in Workers, UpdateOrderCommit(w), req[w].o \notin ordersMissed[w]
      PROVE  (\E o \in Orders : W!Edit(o)) \/ (status' = status /\ notes' = notes)
  <2> DEFINE q == req[w]
  <2>1. PICK o \in Orders : o = q.o /\ q.body \in Bodies /\ CanPatchOrder(order[o].status)
    BY <1>1, <1>6, EventTypes DEF UpdateOrderCommit, Doing, HasOrder, OverlapRelies
  <2>2. \/ order' = [order EXCEPT ![o].notes = q.body]
        \/ order' = [order EXCEPT ![o].notes = @]
    BY <1>6, <2>1 DEF UpdateOrderCommit
  <2>3. /\ order'[o].status = order[o].status
        /\ order'[o].notes \in {q.body, order[o].notes}
        /\ \A p \in Orders : p # o => order'[p] = order[p]
    BY <1>1, <2>1, <2>2 DEF OrderRow
  <2>4. status' = status /\ notes' = [notes EXCEPT ![o] = order'[o].notes]
    BY <2>1, <2>3
  <2>5. CASE order'[o].notes = q.body
    <3>1. order[o].status \in DOMAIN W!Successor
      BY <2>1 DEF CanPatchOrder, W!Successor
    <3>2. W!Edit(o)
      BY <2>1, <2>4, <2>5, <3>1 DEF W!Edit
    <3>3. QED
      BY <2>1, <3>2
  <2>6. CASE order'[o].notes = order[o].notes
    BY <2>1, <2>3, <2>6
  <2>7. QED
    BY <2>3, <2>5, <2>6
<1>7. ASSUME NEW w \in Workers, req[w].o \in ordersMissed[w],
             DeleteOrderCommit(w) \/ TransitionCommit(w) \/ UpdateOrderCommit(w)
      PROVE  req[w].at = "commit" /\ Overlap(w, req[w].o)
  <2>1. req[w].at = "commit"
    BY <1>7 DEF DeleteOrderCommit, TransitionCommit, UpdateOrderCommit, Doing
  <2>2. req'[w].at # "commit"
    <3>1. \/ req' = [req EXCEPT ![w] = Idle]
          \/ \E n : req' = [req EXCEPT ![w].at = "refresh", ![w].row = n]
      BY <1>7 DEF DeleteOrderCommit, TransitionCommit, UpdateOrderCommit, Done
    <3>2. QED
      BY <1>1, <3>1 DEF Idle, RequestFields
  <2>3. QED
    BY <1>7, <2>1, <2>2 DEF Overlap
<1>8. \/ UNCHANGED order
      \/ \E w \in Workers : CreateOrderCommit(w) \/ DeleteOrderCommit(w)
                            \/ TransitionCommit(w) \/ UpdateOrderCommit(w)
  BY DEF Next, vars, Creating, Changing, Finishing, Floor, CreateOrder, CreateOrderRefused,
         CreateOrderTable, CreateOrderLookup, CreateOrderReplay, CreateOrderCollision,
         UpdateOrder, DeleteOrder, Transition, Refresh, Publish, Abort, CloseSession,
         SetTable, BeginChange, Begin, Proceed, orderVars
<1>9. QED
  BY <1>2, <1>3, <1>4, <1>5, <1>6, <1>7, <1>8 DEF W!Next

\* Every step is one of the workflow, or a commit that writes over what another
\* request has done to the order (commerce/service.py:736, 751 and workflow.py check
\* what was read, and the UPDATE has no condition).
THEOREM WorkflowByOverlap == Spec => LeavesWorkflowOnlyByOverlap
<1>1. OverlapInv /\ [Next]_vars =>
        \/ [W!Next]_<<[o \in Orders |-> order[o].status],
                      [o \in Orders |-> order[o].notes]>>
        \/ \E w \in Workers : req[w].at = "commit" /\ Overlap(w, req[w].o)
  BY WorkflowStep
<1>2. QED
  BY <1>1, OverlapCorrect, PTL DEF Spec, LeavesWorkflowOnlyByOverlap

----------------------------------------------------------------------------
(* One request at a time *)

\* No request is in progress behind which a lone worker could write.
LEMMA LoneMisses ==
  ASSUME OrderInv, NothingMissed, \A v, u \in Workers : v = u, NEW w \in Workers,
         Creating(w) \/ Changing(w) \/ Finishing(w) \/ Floor(w)
  PROVE  NothingMissed'
<1>1. /\ ordersMissed \in [Workers -> SUBSET Orders]
      /\ sessionsMissed \in [Workers -> SUBSET Sessions]
  BY DEF OrderInv, TypeOK
<1>2. \A o : MissOrder(w, o) => NothingMissed'
  BY <1>1 DEF MissOrder, Overlooked, NothingMissed
<1>3. \A s : MissSession(w, s) => NothingMissed'
  BY <1>1 DEF MissSession, Overlooked, NothingMissed
<1>4. Done(w) \/ UNCHANGED missed => NothingMissed'
  BY <1>1 DEF Done, missed, NothingMissed
<1>5. QED
  BY <1>2, <1>3, <1>4
     DEF Creating, Changing, Finishing, Floor, CreateOrder, CreateOrderRefused,
         CreateOrderTable, CreateOrderLookup, CreateOrderReplay, CreateOrderCommit,
         CreateOrderCollision, UpdateOrder, UpdateOrderCommit, DeleteOrder,
         DeleteOrderCommit, Transition, TransitionCommit, Refresh, Publish, Abort,
         CloseSession, SetTable, BeginChange, Begin, Proceed

\* Steps that write no row of a history and publish nothing.
LEMMA LoneQuiet ==
  ASSUME LoneInv, UNCHANGED <<history, events>>,
         \A o \in Orders : order'[o].status = order[o].status
                           /\ order'[o].deleted = order[o].deleted
  PROVE  EventsInOrder' /\ DeletedIsCanceled'
  BY DEF LoneInv, EventsInOrder, DeletedIsCanceled

\* A commit that adds a row to the history of o.
LEMMA LoneCommit ==
  ASSUME LoneInv, NEW o \in Orders, NEW row \in OrderRow, NEW from, NEW actor,
         Record(o, row, from, actor), UNCHANGED events,
         row.deleted => row.status = "canceled"
  PROVE  EventsInOrder' /\ DeletedIsCanceled'
<1> DEFINE new == [from |-> from, to |-> row.status, actor |-> actor]
<1>1. EventInv /\ OrderInv /\ TypeOK
  BY DEF LoneInv, OverlapInv, EventInv, OrderInv
<1>2. /\ order'[o] = row /\ history'[o] = Append(history[o], new)
      /\ \A p \in Orders : p # o => order'[p] = order[p] /\ history'[p] = history[p]
  BY <1>1, RecordRows
<1>3. \A i \in 1..Len(history[o]) : history'[o][i] = history[o][i]
  <2>1. history[o] \in Seq(HistoryRow)
    BY <1>1, EventTypes
  <2> HIDE DEF new
  <2>2. QED
    BY <1>2, <2>1, AppendRows
<1>4. \A p \in Orders : \A i \in 1..Len(history[p]) : history'[p][i] = history[p][i]
  BY <1>2, <1>3
<1>5. EventsInOrder'
  <2> SUFFICES ASSUME NEW p \in Orders, NEW i \in 1..Len(events[p])
               PROVE  /\ events[p][i].status = history'[p][events[p][i].row].to
                      /\ \A k \in 1..(i - 1) : events[p][k].row < events[p][i].row
    BY DEF EventsInOrder
  <2>1. events[p][i].row \in 1..Len(history[p])
    BY <1>1 DEF EventInv, EventsTellHistory
  <2>2. QED
    BY <1>4, <2>1 DEF LoneInv, EventsInOrder
<1>6. DeletedIsCanceled'
  BY <1>2 DEF LoneInv, DeletedIsCanceled
<1>7. QED
  BY <1>5, <1>6

LEMMA LoneCreate ==
  ASSUME LoneInv, NEW w \in Workers, CreateOrderCommit(w)
  PROVE  EventsInOrder' /\ DeletedIsCanceled'
<1> DEFINE q == req[w]
           row == [status |-> "pending", session |-> q.s, key |-> q.key,
                   body |-> q.body, notes |-> q.body, deleted |-> FALSE]
<1>1. PICK o \in Orders : Record(o, row, "none", "system") /\ UNCHANGED events
  BY DEF CreateOrderCommit
<1>2. q.s \in Sessions /\ q.body \in Bodies /\ q.key \in Keys \cup {NoKey}
  BY DEF LoneInv, OverlapInv, EventInv, OrderInv, TypeOK, Request, RequestFields,
         CreateOrderCommit, Doing
<1>3. row \in OrderRow /\ row.deleted = FALSE
  BY <1>2 DEF OrderRow, OrderStatus
<1> HIDE DEF row
<1>4. QED
  BY <1>1, <1>3, LoneCommit

\* A transition starts from the status the order has, so it is not deleted.
LEMMA LoneChange ==
  ASSUME LoneInv, NEW w \in Workers, DeleteOrderCommit(w) \/ TransitionCommit(w)
  PROVE  EventsInOrder' /\ DeletedIsCanceled'
<1> DEFINE q == req[w]
           o == q.o
<1>1. /\ OrderInv /\ q \in Request /\ q.at = "commit" /\ UNCHANGED events
      /\ q.op \in {"delete_order", "transition"}
      /\ q.op = "transition" => q.action \in WorkflowAction
  BY DEF LoneInv, OverlapInv, EventInv, OrderInv, TypeOK, Request, DeleteOrderCommit,
         TransitionCommit, Doing
<1>2. o \in Orders /\ order[o] \in OrderRow
  BY <1>1, EventTypes DEF HasOrder
<1>3. CASE DeleteOrderCommit(w)
  <2> DEFINE row == [order[o] EXCEPT !.status = "canceled", !.deleted = TRUE]
  <2>1. row \in OrderRow /\ row.status = "canceled"
    BY <1>2 DEF OrderRow, OrderStatus
  <2>2. Record(o, row, "pending", "staff")
    BY <1>3 DEF DeleteOrderCommit
  <2> HIDE DEF row
  <2>3. QED
    BY <1>1, <1>2, <2>1, <2>2, LoneCommit
<1>4. CASE TransitionCommit(w)
  <2> DEFINE row == [order[o] EXCEPT !.status = ApplyAction(q.action)]
  <2>1. /\ q.op = "transition" /\ q.action \in WorkflowAction
        /\ ApplyAction(q.action) \in OrderStatus
    BY <1>1, <1>4 DEF TransitionCommit, Doing, ApplyAction, TargetStatus, WorkflowAction,
          OrderStatus
  <2>2. order[o].status = q.read /\ q.read = Required[q.action]
    BY <1>1, <2>1 DEF LoneInv, OverlapInv, OverlapRelies, NothingMissed, OrderInv, Relies
  <2>3. order[o].status # "canceled"
    BY <2>1, <2>2 DEF Required, WorkflowAction
  <2>4. ~order[o].deleted
    BY <1>2, <2>3 DEF LoneInv, DeletedIsCanceled
  <2>5. row \in OrderRow /\ row.deleted = order[o].deleted
    BY <1>2, <2>1 DEF OrderRow
  <2>6. Record(o, row, q.read, ActorOf(q.action))
    BY <1>4 DEF TransitionCommit
  <2> HIDE DEF row
  <2>7. QED
    BY <1>1, <1>2, <2>4, <2>5, <2>6, LoneCommit
<1>5. QED
  BY <1>3, <1>4

\* The event of a lone request is the last one, with the status of its row.
LEMMA LonePublish ==
  ASSUME LoneInv, NEW w \in Workers, Publish(w)
  PROVE  EventsInOrder' /\ DeletedIsCanceled'
<1>1. CASE UNCHANGED events
  BY <1>1, LoneQuiet DEF Publish, orderVars
<1>2. CASE events' # events
  <2> DEFINE o == req[w].o
             n == Len(events[o])
             e == events'[o][n + 1]
  <2>1. /\ o \in Orders /\ UNCHANGED <<order, history>> /\ n \in Nat
        /\ \A p \in Orders : p # o => events'[p] = events[p]
        /\ Len(events'[o]) = n + 1
        /\ \A k \in 1..n : events'[o][k] = events[o][k]
        /\ e.status = history[o][e.row].to
        /\ \A k \in 1..n : events[o][k].row < e.row
    BY <1>2, PublishedEvent DEF LoneInv, OverlapInv, NothingMissed
  <2> HIDE DEF n, e
  <2>2. EventsInOrder'
    <3> SUFFICES ASSUME NEW p \in Orders, NEW i \in 1..Len(events'[p])
                 PROVE  /\ events'[p][i].status = history[p][events'[p][i].row].to
                        /\ \A k \in 1..(i - 1) : events'[p][k].row < events'[p][i].row
      BY <2>1 DEF EventsInOrder
    <3>1. CASE p # o
      <4>1. events'[p] = events[p]
        BY <2>1, <3>1
      <4>2. QED
        BY <4>1 DEF LoneInv, EventsInOrder
    <3>2. CASE p = o /\ i = n + 1
      <4>1. \A k \in 1..(i - 1) : k \in 1..n
        BY <2>1, <3>2
      <4>2. events'[p][i] = e
        BY <3>2 DEF e
      <4>3. QED
        BY <2>1, <3>2, <4>1, <4>2
    <3>3. CASE p = o /\ i # n + 1
      <4>1. i \in 1..n /\ \A k \in 1..(i - 1) : k \in 1..n
        BY <2>1, <3>3
      <4>2. /\ events[o][i].status = history[o][events[o][i].row].to
            /\ \A k \in 1..(i - 1) : events[o][k].row < events[o][i].row
        BY <2>1, <4>1 DEF LoneInv, EventsInOrder, n
      <4>3. QED
        BY <2>1, <3>3, <4>1, <4>2
    <3>4. QED
      BY <3>1, <3>2, <3>3
  <2>3. DeletedIsCanceled'
    BY <2>1 DEF LoneInv, DeletedIsCanceled
  <2>4. QED
    BY <2>2, <2>3
<1>3. QED
  BY <1>1, <1>2

LEMMA LoneStep ==
  ASSUME LoneInv, \A v, u \in Workers : v = u, [Next]_vars
  PROVE  LoneInv'
<1>1. OverlapInv /\ OverlapInv' /\ OrderInv
  BY OverlapStep DEF LoneInv, OverlapInv, EventInv
<1>2. CASE Next
  <2> PICK w \in Workers : Creating(w) \/ Changing(w) \/ Finishing(w) \/ Floor(w)
    BY <1>2 DEF Next
  <2>1. NothingMissed'
    BY <1>1, LoneMisses DEF LoneInv
  <2>2. EventsInOrder' /\ DeletedIsCanceled'
    <3>1. CASE CreateOrderCommit(w) \/ DeleteOrderCommit(w) \/ TransitionCommit(w)
      BY <3>1, LoneCreate, LoneChange
    <3>2. CASE Publish(w)
      BY <3>2, LonePublish
    <3>3. CASE UpdateOrderCommit(w)
      <4>1. UNCHANGED <<history, events>>
        BY <3>3 DEF UpdateOrderCommit
      <4>2. QED
        BY <1>1, <3>3, <4>1, UpdateKeepsStatus, LoneQuiet DEF OrderInv
    <3>4. CASE UNCHANGED <<order, history, events>>
      BY <3>4, LoneQuiet
    <3>5. QED
      BY <3>1, <3>2, <3>3, <3>4
         DEF Creating, Changing, Finishing, Floor, CreateOrder, CreateOrderRefused,
             CreateOrderTable, CreateOrderLookup, CreateOrderReplay,
             CreateOrderCollision, UpdateOrder, DeleteOrder, Transition, Refresh, Abort,
             CloseSession, SetTable, BeginChange, Begin, Proceed, orderVars
  <2>3. QED
    BY <1>1, <2>1, <2>2 DEF LoneInv
<1>3. CASE UNCHANGED vars
  BY <1>1, <1>3
     DEF vars, orderVars, missed, LoneInv, NothingMissed, EventsInOrder, DeletedIsCanceled
<1>4. QED
  BY <1>2, <1>3

\* A lone worker misses nothing, so what a request has read stays so until it
\* commits, and what it announces is the last row.
THEOREM LoneCorrect ==
  ASSUME \A v, w \in Workers : v = w
  PROVE  Spec => []LoneInv
<1>1. Init /\ OverlapInv => LoneInv
  BY DEF Init, LoneInv, NothingMissed, EventsInOrder, DeletedIsCanceled, NoOrderRow
<1>2. LoneInv /\ [Next]_vars => LoneInv'
  BY LoneStep
<1>3. QED
  BY <1>1, <1>2, OverlapCorrect, PTL DEF Spec

\* With a single worker events come in the order of the history, each with the
\* status of its own row.
THEOREM SerialEvents ==
  ASSUME \A v, w \in Workers : v = w
  PROVE  Spec => []EventsInOrder
<1>1. LoneInv => EventsInOrder
  BY DEF LoneInv
<1>2. QED
  BY <1>1, LoneCorrect, PTL

\* With a single worker the kitchen's screen shows all there is to do.
THEOREM SerialQueue ==
  ASSUME \A v, w \in Workers : v = w
  PROVE  Spec => []WorkIsOnQueue
<1>1. LoneInv => WorkIsOnQueue
  BY DEF LoneInv, WorkIsOnQueue, Queue, InWork, DeletedIsCanceled
<1>2. QED
  BY <1>1, LoneCorrect, PTL

\* With a single worker an order is created only in a session that is open at
\* that moment (rules.py:35-45), and only a table at which that session sits is
\* marked with it (service.py:722).
THEOREM SerialSessions ==
  ASSUME \A v, w \in Workers : v = w
  PROVE  Spec => OrdersInOpenSessions
<1> DEFINE Open ==
      \A o \in Orders : ~Stored(o) /\ Stored(o)' =>
          LET s == order'[o].session IN
          /\ session[s] = "open"
          /\ \A t \in Tables : tableStatus'[t] # tableStatus[t] => t = TableOf[s]
<1>1. LoneInv /\ [Next]_vars => [Open]_vars
  BY PlacedStep DEF Placed, LoneInv, NothingMissed
<1>2. QED
  BY <1>1, LoneCorrect, PTL DEF Spec, OrdersInOpenSessions

\* With a single worker the handlers implement the workflow: each commit places,
\* advances, cancels or edits one order as OrderWorkflow allows.
THEOREM SerialWorkflow ==
  ASSUME \A v, w \in Workers : v = w
  PROVE  Spec => ImplementsWorkflow
<1>1. Init => W!Init
  BY DEF Init, NoOrderRow, W!Init
<1>2. LoneInv /\ [Next]_vars =>
        [W!Next]_<<[o \in Orders |-> order[o].status], [o \in Orders |-> order[o].notes]>>
  BY WorkflowStep DEF LoneInv, NothingMissed, Overlap
<1>3. QED
  BY <1>1, <1>2, LoneCorrect, PTL DEF Spec, ImplementsWorkflow, W!Spec

=============================================================================
