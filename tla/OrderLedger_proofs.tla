-------------------------- MODULE OrderLedger_proofs --------------------------
(***************************************************************************)
(* OrderLifecycle implements OrderLedger, for any number of requests in    *)
(* progress: each commit is one step of the ledger or leaves it alone,     *)
(* each answer and each event reports what a commit wrote.  That a request *)
(* may still write or report what it read long ago rests on what it relies *)
(* on and is to announce (OrderInv and EventInv of OrderLifecycle_proofs). *)
(***************************************************************************)
EXTENDS OrderLifecycle_proofs

\* What the ledger shows of an order is what OrderLifecycle keeps of it.
LEMMA PlacedColumns ==
  ASSUME NEW o \in Orders
  PROVE  /\ placed[o].key = order[o].key
         /\ placed[o].session = order[o].session
         /\ placed[o].body = order[o].body
  BY DEF placed

\* A change of other columns is none of what an order was placed for.
LEMMA PlacedKept ==
  ASSUME \A o \in Orders : /\ order'[o].key = order[o].key
                           /\ order'[o].session = order[o].session
                           /\ order'[o].body = order[o].body
  PROVE  placed' = placed
  BY DEF placed

\* create_order commits: the order is new, and so is its key.
LEMMA PlaceStep ==
  ASSUME EventInv, NEW w \in Workers, CreateOrderCommit(w)
  PROVE  \E o \in Orders : L!Place(o)
<1>1. PICK q \in Request : q = req[w]
  BY DEF EventInv, OrderInv, TypeOK
<1>2. /\ TypeOK /\ NothingBefore /\ q.op = "create_order"
      /\ q.s \in Sessions /\ q.body \in Bodies /\ q.key \in Keys \cup {NoKey}
      /\ WithKey(q.key) = {} /\ UNCHANGED <<replied, events>>
  BY <1>1, RequestTypes DEF EventInv, OrderInv, CreateOrderCommit, Doing, answers
<1> DEFINE row == [status |-> "pending", session |-> q.s, key |-> q.key,
                   body |-> q.body, notes |-> q.body, deleted |-> FALSE]
           what == [key |-> q.key, session |-> q.s, body |-> q.body]
<1>3. PICK o \in Orders : ~Stored(o) /\ Record(o, row, "none", "system")
  BY <1>1 DEF CreateOrderCommit
<1>4. /\ row \in OrderRow /\ row.status = "pending"
      /\ row.key = q.key /\ row.session = q.s /\ row.body = q.body
  BY <1>2 DEF OrderRow, OrderStatus
<1> HIDE DEF row
<1>5. /\ order'[o] = row
      /\ \A p \in Orders : p # o => order'[p] = order[p]
  BY <1>2, <1>3, <1>4, RecordRows
<1>6. history[o] = <<>>
  BY <1>2, <1>3 DEF NothingBefore
<1>7. placed' = [placed EXCEPT ![o] = what]
  BY <1>4, <1>5 DEF placed
<1>8. q.key # NoKey => \A p \in Orders : placed[p].key # q.key
  <2> SUFFICES ASSUME q.key # NoKey, NEW p \in Orders, order[p].key = q.key PROVE FALSE
    BY PlacedColumns
  <2>1. Stored(p)
    BY <1>2 DEF NothingBefore
  <2>2. QED
    BY <1>2, <2>1 DEF WithKey
<1>9. history' = [history EXCEPT ![o] = <<L!FirstRow>>]
  BY <1>2, <1>3, <1>4, <1>6 DEF Record, L!FirstRow, TypeOK
<1>10. QED
  BY <1>2, <1>6, <1>7, <1>8, <1>9 DEF L!Place

\* delete_order and transition commit: a step of the workflow from a status that
\* was reached, if not from the last one.
LEMMA AdvanceStep ==
  ASSUME EventInv, NEW w \in Workers, DeleteOrderCommit(w) \/ TransitionCommit(w)
  PROVE  \E o \in Orders : L!Advance(o)
<1>1. PICK q, o : q \in Request /\ q = req[w] /\ o = q.o
  BY DEF EventInv, OrderInv, TypeOK
<1>2. /\ TypeOK /\ Relies(q) /\ HistoryTellsStatus /\ HistoryFollowsWorkflow
      /\ q.at = "commit" /\ q.op \in {"delete_order", "transition"}
      /\ UNCHANGED <<replied, events>>
  BY <1>1 DEF EventInv, OrderInv, DeleteOrderCommit, TransitionCommit, Doing, answers
<1>3. o \in Orders /\ Stored(o)
  BY <1>1, <1>2, RequestTypes DEF HasOrder, Relies
<1>4. order[o] \in OrderRow /\ history[o] \in Seq(HistoryRow) /\ Len(history[o]) \in Nat
  BY <1>2, <1>3, RowTypes
<1>5. PICK row, from, actor :
        /\ row \in OrderRow
        /\ Record(o, row, from, actor)
        /\ row.key = order[o].key /\ row.session = order[o].session
        /\ row.body = order[o].body
        /\ [from |-> from, to |-> row.status, actor |-> actor] \in L!Edge
        /\ \E i \in 1..Len(history[o]) : history[o][i].to = from
  <2>1. CASE DeleteOrderCommit(w)
    <3> DEFINE row == [order[o] EXCEPT !.status = "canceled", !.deleted = TRUE]
    <3>1. /\ row \in OrderRow /\ row.status = "canceled"
          /\ row.key = order[o].key /\ row.session = order[o].session
          /\ row.body = order[o].body
      BY <1>4 DEF OrderRow, OrderStatus
    <3>2. Record(o, row, "pending", "staff")
      BY <1>1, <2>1 DEF DeleteOrderCommit
    <3>3. 1 \in 1..Len(history[o])
      BY <1>2, <1>3, <1>4 DEF HistoryTellsStatus
    <3>4. history[o][1].to = "pending"
      BY <1>2, <1>3, <3>3 DEF HistoryFollowsWorkflow
    <3> HIDE DEF row
    <3>5. [from |-> "pending", to |-> row.status, actor |-> "staff"] \in L!Edge
      BY <3>1 DEF L!Edge
    <3>6. QED
      BY <3>1, <3>2, <3>3, <3>4, <3>5
  <2>2. CASE TransitionCommit(w)
    <3> DEFINE row == [order[o] EXCEPT !.status = ApplyAction(q.action)]
    <3>1. q.op = "transition" /\ q.action \in WorkflowAction
      BY <1>1, <2>2, RequestTypes DEF TransitionCommit, Doing
    <3>2. ApplyAction(q.action) \in OrderStatus
      BY <3>1 DEF ApplyAction, TargetStatus, WorkflowAction, OrderStatus
    <3>3. /\ row \in OrderRow /\ row.status = ApplyAction(q.action)
          /\ row.key = order[o].key /\ row.session = order[o].session
          /\ row.body = order[o].body
      BY <1>4, <3>2 DEF OrderRow
    <3>4. Record(o, row, q.read, ActorOf(q.action))
      BY <1>1, <2>2 DEF TransitionCommit
    <3>5. /\ q.read = Required[q.action]
          /\ \E i \in 1..Len(history[o]) : history[o][i].to = q.read
      BY <1>1, <1>2, <3>1 DEF Relies
    <3> HIDE DEF row
    <3>6. [from |-> q.read, to |-> row.status, actor |-> ActorOf(q.action)] \in L!Edge
      BY <3>1, <3>3, <3>5 DEF L!Edge, Required, ApplyAction, TargetStatus, ActorOf,
            WorkflowAction
    <3>7. QED
      BY <3>3, <3>4, <3>5, <3>6
  <2>3. QED
    BY <2>1, <2>2
<1>6. /\ order'[o] = row
      /\ \A p \in Orders : p # o => order'[p] = order[p]
  BY <1>2, <1>3, <1>5, RecordRows
<1>7. placed' = placed
  BY <1>5, <1>6, PlacedKept
<1>8. history' = [history EXCEPT
                     ![o] = Append(@, [from |-> from, to |-> row.status, actor |-> actor])]
  BY <1>5 DEF Record
<1>9. L!Advance(o)
  <2> DEFINE e == [from |-> from, to |-> row.status, actor |-> actor]
  <2>1. e \in L!Edge /\ e.from = from /\ history' = [history EXCEPT ![o] = Append(@, e)]
    BY <1>5, <1>8
  <2> HIDE DEF e
  <2>2. QED
    BY <1>2, <1>5, <1>7, <2>1 DEF L!Advance
<1>10. QED
  BY <1>3, <1>9

\* A keyed request is answered with an order that was placed for an equal one.
LEMMA AnswerTells ==
  ASSUME NEW o \in Orders, NEW r, SamePayload(r, o), order[o].key = r.key, Answer(r, o)
  PROVE  L!Tell(o)
<1>1. /\ placed[o].key = r.key /\ placed[o].session = r.s /\ placed[o].body = r.body
  BY PlacedColumns DEF SamePayload
<1>2. CASE r.key = NoKey
  BY <1>2 DEF Answer, L!Tell
<1>3. CASE r.key # NoKey
  BY <1>1, <1>3 DEF Answer, L!Tell
<1>4. QED
  BY <1>2, <1>3

\* Publishing reports the row the request has committed, if Redis takes the event,
\* and answers, if the request had a key.
LEMMA ReportStep ==
  ASSUME EventInv, NEW w \in Workers, Publish(w)
  PROVE  \E o \in Orders : L!Report(o)
<1>1. PICK q, o : q \in Request /\ q = req[w] /\ o = q.o
  BY DEF EventInv, OrderInv, TypeOK
<1>2. /\ TypeOK /\ Relies(q) /\ HistoryTellsStatus /\ Announces(w)
      /\ q.at = "publish" /\ Answer(q, o) /\ UNCHANGED <<order, history>>
      /\ \/ events' = [events EXCEPT ![o] =
               Append(@, [type |-> EventOf(q), status |-> q.read, row |-> q.row])]
         \/ UNCHANGED events
  BY <1>1 DEF EventInv, OrderInv, Publish, orderVars
<1>3. /\ o \in Orders /\ Stored(o) /\ history[o] # <<>>
      /\ q.op # "create_order" => q.key = NoKey
      /\ q.op = "create_order" => order[o].key = q.key /\ SamePayload(q, o)
  BY <1>1, <1>2, RequestTypes DEF HasOrder, Relies, HistoryTellsStatus
<1>4. L!Tell(o)
  <2>1. CASE q.op = "create_order"
    BY <1>2, <1>3, <2>1, AnswerTells
  <2>2. CASE q.op # "create_order"
    BY <1>2, <1>3, <2>2 DEF Answer, L!Tell
  <2>3. QED
    BY <2>1, <2>2
<1>5. L!Announce(o)
  <2>1. /\ q.row \in 1..Len(history[o])
        /\ EventOf(q) = EventType[history[o][q.row].to]
        /\ \A k \in 1..Len(events[o]) : events[o][k].row # q.row
        /\ \E j \in q.row..Len(history[o]) : history[o][j].to = q.read
    BY <1>1, <1>2 DEF Announces
  <2>2. L!Topic = EventType
    BY DEF L!Topic, EventType
  <2>3. QED
    BY <1>2, <2>1, <2>2 DEF L!Announce
<1>6. placed' = placed
  BY <1>2 DEF placed
<1>7. QED
  BY <1>2, <1>3, <1>4, <1>5, <1>6 DEF L!Report

\* The answer to a repeated key reports the order that has it.
LEMMA ReplayStep ==
  ASSUME EventInv, NEW w \in Workers, CreateOrderReplay(w)
  PROVE  \E o \in Orders : L!Report(o)
<1>1. PICK o \in Orders :
        /\ Stored(o) /\ order[o].key = req[w].key
        /\ SamePayload(req[w], o) /\ Answer(req[w], o)
  BY DEF CreateOrderReplay, WithKey
<1>2. L!Tell(o)
  BY <1>1, AnswerTells
<1>3. UNCHANGED <<order, history, events>>
  BY DEF CreateOrderReplay, orderVars
<1>4. history[o] # <<>>
  BY <1>1 DEF EventInv, OrderInv, HistoryTellsStatus
<1>5. L!Announce(o) /\ placed' = placed
  BY <1>3 DEF L!Announce, placed
<1>6. QED
  BY <1>2, <1>3, <1>4, <1>5 DEF L!Report

\* A PATCH of the notes is nothing to the ledger.
LEMMA NotesStep ==
  ASSUME EventInv, NEW w \in Workers, UpdateOrderCommit(w)
  PROVE  UNCHANGED L!ledger
<1>1. \A o \in Orders : order[o] \in OrderRow
  BY RowTypes DEF EventInv, OrderInv
<1>2. PICK notes : order' = [order EXCEPT ![req[w].o].notes = notes]
  BY DEF UpdateOrderCommit
<1>3. \A o \in Orders : /\ order'[o].key = order[o].key
                        /\ order'[o].session = order[o].session
                        /\ order'[o].body = order[o].body
  <2> SUFFICES ASSUME NEW o \in Orders
               PROVE  /\ order'[o].key = order[o].key
                      /\ order'[o].session = order[o].session
                      /\ order'[o].body = order[o].body
    OBVIOUS
  <2>1. order \in [Orders -> OrderRow]
    BY DEF EventInv, OrderInv, TypeOK
  <2>2. order'[o] = order[o] \/ order'[o] = [order[o] EXCEPT !.notes = notes]
    BY <1>2, <2>1
  <2>3. QED
    BY <1>1, <2>2 DEF OrderRow
<1>4. placed' = placed
  BY <1>3, PlacedKept
<1>5. QED
  BY <1>4 DEF UpdateOrderCommit, answers, L!ledger

\* Every step of a handler is a step of the ledger, or none.
LEMMA LedgerStep ==
  ASSUME EventInv, [Next]_vars
  PROVE  [L!Next]_L!ledger
<1>1. CASE UNCHANGED <<order, history, replied, events>>
  BY <1>1 DEF L!ledger, placed
<1>2. ASSUME NEW w \in Workers, CreateOrderCommit(w) PROVE L!Next
  BY <1>2, PlaceStep DEF L!Next
<1>3. ASSUME NEW w \in Workers, DeleteOrderCommit(w) \/ TransitionCommit(w) PROVE L!Next
  BY <1>3, AdvanceStep DEF L!Next
<1>4. ASSUME NEW w \in Workers, Publish(w) PROVE L!Next
  BY <1>4, ReportStep DEF L!Next
<1>5. ASSUME NEW w \in Workers, CreateOrderReplay(w) PROVE L!Next
  BY <1>5, ReplayStep DEF L!Next
<1>6. ASSUME NEW w \in Workers, UpdateOrderCommit(w) PROVE UNCHANGED L!ledger
  BY <1>6, NotesStep
<1>7. ASSUME NEW w \in Workers, Creating(w) \/ Changing(w) \/ Finishing(w) \/ Floor(w)
      PROVE  \/ UNCHANGED <<order, history, replied, events>>
             \/ CreateOrderCommit(w) \/ DeleteOrderCommit(w) \/ TransitionCommit(w)
             \/ Publish(w) \/ CreateOrderReplay(w) \/ UpdateOrderCommit(w)
  <2>1. CASE Creating(w)
    BY <2>1 DEF Creating, CreateOrder, CreateOrderRefused, CreateOrderTable,
          CreateOrderLookup, CreateOrderCollision, Begin, Proceed, orderVars, answers
  <2>2. CASE Changing(w)
    BY <2>2 DEF Changing, UpdateOrder, DeleteOrder, Transition, BeginChange, Begin,
          orderVars, answers
  <2>3. CASE Finishing(w)
    BY <2>3 DEF Finishing, Refresh, Abort, Proceed, orderVars, answers
  <2>4. CASE Floor(w)
    BY <2>4 DEF Floor, CloseSession, SetTable, orderVars, answers
  <2>5. QED
    BY <1>7, <2>1, <2>2, <2>3, <2>4
<1>8. UNCHANGED vars => UNCHANGED <<order, history, replied, events>>
  BY DEF vars, orderVars, answers
<1>9. QED
  BY <1>1, <1>2, <1>3, <1>4, <1>5, <1>6, <1>7, <1>8 DEF Next

\* However many requests run at once, the order routes implement the ledger: an
\* order is placed once under a key of its own, its rows are only added to and along
\* the workflow, and answers and events report what was committed and nothing else.
THEOREM LedgerImplemented == Spec => ImplementsLedger
<1>1. Init => L!Init
  BY DEF Init, NoOrderRow, placed, L!Init, L!Unplaced
<1>2. EventInv /\ [Next]_vars => [L!Next]_L!ledger
  BY LedgerStep
<1>3. QED
  BY <1>1, <1>2, EventsCorrect, PTL DEF Spec, ImplementsLedger, L!Spec

=============================================================================
