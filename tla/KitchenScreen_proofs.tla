------------------------ MODULE KitchenScreen_proofs ------------------------
(***************************************************************************)
(* Proofs about KitchenScreen.  Its steps are steps of OrderLifecycle, so  *)
(* the invariants proved there hold here; what is added is who can join    *)
(* the line of orders in work, and with what time (Joining).               *)
(***************************************************************************)
EXTENDS KitchenScreen, OrderLifecycle_proofs, FiniteSetTheorems

----------------------------------------------------------------------------
(* KitchenScreen implements OrderLifecycle *)

\* The times only watch: a step of KitchenScreen is one of OrderLifecycle.
LEMMA ScreenStepIsStep == [ScreenNext]_allVars => [Next]_vars
<1>1. ScreenNext => Next
  BY DEF ScreenNext, BeginOrder, StoreOrder, OtherStep, Next, Creating
<1>2. QED
  BY <1>1 DEF allVars

\* Every behaviour with the times is one of OrderLifecycle, so that what is proved
\* of orders, histories and events holds on the kitchen's side too.
THEOREM ScreenImplementsOrders == ScreenSpec => Spec
<1>1. ScreenInit => Init
  BY DEF ScreenInit
<1>2. QED
  BY <1>1, ScreenStepIsStep, PTL DEF ScreenSpec, Spec

----------------------------------------------------------------------------
(* Steps and the times *)

\* A step of another kind than storing an order changes at most the row of one
\* that is stored.
LEMMA OrderSteps ==
  ASSUME NEW w \in Workers, BeginOrder(w) \/ OtherStep(w)
  PROVE  \/ UNCHANGED order
         \/ UpdateOrderCommit(w) \/ DeleteOrderCommit(w) \/ TransitionCommit(w)
  BY DEF BeginOrder, OtherStep, Changing, Finishing, Floor, CreateOrder,
         CreateOrderRefused, CreateOrderTable, CreateOrderLookup, CreateOrderReplay,
         CreateOrderCollision, UpdateOrder, DeleteOrder, Transition, Refresh, Publish,
         Abort, CloseSession, SetTable, BeginChange, Begin, Proceed, orderVars

\* The commits of requests on an order that exists.
LEMMA ChangeSteps ==
  ASSUME OrderInv, NEW w \in Workers,
         UpdateOrderCommit(w) \/ DeleteOrderCommit(w) \/ TransitionCommit(w)
  PROVE  LET o == req[w].o IN
         /\ o \in Orders /\ Stored(o)
         /\ \A p \in Orders : p # o => order'[p] = order[p]
         /\ UpdateOrderCommit(w) =>
               /\ order'[o].status = order[o].status
               /\ order'[o].deleted = order[o].deleted
         /\ DeleteOrderCommit(w) => order'[o].status = "canceled" /\ order'[o].deleted
         /\ TransitionCommit(w) =>
               /\ order'[o].status = ApplyAction(req[w].action)
               /\ order'[o].deleted = order[o].deleted
<1> DEFINE o == req[w].o
<1>1. /\ order \in [Orders -> OrderRow]
      /\ HasOrder(req[w]) => o \in Orders /\ Stored(o)
  BY EventTypes
<1>2. o \in Orders /\ Stored(o)
  BY <1>1 DEF UpdateOrderCommit, DeleteOrderCommit, TransitionCommit, Doing, HasOrder
<1>3. CASE UpdateOrderCommit(w)
  BY <1>1, <1>2, <1>3
     DEF UpdateOrderCommit, DeleteOrderCommit, TransitionCommit, Doing, OrderRow
<1>4. CASE DeleteOrderCommit(w)
  BY <1>1, <1>2, <1>4
     DEF UpdateOrderCommit, DeleteOrderCommit, TransitionCommit, Doing, Record, OrderRow
<1>5. CASE TransitionCommit(w)
  BY <1>1, <1>2, <1>5
     DEF UpdateOrderCommit, DeleteOrderCommit, TransitionCommit, Doing, Record, OrderRow
<1>6. QED
  BY <1>3, <1>4, <1>5

\* The row that is stored, and its time.
LEMMA StoreSteps ==
  ASSUME OrderInv, ScreenTypeOK, NEW w \in Workers, StoreOrder(w)
  PROVE  LET o == req'[w].o IN
         /\ o \in Orders /\ ~Stored(o)
         /\ order'[o].status = "pending" /\ ~order'[o].deleted
         /\ created'[o] = began[w]
         /\ \A p \in Orders : p # o => order'[p] = order[p] /\ created'[p] = created[p]
<1>1. /\ order \in [Orders -> OrderRow] /\ req \in [Workers -> Request]
      /\ created \in [Orders -> Nat]
  BY EventTypes DEF ScreenTypeOK
<1>2. PICK o \in Orders :
        /\ ~Stored(o)
        /\ order' = [order EXCEPT ![o] =
              [status |-> "pending", session |-> req[w].s, key |-> req[w].key,
               body |-> req[w].body, notes |-> req[w].body, deleted |-> FALSE]]
        /\ req' = [req EXCEPT ![w] = [req[w] EXCEPT !.at = "refresh", !.o = o, !.row = 1]]
  BY DEF StoreOrder, CreateOrderCommit, Record
<1>3. req'[w].o = o
  BY <1>1, <1>2 DEF Request, RequestFields
<1>4. created' = [created EXCEPT ![o] = began[w]]
  BY <1>3 DEF StoreOrder
<1>5. /\ order'[o].status = "pending" /\ ~order'[o].deleted /\ created'[o] = began[w]
      /\ \A p \in Orders : p # o => order'[p] = order[p] /\ created'[p] = created[p]
  BY <1>1, <1>2, <1>4
<1>6. QED
  BY <1>2, <1>3, <1>5 DEF Stored

\* No other step brings a request to a stage of create_order before its commit.
LEMMA OtherSteps ==
  ASSUME OrderInv, NEW w \in Workers, OtherStep(w)
  PROVE  /\ UNCHANGED times
         /\ \A u \in Workers : InCreation(u)' => InCreation(u)
         /\ \A o \in Orders : Stored(o)' => Stored(o)
<1>1. /\ req \in [Workers -> Request] /\ req[w] \in RequestFields
      /\ Idle \in RequestFields
  BY EventTypes, IdleType DEF Request
<1>2. UNCHANGED times
  BY DEF OtherStep
<1>3. /\ \A u \in Workers : u # w => req'[u] = req[u]
      /\ InCreation(w)' => InCreation(w)
  <2>1. CASE CreateOrderTable(w) \/ CreateOrderLookup(w)
    <3>1. \E r : req' = [req EXCEPT ![w] = r]
      BY <2>1 DEF CreateOrderTable, CreateOrderLookup, Proceed
    <3>2. InCreation(w)
      BY <2>1 DEF CreateOrderTable, CreateOrderLookup, Doing, InCreation
    <3>3. QED
      BY <1>1, <3>1, <3>2
  <2>2. CASE UpdateOrder(w) \/ DeleteOrder(w) \/ Transition(w)
    <3>1. PICK r : req' = [req EXCEPT ![w] = r] /\ r.op # "create_order"
      <4>1. PICK o \in Orders, q \in RequestFields :
              q.op # "create_order" /\ BeginChange(w, o, q)
        BY <2>2, ChangeBegins
      <4> DEFINE r == [q EXCEPT !.at = "commit", !.o = o, !.read = order[o].status]
      <4>2. r.op = q.op
        BY DEF RequestFields
      <4>3. req' = [req EXCEPT ![w] = r]
        BY <4>1 DEF BeginChange, Begin
      <4> HIDE DEF r
      <4>4. QED
        BY <4>1, <4>2, <4>3
    <3>2. QED
      BY <1>1, <3>1 DEF InCreation
  <2>3. CASE UpdateOrderCommit(w) \/ CreateOrderReplay(w) \/ CreateOrderCollision(w)
             \/ Publish(w) \/ Abort(w)
    <3>1. req' = [req EXCEPT ![w] = Idle]
      BY <2>3 DEF UpdateOrderCommit, CreateOrderReplay, CreateOrderCollision, Publish,
                  Abort, Done
    <3>2. QED
      BY <1>1, <3>1 DEF Idle, InCreation
  <2>4. CASE DeleteOrderCommit(w) \/ TransitionCommit(w) \/ Refresh(w)
    <3>1. PICK r : req' = [req EXCEPT ![w] = r] /\ r.at \in {"refresh", "publish"}
      <4>1. CASE DeleteOrderCommit(w) \/ TransitionCommit(w)
        <5>1. PICK n : req' = [req EXCEPT ![w] = [req[w] EXCEPT !.at = "refresh",
                                                                !.row = n]]
          BY <1>1, <4>1 DEF DeleteOrderCommit, TransitionCommit
        <5> DEFINE r == [req[w] EXCEPT !.at = "refresh", !.row = n]
        <5>2. r.at = "refresh"
          BY <1>1 DEF RequestFields
        <5>3. req' = [req EXCEPT ![w] = r]
          BY <5>1
        <5> HIDE DEF r
        <5>4. QED
          BY <5>2, <5>3
      <4>2. CASE Refresh(w)
        <5> DEFINE r == [req[w] EXCEPT !.at = "publish",
                                       !.read = order[req[w].o].status]
        <5>1. r.at = "publish"
          BY <1>1 DEF RequestFields
        <5>2. req' = [req EXCEPT ![w] = r]
          BY <4>2 DEF Refresh, Proceed
        <5> HIDE DEF r
        <5>3. QED
          BY <5>1, <5>2
      <4>3. QED
        BY <2>4, <4>1, <4>2
    <3>2. QED
      BY <1>1, <3>1 DEF InCreation
  <2>5. CASE CreateOrderRefused(w) \/ Floor(w)
    BY <2>5 DEF CreateOrderRefused, Floor, CloseSession, SetTable, InCreation
  <2>6. QED
    BY <2>1, <2>2, <2>3, <2>4, <2>5 DEF OtherStep, Changing, Finishing
<1>4. ASSUME NEW o \in Orders, Stored(o)' PROVE Stored(o)
  BY <1>4, OrderSteps, ChangeSteps DEF Stored
<1>5. \A u \in Workers : InCreation(u)' => InCreation(u)
  BY <1>3 DEF InCreation
<1>6. QED
  BY <1>2, <1>4, <1>5

----------------------------------------------------------------------------
(* The clock *)

LEMMA TimesInit == ScreenInit => ScreenTypeOK /\ TimesPassed /\ LastInLine
<1>1. 0 \in 0..MaxClock
  BY ScreenAssumption
<1>2. QED
  BY <1>1 DEF ScreenInit, Init, ScreenTypeOK, TimesPassed, LastInLine, InCreation, Idle,
              Stored, NoOrderRow

\* A request takes its time from the clock, and an order takes it from the request.
LEMMA TimesStep ==
  ASSUME OrderInv, ScreenTypeOK, TimesPassed, [ScreenNext]_allVars
  PROVE  ScreenTypeOK' /\ TimesPassed'
<1>1. /\ clock \in Nat /\ MaxClock \in Nat /\ clock <= MaxClock
      /\ began \in [Workers -> Nat] /\ created \in [Orders -> Nat]
      /\ req \in [Workers -> Request]
  BY EventTypes, ScreenAssumption DEF ScreenTypeOK
<1>2. ASSUME NEW w \in Workers, BeginOrder(w) PROVE ScreenTypeOK' /\ TimesPassed'
  <2>1. /\ clock' = clock + 1 /\ began' = [began EXCEPT ![w] = clock]
        /\ created' = created /\ clock < MaxClock
    BY <1>2 DEF BeginOrder
  <2>2. order' = order /\ \A u \in Workers : u # w => req'[u] = req[u]
    BY <1>1, <1>2 DEF BeginOrder, CreateOrder, Begin, orderVars
  <2>3. ScreenTypeOK'
    BY <1>1, <2>1 DEF ScreenTypeOK
  <2>4. ASSUME NEW u \in Workers, InCreation(u)' PROVE began'[u] < clock'
    BY <1>1, <2>1, <2>2, <2>4 DEF TimesPassed, InCreation
  <2>5. ASSUME NEW o \in Orders, Stored(o)' PROVE created'[o] < clock'
    BY <1>1, <2>1, <2>2, <2>5 DEF TimesPassed, Stored
  <2>6. QED
    BY <2>3, <2>4, <2>5 DEF TimesPassed
<1>3. ASSUME NEW w \in Workers, StoreOrder(w) PROVE ScreenTypeOK' /\ TimesPassed'
  <2> DEFINE o == req'[w].o
  <2>1. /\ o \in Orders /\ created'[o] = began[w]
        /\ \A p \in Orders : p # o => order'[p] = order[p] /\ created'[p] = created[p]
    BY <1>3, StoreSteps
  <2>2. clock' = clock /\ began' = began
    BY <1>3 DEF StoreOrder
  <2>3. InCreation(w) /\ ~InCreation(w)'
    BY <1>1, <1>3 DEF StoreOrder, CreateOrderCommit, Doing, InCreation, Request,
                      RequestFields
  <2>4. \A u \in Workers : InCreation(u)' => InCreation(u)
    BY <1>1, <1>3, <2>3 DEF StoreOrder, CreateOrderCommit, InCreation
  <2>5. ScreenTypeOK'
    BY <1>1, <1>3, <2>2 DEF ScreenTypeOK, StoreOrder
  <2>6. ASSUME NEW p \in Orders, Stored(p)' PROVE created'[p] < clock'
    BY <2>1, <2>2, <2>3, <2>6 DEF TimesPassed, Stored
  <2>7. QED
    BY <2>2, <2>4, <2>5, <2>6 DEF TimesPassed
<1>4. ASSUME NEW w \in Workers, OtherStep(w) PROVE ScreenTypeOK' /\ TimesPassed'
  BY <1>4, OtherSteps DEF ScreenTypeOK, TimesPassed, times
<1>5. CASE UNCHANGED allVars
  BY <1>5 DEF allVars, vars, orderVars, times, ScreenTypeOK, TimesPassed, InCreation, Stored
<1>6. QED
  BY <1>2, <1>3, <1>4, <1>5 DEF ScreenNext

\* Times are numbers, and those of requests and orders have passed.
THEOREM TimesCorrect == ScreenSpec => [](OrderInv /\ ScreenTypeOK /\ TimesPassed)
<1>1. ScreenSpec => []OrderInv
  BY ScreenImplementsOrders, OrdersCorrect
<1>2. QED
  BY <1>1, TimesInit, TimesStep, PTL DEF ScreenSpec

----------------------------------------------------------------------------
(* Who joins the line *)

\* At most one order joins the line in a step: one that is stored, or one that a
\* transition which read another status than it has moves back to work.
LEMMA Joining ==
  ASSUME OrderInv, ScreenTypeOK, [ScreenNext]_allVars
  PROVE  \/ Queue' \subseteq Queue
         \/ \E w \in Workers, p \in Orders :
               /\ Queue' \ Queue \subseteq {p}
               /\ \/ /\ StoreOrder(w) /\ ~Stored(p)
                     /\ created'[p] = began[w]
                     /\ \A o \in Orders : o # p => created'[o] = created[o]
                  \/ /\ Doing(w, "transition", "commit") /\ req[w].o = p
                     /\ req[w].read # order[p].status
                     /\ OtherStep(w)
               /\ req'[w].o = p /\ req'[w] # req[w]
<1> SUFFICES ASSUME NEW q \in Queue', q \notin Queue
             PROVE  \E w \in Workers, p \in Orders :
               /\ Queue' \ Queue \subseteq {p}
               /\ \/ /\ StoreOrder(w) /\ ~Stored(p)
                     /\ created'[p] = began[w]
                     /\ \A o \in Orders : o # p => created'[o] = created[o]
                  \/ /\ Doing(w, "transition", "commit") /\ req[w].o = p
                     /\ req[w].read # order[p].status
                     /\ OtherStep(w)
               /\ req'[w].o = p /\ req'[w] # req[w]
  OBVIOUS
<1>1. /\ q \in Orders /\ order'[q].status \in InWork /\ ~order'[q].deleted
      /\ order[q].status \notin InWork \/ order[q].deleted
  BY DEF Queue
<1>2. PICK w \in Workers : BeginOrder(w) \/ StoreOrder(w) \/ OtherStep(w)
  BY <1>1 DEF ScreenNext, allVars, vars, orderVars
<1>3. CASE StoreOrder(w)
  <2> DEFINE p == req'[w].o
  <2>1. /\ p \in Orders /\ ~Stored(p) /\ created'[p] = began[w]
        /\ \A o \in Orders : o # p => order'[o] = order[o] /\ created'[o] = created[o]
    BY <1>3, StoreSteps
  <2>2. req'[w] # req[w]
    <3>1. req \in [Workers -> Request] /\ req[w] \in RequestFields
      BY EventTypes DEF Request
    <3>2. req'[w].at = "refresh" /\ req[w].at = "commit"
      BY <1>3, <3>1 DEF StoreOrder, CreateOrderCommit, Doing, RequestFields
    <3>3. QED
      BY <3>2
  <2>3. req'[w].o = p
    OBVIOUS
  <2> HIDE DEF p
  <2>4. Queue' \ Queue \subseteq {p}
    BY <2>1 DEF Queue
  <2>5. QED
    BY <1>3, <2>1, <2>2, <2>3, <2>4
<1>4. CASE ~StoreOrder(w)
  <2>1. UpdateOrderCommit(w) \/ DeleteOrderCommit(w) \/ TransitionCommit(w)
    BY <1>1, <1>2, <1>4, OrderSteps
  <2>2. /\ req[w].o = q
        /\ TransitionCommit(w) /\ order'[q].status = ApplyAction(req[w].action)
        /\ ~order[q].deleted
        /\ \A o \in Orders : o # q => order'[o] = order[o]
    BY <1>1, <2>1, ChangeSteps DEF InWork
  <2>3. Doing(w, "transition", "commit")
    BY <2>2 DEF TransitionCommit
  <2>4. req[w].read = Required[req[w].action] /\ req[w].action \in WorkflowAction
    <3>1. Relies(req[w]) /\ req[w] \in Request
      BY EventTypes DEF OrderInv
    <3>2. QED
      BY <2>3, <3>1 DEF Relies, Doing, Request
  <2>5. req[w].read \in InWork
    BY <1>1, <2>2, <2>4 DEF ApplyAction, InWork, WorkflowAction, Required, TargetStatus
  <2>6. OtherStep(w)
    <3>1. BeginOrder(w) => req[w] = Idle
      BY DEF BeginOrder, CreateOrder, Begin
    <3>2. Idle.op = "none"
      BY DEF Idle
    <3>3. QED
      BY <1>2, <1>4, <2>3, <3>1, <3>2 DEF Doing
  <2>7. Queue' \ Queue \subseteq {q}
    BY <2>2 DEF Queue
  <2>8. req'[w].o = q /\ req'[w] # req[w]
    <3>1. req \in [Workers -> Request] /\ req[w] \in RequestFields
      BY EventTypes DEF Request
    <3>2. req'[w].at = "refresh" /\ req'[w].o = req[w].o /\ req[w].at = "commit"
      BY <2>2, <3>1 DEF TransitionCommit, Doing, RequestFields
    <3>3. QED
      BY <2>2, <3>2
  <2>9. QED
    BY <1>1, <2>2, <2>3, <2>5, <2>6, <2>7, <2>8
<1>5. QED
  BY <1>3, <1>4

\* Orders in the line keep their times, and so their places.
LEMMA PlacesKept ==
  ASSUME OrderInv, ScreenTypeOK, [ScreenNext]_allVars, NEW o \in Queue
  PROVE  Ahead(o)' \cap Queue \subseteq Ahead(o)
<1> SUFFICES ASSUME NEW p \in Ahead(o)', p \in Queue PROVE created[p] < created[o]
  BY DEF Ahead
<1>1. /\ o \in Orders /\ Stored(o) /\ p \in Orders /\ Stored(p)
      /\ created'[p] < created'[o]
  BY DEF Ahead, Queue, Stored, InWork
<1>2. ASSUME NEW w \in Workers, StoreOrder(w)
      PROVE  created'[p] = created[p] /\ created'[o] = created[o]
  BY <1>1, <1>2, StoreSteps
<1>3. QED
  BY <1>1, <1>2 DEF ScreenNext, BeginOrder, OtherStep, times, allVars

LEMMA Overtaking ==
  ASSUME OrderInv, ScreenTypeOK, [ScreenNext]_allVars, NEW o \in Queue, o \in Queue'
  PROVE  \/ Ahead(o)' \subseteq Ahead(o)
         \/ \E w \in Workers :
               Overtakes(w, o) /\ Ahead(o)' \ Ahead(o) = {req'[w].o}
<1>1. o \in Orders /\ Stored(o)
  BY DEF Queue, Stored, InWork
<1>2. Ahead(o)' \ Ahead(o) \subseteq Queue' \ Queue
  BY PlacesKept DEF Ahead
<1>3. SUFFICES ASSUME NEW q \in Ahead(o)', q \notin Ahead(o)
               PROVE  \E w \in Workers :
                         Overtakes(w, o) /\ Ahead(o)' \ Ahead(o) = {req'[w].o}
  OBVIOUS
<1>4. q \in Queue' /\ q \notin Queue /\ created'[q] < created'[o]
  BY <1>2, <1>3 DEF Ahead
<1>5. PICK w \in Workers, p \in Orders :
        /\ Queue' \ Queue \subseteq {p}
        /\ \/ /\ StoreOrder(w) /\ ~Stored(p)
              /\ created'[p] = began[w]
              /\ \A u \in Orders : u # p => created'[u] = created[u]
           \/ /\ Doing(w, "transition", "commit") /\ req[w].o = p
              /\ req[w].read # order[p].status
              /\ OtherStep(w)
        /\ req'[w].o = p /\ req'[w] # req[w]
  BY <1>4, Joining
<1>6. q = p /\ Ahead(o)' \ Ahead(o) = {p}
  BY <1>2, <1>3, <1>4, <1>5
<1>7. CASE StoreOrder(w) /\ ~Stored(p)
  <2>1. created'[p] = began[w] /\ created'[o] = created[o]
    BY <1>1, <1>5, <1>7 DEF StoreOrder, CreateOrderCommit, OtherStep, Doing
  <2>2. QED
    BY <1>4, <1>5, <1>6, <1>7, <2>1 DEF StoreOrder, CreateOrderCommit, Overtakes
<1>8. CASE Doing(w, "transition", "commit") /\ req[w].o = p /\ req[w].read # order[p].status
  BY <1>5, <1>6, <1>8 DEF Overtakes
<1>9. QED
  BY <1>5, <1>7, <1>8

\* The limit cuts off an order only when others have come before it.
LEMMA ScreenKept ==
  ASSUME NEW o \in Screen, o \in Queue', Ahead(o)' \subseteq Ahead(o)
  PROVE  o \in Screen'
<1>1. Cardinality(Ahead(o)) < Limit
  BY DEF Screen
<1>2. IsFiniteSet(Ahead(o))
  <2>1. Ahead(o) \subseteq Orders
    BY DEF Ahead, Queue
  <2>2. QED
    BY <2>1, FS_Subset, ScreenAssumption
<1>3. Cardinality(Ahead(o)') <= Cardinality(Ahead(o)) /\ IsFiniteSet(Ahead(o)')
  BY <1>2, FS_Subset
<1>4. Cardinality(Ahead(o)) \in Nat /\ Cardinality(Ahead(o)') \in Nat /\ Limit \in Nat
  BY <1>2, <1>3, FS_CardinalityType, ScreenAssumption
<1>5. Cardinality(Ahead(o)') < Limit
  BY <1>1, <1>3, <1>4
<1>6. QED
  BY <1>5 DEF Screen

\* An order's place in the line of orders in work (kitchen/service.py:35) is lost
\* only to a request that overlapped others: one that began earlier and commits
\* later, or one that moves an order back into work by a status read too early.
THEOREM OvertakenByOverlap == ScreenSpec => OvertakenOnlyByOverlap
<1> DEFINE Step == \A o \in Queue \cap Queue' :
          LET passed == Ahead(o)' \ Ahead(o) IN
          \/ passed = {}
          \/ \E w \in Workers : Overtakes(w, o) /\ passed = {req'[w].o}
<1>1. OrderInv /\ ScreenTypeOK /\ [ScreenNext]_allVars => Step
  <2> SUFFICES ASSUME OrderInv, ScreenTypeOK, [ScreenNext]_allVars,
                      NEW o \in Queue, o \in Queue'
               PROVE  \/ Ahead(o)' \ Ahead(o) = {}
                      \/ \E w \in Workers :
                            Overtakes(w, o) /\ Ahead(o)' \ Ahead(o) = {req'[w].o}
    OBVIOUS
  <2>1. QED
    BY Overtaking
<1> HIDE DEF Step
<1>2. ScreenSpec => [][Step]_allVars
  BY <1>1, TimesCorrect, PTL DEF ScreenSpec
<1>3. QED
  BY <1>2 DEF OvertakenOnlyByOverlap, Step

\* So is its place on the screen, for every limit (kitchen/service.py:36).
THEOREM PushedOffByOverlap == ScreenSpec => PushedOffOnlyByOverlap
<1> DEFINE Step == \A o \in Screen \cap Queue' :
          o \in Screen' \/ \E w \in Workers : Overtakes(w, o)
<1>1. OrderInv /\ ScreenTypeOK /\ [ScreenNext]_allVars => Step
  BY Overtaking, ScreenKept DEF Screen
<1> HIDE DEF Step
<1>2. ScreenSpec => [][Step]_allVars
  BY <1>1, TimesCorrect, PTL DEF ScreenSpec
<1>3. QED
  BY <1>2 DEF PushedOffOnlyByOverlap, Step

----------------------------------------------------------------------------
(* Requests handled one at a time *)

\* What a lone request stores is younger than all that is stored.
LEMMA LineStep ==
  ASSUME OrderInv, ScreenTypeOK, TimesPassed, LastInLine, [ScreenNext]_allVars,
         \A v, w \in Workers : v = w
  PROVE  LastInLine'
<1>1. /\ clock \in Nat /\ began \in [Workers -> Nat] /\ created \in [Orders -> Nat]
      /\ req \in [Workers -> Request]
  BY EventTypes DEF ScreenTypeOK
<1>2. ASSUME NEW w \in Workers, BeginOrder(w) PROVE LastInLine'
  <2>1. began'[w] = clock /\ created' = created /\ order' = order
    BY <1>1, <1>2 DEF BeginOrder, CreateOrder, Begin, orderVars
  <2>2. \A u \in Workers : u = w
    OBVIOUS
  <2>3. QED
    BY <2>1, <2>2 DEF LastInLine, TimesPassed, Stored
<1>3. ASSUME NEW w \in Workers, StoreOrder(w) PROVE LastInLine'
  <2>1. ~InCreation(w)'
    BY <1>1, <1>3 DEF StoreOrder, CreateOrderCommit, Doing, InCreation, Request,
                      RequestFields
  <2>2. \A u \in Workers : u = w
    OBVIOUS
  <2>3. QED
    BY <2>1, <2>2 DEF LastInLine, InCreation
<1>4. ASSUME NEW w \in Workers, OtherStep(w) PROVE LastInLine'
  BY <1>4, OtherSteps DEF LastInLine, times
<1>5. CASE UNCHANGED allVars
  BY <1>5 DEF allVars, vars, orderVars, times, LastInLine, InCreation, Stored
<1>6. QED
  BY <1>2, <1>3, <1>4, <1>5 DEF ScreenNext

\* With a single worker the requests are as old as they are late.
THEOREM LineCorrect ==
  ASSUME \A v, w \in Workers : v = w
  PROVE  ScreenSpec => [](LoneInv /\ ScreenTypeOK /\ LastInLine)
<1>1. ScreenSpec => []LoneInv
  BY ScreenImplementsOrders, LoneCorrect
<1>2. OrderInv /\ ScreenTypeOK /\ TimesPassed /\ LastInLine /\ [ScreenNext]_allVars
        => LastInLine'
  BY LineStep
<1>3. QED
  BY <1>1, <1>2, TimesInit, TimesCorrect, PTL DEF ScreenSpec

\* A lone request overtakes nobody: its order is the youngest, and the status it
\* moves on from is the one the order has.
LEMMA LineKept ==
  ASSUME LoneInv, ScreenTypeOK, LastInLine, [ScreenNext]_allVars,
         NEW o \in Queue \cap Queue'
  PROVE  Ahead(o)' \subseteq Ahead(o)
<1>1. OrderInv /\ o \in Orders /\ Stored(o)
  BY DEF LoneInv, OverlapInv, EventInv, Queue, Stored, InWork
<1>2. SUFFICES ASSUME NEW w \in Workers, Overtakes(w, o) PROVE FALSE
  BY <1>1, Overtaking
<1>3. CASE Doing(w, "create_order", "commit") /\ began[w] < created[o]
  <2>1. created[o] < began[w]
    BY <1>1, <1>3 DEF Doing, InCreation, LastInLine
  <2>2. began[w] \in Nat /\ created[o] \in Nat
    BY <1>1 DEF ScreenTypeOK
  <2>3. QED
    BY <1>3, <2>1, <2>2
<1>4. CASE Doing(w, "transition", "commit") /\ req[w].read # order[req[w].o].status
  BY <1>4 DEF LoneInv, OverlapInv, OverlapRelies, NothingMissed, Doing
<1>5. QED
  BY <1>2, <1>3, <1>4 DEF Overtakes

\* With a single worker orders are worked off in the order they were placed in.
THEOREM SerialLine ==
  ASSUME \A v, w \in Workers : v = w
  PROVE  ScreenSpec => NoOvertaking
<1> DEFINE Step == \A o \in Queue \cap Queue' : Ahead(o)' \subseteq Ahead(o)
<1>1. LoneInv /\ ScreenTypeOK /\ LastInLine /\ [ScreenNext]_allVars => Step
  BY LineKept
<1> HIDE DEF Step
<1>2. ScreenSpec => [][Step]_allVars
  BY <1>1, LineCorrect, PTL DEF ScreenSpec
<1>3. QED
  BY <1>2 DEF NoOvertaking, Step

\* With a single worker the limit never pushes a shown order off the screen
\* before it is served or canceled (kitchen/service.py:36).
THEOREM SerialScreen ==
  ASSUME \A v, w \in Workers : v = w
  PROVE  ScreenSpec => StaysOnScreen
<1> DEFINE Step == Screen \cap Queue' \subseteq Screen'
<1>1. LoneInv /\ ScreenTypeOK /\ LastInLine /\ [ScreenNext]_allVars => Step
  BY LineKept, ScreenKept DEF Screen
<1> HIDE DEF Step
<1>2. ScreenSpec => [][Step]_allVars
  BY <1>1, LineCorrect, PTL DEF ScreenSpec
<1>3. QED
  BY <1>2 DEF StaysOnScreen, Step

=============================================================================
