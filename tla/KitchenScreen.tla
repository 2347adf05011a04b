---------------------------- MODULE KitchenScreen ----------------------------
(***************************************************************************)
(* What the kitchen sees of the orders (queue in                           *)
(* application/kitchen/service.py): the oldest orders in work, up to a     *)
(* limit.  The steps are those of OrderLifecycle; what is added is when    *)
(* they happen.  created_at is filled in by the database as now(), which   *)
(* is the time the inserting transaction began and not that of its commit: *)
(* an order may be stored after others and yet be older than they are.     *)
(*                                                                         *)
(* A transaction begins with the first SELECT that OrderLifecycle has (that *)
(* of a counter order a moment before, when its session is read again).    *)
(* Times are numbers that only grow: no two transactions begin in the same *)
(* microsecond.                                                            *)
(***************************************************************************)
EXTENDS OrderLifecycle, FiniteSets

CONSTANTS
    Limit,          \* how many orders the screen asks for
    MaxClock        \* bound: no more POST /orders requests than this

ASSUME ScreenAssumption ==
    /\ IsFiniteSet(Orders)
    /\ Limit \in Nat \ {0}
    /\ MaxClock \in Nat

VARIABLES
    clock,          \* the time of the next transaction
    began,          \* when each worker's last create_order began
    created         \* created_at of each order

times == <<clock, began, created>>

allVars == <<vars, times>>

ScreenTypeOK ==
    /\ clock \in 0..MaxClock
    /\ began \in [Workers -> Nat]
    /\ created \in [Orders -> Nat]

ScreenInit ==
    /\ Init
    /\ clock = 0
    /\ began = [w \in Workers |-> 0]
    /\ created = [o \in Orders |-> 0]

----------------------------------------------------------------------------

BeginOrder(w) ==
    /\ clock < MaxClock
    /\ CreateOrder(w)
    /\ clock' = clock + 1
    /\ began' = [began EXCEPT ![w] = clock]
    /\ UNCHANGED created

StoreOrder(w) ==
    /\ CreateOrderCommit(w)
    /\ created' = [created EXCEPT ![req'[w].o] = began[w]]
    /\ UNCHANGED <<clock, began>>

\* No other step touches created_at.
OtherStep(w) ==
    /\ \/ CreateOrderRefused(w) \/ CreateOrderTable(w) \/ CreateOrderLookup(w)
       \/ CreateOrderReplay(w) \/ CreateOrderCollision(w)
       \/ Changing(w) \/ Finishing(w) \/ Floor(w)
    /\ UNCHANGED times

ScreenNext == \E w \in Workers : BeginOrder(w) \/ StoreOrder(w) \/ OtherStep(w)

ScreenSpec == ScreenInit /\ [][ScreenNext]_allVars

----------------------------------------------------------------------------

\* Fault: newest first.
Behind(o) == {p \in Queue : created[p] > created[o]}

\* ORDER BY created_at
Ahead(o) == {p \in Queue : created[p] < created[o]}

\* ... LIMIT
Screen == {o \in Queue : Cardinality(Ahead(o)) < Limit}

----------------------------------------------------------------------------
(* What holds however many requests are in progress *)

\* This step is the commit of w, whose order req'[w].o comes in front of o because
\* the request began before o's and is stored later, or because it moves its order
\* by a status that another request has changed since it was read.
Overtakes(w, o) ==
    /\ req'[w] # req[w]
    /\ \/ Doing(w, "create_order", "commit") /\ began[w] < created[o]
       \/ Doing(w, "transition", "commit") /\ req[w].read # order[req[w].o].status

\* An order in work is overtaken in the line only by the order of a request that
\* overlapped others and commits at that moment, and by no other order with it.
OvertakenOnlyByOverlap ==
    [][\A o \in Queue \cap Queue' :
          LET passed == Ahead(o)' \ Ahead(o) IN
          \/ passed = {}
          \/ \E w \in Workers : Overtakes(w, o) /\ passed = {req'[w].o}]_allVars

\* So it is with what the kitchen sees: an order on the screen stays there until it
\* is served or canceled, however many orders are placed, unless it is overtaken.
PushedOffOnlyByOverlap ==
    [][\A o \in Screen \cap Queue' :
          o \in Screen' \/ \E w \in Workers : Overtakes(w, o)]_allVars

(***************************************************************************)
(* The invariant behind it: the clock is ahead of every time taken from    *)
(* it.                                                                     *)
(***************************************************************************)
InCreation(w) == req[w].op = "create_order" /\ req[w].at \in {"table", "lookup", "commit"}

TimesPassed ==
    /\ \A w \in Workers : InCreation(w) => began[w] < clock
    /\ \A o \in Orders : Stored(o) => created[o] < clock

----------------------------------------------------------------------------
(* What holds when requests are handled one at a time *)

\* With one worker the line in front of an order only gets shorter: what is on
\* the screen is worked off in the order in which it was placed.
NoOvertaking ==
    [][\A o \in Queue \cap Queue' : Ahead(o)' \subseteq Ahead(o)]_allVars

\* With one worker an order that has been on the screen stays there until it is
\* served or canceled, however many orders are placed meanwhile.
StaysOnScreen == [][Screen \cap Queue' \subseteq Screen']_allVars

\* The invariant behind these: a lone request is younger than every stored order.
LastInLine ==
    \A w \in Workers : InCreation(w) =>
        \A o \in Orders : Stored(o) => created[o] < began[w]

=============================================================================
