---------------------------- MODULE OrderLedger ----------------------------
(***************************************************************************)
(* What the order routes promise of the record of an order, with any       *)
(* number of requests in progress: an order is placed once, for one        *)
(* request, and under a key that no other order has; its rows are only     *)
(* ever added to, each by a step of the workflow from a status that an     *)
(* earlier row led to; whoever asks with its key is told of it and of no   *)
(* other; and each row is announced at most once, with a status it led to  *)
(* or a later one.  Nothing that was written, answered or announced is     *)
(* changed or taken back.                                                  *)
(***************************************************************************)
EXTENDS Naturals, Sequences

CONSTANTS Orders, Sessions, Keys, Bodies, NoSession, NoKey, NoBody

VARIABLES
    placed,     \* what each order was placed for
    rows,       \* the rows of each order
    told,       \* the answers to requests with a key
    announced   \* the events about each order

ledger == <<placed, rows, told, announced>>

Unplaced == [key |-> NoKey, session |-> NoSession, body |-> NoBody]

\* Who takes an order from which status to which.
Edge ==
    {[from |-> "pending",  to |-> "accepted", actor |-> "kitchen"],
     [from |-> "accepted", to |-> "ready",    actor |-> "kitchen"],
     [from |-> "ready",    to |-> "served",   actor |-> "staff"],
     [from |-> "served",   to |-> "settled",  actor |-> "staff"],
     [from |-> "pending",  to |-> "canceled", actor |-> "staff"]}

FirstRow == [from |-> "none", to |-> "pending", actor |-> "system"]

\* The event that announces a status.
Topic ==
    [pending |-> "order.created", accepted |-> "order.accepted",
     ready |-> "order.ready", served |-> "order.served",
     settled |-> "order.settled", canceled |-> "order.canceled"]

Init ==
    /\ placed = [o \in Orders |-> Unplaced]
    /\ rows = [o \in Orders |-> <<>>]
    /\ told = {}
    /\ announced = [o \in Orders |-> <<>>]

Place(o) ==
    /\ rows[o] = <<>>
    /\ \E key \in Keys \cup {NoKey}, s \in Sessions, body \in Bodies :
        /\ key # NoKey => \A p \in Orders : placed[p].key # key
        /\ placed' = [placed EXCEPT ![o] = [key |-> key, session |-> s, body |-> body]]
    /\ rows' = [rows EXCEPT ![o] = <<FirstRow>>]
    /\ UNCHANGED <<told, announced>>

Advance(o) ==
    /\ \E e \in Edge :
        /\ \E i \in 1..Len(rows[o]) : rows[o][i].to = e.from
        /\ rows' = [rows EXCEPT ![o] = Append(@, e)]
    /\ UNCHANGED <<placed, told, announced>>

\* The answer to a request equal to the one the order was placed for.
Tell(o) ==
    \/ /\ placed[o].key # NoKey
       /\ told' = told \cup {[key |-> placed[o].key, session |-> placed[o].session,
                              body |-> placed[o].body, order |-> o]}
    \/ UNCHANGED told

Announce(o) ==
    \/ \E i \in 1..Len(rows[o]) : \E j \in i..Len(rows[o]) :
        /\ \A k \in 1..Len(announced[o]) : announced[o][k].row # i
        /\ announced' = [announced EXCEPT ![o] =
               Append(@, [type |-> Topic[rows[o][i].to], status |-> rows[o][j].to,
                          row |-> i])]
    \/ UNCHANGED announced

\* An answer may come with an announcement, or either without the other.
Report(o) ==
    /\ rows[o] # <<>>
    /\ Tell(o)
    /\ Announce(o)
    /\ UNCHANGED <<placed, rows>>

Next == \E o \in Orders : Place(o) \/ Advance(o) \/ Report(o)

Spec == Init /\ [][Next]_ledger

=============================================================================
