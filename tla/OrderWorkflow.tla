--------------------------- MODULE OrderWorkflow ---------------------------
(***************************************************************************)
(* What the order routes promise: an order is placed once, moves from      *)
(* pending through accepted, ready and served to settled, one step at a    *)
(* time, may be canceled only while it is pending, and its notes may be    *)
(* edited only until it is settled or canceled.                            *)
(***************************************************************************)
CONSTANTS Orders, Bodies, NoBody

VARIABLES status, notes

\* What follows each status that is not final.
Successor ==
    [pending |-> "accepted", accepted |-> "ready", ready |-> "served",
     served |-> "settled"]

Init ==
    /\ status = [o \in Orders |-> "absent"]
    /\ notes = [o \in Orders |-> NoBody]

Place(o) ==
    /\ status[o] = "absent"
    /\ status' = [status EXCEPT ![o] = "pending"]
    /\ \E n \in Bodies : notes' = [notes EXCEPT ![o] = n]

Advance(o) ==
    /\ status[o] \in DOMAIN Successor
    /\ status' = [status EXCEPT ![o] = Successor[status[o]]]
    /\ UNCHANGED notes

Cancel(o) ==
    /\ status[o] = "pending"
    /\ status' = [status EXCEPT ![o] = "canceled"]
    /\ UNCHANGED notes

Edit(o) ==
    /\ status[o] \in DOMAIN Successor
    /\ \E n \in Bodies : notes' = [notes EXCEPT ![o] = n]
    /\ UNCHANGED status

Next == \E o \in Orders : Place(o) \/ Advance(o) \/ Cancel(o) \/ Edit(o)

Spec == Init /\ [][Next]_<<status, notes>>

=============================================================================
