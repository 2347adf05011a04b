-------------------------------- MODULE Feed --------------------------------
(***************************************************************************)
(* What the event stream promises a display: it shows the events of the    *)
(* one restaurant it asked for, in the order of their publication, each at *)
(* most once.  It does not promise all of them.                            *)
(***************************************************************************)
EXTENDS Naturals, Sequences

CONSTANTS Clients, Restaurants, NoRestaurant

VARIABLES
    log,    \* the restaurant of each event, in the order of publication
    room,   \* the restaurant each display asked for, or NoRestaurant
    feed    \* the events each display was shown: positions in log

Init ==
    /\ log = <<>>
    /\ room = [c \in Clients |-> NoRestaurant]
    /\ feed = [c \in Clients |-> <<>>]

Announce(r) ==
    /\ log' = Append(log, r)
    /\ UNCHANGED <<room, feed>>

Join(c, r) ==
    /\ room[c] = NoRestaurant
    /\ room' = [room EXCEPT ![c] = r]
    /\ UNCHANGED <<log, feed>>

Show(c, i) ==
    /\ log[i] = room[c]
    /\ \A k \in 1..Len(feed[c]) : feed[c][k] < i
    /\ feed' = [feed EXCEPT ![c] = Append(@, i)]
    /\ UNCHANGED <<log, room>>

Next ==
    \/ \E r \in Restaurants : Announce(r)
    \/ \E c \in Clients, r \in Restaurants : Join(c, r)
    \/ \E c \in Clients : \E i \in 1..Len(log) : Show(c, i)

Spec == Init /\ [][Next]_<<log, room, feed>>

=============================================================================
