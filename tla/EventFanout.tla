----------------------------- MODULE EventFanout -----------------------------
(***************************************************************************)
(* How published events reach the websockets: the listener task that holds *)
(* a Redis subscription (infrastructure/messaging/redis_event_listener.py) *)
(* and the connection manager with its endpoint (api/ws).  All of it runs  *)
(* on one event loop: an action is what happens between two awaits that    *)
(* suspend.  The manager's lock is never waited for, since nobody suspends *)
(* while holding it.                                                       *)
(*                                                                         *)
(* Redis pub/sub keeps nothing: an event is in the stream of the listener  *)
(* if the listener was subscribed when the event was published, and is     *)
(* lost otherwise.  An event is its position in log.                       *)
(***************************************************************************)
EXTENDS Naturals, Sequences

CONSTANTS
    Clients,            \* websocket objects: one connection each
    Restaurants,
    NoRestaurant, NoClient,
    MaxEvents           \* bound: events published

ASSUME FanoutAssumption ==
    /\ NoRestaurant \notin Restaurants
    /\ NoClient \notin Clients
    /\ MaxEvents \in Nat

VARIABLES
    log,            \* the restaurant of each published event
    subscribed,     \* Redis still sends the listener what is published
    reached,        \* the last event that got into the listener's stream
    handled,        \* the last event the listener took, or passed over
    listener,       \* what the listener awaits
    targets,        \* broadcast: the sockets still to be sent to
    awaited,        \* broadcast: the socket whose send does not finish
    stale,          \* broadcast: the sockets whose send raised
    connections,    \* ConnectionManager._connections
    socketToRestaurant,     \* ConnectionManager._socket_to_restaurant
    endpoint,       \* how far the endpoint of each websocket is
    socket,         \* the transport of each websocket
    room,           \* the restaurant_id each endpoint was asked for
    owed,           \* history: the events taken while the client was registered
                    \* for their restaurant, since it was
    received        \* history: the events sent to each client, in order

redisVars == <<log, subscribed, reached>>
castVars == <<targets, awaited, stale>>
listenerVars == <<handled, listener, castVars>>
managerVars == <<connections, socketToRestaurant, owed>>
clientVars == <<endpoint, socket, room>>
vars == <<redisVars, listenerVars, managerVars, clientVars, received>>

Stream == (handled + 1)..reached

Registered(c) == socketToRestaurant[c] # NoRestaurant

TypeOK ==
    /\ log \in Seq(Restaurants)
    /\ subscribed \in BOOLEAN
    /\ reached \in 0..Len(log) /\ handled \in 0..reached
    /\ listener \in {"connect", "poll", "send", "sleep", "ended"}
    /\ targets \subseteq Clients /\ stale \subseteq Clients
    /\ awaited \in targets \cup {NoClient}
    /\ listener # "send" => targets = {} /\ stale = {}
    /\ connections \in [Restaurants -> SUBSET Clients]
    /\ socketToRestaurant \in [Clients -> Restaurants \cup {NoRestaurant}]
    /\ endpoint \in [Clients -> {"new", "accept", "receive", "ended"}]
    /\ socket \in [Clients -> {"none", "open", "slow", "gone"}]
    /\ room \in [Clients -> Restaurants \cup {NoRestaurant}]
    /\ owed \in [Clients -> SUBSET (1..handled)]
    /\ received \in [Clients -> Seq(Nat)]

Init ==
    /\ log = <<>>
    /\ subscribed = FALSE
    /\ reached = 0 /\ handled = 0
    /\ listener = "connect"
    /\ targets = {} /\ awaited = NoClient /\ stale = {}
    /\ connections = [r \in Restaurants |-> {}]
    /\ socketToRestaurant = [c \in Clients |-> NoRestaurant]
    /\ endpoint = [c \in Clients |-> "new"]
    /\ socket = [c \in Clients |-> "none"]
    /\ room = [c \in Clients |-> NoRestaurant]
    /\ owed = [c \in Clients |-> {}]
    /\ received = [c \in Clients |-> <<>>]

----------------------------------------------------------------------------
(* Redis *)

\* RedisEventPublisher.publish, called by a handler in its thread.
Publish(r) ==
    /\ Len(log) < MaxEvents
    /\ log' = Append(log, r)
    /\ reached' = IF subscribed THEN Len(log) + 1 ELSE reached
    /\ UNCHANGED <<subscribed, listenerVars, managerVars, clientVars, received>>

\* The connection breaks: the listener still gets some of what was sent to it.
Break ==
    /\ subscribed
    /\ subscribed' = FALSE
    /\ reached' \in handled..reached
    /\ UNCHANGED <<log, listenerVars, managerVars, clientVars, received>>

----------------------------------------------------------------------------
(* start_redis_fanout *)

\* psubscribe succeeds: the stream begins with the next event.
Subscribe ==
    /\ listener = "connect"
    /\ listener' = "poll"
    /\ subscribed' = TRUE
    /\ reached' = Len(log) /\ handled' = Len(log)
    /\ UNCHANGED <<log, castVars, managerVars, clientVars, received>>

ConnectFails ==
    /\ listener = "connect"
    /\ listener' = "sleep"
    /\ UNCHANGED <<redisVars, handled, castVars, managerVars, clientVars, received>>

\* Fault: the exception ends the task.
PollFailsForGood ==
    /\ listener = "poll" /\ ~subscribed /\ Stream = {}
    /\ listener' = "stopped"
    /\ UNCHANGED <<redisVars, handled, castVars, managerVars, clientVars, received>>

\* get_message raises.  A client library that subscribes again by itself does
\* the same as this, Wake and Subscribe: the length of the sleep is left out.
PollFails ==
    /\ listener = "poll" /\ ~subscribed /\ Stream = {}
    /\ listener' = "sleep"
    /\ UNCHANGED <<redisVars, handled, castVars, managerVars, clientVars, received>>

\* The backoff of 1 to 5 seconds is over, the old connection is closed and the
\* loop goes round.
Wake ==
    /\ listener = "sleep"
    /\ listener' = "connect"
    /\ UNCHANGED <<redisVars, handled, castVars, managerVars, clientVars, received>>

\* Closing raises: nothing catches what the finally block raises, and the task
\* has ended.
CloseFails ==
    /\ listener = "sleep"
    /\ listener' = "ended"
    /\ UNCHANGED <<redisVars, handled, castVars, managerVars, clientVars, received>>

\* Event i is taken for whoever is registered now.
Owe(i) ==
    owed' = [c \in Clients |->
                IF socketToRestaurant[c] = log[i] THEN owed[c] \cup {i} ELSE owed[c]]

\* Fault: the event goes to every socket.
TakeMessageForAll ==
    /\ listener = "poll" /\ Stream # {}
    /\ handled' = handled + 1
    /\ Owe(handled + 1)
    /\ targets' = {c \in Clients : Registered(c)}
    /\ listener' = "send"
    /\ UNCHANGED <<redisVars, awaited, stale, connections, socketToRestaurant,
                   clientVars, received>>

\* get_message returns an event, and broadcast takes its snapshot.
TakeMessage ==
    /\ listener = "poll" /\ Stream # {}
    /\ handled' = handled + 1
    /\ Owe(handled + 1)
    /\ targets' = connections[log[handled + 1]]
    /\ listener' = "send"
    /\ UNCHANGED <<redisVars, awaited, stale, connections, socketToRestaurant,
                   clientVars, received>>

----------------------------------------------------------------------------
(* ConnectionManager *)

\* Fault: the socket stays in the set of its restaurant.
UnregisterByName(S) ==
    /\ socketToRestaurant' =
           [c \in Clients |-> IF c \in S THEN NoRestaurant ELSE socketToRestaurant[c]]
    /\ owed' = [c \in Clients |-> IF c \in S THEN {} ELSE owed[c]]
    /\ UNCHANGED connections

\* unregister, for each of S; a socket that is not registered is passed over.
Unregister(S) ==
    /\ socketToRestaurant' =
           [c \in Clients |-> IF c \in S THEN NoRestaurant ELSE socketToRestaurant[c]]
    /\ connections' =
           [r \in Restaurants |->
               {c \in connections[r] : ~(c \in S /\ socketToRestaurant[c] = r)}]
    /\ owed' = [c \in Clients |-> IF c \in S THEN {} ELSE owed[c]]

\* It is c's turn in the broadcast: sends are awaited one by one.
Turn(c) == c \in targets /\ awaited \in {NoClient, c}

Sent(c) ==
    /\ targets' = targets \ {c}
    /\ awaited' = NoClient
    /\ UNCHANGED <<redisVars, handled, listener, managerVars, clientVars>>

Send(c) ==
    /\ Turn(c) /\ socket[c] = "open"
    /\ Sent(c)
    /\ received' = [received EXCEPT ![c] = Append(@, handled)]
    /\ UNCHANGED stale

\* Fault: a client that does not read is given up.
SendGivesUp(c) ==
    /\ Turn(c) /\ awaited = NoClient /\ socket[c] = "slow"
    /\ Sent(c)
    /\ stale' = stale \cup {c}
    /\ UNCHANGED received

\* The send waits for the buffer of a client that does not read.
SendWaits(c) ==
    /\ Turn(c) /\ awaited = NoClient /\ socket[c] = "slow"
    /\ awaited' = c
    /\ UNCHANGED <<redisVars, handled, listener, targets, stale,
                   managerVars, clientVars, received>>

\* Fault: the exception ends the loop over the targets.
SendRaisesThrough(c) ==
    /\ Turn(c) /\ socket[c] = "gone"
    /\ targets' = {} /\ awaited' = NoClient
    /\ stale' = stale \cup {c}
    /\ UNCHANGED <<redisVars, handled, listener, managerVars, clientVars,
                   received>>

SendRaises(c) ==
    /\ Turn(c) /\ socket[c] = "gone"
    /\ Sent(c)
    /\ stale' = stale \cup {c}
    /\ UNCHANGED received

\* The server has not noticed yet that the client is gone.
SendVanishes(c) ==
    /\ Turn(c) /\ socket[c] = "gone"
    /\ Sent(c)
    /\ UNCHANGED <<stale, received>>

\* Fault: the sends are not awaited.
EndBroadcastEarly ==
    /\ listener = "send"
    /\ Unregister(stale)
    /\ stale' = {}
    /\ listener' = "poll"
    /\ UNCHANGED <<redisVars, handled, targets, awaited, clientVars, received>>

EndBroadcast ==
    /\ listener = "send" /\ targets = {}
    /\ Unregister(stale)
    /\ stale' = {}
    /\ listener' = "poll"
    /\ UNCHANGED <<redisVars, handled, targets, awaited, clientVars, received>>

Broadcasting ==
    \/ \E c \in Clients : Send(c) \/ SendWaits(c) \/ SendRaises(c) \/ SendVanishes(c)
    \/ EndBroadcast

----------------------------------------------------------------------------
(* websocket_endpoint *)

Connect(c, r) ==
    /\ endpoint[c] = "new"
    /\ endpoint' = [endpoint EXCEPT ![c] = "accept"]
    /\ socket' = [socket EXCEPT ![c] = "open"]
    /\ room' = [room EXCEPT ![c] = r]
    /\ UNCHANGED <<redisVars, listenerVars, managerVars, received>>

\* accept() returns and the socket is entered in both maps.
Register(c) ==
    /\ endpoint[c] = "accept"
    /\ endpoint' = [endpoint EXCEPT ![c] = "receive"]
    /\ connections' = [connections EXCEPT ![room[c]] = @ \cup {c}]
    /\ socketToRestaurant' = [socketToRestaurant EXCEPT ![c] = room[c]]
    /\ UNCHANGED <<redisVars, listenerVars, socket, room, owed, received>>

AcceptFails(c) ==
    /\ endpoint[c] = "accept" /\ socket[c] = "gone"
    /\ endpoint' = [endpoint EXCEPT ![c] = "ended"]
    /\ UNCHANGED <<redisVars, listenerVars, managerVars, socket, room, received>>

\* Fault: the endpoint ends without unregister.
DisconnectForgotten(c) ==
    /\ endpoint[c] = "receive" /\ socket[c] = "gone"
    /\ endpoint' = [endpoint EXCEPT ![c] = "ended"]
    /\ UNCHANGED <<redisVars, listenerVars, managerVars, socket, room, received>>

\* receive_text raises WebSocketDisconnect.
Disconnect(c) ==
    /\ endpoint[c] = "receive" /\ socket[c] = "gone"
    /\ endpoint' = [endpoint EXCEPT ![c] = "ended"]
    /\ Unregister({c})
    /\ UNCHANGED <<redisVars, listenerVars, socket, room, received>>

\* receive_text raises something else, on a frame without text for one.  The
\* server closes the connection some time after the endpoint has ended.
ReceiveFails(c) ==
    /\ endpoint[c] = "receive" /\ socket[c] # "gone"
    /\ endpoint' = [endpoint EXCEPT ![c] = "ended"]
    /\ Unregister({c})
    /\ UNCHANGED <<redisVars, listenerVars, socket, room, received>>

----------------------------------------------------------------------------
(* The clients, the server below the endpoints, the process *)

SetSocket(c, state) ==
    /\ socket' = [socket EXCEPT ![c] = state]
    /\ UNCHANGED <<redisVars, listenerVars, managerVars, endpoint, room, received>>

Drop(c) == socket[c] \in {"open", "slow"} /\ SetSocket(c, "gone")

\* The client stops reading.
Stall(c) == socket[c] = "open" /\ awaited # c /\ SetSocket(c, "slow")

\* The client reads again, or the server's ping timeout closes the connection.
Settle(c) ==
    /\ socket[c] = "slow"
    /\ \E state \in {"open", "gone"} : SetSocket(c, state)

\* The process stops and another one starts (lifespan).
Restart ==
    /\ listener' = "connect" /\ subscribed' = FALSE /\ reached' = handled
    /\ targets' = {} /\ awaited' = NoClient /\ stale' = {}
    /\ connections' = [r \in Restaurants |-> {}]
    /\ socketToRestaurant' = [c \in Clients |-> NoRestaurant]
    /\ owed' = [c \in Clients |-> {}]
    /\ endpoint' = [c \in Clients |-> IF endpoint[c] = "new" THEN "new" ELSE "ended"]
    /\ socket' = [c \in Clients |-> IF endpoint[c] = "new" THEN "none" ELSE "gone"]
    /\ UNCHANGED <<log, handled, room, received>>

----------------------------------------------------------------------------

Redis == Break \/ \E r \in Restaurants : Publish(r)

Listening ==
    \/ Subscribe \/ ConnectFails \/ PollFails \/ Wake \/ CloseFails \/ TakeMessage

Endpoint(c) ==
    \/ \E r \in Restaurants : Connect(c, r)
    \/ Register(c) \/ AcceptFails(c) \/ Disconnect(c) \/ ReceiveFails(c)

Transport(c) == Drop(c) \/ Stall(c) \/ Settle(c)

Next ==
    \/ Redis \/ Listening \/ Broadcasting \/ Restart
    \/ \E c \in Clients : Endpoint(c) \/ Transport(c)

(***************************************************************************)
(* The event loop runs every task that can run.  Redis is reachable again  *)
(* and again (hence strong fairness of Subscribe, for each attempt is made *)
(* once), a broken connection is reported, and a client that does not read *)
(* does so again or is dropped.  Nobody needs to publish or to connect.    *)
(***************************************************************************)
Fairness ==
    /\ SF_vars(Subscribe)
    /\ WF_vars(Wake) /\ WF_vars(PollFails) /\ WF_vars(TakeMessage)
    /\ WF_vars(Broadcasting)
    /\ \A c \in Clients : WF_vars(Disconnect(c)) /\ WF_vars(Settle(c))

Spec == Init /\ [][Next]_vars /\ Fairness

----------------------------------------------------------------------------

\* The two maps of the manager agree, however unregister is called: twice for
\* one socket, by its endpoint and by the broadcast that found it stale.
MapsAgree ==
    \A c \in Clients, r \in Restaurants :
        c \in connections[r] <=> socketToRestaurant[c] = r

\* A client whose endpoint still reads and whose connection stands is in the
\* manager: what the broadcast prunes is gone for good, however long its send
\* took.
StaysRegistered ==
    \A c \in Clients :
        endpoint[c] = "receive" /\ socket[c] # "gone" => Registered(c)

Shown(c) == {received[c][k] : k \in 1..Len(received[c])}

\* A registered client whose connection stands has been sent everything the
\* listener took for it since it registered, but for the event that is just
\* being broadcast: no other client's failure, slowness or departure, in
\* whatever order, costs it an event.
MissesOnlyWhatIsLost ==
    \A c \in Clients :
        Registered(c) /\ socket[c] # "gone" =>
            owed[c] \subseteq Shown(c) \cup (IF c \in targets THEN {handled} ELSE {})

(***************************************************************************)
(* The inductive invariant behind the safety properties: what the endpoint *)
(* of c, the manager and a broadcast know of each other.                   *)
(***************************************************************************)
Bookkeeping(c) ==
    /\ endpoint[c] = "new" <=> room[c] = NoRestaurant
    /\ endpoint[c] = "new" => socket[c] = "none"
    /\ Registered(c) => endpoint[c] = "receive" /\ socketToRestaurant[c] = room[c]
    /\ ~Registered(c) => owed[c] = {}
    /\ c \in stale => socket[c] = "gone"
    /\ \A k \in 1..Len(received[c]) : received[c][k] <= handled
    /\ c \in targets =>
           /\ handled # 0 /\ room[c] = log[handled]
           /\ \A k \in 1..Len(received[c]) : received[c][k] < handled

FanoutInv ==
    /\ TypeOK
    /\ MapsAgree
    /\ StaysRegistered
    /\ MissesOnlyWhatIsLost
    /\ \A c \in Clients : Bookkeeping(c)

\* Every socket is shown its restaurant's events only, in order and once.
F == INSTANCE Feed WITH feed <- received
ImplementsFeed == F!Spec

\* An event that is in the stream reaches every client registered for it,
\* unless the Redis connection breaks first, or the client leaves: a slow
\* client delays the others (manager.py:48) and no more.
EventsArrive ==
    \A c \in Clients, i \in 1..MaxEvents :
        (i \in Stream /\ Registered(c) /\ log[i] = room[c])
            ~> (\/ i \in Shown(c)
                \/ i \notin owed[c] \cup Stream
                \/ ~Registered(c) \/ socket[c] = "gone")

\* The listener is subscribed again and again (the outer loop, 28-67), however
\* often Redis fails or the process restarts, unless an error of the finally
\* block has ended it and nobody restarts the process.
ListenerComesBack ==
    \/ []<>(listener = "poll" /\ subscribed)
    \/ <>[](listener = "ended")

\* A connection that is gone does not stay in the manager for ever, whether or
\* not an event is ever broadcast to it again.
GoneAreForgotten ==
    \A c \in Clients : socket[c] = "gone" ~> ~Registered(c)

=============================================================================
