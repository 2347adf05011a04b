-------------------------- MODULE EventFanout_proofs --------------------------
(***************************************************************************)
(* Proofs about EventFanout, for any number of clients, restaurants and    *)
(* events: FanoutInv is inductive, and every step shows the clients what a *)
(* step of Feed allows.                                                    *)
(***************************************************************************)
EXTENDS EventFanout, TLAPS

\* What FanoutInv says besides the types.
Rest ==
    /\ MapsAgree
    /\ StaysRegistered
    /\ MissesOnlyWhatIsLost
    /\ \A c \in Clients : Bookkeeping(c)

\* FanoutInv is TypeOK and Rest.
LEMMA Parts == FanoutInv <=> TypeOK /\ Rest
  BY DEF FanoutInv, Rest

\* A history that grows keeps its entries.
LEMMA AppendEntries ==
  ASSUME NEW S, NEW q \in Seq(S), NEW e \in S
  PROVE  /\ Append(q, e) \in Seq(S)
         /\ Len(q) \in Nat
         /\ Len(Append(q, e)) = Len(q) + 1
         /\ \A k \in 1..Len(q) : Append(q, e)[k] = q[k]
         /\ Append(q, e)[Len(q) + 1] = e
  OBVIOUS

\* Before the first client connects.
LEMMA InitInv == Init => FanoutInv
<1> SUFFICES ASSUME Init PROVE FanoutInv
  OBVIOUS
<1>1. TypeOK
  <2>1. log \in Seq(Restaurants) /\ Len(log) = 0 /\ received \in [Clients -> Seq(Nat)]
    BY DEF Init
  <2>2. owed \in [Clients -> SUBSET (1..handled)]
    BY DEF Init
  <2>3. reached \in 0..Len(log) /\ handled \in 0..reached
    BY <2>1 DEF Init
  <2>4. /\ endpoint \in [Clients -> {"new", "accept", "receive", "ended"}]
        /\ socket \in [Clients -> {"none", "open", "slow", "gone"}]
        /\ connections \in [Restaurants -> SUBSET Clients]
        /\ socketToRestaurant \in [Clients -> Restaurants \cup {NoRestaurant}]
        /\ room \in [Clients -> Restaurants \cup {NoRestaurant}]
    BY DEF Init
  <2>5. QED
    BY <2>1, <2>2, <2>3, <2>4 DEF Init, TypeOK
<1>2. MapsAgree /\ StaysRegistered /\ MissesOnlyWhatIsLost
  BY FanoutAssumption DEF Init, MapsAgree, StaysRegistered, MissesOnlyWhatIsLost, Registered
<1>3. ASSUME NEW c \in Clients PROVE Bookkeeping(c)
  BY DEF Init, Bookkeeping, Registered
<1>4. QED
  BY <1>1, <1>2, <1>3 DEF FanoutInv

----------------------------------------------------------------------------
(* Redis and the listener, but for the events it takes *)

\* Steps that touch neither the clients nor a broadcast keep the rest.
LEMMA LinkRest ==
  ASSUME FanoutInv, TypeOK', UNCHANGED <<castVars, managerVars, clientVars, received>>,
         \A i \in 1..Len(log) : log'[i] = log[i],
         handled' = handled \/ (targets = {} /\ handled <= handled')
  PROVE  FanoutInv'
<1>1. TypeOK /\ Rest
  BY Parts
<1>2. MapsAgree' /\ StaysRegistered'
  BY <1>1 DEF Rest, MapsAgree, StaysRegistered, Registered, managerVars, clientVars
<1>3. MissesOnlyWhatIsLost'
  BY <1>1 DEF Rest, MissesOnlyWhatIsLost, Registered, Shown, TypeOK,
        managerVars, clientVars, castVars
<1>4. ASSUME NEW c \in Clients PROVE Bookkeeping(c)'
  <2>1. /\ Bookkeeping(c) /\ handled \in Nat /\ handled' \in Nat
        /\ handled \in 0..Len(log)
        /\ \A k \in 1..Len(received[c]) : received[c][k] \in Nat
    <3>1. received[c] \in Seq(Nat)
      BY <1>1 DEF TypeOK
    <3>2. Len(log) \in Nat /\ handled \in Nat /\ reached \in Nat /\ handled <= Len(log)
      BY <1>1 DEF TypeOK
    <3>3. handled' \in Nat
      BY DEF TypeOK
    <3>4. QED
      BY <1>1, <3>1, <3>2, <3>3 DEF Rest
  <2>2. \A k \in 1..Len(received[c]) : received'[c][k] <= handled'
    BY <2>1 DEF Bookkeeping
  <2>3. c \in targets => handled' = handled /\ log'[handled] = log[handled]
    BY <2>1 DEF Bookkeeping
  <2>4. QED
    BY <2>1, <2>2, <2>3 DEF Bookkeeping, Registered, managerVars, clientVars, castVars
<1>5. QED
  BY <1>2, <1>3, <1>4 DEF FanoutInv

LEMMA LinkInv ==
  ASSUME FanoutInv, Redis \/ Subscribe \/ ConnectFails \/ PollFails \/ Wake \/ CloseFails
  PROVE  FanoutInv'
<1>1. /\ TypeOK /\ log \in Seq(Restaurants) /\ Len(log) \in Nat
      /\ handled \in Nat /\ reached \in Nat /\ handled <= reached /\ reached <= Len(log)
  BY DEF FanoutInv, TypeOK
<1>2. ASSUME NEW r \in Restaurants, Publish(r) PROVE FanoutInv'
  <2>1. /\ log' \in Seq(Restaurants) /\ Len(log') = Len(log) + 1
        /\ \A i \in 1..Len(log) : log'[i] = log[i]
    BY <1>1, <1>2, AppendEntries DEF Publish
  <2>2. reached' \in 0..Len(log') /\ handled \in 0..reached'
    BY <1>1, <1>2, <2>1 DEF Publish
  <2>3. TypeOK'
    BY <1>1, <1>2, <2>1, <2>2
       DEF Publish, TypeOK, listenerVars, castVars, managerVars, clientVars
  <2>4. QED
    BY <1>2, <2>1, <2>3, LinkRest DEF Publish, listenerVars
<1>3. CASE Break
  <2>1. reached' \in 0..Len(log) /\ handled \in 0..reached'
    BY <1>1, <1>3 DEF Break
  <2>2. TypeOK'
    BY <1>1, <1>3, <2>1
       DEF Break, TypeOK, listenerVars, castVars, managerVars, clientVars
  <2>3. QED
    BY <1>3, <2>2, LinkRest DEF Break, listenerVars
<1>4. CASE Subscribe
  <2>1. targets = {} /\ stale = {}
    BY <1>1, <1>4 DEF Subscribe, TypeOK
  <2>2. TypeOK'
    <3>1. owed \in [Clients -> SUBSET (1..Len(log))]
      BY <1>1 DEF TypeOK
    <3>2. QED
      BY <1>1, <1>4, <2>1, <3>1 DEF Subscribe, TypeOK, castVars, managerVars, clientVars
  <2>3. QED
    BY <1>1, <1>4, <2>1, <2>2, LinkRest DEF Subscribe
<1>5. CASE ConnectFails \/ PollFails \/ Wake \/ CloseFails
  <2>1. /\ UNCHANGED <<redisVars, handled, castVars, managerVars, clientVars, received>>
        /\ listener' \in {"connect", "sleep", "ended"}
        /\ listener \in {"connect", "poll", "sleep"}
    BY <1>5 DEF ConnectFails, PollFails, Wake, CloseFails
  <2>2. TypeOK'
    BY <1>1, <2>1 DEF TypeOK, redisVars, castVars, managerVars, clientVars
  <2>3. QED
    BY <2>1, <2>2, LinkRest DEF redisVars
<1>6. QED
  BY <1>2, <1>3, <1>4, <1>5 DEF Redis

----------------------------------------------------------------------------
(* Broadcasts *)

\* The snapshot of a broadcast is what the manager holds for its restaurant.
LEMMA TakeInv ==
  ASSUME FanoutInv, TakeMessage
  PROVE  FanoutInv'
<1>1. /\ TypeOK /\ Rest /\ handled \in Nat /\ reached \in Nat /\ Len(log) \in Nat
      /\ handled + 1 <= reached /\ reached <= Len(log) /\ handled' = handled + 1
      /\ log[handled + 1] \in Restaurants
  <2>1. /\ TypeOK /\ Rest /\ log \in Seq(Restaurants) /\ Len(log) \in Nat
        /\ handled \in Nat /\ reached \in Nat /\ reached <= Len(log)
    BY Parts DEF TypeOK
  <2>2. handled + 1 <= reached
    BY <2>1 DEF TakeMessage, Stream
  <2>3. QED
    BY <2>1, <2>2 DEF TakeMessage
<1>2. targets = {} /\ stale = {} /\ awaited = NoClient
  BY <1>1 DEF TypeOK, TakeMessage
<1>3. /\ targets' = connections[log[handled + 1]]
      /\ listener' = "send" /\ Owe(handled + 1)
      /\ UNCHANGED <<redisVars, awaited, stale, connections, socketToRestaurant,
                     clientVars, received>>
  BY DEF TakeMessage
<1>4. ASSUME NEW c \in Clients
      PROVE  c \in targets' <=> socketToRestaurant[c] = log[handled + 1]
  BY <1>1, <1>3 DEF Rest, MapsAgree
<1>5. TypeOK'
  <2>1. owed' \in [Clients -> SUBSET (1..handled')]
    BY <1>1, <1>3 DEF TypeOK, Owe
  <2>2. QED
    BY <1>1, <1>2, <1>3, <2>1 DEF TypeOK, redisVars, clientVars
<1>6. MapsAgree' /\ StaysRegistered'
  BY <1>1, <1>3 DEF Rest, MapsAgree, StaysRegistered, Registered, clientVars
<1>7. MissesOnlyWhatIsLost'
  <2> SUFFICES ASSUME NEW c \in Clients, Registered(c), socket[c] # "gone",
                      NEW i \in owed'[c]
               PROVE  i \in Shown(c) \cup (IF c \in targets' THEN {handled + 1} ELSE {})
    BY <1>1, <1>3 DEF MissesOnlyWhatIsLost, Registered, Shown, clientVars
  <2>1. CASE i \in owed[c]
    BY <1>1, <1>2, <2>1 DEF Rest, MissesOnlyWhatIsLost
  <2>2. CASE i \notin owed[c]
    <3>1. i = handled + 1 /\ socketToRestaurant[c] = log[handled + 1]
      BY <1>3, <2>2 DEF Owe
    <3>2. QED
      BY <1>4, <3>1
  <2>3. QED
    BY <2>1, <2>2
<1>8. ASSUME NEW c \in Clients PROVE Bookkeeping(c)'
  <2>1. Bookkeeping(c) /\ received[c] \in Seq(Nat)
    BY <1>1 DEF Rest, TypeOK
  <2>2. \A k \in 1..Len(received[c]) : received[c][k] < handled + 1
    BY <1>1, <2>1 DEF Bookkeeping
  <2>3. c \in targets' => room[c] = log[handled + 1]
    BY <1>1, <1>4, <2>1, FanoutAssumption DEF Bookkeeping, Registered
  <2>4. ~Registered(c) => owed'[c] = {}
    BY <1>1, <1>3, <2>1, FanoutAssumption DEF Bookkeeping, Registered, Owe
  <2>5. QED
    BY <1>1, <1>2, <1>3, <2>1, <2>2, <2>3, <2>4
       DEF Bookkeeping, Registered, redisVars, clientVars
<1>9. QED
  BY <1>5, <1>6, <1>7, <1>8 DEF FanoutInv

\* A send that ends, or waits, with the socket's record unchanged.
LEMMA UnsentInv ==
  ASSUME FanoutInv, NEW c \in Clients, SendWaits(c) \/ SendRaises(c) \/ SendVanishes(c)
  PROVE  FanoutInv'
<1>1. TypeOK /\ Rest /\ c \in targets /\ listener = "send"
  BY Parts DEF SendWaits, SendRaises, SendVanishes, Turn, TypeOK
<1>2. /\ UNCHANGED <<redisVars, handled, listener, managerVars, clientVars, received>>
      /\ targets' \subseteq targets
      /\ targets \ targets' \subseteq {d \in Clients : socket[d] = "gone"}
      /\ awaited' \in targets' \cup {NoClient}
      /\ stale' \subseteq stale \cup {d \in Clients : socket[d] = "gone"}
  BY <1>1 DEF SendWaits, SendRaises, SendVanishes, Sent, Turn, TypeOK
<1>3. TypeOK'
  BY <1>1, <1>2 DEF TypeOK, redisVars, managerVars, clientVars
<1>4. MapsAgree' /\ StaysRegistered'
  BY <1>1, <1>2 DEF Rest, MapsAgree, StaysRegistered, Registered, managerVars, clientVars
<1>5. MissesOnlyWhatIsLost'
  BY <1>1, <1>2 DEF Rest, MissesOnlyWhatIsLost, Registered, Shown, managerVars, clientVars
<1>6. ASSUME NEW d \in Clients PROVE Bookkeeping(d)'
  BY <1>1, <1>2 DEF Rest, Bookkeeping, Registered, redisVars, managerVars, clientVars
<1>7. QED
  BY <1>3, <1>4, <1>5, <1>6 DEF FanoutInv

\* What a send does to the record of its socket.
LEMMA SendRecord ==
  ASSUME FanoutInv, NEW c \in Clients, Send(c)
  PROVE  /\ received' \in [Clients -> Seq(Nat)]
         /\ Len(received[c]) \in Nat
         /\ Len(received'[c]) = Len(received[c]) + 1
         /\ \A k \in 1..Len(received[c]) : received'[c][k] = received[c][k]
         /\ received'[c][Len(received[c]) + 1] = handled
         /\ \A d \in Clients : d # c => received'[d] = received[d]
<1>1. received \in [Clients -> Seq(Nat)] /\ handled \in Nat
  BY DEF FanoutInv, TypeOK
<1>2. received' = [received EXCEPT ![c] = Append(received[c], handled)]
  BY DEF Send
<1>3. received[c] \in Seq(Nat) /\ received'[c] = Append(received[c], handled)
  BY <1>1, <1>2
<1>4. QED
  BY <1>1, <1>2, <1>3, AppendEntries

LEMMA SendInv ==
  ASSUME FanoutInv, NEW c \in Clients, Send(c)
  PROVE  FanoutInv'
<1>1. /\ TypeOK /\ Rest /\ c \in targets /\ listener = "send" /\ handled \in Nat
      /\ UNCHANGED <<redisVars, handled, listener, managerVars, clientVars, stale>>
      /\ targets' = targets \ {c} /\ awaited' = NoClient
  BY Parts DEF Send, Turn, Sent, TypeOK
<1>2. /\ received' \in [Clients -> Seq(Nat)]
      /\ Len(received[c]) \in Nat
      /\ Len(received'[c]) = Len(received[c]) + 1
      /\ \A k \in 1..Len(received[c]) : received'[c][k] = received[c][k]
      /\ received'[c][Len(received[c]) + 1] = handled
      /\ \A d \in Clients : d # c => received'[d] = received[d]
  BY SendRecord
<1>3. TypeOK'
  BY <1>1, <1>2 DEF TypeOK, redisVars, managerVars, clientVars
<1>4. MapsAgree' /\ StaysRegistered'
  BY <1>1 DEF Rest, MapsAgree, StaysRegistered, Registered, managerVars, clientVars
<1>5. Shown(c)' = Shown(c) \cup {handled} /\ \A d \in Clients : d # c => Shown(d)' = Shown(d)
  <2>1. \A k \in 1..Len(received'[c]) :
           k \in 1..Len(received[c]) \/ k = Len(received[c]) + 1
    BY <1>2
  <2>2. 1..Len(received[c]) \subseteq 1..Len(received'[c])
          /\ Len(received[c]) + 1 \in 1..Len(received'[c])
    BY <1>2
  <2>3. Shown(c)' \subseteq Shown(c) \cup {handled}
    BY <1>2, <2>1 DEF Shown
  <2>4. Shown(c) \cup {handled} \subseteq Shown(c)'
    BY <1>2, <2>2 DEF Shown
  <2>5. \A d \in Clients : d # c => Shown(d)' = Shown(d)
    BY <1>2 DEF Shown
  <2>6. QED
    BY <2>3, <2>4, <2>5
<1>6. MissesOnlyWhatIsLost'
  <2> SUFFICES ASSUME NEW d \in Clients, Registered(d), socket[d] # "gone", NEW i \in owed[d]
               PROVE  i \in Shown(d)' \cup (IF d \in targets' THEN {handled} ELSE {})
    BY <1>1 DEF MissesOnlyWhatIsLost, Registered, managerVars, clientVars
  <2>1. i \in Shown(d) \cup (IF d \in targets THEN {handled} ELSE {})
    BY <1>1 DEF Rest, MissesOnlyWhatIsLost
  <2>2. QED
    BY <1>1, <1>5, <2>1
<1>7. ASSUME NEW d \in Clients PROVE Bookkeeping(d)'
  <2>1. Bookkeeping(d)
    BY <1>1 DEF Rest
  <2>2. CASE d # c
    BY <1>1, <1>2, <2>1, <2>2 DEF Bookkeeping, Registered, redisVars, managerVars, clientVars
  <2>3. CASE d = c
    <3>1. \A k \in 1..Len(received'[c]) : received'[c][k] <= handled
      <4>1. \A k \in 1..Len(received'[c]) :
               k \in 1..Len(received[c]) \/ k = Len(received[c]) + 1
        BY <1>2
      <4>2. QED
        BY <1>1, <1>2, <2>1, <2>3, <4>1 DEF Bookkeeping
    <3>2. c \notin targets'
      BY <1>1
    <3>3. QED
      BY <1>1, <2>1, <2>3, <3>1, <3>2
         DEF Bookkeeping, Registered, redisVars, managerVars, clientVars
  <2>4. QED
    BY <2>2, <2>3
<1>8. QED
  BY <1>3, <1>4, <1>6, <1>7 DEF FanoutInv

----------------------------------------------------------------------------
(* Leaving *)

\* unregister keeps the maps in agreement and forgets exactly the sockets of S.
LEMMA UnregisterMaps ==
  ASSUME FanoutInv, NEW S \in SUBSET Clients, Unregister(S)
  PROVE  /\ connections' \in [Restaurants -> SUBSET Clients]
         /\ socketToRestaurant' \in [Clients -> Restaurants \cup {NoRestaurant}]
         /\ owed' \in [Clients -> SUBSET (1..handled)]
         /\ MapsAgree'
         /\ \A c \in S : ~Registered(c)' /\ socketToRestaurant'[c] = NoRestaurant
                         /\ owed'[c] = {}
         /\ \A c \in Clients \ S :
               socketToRestaurant'[c] = socketToRestaurant[c] /\ owed'[c] = owed[c]
<1>1. TypeOK /\ MapsAgree
  BY DEF FanoutInv
<1>2. /\ connections' \in [Restaurants -> SUBSET Clients]
      /\ socketToRestaurant' \in [Clients -> Restaurants \cup {NoRestaurant}]
      /\ owed' \in [Clients -> SUBSET (1..handled)]
  BY <1>1 DEF Unregister, TypeOK
<1>3. /\ \A c \in S : socketToRestaurant'[c] = NoRestaurant /\ owed'[c] = {}
      /\ \A c \in Clients \ S :
            socketToRestaurant'[c] = socketToRestaurant[c] /\ owed'[c] = owed[c]
  BY <1>1 DEF Unregister
<1>4. MapsAgree'
  <2> SUFFICES ASSUME NEW c \in Clients, NEW r \in Restaurants
               PROVE  c \in connections'[r] <=> socketToRestaurant'[c] = r
    BY DEF MapsAgree
  <2>1. c \in connections'[r]
          <=> c \in connections[r] /\ ~(c \in S /\ socketToRestaurant[c] = r)
    BY DEF Unregister
  <2>2. c \in connections[r] <=> socketToRestaurant[c] = r
    BY <1>1 DEF MapsAgree
  <2>3. CASE c \in S
    <3>1. socketToRestaurant'[c] # r
      BY <1>3, <2>3, FanoutAssumption
    <3>2. QED
      BY <2>1, <2>2, <2>3, <3>1
  <2>4. CASE c \notin S
    BY <1>3, <2>1, <2>2, <2>4
  <2>5. QED
    BY <2>3, <2>4
<1>5. QED
  BY <1>2, <1>3, <1>4 DEF Registered

LEMMA EndBroadcastInv ==
  ASSUME FanoutInv, EndBroadcast
  PROVE  FanoutInv'
<1>1. /\ TypeOK /\ Rest /\ stale \in SUBSET Clients /\ targets = {}
      /\ stale' = {} /\ listener' = "poll" /\ Unregister(stale)
      /\ UNCHANGED <<redisVars, handled, targets, awaited, clientVars, received>>
  BY Parts DEF EndBroadcast, TypeOK
<1>2. /\ connections' \in [Restaurants -> SUBSET Clients]
      /\ socketToRestaurant' \in [Clients -> Restaurants \cup {NoRestaurant}]
      /\ owed' \in [Clients -> SUBSET (1..handled)]
      /\ MapsAgree'
      /\ \A c \in stale : ~Registered(c)' /\ socketToRestaurant'[c] = NoRestaurant
                          /\ owed'[c] = {}
      /\ \A c \in Clients \ stale :
            socketToRestaurant'[c] = socketToRestaurant[c] /\ owed'[c] = owed[c]
  BY <1>1, UnregisterMaps
<1>3. TypeOK'
  BY <1>1, <1>2 DEF TypeOK, redisVars, clientVars
<1>4. StaysRegistered'
  BY <1>1, <1>2 DEF Rest, StaysRegistered, Bookkeeping, Registered, clientVars
<1>5. MissesOnlyWhatIsLost'
  BY <1>1, <1>2 DEF Rest, MissesOnlyWhatIsLost, Registered, Shown, clientVars
<1>6. ASSUME NEW c \in Clients PROVE Bookkeeping(c)'
  <2>1. Bookkeeping(c)
    BY <1>1 DEF Rest
  <2>2. Registered(c)' => c \notin stale /\ Registered(c)
    BY <1>2 DEF Registered
  <2>3. Registered(c)' => endpoint'[c] = "receive" /\ socketToRestaurant'[c] = room'[c]
    BY <1>1, <1>2, <2>1, <2>2 DEF Bookkeeping, clientVars
  <2>4. QED
    BY <1>1, <1>2, <2>1, <2>3 DEF Bookkeeping, Registered, redisVars, clientVars
<1>7. QED
  BY <1>2, <1>3, <1>4, <1>5, <1>6 DEF FanoutInv

\* The endpoint unregisters its own socket as it ends.
LEMMA DisconnectInv ==
  ASSUME FanoutInv, NEW c \in Clients, Disconnect(c) \/ ReceiveFails(c)
  PROVE  FanoutInv'
<1>1. /\ TypeOK /\ Rest /\ endpoint[c] = "receive" /\ Unregister({c})
      /\ endpoint' = [endpoint EXCEPT ![c] = "ended"]
      /\ UNCHANGED <<redisVars, listenerVars, socket, room, received>>
  BY Parts DEF Disconnect, ReceiveFails
<1>2. /\ connections' \in [Restaurants -> SUBSET Clients]
      /\ socketToRestaurant' \in [Clients -> Restaurants \cup {NoRestaurant}]
      /\ owed' \in [Clients -> SUBSET (1..handled)]
      /\ MapsAgree'
      /\ ~Registered(c)' /\ socketToRestaurant'[c] = NoRestaurant /\ owed'[c] = {}
      /\ \A d \in Clients : d # c =>
            socketToRestaurant'[d] = socketToRestaurant[d] /\ owed'[d] = owed[d]
  <2>1. {c} \in SUBSET Clients
    OBVIOUS
  <2>2. QED
    BY <1>1, <2>1, UnregisterMaps
<1>3. endpoint'[c] = "ended" /\ \A d \in Clients : d # c => endpoint'[d] = endpoint[d]
  BY <1>1 DEF TypeOK
<1>4. TypeOK'
  BY <1>1, <1>2 DEF TypeOK, redisVars, listenerVars, castVars
<1>5. StaysRegistered'
  BY <1>1, <1>2, <1>3 DEF Rest, StaysRegistered, Registered
<1>6. MissesOnlyWhatIsLost'
  BY <1>1, <1>2 DEF Rest, MissesOnlyWhatIsLost, Registered, Shown, listenerVars, castVars
<1>7. ASSUME NEW d \in Clients PROVE Bookkeeping(d)'
  <2>1. Bookkeeping(d)
    BY <1>1 DEF Rest
  <2>2. CASE d = c
    BY <1>1, <1>2, <1>3, <2>1, <2>2
       DEF Bookkeeping, Registered, redisVars, listenerVars, castVars
  <2>3. CASE d # c
    BY <1>1, <1>2, <1>3, <2>1, <2>3
       DEF Bookkeeping, Registered, redisVars, listenerVars, castVars
  <2>4. QED
    BY <2>2, <2>3
<1>8. QED
  BY <1>2, <1>4, <1>5, <1>6, <1>7 DEF FanoutInv

----------------------------------------------------------------------------
(* Arriving, and what happens to connections *)

LEMMA ConnectInv ==
  ASSUME FanoutInv, NEW c \in Clients, NEW r \in Restaurants, Connect(c, r)
  PROVE  FanoutInv'
<1>1. /\ TypeOK /\ Rest /\ Bookkeeping(c) /\ endpoint[c] = "new"
      /\ endpoint' = [endpoint EXCEPT ![c] = "accept"]
      /\ socket' = [socket EXCEPT ![c] = "open"]
      /\ room' = [room EXCEPT ![c] = r]
      /\ UNCHANGED <<redisVars, listenerVars, managerVars, received>>
  BY Parts DEF Connect, Rest
<1>2. /\ endpoint'[c] = "accept" /\ socket'[c] = "open" /\ room'[c] = r
      /\ \A d \in Clients : d # c =>
            endpoint'[d] = endpoint[d] /\ socket'[d] = socket[d] /\ room'[d] = room[d]
  BY <1>1 DEF TypeOK
<1>3. ~Registered(c) /\ c \notin targets /\ c \notin stale /\ r # NoRestaurant
  <2>1. c \notin targets
    <3>1. c \in targets => handled \in 1..Len(log) /\ room[c] = log[handled]
      BY <1>1 DEF TypeOK, Bookkeeping
    <3>2. \A i \in 1..Len(log) : log[i] \in Restaurants
      BY <1>1 DEF TypeOK
    <3>3. QED
      BY <1>1, <3>1, <3>2, FanoutAssumption DEF Bookkeeping
  <2>2. QED
    BY <1>1, <2>1, FanoutAssumption DEF Bookkeeping
<1>4. TypeOK'
  BY <1>1 DEF TypeOK, redisVars, listenerVars, castVars, managerVars
<1>5. MapsAgree' /\ StaysRegistered'
  BY <1>1, <1>2 DEF Rest, MapsAgree, StaysRegistered, Registered, managerVars
<1>6. MissesOnlyWhatIsLost'
  BY <1>1, <1>2, <1>3
     DEF Rest, MissesOnlyWhatIsLost, Registered, Shown, listenerVars, castVars, managerVars
<1>7. ASSUME NEW d \in Clients PROVE Bookkeeping(d)'
  <2>1. Bookkeeping(d)
    BY <1>1 DEF Rest
  <2>2. CASE d = c
    BY <1>1, <1>2, <1>3, <2>1, <2>2
       DEF Bookkeeping, Registered, redisVars, listenerVars, castVars, managerVars
  <2>3. CASE d # c
    BY <1>1, <1>2, <2>1, <2>3
       DEF Bookkeeping, Registered, redisVars, listenerVars, castVars, managerVars
  <2>4. QED
    BY <2>2, <2>3
<1>8. QED
  BY <1>4, <1>5, <1>6, <1>7 DEF FanoutInv

LEMMA RegisterInv ==
  ASSUME FanoutInv, NEW c \in Clients, Register(c)
  PROVE  FanoutInv'
<1>1. /\ TypeOK /\ Rest /\ Bookkeeping(c) /\ endpoint[c] = "accept"
      /\ endpoint' = [endpoint EXCEPT ![c] = "receive"]
      /\ connections' = [connections EXCEPT ![room[c]] = @ \cup {c}]
      /\ socketToRestaurant' = [socketToRestaurant EXCEPT ![c] = room[c]]
      /\ UNCHANGED <<redisVars, listenerVars, socket, room, owed, received>>
  BY Parts DEF Register, Rest
<1>2. room[c] \in Restaurants /\ ~Registered(c)
  BY <1>1 DEF Bookkeeping, TypeOK
<1>3. /\ endpoint'[c] = "receive" /\ socketToRestaurant'[c] = room[c]
      /\ \A d \in Clients : d # c =>
            endpoint'[d] = endpoint[d] /\ socketToRestaurant'[d] = socketToRestaurant[d]
      /\ \A r \in Restaurants :
            connections'[r] = IF r = room[c] THEN connections[r] \cup {c} ELSE connections[r]
  BY <1>1, <1>2 DEF TypeOK
<1>4. TypeOK'
  BY <1>1, <1>2 DEF TypeOK, redisVars, listenerVars, castVars
<1>5. MapsAgree'
  BY <1>1, <1>2, <1>3, FanoutAssumption DEF Rest, MapsAgree, Registered
<1>6. StaysRegistered'
  BY <1>1, <1>2, <1>3, FanoutAssumption DEF Rest, StaysRegistered, Registered
<1>7. owed[c] = {}
  BY <1>1, <1>2 DEF Rest, Bookkeeping
<1>8. MissesOnlyWhatIsLost'
  BY <1>1, <1>3, <1>7
     DEF Rest, MissesOnlyWhatIsLost, Registered, Shown, listenerVars, castVars
<1>9. ASSUME NEW d \in Clients PROVE Bookkeeping(d)'
  <2>1. Bookkeeping(d)
    BY <1>1 DEF Rest
  <2>2. CASE d = c
    BY <1>1, <1>2, <1>3, <2>1, <2>2
       DEF Bookkeeping, Registered, redisVars, listenerVars, castVars
  <2>3. CASE d # c
    BY <1>1, <1>3, <2>1, <2>3 DEF Bookkeeping, Registered, redisVars, listenerVars, castVars
  <2>4. QED
    BY <2>2, <2>3
<1>10. QED
  BY <1>4, <1>5, <1>6, <1>8, <1>9 DEF FanoutInv

\* accept() raises, or a connection is dropped, stalls or recovers.
LEMMA SocketInv ==
  ASSUME FanoutInv, NEW c \in Clients, AcceptFails(c) \/ Transport(c)
  PROVE  FanoutInv'
<1>1. /\ TypeOK /\ Rest /\ Bookkeeping(c)
      /\ UNCHANGED <<redisVars, listenerVars, managerVars, room, received>>
  BY Parts
     DEF AcceptFails, Transport, Drop, Stall, Settle, SetSocket, Rest
<1>2. /\ \A d \in Clients : d # c => endpoint'[d] = endpoint[d] /\ socket'[d] = socket[d]
      /\ \/ endpoint' = endpoint /\ socket[c] \in {"open", "slow"}
         \/ endpoint[c] = "accept" /\ endpoint'[c] = "ended" /\ socket' = socket
      /\ endpoint' \in [Clients -> {"new", "accept", "receive", "ended"}]
      /\ socket' \in [Clients -> {"none", "open", "slow", "gone"}]
  BY <1>1 DEF AcceptFails, Transport, Drop, Stall, Settle, SetSocket, TypeOK
<1>3. TypeOK'
  BY <1>1, <1>2 DEF TypeOK, redisVars, listenerVars, castVars, managerVars
<1>4. MapsAgree'
  BY <1>1 DEF Rest, MapsAgree, managerVars
<1>5. StaysRegistered'
  BY <1>1, <1>2 DEF Rest, StaysRegistered, Registered, managerVars
<1>6. MissesOnlyWhatIsLost'
  BY <1>1, <1>2
     DEF Rest, MissesOnlyWhatIsLost, Registered, Shown, managerVars, listenerVars, castVars
<1>7. ASSUME NEW d \in Clients PROVE Bookkeeping(d)'
  <2>1. Bookkeeping(d)
    BY <1>1 DEF Rest
  <2>2. QED
    BY <1>1, <1>2, <2>1
       DEF Bookkeeping, Registered, redisVars, listenerVars, castVars, managerVars
<1>8. QED
  BY <1>3, <1>4, <1>5, <1>6, <1>7 DEF FanoutInv

\* A new process begins with an empty manager.
LEMMA RestartInv ==
  ASSUME FanoutInv, Restart
  PROVE  FanoutInv'
<1>1. TypeOK /\ Rest
  BY Parts
<1>2. TypeOK'
  <2>1. handled \in 0..handled /\ handled \in 0..Len(log)
    BY <1>1 DEF TypeOK
  <2>2. owed' \in [Clients -> SUBSET (1..handled)]
    BY DEF Restart
  <2>3. endpoint' \in [Clients -> {"new", "accept", "receive", "ended"}]
    BY DEF Restart
  <2>4. QED
    BY <1>1, <2>1, <2>2, <2>3 DEF Restart, TypeOK
<1>3. /\ MapsAgree' /\ MissesOnlyWhatIsLost' /\ StaysRegistered'
      /\ \A c \in Clients : ~Registered(c)'
  BY <1>1, FanoutAssumption
     DEF Restart, MapsAgree, MissesOnlyWhatIsLost, StaysRegistered, Registered
<1>4. ASSUME NEW c \in Clients PROVE Bookkeeping(c)'
  <2>1. Bookkeeping(c)
    BY <1>1 DEF Rest
  <2>2. QED
    BY <1>3, <2>1 DEF Restart, Bookkeeping
<1>5. QED
  BY <1>2, <1>3, <1>4 DEF FanoutInv

----------------------------------------------------------------------------
(* The theorems *)

\* The invariant is inductive.
LEMMA FanoutInvStep == FanoutInv /\ [Next]_vars => FanoutInv'
<1> SUFFICES ASSUME FanoutInv, [Next]_vars PROVE FanoutInv'
  OBVIOUS
<1>1. CASE Redis
  BY <1>1, LinkInv
<1>2. CASE Listening
  BY <1>2, LinkInv, TakeInv DEF Listening
<1>3. CASE Broadcasting
  BY <1>3, SendInv, UnsentInv, EndBroadcastInv DEF Broadcasting
<1>4. CASE Restart
  BY <1>4, RestartInv
<1>5. ASSUME NEW c \in Clients, Endpoint(c) PROVE FanoutInv'
  BY <1>5, ConnectInv, RegisterInv, SocketInv, DisconnectInv DEF Endpoint
<1>6. ASSUME NEW c \in Clients, Transport(c) PROVE FanoutInv'
  BY <1>6, SocketInv
<1>7. CASE UNCHANGED vars
  <2>1. TypeOK'
    BY <1>7 DEF vars, redisVars, listenerVars, castVars, managerVars, clientVars,
          FanoutInv, TypeOK
  <2>2. QED
    BY <1>7, <2>1, LinkRest
       DEF vars, redisVars, listenerVars, castVars, managerVars, clientVars
<1>8. QED
  BY <1>1, <1>2, <1>3, <1>4, <1>5, <1>6, <1>7 DEF Next

\* The inductive invariant holds throughout.
THEOREM FanoutCorrect == Spec => []FanoutInv
  BY InitInv, FanoutInvStep, PTL DEF Spec

\* Listener, manager, endpoints and sockets are in states the code knows.
THEOREM TypeCorrect == Spec => []TypeOK
<1>1. FanoutInv => TypeOK
  BY DEF FanoutInv
<1>2. QED
  BY <1>1, FanoutCorrect, PTL

\* The manager's two maps never disagree.
THEOREM MapsCorrect == Spec => []MapsAgree
<1>1. FanoutInv => MapsAgree
  BY DEF FanoutInv
<1>2. QED
  BY <1>1, FanoutCorrect, PTL

\* Nobody whose connection stands is pruned.
THEOREM NobodyPruned == Spec => []StaysRegistered
<1>1. FanoutInv => StaysRegistered
  BY DEF FanoutInv
<1>2. QED
  BY <1>1, FanoutCorrect, PTL

\* No client is deprived of an event that the listener took.
THEOREM NothingTakenIsMissed == Spec => []MissesOnlyWhatIsLost
<1>1. FanoutInv => MissesOnlyWhatIsLost
  BY DEF FanoutInv
<1>2. QED
  BY <1>1, FanoutCorrect, PTL

----------------------------------------------------------------------------
(* The stream implements the feed *)

\* A send shows its client a later event of its restaurant.
LEMMA SendShows ==
  ASSUME FanoutInv, NEW c \in Clients, Send(c)
  PROVE  F!Next
<1>1. /\ TypeOK /\ Bookkeeping(c) /\ c \in targets
      /\ received' = [received EXCEPT ![c] = Append(@, handled)]
      /\ UNCHANGED <<log, room>>
  BY DEF FanoutInv, Send, Sent, Turn, redisVars, clientVars
<1>2. handled \in 1..Len(log)
  BY <1>1 DEF Bookkeeping, TypeOK
<1>3. F!Show(c, handled)
  BY <1>1 DEF Bookkeeping, F!Show
<1>4. QED
  BY <1>2, <1>3 DEF F!Next

\* Whoever connects has not asked for a restaurant before.
LEMMA ConnectJoins ==
  ASSUME FanoutInv, NEW c \in Clients, NEW r \in Restaurants, Connect(c, r)
  PROVE  F!Next
<1>1. /\ room[c] = NoRestaurant /\ room' = [room EXCEPT ![c] = r]
      /\ UNCHANGED <<log, received>>
  BY DEF FanoutInv, Bookkeeping, Connect, redisVars
<1>2. F!Join(c, r)
  BY <1>1 DEF F!Join
<1>3. QED
  BY <1>2 DEF F!Next

\* Every step is a step of the feed or changes nothing of it.
LEMMA FeedStep == FanoutInv /\ [Next]_vars => [F!Next]_<<log, room, received>>
<1> SUFFICES ASSUME FanoutInv, [Next]_vars PROVE [F!Next]_<<log, room, received>>
  OBVIOUS
<1> DEFINE Shows == <<log, room, received>>
<1>1. ASSUME NEW r \in Restaurants, Publish(r) PROVE F!Next
  <2>1. F!Announce(r)
    BY <1>1 DEF Publish, F!Announce, clientVars
  <2>2. QED
    BY <2>1 DEF F!Next
<1>2. CASE Break
  BY <1>2 DEF Break, clientVars
<1>3. CASE Listening
  BY <1>3 DEF Listening, Subscribe, ConnectFails, PollFails, Wake, CloseFails, TakeMessage,
      redisVars, clientVars
<1>4. CASE Broadcasting
  <2>1. ASSUME NEW c \in Clients, SendWaits(c) \/ SendRaises(c) \/ SendVanishes(c)
        PROVE UNCHANGED Shows
    BY <2>1 DEF SendWaits, SendRaises, SendVanishes, Sent, redisVars, clientVars
  <2>2. EndBroadcast => UNCHANGED Shows
    BY DEF EndBroadcast, redisVars, clientVars
  <2>3. QED
    BY <1>4, <2>1, <2>2, SendShows DEF Broadcasting
<1>5. CASE Restart
  BY <1>5 DEF Restart
<1>6. ASSUME NEW c \in Clients, Endpoint(c) PROVE [F!Next]_Shows
  <2>1. Register(c) \/ AcceptFails(c) \/ Disconnect(c) \/ ReceiveFails(c) => UNCHANGED Shows
    BY DEF Register, AcceptFails, Disconnect, ReceiveFails, redisVars
  <2>2. QED
    BY <1>6, <2>1, ConnectJoins DEF Endpoint
<1>7. ASSUME NEW c \in Clients, Transport(c) PROVE UNCHANGED Shows
  BY <1>7 DEF Transport, Drop, Stall, Settle, SetSocket, redisVars
<1>8. CASE UNCHANGED vars
  BY <1>8 DEF vars, redisVars, clientVars
<1>9. QED
  BY <1>1, <1>2, <1>3, <1>4, <1>5, <1>6, <1>7, <1>8 DEF Next, Redis

\* The listener, the manager and the endpoints implement the feed: a display
\* is shown its own restaurant's events, in order, each at most once.
THEOREM FeedImplemented == Spec => ImplementsFeed
<1>1. Init => F!Init
  BY DEF Init, F!Init
<1>2. QED
  BY <1>1, FanoutCorrect, FeedStep, PTL DEF Spec, ImplementsFeed, F!Spec

=============================================================================
