--------------------------- MODULE TableSessions ---------------------------
(***************************************************************************)
(* The floor of one restaurant: locations, tables and the sessions opened  *)
(* on them (application/commerce/service.py).                              *)
(*                                                                         *)
(* Every route is a synchronous function that FastAPI runs in a thread of  *)
(* its pool, with a database session of its own.  A worker w is such a     *)
(* thread.  A handler is a row of SELECTs, each of them a step that sees   *)
(* what is committed at that moment (READ COMMITTED), and one commit.      *)
(* Between its steps req[w] holds what the handler has read.  The commit   *)
(* writes the columns whose value differs from the value read, and no      *)
(* others: an UPDATE carries neither a version nor a condition.            *)
(*                                                                         *)
(* One restaurant, never deleted; ids come from finite pools.              *)
(***************************************************************************)
EXTENDS CommerceRules

CONSTANTS
    Workers,            \* threads that handle requests
    Tables, Locations, Sessions,    \* the ids the database may ever hold
    NoTable, NoLocation, NoSession,
    SeededTables,       \* tables tools/seed.py makes, and that exist at first
    SeededLocations,    \* its locations
    SeededServices,     \* what it lets each of them support
    SeedLocation,       \* where it puts the tables (loc_001)
    ServiceSets,        \* the sets of services a request gives a location
    Ops                 \* the operations requests may ask for

ASSUME FloorAssumption ==
    /\ NoTable \notin Tables
    /\ NoLocation \notin Locations
    /\ NoSession \notin Sessions
    /\ Tables \cap Locations = {}
    /\ SeededTables \subseteq Tables
    /\ SeededLocations \subseteq Locations
    /\ SeededServices \in [SeededLocations -> SUBSET Service]
    /\ SeedLocation \in Locations
    /\ SeededTables # {} => SeedLocation \in SeededLocations
    /\ ServiceSets \subseteq SUBSET Service

VARIABLES
    location,   \* rows of table locations
    table,      \* rows of table tables
    session,    \* rows of table sessions
    req,        \* what each worker is doing
    openedMeanwhile,    \* history: the sessions that others have opened since the
    deletedMeanwhile    \* request of each worker came, and what they have deleted

floorVars == <<location, table, session>>
meanwhile == <<openedMeanwhile, deletedMeanwhile>>
vars == <<floorVars, req, meanwhile>>

Life == {"absent", "live", "deleted"}

Operation ==
    {"create_session", "open_table_session", "close_session",
     "create_table", "update_table", "delete_table",
     "create_location", "update_location", "delete_location"}

\* openedBeside and deletedBeside are history, which no handler reads: what others
\* did while the request that opened the session, or deleted the row, was in progress.
LocationRow ==
    [life : Life, services : SUBSET Service, openedBeside : SUBSET Sessions]

TableRow ==
    [life : Life, status : TableStatus, loc : Locations \cup {NoLocation},
     openedBeside : SUBSET Sessions]

SessionRow ==
    [status : SessionStatus \cup {"absent"}, table : Tables \cup {NoTable},
     loc : Locations \cup {NoLocation}, closedAt : BOOLEAN,
     openedBeside : SUBSET Sessions, deletedBeside : SUBSET (Tables \cup Locations)]

(***************************************************************************)
(* A request in progress: the operation, the step to take next, its        *)
(* arguments (s to services) and what it has read: the table's             *)
(* status and location, the session's status, the location's services.     *)
(***************************************************************************)
RequestFields ==
    [op : Operation \cup {"none"},
     at : {"none", "location", "table", "active", "commit"},
     s : Sessions \cup {NoSession}, t : Tables \cup {NoTable},
     l : Locations \cup {NoLocation},
     to : SessionStatus, status : TableStatus, services : SUBSET Service,
     tableStatus : TableStatus, tableLoc : Locations \cup {NoLocation},
     sessionStatus : SessionStatus, hadServices : SUBSET Service]

\* A handler about to look its table up, or to delete it, has one.
Request ==
    {r \in RequestFields :
        /\ r.at = "table" \/ r.op = "delete_table" => r.t # NoTable
        /\ r.op = "delete_location" => r.l # NoLocation}

Idle ==
    [op |-> "none", at |-> "none", s |-> NoSession, t |-> NoTable,
     l |-> NoLocation, to |-> "closed", status |-> "available",
     services |-> Service, tableStatus |-> "available", tableLoc |-> NoLocation,
     sessionStatus |-> "open", hadServices |-> Service]

TypeOK ==
    /\ location \in [Locations -> LocationRow]
    /\ table \in [Tables -> TableRow]
    /\ session \in [Sessions -> SessionRow]
    /\ req \in [Workers -> Request]
    /\ openedMeanwhile \in [Workers -> SUBSET Sessions]
    /\ deletedMeanwhile \in [Workers -> SUBSET (Tables \cup Locations)]

\* The row of an id that is free.
NoSessionRow ==
    [status |-> "absent", table |-> NoTable, loc |-> NoLocation,
     closedAt |-> FALSE, openedBeside |-> {}, deletedBeside |-> {}]

Init ==
    /\ location = [l \in Locations |->
           IF l \in SeededLocations
             THEN [life |-> "live", services |-> SeededServices[l],
                   openedBeside |-> {}]
             ELSE [life |-> "absent", services |-> Service, openedBeside |-> {}]]
    /\ table = [t \in Tables |->
           [life |-> IF t \in SeededTables THEN "live" ELSE "absent",
            status |-> "available",
            loc |-> IF t \in SeededTables THEN SeedLocation ELSE NoLocation,
            openedBeside |-> {}]]
    /\ session = [s \in Sessions |-> NoSessionRow]
    /\ req = [w \in Workers |-> Idle]
    /\ openedMeanwhile = [w \in Workers |-> {}]
    /\ deletedMeanwhile = [w \in Workers |-> {}]

----------------------------------------------------------------------------

OpenOn(t) == {s \in Sessions : session[s].status = "open" /\ session[s].table = t}

OpenAt(l) == {s \in Sessions : session[s].status = "open" /\ session[s].loc = l}

\* The request r arrives and its first SELECT succeeds.
Begin(w, r) ==
    /\ r.op \in Ops
    /\ req[w] = Idle
    /\ req' = [req EXCEPT ![w] = r]
    /\ UNCHANGED <<floorVars, meanwhile>>

\* A later SELECT: the handler keeps r and goes on.
Proceed(w, r) ==
    /\ req' = [req EXCEPT ![w] = r]
    /\ UNCHANGED <<floorVars, meanwhile>>

Doing(w, op, at) == req[w].op = op /\ req[w].at = at

\* An UPDATE writes a column if the handler's value is not the one it read.
Written(read, value, column) == IF value = read THEN column ELSE value

Done(w) ==
    /\ req' = [req EXCEPT ![w] = Idle]
    /\ openedMeanwhile' = [openedMeanwhile EXCEPT ![w] = {}]
    /\ deletedMeanwhile' = [deletedMeanwhile EXCEPT ![w] = {}]

\* What m says of each worker after w has opened or deleted x and is done.
Noted(m, w, x) ==
    [v \in Workers |->
        IF v = w THEN {} ELSE IF req[v] = Idle THEN m[v] ELSE m[v] \cup {x}]

\* Done, with the opening of s or the deletion of x noted by all other requests.
DoneOpening(w, s) ==
    /\ req' = [req EXCEPT ![w] = Idle]
    /\ openedMeanwhile' = Noted(openedMeanwhile, w, s)
    /\ deletedMeanwhile' = [deletedMeanwhile EXCEPT ![w] = {}]

DoneDeleting(w, x) ==
    /\ req' = [req EXCEPT ![w] = Idle]
    /\ openedMeanwhile' = [openedMeanwhile EXCEPT ![w] = {}]
    /\ deletedMeanwhile' = Noted(deletedMeanwhile, w, x)

(***************************************************************************)
(* A check that fails (404, 400, 409), an IntegrityError, a lost database  *)
(* connection or a crash of the process: the transaction rolls back.       *)
(***************************************************************************)
Abort(w) ==
    /\ req[w] # Idle
    /\ Done(w)
    /\ UNCHANGED floorVars

----------------------------------------------------------------------------
(* Opening a session: create_session, walk-in sessions, open_table_session *)

CreateSession(w) ==
    \E channel \in Channel, t \in Tables \cup {NoTable}, l \in Locations :
        /\ location[l].life = "live"
        /\ ChannelTableConsistent(channel, t # NoTable)
        /\ LocationSupports(location[l].services, channel)
        /\ Begin(w, [Idle EXCEPT
                        !.op = "create_session", !.t = t, !.l = l,
                        !.at = IF t = NoTable THEN "commit" ELSE "table"])

CreateSessionTable(w) ==
    LET t == req[w].t IN
    /\ Doing(w, "create_session", "table")
    /\ table[t].life = "live"
    /\ table[t].loc \in {NoLocation, req[w].l}
    /\ Proceed(w, [req[w] EXCEPT !.at = "active",
                                 !.tableStatus = table[t].status])

\* The table row is read here and not again by the create_session it calls.
OpenTableSession(w) ==
    \E t \in Tables :
        /\ table[t].life = "live"
        /\ table[t].loc # NoLocation
        /\ Begin(w, [Idle EXCEPT
                        !.op = "open_table_session", !.at = "location",
                        !.t = t, !.l = table[t].loc,
                        !.tableStatus = table[t].status])

OpenTableSessionLocation(w) ==
    LET l == req[w].l IN
    /\ Doing(w, "open_table_session", "location")
    /\ location[l].life = "live"
    /\ LocationSupports(location[l].services, "dine_in")
    /\ Proceed(w, [req[w] EXCEPT !.op = "create_session", !.at = "active"])

\* Fault: the query for an open session is left out.
CreateSessionUnchecked(w) ==
    /\ Doing(w, "create_session", "active")
    /\ DineInTableReady(req[w].tableStatus)
    /\ Proceed(w, [req[w] EXCEPT !.at = "commit"])

CreateSessionActive(w) ==
    /\ Doing(w, "create_session", "active")
    /\ OpenOn(req[w].t) = {}
    /\ DineInTableReady(req[w].tableStatus)
    /\ Proceed(w, [req[w] EXCEPT !.at = "commit"])

\* The row that w inserts.
Opened(w) ==
    [status |-> "open", table |-> req[w].t, loc |-> req[w].l, closedAt |-> FALSE,
     openedBeside |-> openedMeanwhile[w], deletedBeside |-> deletedMeanwhile[w]]

\* Fault: the table is not marked.
CreateSessionUnmarked(w) ==
    /\ Doing(w, "create_session", "commit")
    /\ \E s \in Sessions :
        /\ session[s].status = "absent"
        /\ session' = [session EXCEPT ![s] = Opened(w)]
        /\ DoneOpening(w, s)
    /\ UNCHANGED <<location, table>>

CreateSessionCommit(w) ==
    LET t == req[w].t IN
    /\ Doing(w, "create_session", "commit")
    /\ \E s \in Sessions :
        /\ session[s].status = "absent"
        /\ session' = [session EXCEPT ![s] = Opened(w)]
        /\ DoneOpening(w, s)
    /\ IF t = NoTable THEN UNCHANGED table
       ELSE table' = [table EXCEPT
               ![t].status = Written(req[w].tableStatus, "occupied", @)]
    /\ UNCHANGED location

----------------------------------------------------------------------------
(* Closing: update_session, delete_session, close_table_session            *)

\* Fault: the table is looked up even if the session has none.
BeginCloseAnyTable(w, s, to) ==
    Begin(w, [Idle EXCEPT
                 !.op = "close_session", !.s = s, !.to = to,
                 !.t = session[s].table, !.sessionStatus = session[s].status,
                 !.at = "table"])

\* The rest of the handler once it has read session s: set its status, free
\* its table.
BeginClose(w, s, to) ==
    Begin(w, [Idle EXCEPT
                 !.op = "close_session", !.s = s, !.to = to,
                 !.t = session[s].table, !.sessionStatus = session[s].status,
                 !.at = IF session[s].table = NoTable THEN "commit" ELSE "table"])

\* Fault: a PATCH to "open" is carried out like the others.
UpdateSessionAnyStatus(w) ==
    \E s \in Sessions, to \in SessionStatus :
        /\ session[s].status # "absent"
        /\ BeginClose(w, s, to)

\* A PATCH sets the status whatever it was; one that asks for "open", or for
\* no status, leaves it alone.
UpdateSession(w) ==
    \E s \in Sessions, to \in SessionStatus \ {"open"} :
        /\ session[s].status # "absent"
        /\ BeginClose(w, s, to)

\* A DELETE of a session that is not open changes nothing.
DeleteSession(w) ==
    \E s \in Sessions :
        /\ session[s].status = "open"
        /\ BeginClose(w, s, "closed")

\* If several sessions are open on the table, the query returns any of them.
CloseTableSession(w) ==
    \E t \in Tables : \E s \in OpenOn(t) : BeginClose(w, s, "closed")

CloseSessionTable(w) ==
    LET t == req[w].t IN
    /\ Doing(w, "close_session", "table")
    /\ table[t].life = "live"
    /\ Proceed(w, [req[w] EXCEPT !.at = "commit",
                                 !.tableStatus = table[t].status])

CloseSessionCommit(w) ==
    LET s == req[w].s
        t == req[w].t IN
    /\ Doing(w, "close_session", "commit")
    /\ session' = [session EXCEPT
           ![s].status = Written(req[w].sessionStatus, req[w].to, @),
           ![s].closedAt = TRUE]
    /\ IF t = NoTable THEN UNCHANGED table
       ELSE table' = [table EXCEPT
               ![t].status = Written(req[w].tableStatus, "available", @)]
    /\ Done(w)
    /\ UNCHANGED location

----------------------------------------------------------------------------
(* The registry of tables and locations                                    *)

CreateTable(w) ==
    \E status \in TableStatus, l \in Locations \cup {NoLocation} :
        /\ l # NoLocation => location[l].life = "live"
        /\ Begin(w, [Idle EXCEPT !.op = "create_table", !.at = "commit",
                                 !.status = status, !.l = l])

CreateTableCommit(w) ==
    /\ Doing(w, "create_table", "commit")
    /\ \E t \in Tables :
        /\ table[t].life = "absent"
        /\ table' = [table EXCEPT ![t] =
               [life |-> "live", status |-> req[w].status, loc |-> req[w].l,
                openedBeside |-> {}]]
    /\ Done(w)
    /\ UNCHANGED <<location, session>>

\* A field the PATCH leaves out counts as the value read: it is not written.
UpdateTable(w) ==
    \E t \in Tables, status \in TableStatus, l \in Locations \cup {NoLocation} :
        /\ table[t].life = "live"
        /\ Begin(w, [Idle EXCEPT
                        !.op = "update_table", !.t = t, !.status = status, !.l = l,
                        !.tableStatus = table[t].status,
                        !.tableLoc = table[t].loc,
                        !.at = IF l \in {NoLocation, table[t].loc}
                                 THEN "commit" ELSE "location"])

UpdateTableLocation(w) ==
    /\ Doing(w, "update_table", "location")
    /\ location[req[w].l].life = "live"
    /\ Proceed(w, [req[w] EXCEPT !.at = "commit"])

\* Fault: the UPDATE writes every column as the handler has it.
UpdateTableWholeRow(w) ==
    /\ Doing(w, "update_table", "commit")
    /\ table' = [table EXCEPT ![req[w].t] =
           [@ EXCEPT !.life = "live", !.status = req[w].status, !.loc = req[w].l]]
    /\ Done(w)
    /\ UNCHANGED <<location, session>>

UpdateTableCommit(w) ==
    /\ Doing(w, "update_table", "commit")
    /\ table' = [table EXCEPT
           ![req[w].t].status = Written(req[w].tableStatus, req[w].status, @),
           ![req[w].t].loc = Written(req[w].tableLoc, req[w].l, @)]
    /\ Done(w)
    /\ UNCHANGED <<location, session>>

DeleteTable(w) ==
    \E t \in Tables :
        /\ table[t].life = "live"
        /\ Begin(w, [Idle EXCEPT !.op = "delete_table", !.at = "active", !.t = t,
                                 !.tableStatus = table[t].status])

\* Fault: the query for an open session is left out.
DeleteTableUnchecked(w) ==
    /\ Doing(w, "delete_table", "active")
    /\ Proceed(w, [req[w] EXCEPT !.at = "commit"])

DeleteTableActive(w) ==
    /\ Doing(w, "delete_table", "active")
    /\ OpenOn(req[w].t) = {}
    /\ Proceed(w, [req[w] EXCEPT !.at = "commit"])

DeleteTableCommit(w) ==
    /\ Doing(w, "delete_table", "commit")
    /\ table' = [table EXCEPT
           ![req[w].t].life = "deleted",
           ![req[w].t].openedBeside = openedMeanwhile[w],
           ![req[w].t].status = Written(req[w].tableStatus, "out_of_service", @)]
    /\ DoneDeleting(w, req[w].t)
    /\ UNCHANGED <<location, session>>

\* Nothing but the restaurant is read before the INSERT: one step.
CreateLocation(w) ==
    \E l \in Locations, services \in ServiceSets :
        /\ "create_location" \in Ops
        /\ req[w] = Idle
        /\ location[l].life = "absent"
        /\ location' = [location EXCEPT
               ![l] = [life |-> "live", services |-> services, openedBeside |-> {}]]
        /\ UNCHANGED <<table, session, req, meanwhile>>

UpdateLocation(w) ==
    \E l \in Locations, services \in ServiceSets :
        /\ location[l].life = "live"
        /\ Begin(w, [Idle EXCEPT !.op = "update_location", !.at = "commit",
                                 !.l = l, !.services = services,
                                 !.hadServices = location[l].services])

\* Each supports_ column is written if the request changes the value read.
UpdateLocationCommit(w) ==
    LET added == req[w].services \ req[w].hadServices
        removed == req[w].hadServices \ req[w].services IN
    /\ Doing(w, "update_location", "commit")
    /\ location' = [location EXCEPT
           ![req[w].l].services = (@ \cup added) \ removed]
    /\ Done(w)
    /\ UNCHANGED <<table, session>>

DeleteLocation(w) ==
    \E l \in Locations :
        /\ location[l].life = "live"
        /\ Begin(w, [Idle EXCEPT !.op = "delete_location", !.at = "active",
                                 !.l = l])

\* Fault: the query for an open session is left out.
DeleteLocationUnchecked(w) ==
    /\ Doing(w, "delete_location", "active")
    /\ Proceed(w, [req[w] EXCEPT !.at = "commit"])

DeleteLocationActive(w) ==
    /\ Doing(w, "delete_location", "active")
    /\ OpenAt(req[w].l) = {}
    /\ Proceed(w, [req[w] EXCEPT !.at = "commit"])

DeleteLocationCommit(w) ==
    /\ Doing(w, "delete_location", "commit")
    /\ location' = [location EXCEPT ![req[w].l].life = "deleted",
                                   ![req[w].l].openedBeside = openedMeanwhile[w]]
    /\ DoneDeleting(w, req[w].l)
    /\ UNCHANGED <<table, session>>

(***************************************************************************)
(* tools/seed.py, which a deployment runs while the previous backend is    *)
(* still serving: its rows are as in Init afterwards, whatever they were.  *)
(* Its SELECTs and its commit are one step here.  What it restores is not  *)
(* deleted any more, so that nobody has missed its deletion.               *)
(***************************************************************************)
Seed ==
    /\ "seed" \in Ops
    /\ location' = [l \in Locations |->
           IF l \in SeededLocations
             THEN [location[l] EXCEPT !.life = "live", !.services = SeededServices[l]]
             ELSE location[l]]
    /\ table' = [t \in Tables |->
           IF t \in SeededTables
             THEN [table[t] EXCEPT !.life = "live", !.status = "available",
                                   !.loc = SeedLocation]
             ELSE table[t]]
    /\ session' = [s \in Sessions |->
           [session[s] EXCEPT !.deletedBeside = @ \ (SeededTables \cup SeededLocations)]]
    /\ deletedMeanwhile' = [w \in Workers |->
           deletedMeanwhile[w] \ (SeededTables \cup SeededLocations)]
    /\ UNCHANGED <<req, openedMeanwhile>>

----------------------------------------------------------------------------

Opening(w) ==
    \/ CreateSession(w) \/ CreateSessionTable(w)
    \/ OpenTableSession(w) \/ OpenTableSessionLocation(w)
    \/ CreateSessionActive(w) \/ CreateSessionCommit(w)

Closing(w) ==
    \/ UpdateSession(w) \/ DeleteSession(w) \/ CloseTableSession(w)
    \/ CloseSessionTable(w) \/ CloseSessionCommit(w)

Registry(w) ==
    \/ CreateTable(w) \/ CreateTableCommit(w)
    \/ UpdateTable(w) \/ UpdateTableLocation(w) \/ UpdateTableCommit(w)
    \/ DeleteTable(w) \/ DeleteTableActive(w) \/ DeleteTableCommit(w)
    \/ CreateLocation(w)
    \/ UpdateLocation(w) \/ UpdateLocationCommit(w)
    \/ DeleteLocation(w) \/ DeleteLocationActive(w) \/ DeleteLocationCommit(w)

Next ==
    \/ \E w \in Workers : Opening(w) \/ Closing(w) \/ Registry(w) \/ Abort(w)
    \/ Seed

Spec == Init /\ [][Next]_vars

----------------------------------------------------------------------------
(* What holds however many requests are in progress *)

\* One of two sessions was opened while the request that opened the other was in
\* progress.
OpenedTogether(r, s) ==
    r \in session[s].openedBeside \/ s \in session[r].openedBeside

\* Two sessions are open on one table only if the requests that opened them
\* overlapped: only then does the check of create_session (service.py:500-504)
\* find nothing for both.
SeatedTwiceOnlyByOverlap ==
    \A t \in Tables : \A r, s \in OpenOn(t) : r # s => OpenedTogether(r, s)

\* A session is open on a deleted table only if the request that opened the one
\* and the one that deleted the other overlapped: each checks what the other
\* changes (service.py:495, 460).
OrphanedOnlyByOverlap ==
    \A t \in Tables : \A s \in OpenOn(t) : table[t].life = "deleted" =>
        t \in session[s].deletedBeside \/ s \in table[t].openedBeside

\* So it is with the deletion of its location (service.py:399, 474).
StrandedOnlyByOverlap ==
    \A l \in Locations : \A s \in OpenAt(l) : location[l].life = "deleted" =>
        l \in session[s].deletedBeside \/ s \in location[l].openedBeside

\* The sessions that are open on a table which is not marked as occupied.
Unmarked ==
    {s \in Sessions :
        /\ session[s].status = "open" /\ session[s].table \in Tables
        /\ table[session[s].table].status # "occupied"}

\* The status is what the request of w says: a PATCH of the table, or of a session
\* that had ended before (service.py:560 does not ask).
SaysSo(w) ==
    \/ Doing(w, "update_table", "commit")
    \/ Doing(w, "close_session", "commit") /\ req[w].sessionStatus # "open"

\* The request of w overlapped the opening of s: it closes another session of the
\* table or deletes the table, or it has not seen that the table was freed.
BehindTheBackOf(w, s) ==
    \/ /\ Doing(w, "close_session", "commit") \/ Doing(w, "delete_table", "commit")
       /\ s \in openedMeanwhile[w]
    \/ Doing(w, "close_session", "commit") /\ OpenedTogether(req[w].s, s)
    \/ /\ Doing(w, "create_session", "commit")
       /\ req[w].tableStatus # table[req[w].t].status

\* The table of an open session is marked as occupied from its opening on
\* (service.py:506), until somebody says otherwise or a request that overlapped
\* another frees it: no other close, opening or deletion gives it away.
FreedUnderPartyOnlyByOverlap ==
    [][\A s \in Unmarked' \ Unmarked :
          \/ Seed
          \/ \E w \in Workers : req'[w] # req[w] /\ (SaysSo(w) \/ BehindTheBackOf(w, s))]_vars

\* closed_at is set exactly when the session is closed or expired, whichever
\* of the three close routes, and however many of them at once, did it.
ClosedAtExact ==
    \A s \in Sessions :
        session[s].closedAt <=> session[s].status \in {"closed", "expired"}

\* A session that was closed or expired is never open again: a PATCH back to
\* "open" is ignored and no stale handler writes the status it read.
ClosedForGood ==
    [][\A s \in Sessions :
          session[s].status \in {"closed", "expired"}
              => session'[s].status \in {"closed", "expired"}]_vars

\* A soft-deleted table or location comes back through the seed tool only: a
\* handler that read the row before the deletion does not write deleted_at.
DeletedForGood ==
    [][\/ Seed
       \/ /\ \A t \in Tables :
               table[t].life = "deleted" => table'[t].life = "deleted"
          /\ \A l \in Locations :
               location[l].life = "deleted" => location'[l].life = "deleted"]_vars

(***************************************************************************)
(* The inductive invariant behind these properties.  Relies(w, r) is what  *)
(* a request r of worker w has established and nobody can undo: that its   *)
(* table was not deleted since it looked, nor a session opened there,      *)
(* unless w has missed it, and that a session it found ended stays ended.  *)
(***************************************************************************)
HasSeenTable(r) ==
    \/ r.op = "open_table_session"
    \/ r.op = "create_session" /\ r.at \in {"active", "commit"}

Relies(w, r) ==
    /\ r.t \in Tables /\ HasSeenTable(r) =>
           /\ table[r.t].life # "absent"
           /\ table[r.t].life = "deleted" => r.t \in deletedMeanwhile[w]
    /\ r.t \in Tables /\ r.op \in {"create_session", "delete_table"} /\ r.at = "commit"
           => OpenOn(r.t) \subseteq openedMeanwhile[w]
    /\ r.op = "close_session" =>
           /\ r.s \in Sessions
           /\ r.to \in {"closed", "expired"}
           /\ session[r.s].status # "absent"
           /\ session[r.s].table = r.t
           /\ r.sessionStatus # "open" => session[r.s].status # "open"
           /\ r.sessionStatus = "open" /\ r.t \in Tables =>
                  \A s \in OpenOn(r.t) \ {r.s} :
                      s \in openedMeanwhile[w] \/ OpenedTogether(r.s, s)

\* A table that somebody sits at exists.
TablesExist == \A t \in Tables : OpenOn(t) # {} => table[t].life # "absent"

FloorInv ==
    /\ TypeOK
    /\ SeatedTwiceOnlyByOverlap
    /\ OrphanedOnlyByOverlap
    /\ ClosedAtExact
    /\ TablesExist
    /\ \A w \in Workers : Relies(w, req[w])

(***************************************************************************)
(* The invariant behind StrandedOnlyByOverlap, on top of it: the same of   *)
(* locations.  If one that a request has found live is deleted, it has     *)
(* missed that, and so it has the sessions opened since it found none.     *)
(***************************************************************************)
LocationRelies(w) ==
    LET r == req[w] IN
    /\ r.op \in {"create_session", "open_table_session"} => r.l \in Locations
    /\ r.op = "create_session" =>
           /\ location[r.l].life # "absent"
           /\ location[r.l].life = "deleted" => r.l \in deletedMeanwhile[w]
    /\ r.op = "delete_location" /\ r.at = "commit" => OpenAt(r.l) \subseteq openedMeanwhile[w]

LocationsExist == \A l \in Locations : OpenAt(l) # {} => location[l].life # "absent"

LocationInv ==
    /\ FloorInv
    /\ StrandedOnlyByOverlap
    /\ LocationsExist
    /\ \A w \in Workers : LocationRelies(w)

----------------------------------------------------------------------------
(* What holds when requests are handled one at a time *)

\* The invariant behind these: nothing happens beside a lone request.
NothingMeanwhile ==
    /\ \A w \in Workers : openedMeanwhile[w] = {} /\ deletedMeanwhile[w] = {}
    /\ \A s \in Sessions : session[s].openedBeside = {} /\ session[s].deletedBeside = {}
    /\ \A t \in Tables : table[t].openedBeside = {}
    /\ \A l \in Locations : location[l].openedBeside = {}

\* At most one session is open on a table (TABLE_SESSION_EXISTS).
OneOpenSessionPerTable ==
    \A t \in Tables : \A r, s \in OpenOn(t) : r = s

\* An open session's table is not deleted (TABLE_HAS_OPEN_SESSION): if it
\* were, no route could close the session, for all of them look the table up.
OpenSessionHasTable ==
    \A t \in Tables : OpenOn(t) # {} => table[t].life = "live"

\* An open session's location is not deleted (LOCATION_HAS_OPEN_SESSIONS).
OpenSessionHasLocation ==
    \A l \in Locations : OpenAt(l) # {} => location[l].life = "live"

(***************************************************************************)
(* The floor as a host sees it (module Floor).  The mapping shows one of   *)
(* the open sessions of a table, whichever, as its party.                  *)
(***************************************************************************)
PartyOf(S) == IF S = {} THEN NoSession ELSE CHOOSE s \in S : TRUE

party == [t \in Tables |-> PartyOf(OpenOn(t))]

retired == {t \in Tables : table[t].life = "deleted"}

been == {s \in Sessions : session[s].status # "absent"}

F == INSTANCE Floor WITH party <- party, retired <- retired, been <- been

\* With one worker the handlers implement the floor.
ImplementsFloor == F!Spec

=============================================================================
