------------------------ MODULE TableSessions_proofs ------------------------
(***************************************************************************)
(* Theorems about TableSessions, for any number of workers, tables,        *)
(* locations and sessions, and any choice of Ops.                          *)
(***************************************************************************)
EXTENDS TableSessions, TLAPS

----------------------------------------------------------------------------
(* Types of rows and requests *)

\* A worker with nothing to do is a well-formed request state.
LEMMA IdleType == Idle \in Request
  BY DEF Idle, Request, RequestFields, Operation, TableStatus, SessionStatus, Service

\* The columns of well-formed rows.
LEMMA RowTypes ==
  ASSUME TypeOK
  PROVE  /\ \A l \in Locations : location[l].services \in SUBSET Service
         /\ \A t \in Tables :
              /\ table[t].status \in TableStatus
              /\ table[t].loc \in Locations \cup {NoLocation}
         /\ \A s \in Sessions :
              /\ session[s].status \in SessionStatus \cup {"absent"}
              /\ session[s].table \in Tables \cup {NoTable}
  BY DEF TypeOK, LocationRow, TableRow, SessionRow

\* The fields of a well-formed request.
LEMMA RequestTypes ==
  ASSUME TypeOK, NEW w \in Workers
  PROVE  /\ req[w] \in Request
         /\ req[w].s \in Sessions \cup {NoSession}
         /\ req[w].t \in Tables \cup {NoTable}
         /\ req[w].l \in Locations \cup {NoLocation}
         /\ req[w].services \in SUBSET Service
         /\ req[w].hadServices \in SUBSET Service
         /\ req[w].to \in SessionStatus
         /\ req[w].status \in TableStatus
         /\ req[w].at = "table" \/ req[w].op = "delete_table" => req[w].t \in Tables
         /\ req[w].op = "delete_location" => req[w].l \in Locations
  BY DEF TypeOK, Request, RequestFields

\* A handler that reads keeps the types.
LEMMA RequestStep ==
  ASSUME TypeOK, NEW w \in Workers, NEW r \in Request,
         req' = [req EXCEPT ![w] = r],
         UNCHANGED <<floorVars, meanwhile>>
  PROVE  TypeOK'
  BY DEF TypeOK, floorVars, meanwhile

\* A worker that is done is idle, and what it has done is only added to what the
\* other requests have missed.
LEMMA DoneIs ==
  ASSUME TypeOK, NEW w \in Workers,
         Done(w) \/ (\E s : DoneOpening(w, s)) \/ (\E x : DoneDeleting(w, x))
  PROVE  /\ req' = [req EXCEPT ![w] = Idle]
         /\ \A v \in Workers \ {w} :
               /\ req'[v] = req[v]
               /\ openedMeanwhile[v] \subseteq openedMeanwhile'[v]
               /\ deletedMeanwhile[v] \subseteq deletedMeanwhile'[v]
  BY DEF TypeOK, Done, DoneOpening, DoneDeleting, Noted

\* Those in progress have missed it.
LEMMA NotedBy ==
  ASSUME NEW w \in Workers, NEW x, NEW v \in Workers \ {w}, req[v].op # "none"
  PROVE  /\ DoneOpening(w, x) => x \in openedMeanwhile'[v]
         /\ DoneDeleting(w, x) => x \in deletedMeanwhile'[v]
  BY DEF DoneOpening, DoneDeleting, Noted, Idle

\* A commit of well-formed rows keeps the types.
LEMMA CommitStep ==
  ASSUME TypeOK, NEW w \in Workers,
         \/ Done(w)
         \/ \E s \in Sessions : DoneOpening(w, s)
         \/ \E x \in Tables \cup Locations : DoneDeleting(w, x),
         location' \in [Locations -> LocationRow],
         table' \in [Tables -> TableRow],
         session' \in [Sessions -> SessionRow]
  PROVE  TypeOK'
<1>1. /\ openedMeanwhile \in [Workers -> SUBSET Sessions]
      /\ deletedMeanwhile \in [Workers -> SUBSET (Tables \cup Locations)]
  BY DEF TypeOK
<1>2. openedMeanwhile' \in [Workers -> SUBSET Sessions]
  BY <1>1 DEF Done, DoneOpening, DoneDeleting, Noted
<1>3. deletedMeanwhile' \in [Workers -> SUBSET (Tables \cup Locations)]
  <2>1. CASE Done(w) \/ \E s \in Sessions : DoneOpening(w, s)
    BY <1>1, <2>1 DEF Done, DoneOpening
  <2>2. CASE \E x \in Tables \cup Locations : DoneDeleting(w, x)
    BY <1>1, <2>2 DEF DoneDeleting, Noted
  <2>3. QED
    BY <2>1, <2>2
<1>4. req' \in [Workers -> Request]
  BY IdleType, DoneIs DEF TypeOK
<1>5. QED
  BY <1>2, <1>3, <1>4 DEF TypeOK

\* The rows that an UPDATE of a session, and the seed tool, write are well formed.
LEMMA SessionUpdates ==
  ASSUME NEW row \in SessionRow
  PROVE  /\ \A x \in SessionStatus \cup {"absent"} :
               [row EXCEPT !.status = x, !.closedAt = TRUE] \in SessionRow
         /\ \A x \in SUBSET (Tables \cup Locations) :
               [row EXCEPT !.deletedBeside = x] \in SessionRow
  BY ZenonT(60) DEF SessionRow

LEMMA SeededTable ==
  ASSUME NEW row \in TableRow
  PROVE  [row EXCEPT !.life = "live", !.status = "available", !.loc = SeedLocation]
            \in TableRow
  BY FloorAssumption DEF TableRow, Life, TableStatus

\* A column holds the handler's value or the one it held.
LEMMA WrittenIn ==
  \A read, value, column : Written(read, value, column) \in {value, column}
  BY DEF Written

----------------------------------------------------------------------------
(* The first step of each operation *)

\* The first SELECTs of create_session keep the type.
LEMMA CreateSessionType ==
  ASSUME TypeOK, NEW w \in Workers, CreateSession(w) PROVE TypeOK'
<1>1. PICK t \in Tables \cup {NoTable}, l \in Locations :
        Begin(w, [Idle EXCEPT
                     !.op = "create_session", !.t = t, !.l = l,
                     !.at = IF t = NoTable THEN "commit" ELSE "table"])
  BY DEF CreateSession
<1>2. [Idle EXCEPT !.op = "create_session", !.t = t, !.l = l,
                   !.at = IF t = NoTable THEN "commit" ELSE "table"] \in Request
  <2>1. CASE t = NoTable
    BY <2>1, IdleType, ZenonT(120) DEF Request, RequestFields, Operation
  <2>2. CASE t # NoTable
    BY <2>2, IdleType, ZenonT(60) DEF Request, RequestFields, Operation
  <2>3. QED
    BY <2>1, <2>2
<1>3. QED
  BY <1>1, <1>2, RequestStep DEF Begin

\* So do those of open_table_session, which knows its location.
LEMMA OpenTableSessionType ==
  ASSUME TypeOK, NEW w \in Workers, OpenTableSession(w) PROVE TypeOK'
<1>1. PICK t \in Tables :
        Begin(w, [Idle EXCEPT
                     !.op = "open_table_session", !.at = "location",
                     !.t = t, !.l = table[t].loc,
                     !.tableStatus = table[t].status])
  BY DEF OpenTableSession
<1>2. [Idle EXCEPT !.op = "open_table_session", !.at = "location",
                   !.t = t, !.l = table[t].loc,
                   !.tableStatus = table[t].status] \in Request
  BY IdleType, RowTypes, ZenonT(60) DEF Request, RequestFields, Operation
<1>3. QED
  BY <1>1, <1>2, RequestStep DEF Begin

\* A close that has read its session looks up a table only if there is one.
LEMMA BeginCloseType ==
  ASSUME TypeOK, NEW w \in Workers, NEW s \in Sessions,
         NEW to \in SessionStatus,
         session[s].status # "absent", BeginClose(w, s, to)
  PROVE  TypeOK'
<1>1. [Idle EXCEPT
          !.op = "close_session", !.s = s, !.to = to,
          !.t = session[s].table, !.sessionStatus = session[s].status,
          !.at = IF session[s].table = NoTable THEN "commit" ELSE "table"]
        \in Request
  <2> DEFINE at == IF session[s].table = NoTable THEN "commit" ELSE "table"
  <2>1. at \in {"commit", "table"} /\ (at = "table" => session[s].table # NoTable)
    OBVIOUS
  <2>2. session[s].status \in SessionStatus /\ session[s].table \in Tables \cup {NoTable}
    BY RowTypes
  <2> HIDE DEF at
  <2>3. [Idle EXCEPT
           !.op = "close_session", !.s = s, !.to = to,
           !.t = session[s].table, !.sessionStatus = session[s].status,
           !.at = at] \in Request
    BY <2>1, <2>2, IdleType DEF Request, RequestFields, Operation
  <2>4. QED
    BY <2>3 DEF at
<1>2. QED
  BY <1>1, RequestStep DEF BeginClose, Begin

\* The three close routes begin that way.
LEMMA BeginClosingType ==
  ASSUME TypeOK, NEW w \in Workers,
         UpdateSession(w) \/ DeleteSession(w) \/ CloseTableSession(w)
  PROVE  TypeOK'
<1>1. PICK s \in Sessions, to \in SessionStatus :
        session[s].status # "absent" /\ BeginClose(w, s, to)
  BY DEF UpdateSession, DeleteSession, CloseTableSession, OpenOn, SessionStatus
<1>2. QED
  BY <1>1, BeginCloseType

\* create_table begins with a well-typed request.
LEMMA CreateTableType ==
  ASSUME TypeOK, NEW w \in Workers, CreateTable(w) PROVE TypeOK'
<1>1. PICK status \in TableStatus, l \in Locations \cup {NoLocation} :
        Begin(w, [Idle EXCEPT !.op = "create_table", !.at = "commit",
                              !.status = status, !.l = l])
  BY DEF CreateTable
<1>2. [Idle EXCEPT !.op = "create_table", !.at = "commit",
                   !.status = status, !.l = l] \in Request
  BY IdleType, ZenonT(60) DEF Request, RequestFields, Operation
<1>3. QED
  BY <1>1, <1>2, RequestStep DEF Begin

\* update_table keeps the status and location it read in its request.
LEMMA UpdateTableType ==
  ASSUME TypeOK, NEW w \in Workers, UpdateTable(w) PROVE TypeOK'
<1>1. PICK t \in Tables, status \in TableStatus, l \in Locations \cup {NoLocation} :
        Begin(w, [Idle EXCEPT
                     !.op = "update_table", !.t = t, !.status = status, !.l = l,
                     !.tableStatus = table[t].status,
                     !.tableLoc = table[t].loc,
                     !.at = IF l \in {NoLocation, table[t].loc}
                              THEN "commit" ELSE "location"])
  BY DEF UpdateTable
<1>2. [Idle EXCEPT !.op = "update_table", !.t = t, !.status = status, !.l = l,
                   !.tableStatus = table[t].status,
                   !.tableLoc = table[t].loc,
                   !.at = IF l \in {NoLocation, table[t].loc}
                            THEN "commit" ELSE "location"] \in Request
  <2> DEFINE at == IF l \in {NoLocation, table[t].loc}
                     THEN "commit" ELSE "location"
  <2>1. at \in {"commit", "location"}
    OBVIOUS
  <2> HIDE DEF at
  <2>2. [Idle EXCEPT !.op = "update_table", !.t = t, !.status = status, !.l = l,
                     !.tableStatus = table[t].status,
                     !.tableLoc = table[t].loc, !.at = at] \in Request
    BY <2>1, IdleType, RowTypes DEF Request, RequestFields, Operation
  <2>3. QED
    BY <2>2 DEF at
<1>3. QED
  BY <1>1, <1>2, RequestStep DEF Begin

\* delete_table begins with a well-typed request.
LEMMA DeleteTableType ==
  ASSUME TypeOK, NEW w \in Workers, DeleteTable(w) PROVE TypeOK'
<1>1. PICK t \in Tables :
        Begin(w, [Idle EXCEPT !.op = "delete_table", !.at = "active", !.t = t,
                              !.tableStatus = table[t].status])
  BY DEF DeleteTable
<1>2. [Idle EXCEPT !.op = "delete_table", !.at = "active", !.t = t,
                   !.tableStatus = table[t].status] \in Request
  <2>1. t # NoTable
    BY FloorAssumption
  <2>2. QED
    BY <2>1, IdleType, RowTypes, ZenonT(60) DEF Request, RequestFields, Operation
<1>3. QED
  BY <1>1, <1>2, RequestStep DEF Begin

\* update_location keeps the services it read in its request.
LEMMA UpdateLocationType ==
  ASSUME TypeOK, NEW w \in Workers, UpdateLocation(w) PROVE TypeOK'
<1>1. PICK l \in Locations, services \in ServiceSets :
        Begin(w, [Idle EXCEPT !.op = "update_location", !.at = "commit",
                              !.l = l, !.services = services,
                              !.hadServices = location[l].services])
  BY DEF UpdateLocation
<1>2. services \in SUBSET Service
  BY FloorAssumption
<1>3. [Idle EXCEPT !.op = "update_location", !.at = "commit",
                   !.l = l, !.services = services,
                   !.hadServices = location[l].services] \in Request
  BY <1>2, IdleType, RowTypes, ZenonT(60) DEF Request, RequestFields, Operation
<1>4. QED
  BY <1>1, <1>3, RequestStep DEF Begin

\* delete_location begins with a well-typed request.
LEMMA DeleteLocationType ==
  ASSUME TypeOK, NEW w \in Workers, DeleteLocation(w) PROVE TypeOK'
<1>1. PICK l \in Locations :
        Begin(w, [Idle EXCEPT !.op = "delete_location", !.at = "active", !.l = l])
  BY DEF DeleteLocation
<1>2. [Idle EXCEPT !.op = "delete_location", !.at = "active", !.l = l] \in Request
  BY FloorAssumption, IdleType, ZenonT(60) DEF Request, RequestFields, Operation
<1>3. QED
  BY <1>1, <1>2, RequestStep DEF Begin

----------------------------------------------------------------------------
(* The operations, step by step *)

\* The requests a handler goes on with after a SELECT are well formed.
LEMMA ProceedType ==
  ASSUME TypeOK, NEW w \in Workers
  PROVE  /\ [req[w] EXCEPT !.at = "active"] \in Request
         /\ [req[w] EXCEPT !.at = "commit"] \in Request
         /\ [req[w] EXCEPT !.op = "create_session", !.at = "active"] \in Request
         /\ \A x \in TableStatus :
              /\ [req[w] EXCEPT !.at = "active", !.tableStatus = x] \in Request
              /\ [req[w] EXCEPT !.at = "commit", !.tableStatus = x] \in Request
  BY RequestTypes, ZenonT(60) DEF Request, RequestFields, Operation

\* Every step of opening a session keeps the type.
LEMMA OpeningType ==
  ASSUME TypeOK, NEW w \in Workers, Opening(w) PROVE TypeOK'
<1>1. CASE CreateSessionTable(w)
  <2>1. table[req[w].t].status \in TableStatus
    BY <1>1, RequestTypes, RowTypes DEF CreateSessionTable, Doing
  <2>2. QED
    BY <1>1, <2>1, ProceedType, RequestStep DEF CreateSessionTable, Proceed
<1>2. CASE OpenTableSessionLocation(w)
  BY <1>2, ProceedType, RequestStep DEF OpenTableSessionLocation, Proceed
<1>3. CASE CreateSessionActive(w)
  BY <1>3, ProceedType, RequestStep DEF CreateSessionActive, Proceed
<1>4. CASE CreateSessionCommit(w)
  <2>1. session' \in [Sessions -> SessionRow]
    BY <1>4, RequestTypes
       DEF CreateSessionCommit, Opened, TypeOK, SessionRow, SessionStatus
  <2>2. table' \in [Tables -> TableRow]
    BY <1>4, WrittenIn DEF CreateSessionCommit, TypeOK, TableRow, TableStatus
  <2>3. QED
    BY <1>4, <2>1, <2>2, CommitStep DEF CreateSessionCommit, TypeOK
<1>5. QED
  BY <1>1, <1>2, <1>3, <1>4, CreateSessionType, OpenTableSessionType DEF Opening

\* Every step of closing one does.
LEMMA ClosingType ==
  ASSUME TypeOK, NEW w \in Workers, Closing(w) PROVE TypeOK'
<1>1. CASE CloseSessionTable(w)
  <2>1. table[req[w].t].status \in TableStatus
    BY <1>1, RequestTypes, RowTypes DEF CloseSessionTable, Doing
  <2>2. QED
    BY <1>1, <2>1, ProceedType, RequestStep DEF CloseSessionTable, Proceed
<1>2. CASE CloseSessionCommit(w)
  <2>1. session' \in [Sessions -> SessionRow]
    <3> DEFINE s == req[w].s
               x == Written(req[w].sessionStatus, req[w].to, session[s].status)
    <3>1. session' = [session EXCEPT ![s] =
              [session[s] EXCEPT !.status = x, !.closedAt = TRUE]]
      BY <1>2 DEF CloseSessionCommit, TypeOK
    <3>2. s \in Sessions => x \in SessionStatus \cup {"absent"}
      BY WrittenIn, RequestTypes, RowTypes
    <3> HIDE DEF s, x
    <3>3. s \in Sessions =>
            [session[s] EXCEPT !.status = x, !.closedAt = TRUE] \in SessionRow
      BY <3>2, SessionUpdates DEF TypeOK
    <3>4. QED
      BY <3>1, <3>3 DEF TypeOK
  <2>2. table' \in [Tables -> TableRow]
    BY <1>2, WrittenIn DEF CloseSessionCommit, TypeOK, TableRow, TableStatus
  <2>3. QED
    BY <1>2, <2>1, <2>2, CommitStep DEF CloseSessionCommit, TypeOK
<1>3. QED
  BY <1>1, <1>2, BeginClosingType DEF Closing

\* So does every step of the table and location routes.
LEMMA RegistryType ==
  ASSUME TypeOK, NEW w \in Workers, Registry(w) PROVE TypeOK'
<1>1. CASE UpdateTableLocation(w)
  BY <1>1, ProceedType, RequestStep DEF UpdateTableLocation, Proceed
<1>2. CASE DeleteTableActive(w)
  BY <1>2, ProceedType, RequestStep DEF DeleteTableActive, Proceed
<1>3. CASE DeleteLocationActive(w)
  BY <1>3, ProceedType, RequestStep DEF DeleteLocationActive, Proceed
<1>4. CASE CreateTableCommit(w)
  <2>1. table' \in [Tables -> TableRow]
    BY <1>4, RequestTypes DEF CreateTableCommit, TypeOK, TableRow, Life
  <2>2. QED
    BY <1>4, <2>1, CommitStep DEF CreateTableCommit, TypeOK
<1>5. CASE UpdateTableCommit(w)
  <2>1. table' \in [Tables -> TableRow]
    <3> DEFINE t == req[w].t
               x == Written(req[w].tableStatus, req[w].status, table[t].status)
               l == Written(req[w].tableLoc, req[w].l, table[t].loc)
    <3>1. table' = [table EXCEPT ![t] = [table[t] EXCEPT !.status = x, !.loc = l]]
      BY <1>5 DEF UpdateTableCommit, TypeOK
    <3>2. t \in Tables => x \in TableStatus /\ l \in Locations \cup {NoLocation}
      BY WrittenIn, RequestTypes, RowTypes
    <3> HIDE DEF t, x, l
    <3>3. t \in Tables => [table[t] EXCEPT !.status = x, !.loc = l] \in TableRow
      BY <3>2 DEF TypeOK, TableRow
    <3>4. QED
      BY <3>1, <3>3 DEF TypeOK
  <2>2. QED
    BY <1>5, <2>1, CommitStep DEF UpdateTableCommit, TypeOK
<1>6. CASE DeleteTableCommit(w)
  <2>1. table' \in [Tables -> TableRow]
    <3> DEFINE t == req[w].t
               x == Written(req[w].tableStatus, "out_of_service", table[t].status)
    <3>1. table' = [table EXCEPT ![t] =
              [table[t] EXCEPT !.life = "deleted", !.openedBeside = openedMeanwhile[w],
                                !.status = x]]
      BY <1>6 DEF DeleteTableCommit, TypeOK
    <3>2. t \in Tables => x \in TableStatus
      BY WrittenIn, RowTypes DEF TableStatus
    <3> HIDE DEF t, x
    <3>3. t \in Tables => [table[t] EXCEPT !.life = "deleted",
                                         !.openedBeside = openedMeanwhile[w],
                                         !.status = x] \in TableRow
      BY <3>2 DEF TypeOK, TableRow, Life
    <3>4. QED
      BY <3>1, <3>3 DEF TypeOK
  <2>2. req[w].t \in Tables
    BY <1>6, RequestTypes DEF DeleteTableCommit, Doing
  <2>3. QED
    BY <1>6, <2>1, <2>2, CommitStep DEF DeleteTableCommit, TypeOK
<1>7. CASE CreateLocation(w)
  BY <1>7, FloorAssumption DEF CreateLocation, meanwhile, TypeOK, LocationRow, Life
<1>8. CASE UpdateLocationCommit(w)
  <2>1. location' \in [Locations -> LocationRow]
    <3>1. \A l \in Locations :
            location'[l] \in {[location[l] EXCEPT !.services = x] :
                                x \in SUBSET Service} \cup {location[l]}
      BY <1>8, RequestTypes, RowTypes DEF UpdateLocationCommit, TypeOK
    <3>2. \A l \in Locations : location'[l] \in LocationRow
      BY <3>1 DEF TypeOK, LocationRow
    <3>3. QED
      BY <1>8, <3>2 DEF UpdateLocationCommit, TypeOK
  <2>2. QED
    BY <1>8, <2>1, CommitStep DEF UpdateLocationCommit, TypeOK
<1>9. CASE DeleteLocationCommit(w)
  <2>1. location' \in [Locations -> LocationRow]
    BY <1>9, ZenonT(60) DEF DeleteLocationCommit, TypeOK, LocationRow, Life
  <2>2. req[w].l \in Locations
    BY <1>9, RequestTypes DEF DeleteLocationCommit, Doing
  <2>3. QED
    BY <1>9, <2>1, <2>2, CommitStep DEF DeleteLocationCommit, TypeOK
<1>10. QED
  BY <1>1, <1>2, <1>3, <1>4, <1>5, <1>6, <1>7, <1>8, <1>9, CreateTableType,
     UpdateTableType, DeleteTableType, UpdateLocationType, DeleteLocationType
     DEF Registry

\* And the seed tool.
LEMMA SeedType == ASSUME TypeOK, Seed PROVE TypeOK'
<1>1. location' \in [Locations -> LocationRow]
  <2>1. \A l \in Locations :
          \/ location'[l] = location[l]
          \/ \E x \in SUBSET Service :
                location'[l] = [location[l] EXCEPT !.life = "live", !.services = x]
    BY FloorAssumption DEF Seed
  <2>2. \A l \in Locations : location'[l] \in LocationRow
    BY <2>1, ZenonT(60) DEF TypeOK, LocationRow, Life
  <2>3. QED
    BY <2>2 DEF Seed
<1>2. table' \in [Tables -> TableRow]
  <2>1. \A t \in Tables : table'[t] \in TableRow
    BY SeededTable DEF Seed, TypeOK
  <2>2. QED
    BY <2>1 DEF Seed
<1>3. session' \in [Sessions -> SessionRow]
  <2>1. \A s \in Sessions : session[s].deletedBeside \in SUBSET (Tables \cup Locations)
    BY DEF TypeOK, SessionRow
  <2>2. \A s \in Sessions : session'[s] \in SessionRow
    BY <2>1, SessionUpdates DEF Seed, TypeOK
  <2>3. QED
    BY <2>2 DEF Seed
<1>4. deletedMeanwhile' \in [Workers -> SUBSET (Tables \cup Locations)]
  BY DEF Seed, TypeOK
<1>5. QED
  BY <1>1, <1>2, <1>3, <1>4 DEF Seed, TypeOK

\* Of a session the seed tool changes only which deletions its request has missed.
LEMMA SeedSessions ==
  ASSUME TypeOK, Seed, NEW s \in Sessions
  PROVE  /\ session'[s].status = session[s].status
         /\ session'[s].table = session[s].table
         /\ session'[s].loc = session[s].loc
         /\ session'[s].closedAt = session[s].closedAt
         /\ session'[s].openedBeside = session[s].openedBeside
         /\ session'[s].deletedBeside =
               session[s].deletedBeside \ (SeededTables \cup SeededLocations)
<1> DEFINE row == session[s]
           x == session[s].deletedBeside \ (SeededTables \cup SeededLocations)
<1>1. session'[s] = [row EXCEPT !.deletedBeside = x]
  BY DEF Seed
<1>2. row \in SessionRow
  BY DEF TypeOK
<1> HIDE DEF x
<1>3. /\ session'[s].status = row.status /\ session'[s].table = row.table
      /\ session'[s].loc = row.loc /\ session'[s].closedAt = row.closedAt
      /\ session'[s].openedBeside = row.openedBeside
      /\ session'[s].deletedBeside = x
  BY <1>1, <1>2 DEF SessionRow
<1>4. QED
  BY <1>3 DEF x

----------------------------------------------------------------------------

\* The seeded database has the type.
LEMMA InitType == Init => TypeOK
<1> SUFFICES ASSUME Init PROVE TypeOK
  OBVIOUS
<1>1. location \in [Locations -> LocationRow]
  BY FloorAssumption DEF Init, LocationRow, Life
<1>2. table \in [Tables -> TableRow]
  BY FloorAssumption DEF Init, TableRow, Life, TableStatus
<1>3. session \in [Sessions -> SessionRow]
  BY DEF Init, NoSessionRow, SessionRow
<1>4. req \in [Workers -> Request]
  BY IdleType DEF Init
<1>5. QED
  BY <1>1, <1>2, <1>3, <1>4 DEF Init, TypeOK

\* The type invariant is inductive.
LEMMA TypeStep == TypeOK /\ [Next]_vars => TypeOK'
<1> SUFFICES ASSUME TypeOK, [Next]_vars PROVE TypeOK'
  OBVIOUS
<1>1. ASSUME NEW w \in Workers, Opening(w) PROVE TypeOK'
  BY <1>1, OpeningType
<1>2. ASSUME NEW w \in Workers, Closing(w) PROVE TypeOK'
  BY <1>2, ClosingType
<1>3. ASSUME NEW w \in Workers, Registry(w) PROVE TypeOK'
  BY <1>3, RegistryType
<1>4. ASSUME NEW w \in Workers, Abort(w) PROVE TypeOK'
  BY <1>4, CommitStep DEF Abort, floorVars, TypeOK
<1>5. CASE Seed
  BY <1>5, SeedType
<1>6. CASE UNCHANGED vars
  BY <1>6 DEF TypeOK, vars, floorVars, meanwhile
<1>7. QED
  BY <1>1, <1>2, <1>3, <1>4, <1>5, <1>6 DEF Next

\* Every row and every request in progress is well formed.
THEOREM TypeCorrect == Spec => []TypeOK
  BY InitType, TypeStep, PTL DEF Spec

----------------------------------------------------------------------------
(* The invariant of the floor *)

\* The part of FloorInv that speaks of committed rows alone.
RowInv ==
    /\ SeatedTwiceOnlyByOverlap
    /\ OrphanedOnlyByOverlap
    /\ ClosedAtExact
    /\ TablesExist

\* The parts of the inductive invariant, by name.
LEMMA FloorInvParts ==
  FloorInv <=> TypeOK /\ RowInv /\ \A w \in Workers : Relies(w, req[w])
  BY DEF FloorInv, RowInv

\* An idle worker relies on nothing.
LEMMA IdleRelies == \A w : Relies(w, Idle) /\ Relies(w, Idle)'
  BY DEF Relies, HasSeenTable, Idle

\* A step that leaves tables and sessions alone, and one worker's request idle or
\* with a justified reliance, keeps the invariant.
LEMMA ReadStep ==
  ASSUME FloorInv, NEW w \in Workers, NEW r,
         \/ Relies(w, r) /\ UNCHANGED meanwhile
         \/ r = Idle,
         req' = [req EXCEPT ![w] = r], UNCHANGED <<table, session>>,
         \A v \in Workers \ {w} :
            /\ openedMeanwhile[v] \subseteq openedMeanwhile'[v]
            /\ deletedMeanwhile[v] \subseteq deletedMeanwhile'[v]
  PROVE  RowInv' /\ \A v \in Workers : Relies(v, req[v])'
<1>1. RowInv'
  BY DEF FloorInv, RowInv, SeatedTwiceOnlyByOverlap, OrphanedOnlyByOverlap, OpenedTogether,
         ClosedAtExact, TablesExist, OpenOn
<1>2. \A v \in Workers : Relies(v, req[v]) /\ req'[v] = IF v = w THEN r ELSE req[v]
  BY DEF FloorInv, TypeOK
<1>3. ASSUME NEW v \in Workers, v # w PROVE Relies(v, req[v])'
  BY <1>2, <1>3 DEF Relies, HasSeenTable, OpenOn, OpenedTogether
<1>4. Relies(w, req[w])'
  <2>1. CASE r = Idle
    BY <1>2, <2>1, IdleRelies DEF Relies, HasSeenTable
  <2>2. CASE Relies(w, r) /\ UNCHANGED meanwhile
    BY <1>2, <2>2 DEF Relies, HasSeenTable, OpenOn, OpenedTogether, meanwhile
  <2>3. QED
    BY <2>1, <2>2
<1>5. QED
  BY <1>1, <1>3, <1>4

\* The requests that have just arrived, or read on.
LEMMA OpeningRelies ==
  ASSUME FloorInv, NEW w \in Workers,
         \/ CreateSession(w) \/ CreateSessionTable(w)
         \/ OpenTableSession(w) \/ OpenTableSessionLocation(w)
         \/ CreateSessionActive(w)
  PROVE  \E r : Relies(w, r) /\ req' = [req EXCEPT ![w] = r]
<1> USE DEF Begin, Proceed, Doing
<1>1. Idle.op = "none" /\ Idle.t = NoTable /\ Idle \in Request
  BY IdleType DEF Idle
<1>2. Relies(w, req[w]) /\ req[w] \in RequestFields
  BY DEF FloorInv, TypeOK, Request
<1>3. CASE CreateSession(w)
  BY <1>1, <1>3, FloorAssumption
     DEF CreateSession, Relies, HasSeenTable, Request, RequestFields
<1>4. CASE CreateSessionTable(w)
  BY <1>2, <1>4 DEF CreateSessionTable, Relies, HasSeenTable, RequestFields
<1>5. CASE OpenTableSession(w)
  BY <1>1, <1>5 DEF OpenTableSession, Relies, HasSeenTable, Request, RequestFields
<1>6. CASE OpenTableSessionLocation(w)
  BY <1>2, <1>6 DEF OpenTableSessionLocation, Relies, HasSeenTable, RequestFields
<1>7. CASE CreateSessionActive(w)
  BY <1>2, <1>7 DEF CreateSessionActive, Relies, HasSeenTable, RequestFields
<1>8. QED
  BY <1>3, <1>4, <1>5, <1>6, <1>7

\* The steps of closing that only read establish what the request relies on.
LEMMA ClosingRelies ==
  ASSUME FloorInv, NEW w \in Workers,
         \/ UpdateSession(w) \/ DeleteSession(w) \/ CloseTableSession(w)
         \/ CloseSessionTable(w)
  PROVE  \E r : Relies(w, r) /\ req' = [req EXCEPT ![w] = r]
<1>1. CASE UpdateSession(w) \/ DeleteSession(w) \/ CloseTableSession(w)
  <2>1. PICK s \in Sessions, to \in {"closed", "expired"} :
          session[s].status # "absent" /\ BeginClose(w, s, to)
    BY <1>1 DEF UpdateSession, DeleteSession, CloseTableSession, OpenOn,
                SessionStatus
  <2> DEFINE r == [Idle EXCEPT
          !.op = "close_session", !.s = s, !.to = to,
          !.t = session[s].table, !.sessionStatus = session[s].status,
          !.at = IF session[s].table = NoTable THEN "commit" ELSE "table"]
  <2>2. r.op = "close_session" /\ r.s = s /\ r.to = to /\ r.t = session[s].table
          /\ r.sessionStatus = session[s].status
    BY DEF Idle
  <2> HIDE DEF r
  <2>3. session[s].status = "open" /\ r.t \in Tables =>
          \A u \in OpenOn(r.t) \ {s} : OpenedTogether(s, u)
    BY <2>2 DEF FloorInv, SeatedTwiceOnlyByOverlap, OpenOn
  <2>4. Relies(w, r)
    BY <2>1, <2>2, <2>3 DEF Relies, HasSeenTable
  <2>5. req' = [req EXCEPT ![w] = r]
    BY <2>1 DEF BeginClose, Begin, r
  <2>6. QED
    BY <2>4, <2>5
<1>2. CASE CloseSessionTable(w)
  <2>1. Relies(w, req[w]) /\ req[w] \in RequestFields
    BY DEF FloorInv, TypeOK, Request
  <2>2. QED
    BY <1>2, <2>1
       DEF CloseSessionTable, Proceed, Doing, Relies, HasSeenTable, RequestFields
<1>3. QED
  BY <1>1, <1>2

\* So do those of the table and location routes.
LEMMA RegistryRelies ==
  ASSUME FloorInv, NEW w \in Workers,
         \/ CreateTable(w) \/ UpdateTable(w) \/ UpdateTableLocation(w)
         \/ DeleteTable(w) \/ DeleteTableActive(w)
         \/ UpdateLocation(w) \/ DeleteLocation(w) \/ DeleteLocationActive(w)
  PROVE  \E r : Relies(w, r) /\ req' = [req EXCEPT ![w] = r]
<1> USE DEF Begin, Proceed, Doing
<1>1. Idle \in RequestFields
  BY IdleType DEF Request
<1>2. Relies(w, req[w]) /\ req[w] \in RequestFields
  BY DEF FloorInv, TypeOK, Request
<1>3. CASE CreateTable(w)
  BY <1>1, <1>3 DEF CreateTable, Relies, HasSeenTable, RequestFields
<1>4. CASE UpdateTable(w)
  BY <1>1, <1>4, ZenonT(60) DEF UpdateTable, Relies, HasSeenTable, RequestFields
<1>5. CASE UpdateTableLocation(w)
  BY <1>2, <1>5 DEF UpdateTableLocation, Relies, HasSeenTable, RequestFields
<1>6. CASE DeleteTable(w)
  BY <1>1, <1>6 DEF DeleteTable, Relies, HasSeenTable, RequestFields
<1>7. CASE DeleteTableActive(w)
  BY <1>2, <1>7 DEF DeleteTableActive, Relies, HasSeenTable, RequestFields
<1>8. CASE UpdateLocation(w)
  BY <1>1, <1>8 DEF UpdateLocation, Relies, HasSeenTable, RequestFields
<1>9. CASE DeleteLocation(w)
  BY <1>1, <1>9 DEF DeleteLocation, Relies, HasSeenTable, RequestFields
<1>10. CASE DeleteLocationActive(w)
  BY <1>2, <1>10 DEF DeleteLocationActive, Relies, HasSeenTable, RequestFields
<1>11. QED
  BY <1>3, <1>4, <1>5, <1>6, <1>7, <1>8, <1>9, <1>10

\* The functions the commits update are defined on the ids.
LEMMA Domains ==
  ASSUME FloorInv
  PROVE  /\ DOMAIN session = Sessions /\ DOMAIN table = Tables
         /\ DOMAIN req = Workers
         /\ \A w \in Workers : Relies(w, req[w]) /\ req[w].t \in Tables \cup {NoTable}
         /\ RowInv
  BY RequestTypes, FloorInvParts DEF TypeOK

\* The commit of create_session preserves the invariant: the request has missed
\* whatever session is open on the table by then, and the deletion of the table.
LEMMA CreateSessionCommitInv ==
  ASSUME FloorInv, NEW w \in Workers, CreateSessionCommit(w)
  PROVE  RowInv' /\ \A v \in Workers : Relies(v, req[v])'
<1> DEFINE t == req[w].t
<1>1. PICK s \in Sessions :
        /\ session[s].status = "absent"
        /\ session' = [session EXCEPT ![s] = Opened(w)]
        /\ DoneOpening(w, s)
  BY DEF CreateSessionCommit
<1>2. /\ req' = [req EXCEPT ![w] = Idle]
      /\ req[w].op = "create_session" /\ req[w].at = "commit"
  BY <1>1 DEF CreateSessionCommit, DoneOpening, Doing
<1>3. /\ session'[s].status = "open" /\ session'[s].table = t
      /\ session'[s].closedAt = FALSE
      /\ session'[s].openedBeside = openedMeanwhile[w]
      /\ session'[s].deletedBeside = deletedMeanwhile[w]
      /\ \A r \in Sessions : r # s => session'[r] = session[r]
  BY <1>1, Domains DEF Opened
<1>4. \A u \in Tables : /\ table'[u].life = table[u].life
                       /\ table'[u].openedBeside = table[u].openedBeside
  <2>1. CASE t = NoTable
    BY <2>1 DEF CreateSessionCommit
  <2>2. CASE t # NoTable
    BY <2>2, Domains, FloorInvParts DEF CreateSessionCommit, TypeOK, TableRow
  <2>3. QED
    BY <2>1, <2>2
<1>5. Relies(w, req[w]) /\ RowInv
  BY Domains
<1>6. t \in Tables =>
        /\ \A r \in Sessions : session[r].status = "open" /\ session[r].table = t
                             => r \in openedMeanwhile[w]
        /\ table[t].life # "absent"
        /\ table[t].life = "deleted" => t \in deletedMeanwhile[w]
  BY <1>2, <1>5 DEF Relies, HasSeenTable, OpenOn
<1> HIDE DEF t
<1>7. RowInv'
  <2>1. SeatedTwiceOnlyByOverlap'
    <3> SUFFICES ASSUME NEW u \in Tables, NEW a \in Sessions, NEW b \in Sessions,
                        session'[a].status = "open", session'[a].table = u,
                        session'[b].status = "open", session'[b].table = u,
                        a # b
                 PROVE  OpenedTogether(a, b)'
      BY DEF SeatedTwiceOnlyByOverlap, OpenOn
    <3>1. CASE a = s
      BY <1>3, <1>6, <3>1 DEF OpenedTogether
    <3>2. CASE b = s
      BY <1>3, <1>6, <3>2 DEF OpenedTogether
    <3>3. CASE a # s /\ b # s
      BY <1>3, <1>5, <3>3 DEF RowInv, SeatedTwiceOnlyByOverlap, OpenOn, OpenedTogether
    <3>4. QED
      BY <3>1, <3>2, <3>3
  <2>2. OrphanedOnlyByOverlap'
    BY <1>3, <1>4, <1>5, <1>6 DEF RowInv, OrphanedOnlyByOverlap, OpenOn
  <2>3. ClosedAtExact'
    BY <1>3, <1>5 DEF RowInv, ClosedAtExact
  <2>4. TablesExist'
    <3>1. \A u \in Tables, a \in Sessions :
            session'[a].status = "open" /\ session'[a].table = u
              => table'[u].life # "absent"
      BY <1>3, <1>4, <1>5, <1>6 DEF RowInv, TablesExist, OpenOn
    <3>2. QED
      BY <3>1 DEF TablesExist, OpenOn
  <2>5. QED
    BY <2>1, <2>2, <2>3, <2>4 DEF RowInv
<1>8. ASSUME NEW v \in Workers PROVE Relies(v, req[v])'
  <2>1. CASE v = w
    BY <1>2, <2>1, IdleRelies, Domains DEF Relies, HasSeenTable, Idle
  <2>2. CASE v # w
    <3>1. /\ req'[v] = req[v] /\ Relies(v, req[v])
          /\ openedMeanwhile[v] \subseteq openedMeanwhile'[v]
          /\ deletedMeanwhile[v] \subseteq deletedMeanwhile'[v]
      BY <1>1, <2>2, Domains, DoneIs, FloorInvParts
    <3>2. req[v].op # "none" => s \in openedMeanwhile'[v]
      BY <1>1, <2>2, NotedBy
    <3>3. \A u : OpenOn(u)' \subseteq OpenOn(u) \cup {s}
      BY <1>3 DEF OpenOn
    <3>4. req[v].op = "close_session" => session'[req[v].s] = session[req[v].s]
      BY <1>1, <1>3, <3>1 DEF Relies
    <3>5. \A a, b \in Sessions : a # s /\ b # s =>
             (OpenedTogether(a, b) => OpenedTogether(a, b)')
      BY <1>3 DEF OpenedTogether
    <3>6. QED
      BY <1>1, <1>4, <3>1, <3>2, <3>3, <3>4, <3>5 DEF Relies, HasSeenTable, OpenOn
  <2>3. QED
    BY <2>1, <2>2
<1>9. QED
  BY <1>7, <1>8

\* The commit of a close preserves it: the session ends and stays ended.
LEMMA CloseSessionCommitInv ==
  ASSUME FloorInv, NEW w \in Workers, CloseSessionCommit(w)
  PROVE  RowInv' /\ \A v \in Workers : Relies(v, req[v])'
<1> DEFINE s == req[w].s
           x == Written(req[w].sessionStatus, req[w].to, session[s].status)
<1>1. /\ req[w].op = "close_session" /\ req' = [req EXCEPT ![w] = Idle]
      /\ Relies(w, req[w]) /\ RowInv
  BY Domains DEF CloseSessionCommit, Doing, Done
<1>2. /\ s \in Sessions /\ session[s].status # "absent"
      /\ req[w].to \in {"closed", "expired"}
      /\ req[w].sessionStatus # "open" => session[s].status # "open"
  BY <1>1 DEF Relies
<1>3. x \in {"closed", "expired"}
  BY <1>2, RowTypes DEF Written, FloorInv, SessionStatus
<1>4. session' = [session EXCEPT ![s] =
          [session[s] EXCEPT !.status = x, !.closedAt = TRUE]]
  BY <1>2, Domains DEF CloseSessionCommit
<1> HIDE DEF s, x
<1>5. /\ session'[s].status = x /\ session'[s].closedAt = TRUE
      /\ \A r \in Sessions : /\ r # s => session'[r] = session[r]
                            /\ session'[r].table = session[r].table
                            /\ session'[r].openedBeside = session[r].openedBeside
                            /\ session'[r].deletedBeside = session[r].deletedBeside
  BY <1>2, <1>4, FloorInvParts DEF TypeOK, SessionRow
<1>6. \A u \in Tables : /\ table'[u].life = table[u].life
                       /\ table'[u].openedBeside = table[u].openedBeside
  <2>1. CASE req[w].t = NoTable
    BY <2>1 DEF CloseSessionCommit
  <2>2. CASE req[w].t # NoTable
    BY <2>2, Domains, FloorInvParts DEF CloseSessionCommit, TypeOK, TableRow
  <2>3. QED
    BY <2>1, <2>2
<1>7. /\ \A u : OpenOn(u)' \subseteq OpenOn(u)
      /\ \A a, b \in Sessions : OpenedTogether(a, b)' <=> OpenedTogether(a, b)
  BY <1>3, <1>5 DEF OpenOn, OpenedTogether
<1>8. RowInv'
  <2>1. SeatedTwiceOnlyByOverlap' /\ OrphanedOnlyByOverlap' /\ TablesExist'
    <3>1. \A u : OpenOn(u) \subseteq Sessions
      BY DEF OpenOn
    <3>2. QED
      BY <1>1, <1>5, <1>6, <1>7, <3>1
         DEF RowInv, SeatedTwiceOnlyByOverlap, OrphanedOnlyByOverlap, TablesExist
  <2>2. ClosedAtExact'
    BY <1>1, <1>3, <1>5 DEF RowInv, ClosedAtExact
  <2>3. QED
    BY <2>1, <2>2 DEF RowInv
<1>9. ASSUME NEW v \in Workers PROVE Relies(v, req[v])'
  <2>1. CASE v = w
    BY <1>1, <2>1, Domains DEF Relies, HasSeenTable, Idle
  <2>2. CASE v # w
    <3>1. /\ req'[v] = req[v] /\ Relies(v, req[v])
          /\ openedMeanwhile'[v] = openedMeanwhile[v]
          /\ deletedMeanwhile'[v] = deletedMeanwhile[v]
      BY <1>1, <2>2, Domains, FloorInvParts DEF CloseSessionCommit, Done, TypeOK
    <3>2. req[v].op = "close_session" =>
            /\ session'[req[v].s].status # "absent"
            /\ session'[req[v].s].table = session[req[v].s].table
            /\ req[v].sessionStatus # "open" => session'[req[v].s].status # "open"
      BY <1>3, <1>5, <3>1 DEF Relies
    <3>3. \A u : OpenOn(u) \subseteq Sessions
      BY DEF OpenOn
    <3>4. QED
      BY <1>6, <1>7, <3>1, <3>2, <3>3 DEF Relies, HasSeenTable
  <2>3. QED
    BY <2>1, <2>2
<1>10. QED
  BY <1>8, <1>9

\* The commits that change no session, and tables at most in ways nobody
\* relies on: rows come to life, change status or location, or are deleted by
\* a worker that has missed every session open there.
LEMMA TableCommitInv ==
  ASSUME FloorInv, NEW w \in Workers,
         UNCHANGED session,
         Done(w) \/ (\E x : DoneDeleting(w, x)),
         \A t \in Tables :
            \/ /\ table'[t].life = table[t].life
               /\ table'[t].openedBeside = table[t].openedBeside
            \/ table'[t].life = "live"
            \/ /\ table'[t].life = "deleted" /\ OpenOn(t) \subseteq table'[t].openedBeside
               /\ DoneDeleting(w, t)
  PROVE  RowInv' /\ \A v \in Workers : Relies(v, req[v])'
<1>1. RowInv /\ \A t : OpenOn(t)' = OpenOn(t)
  BY Domains DEF OpenOn
<1>2. SeatedTwiceOnlyByOverlap' /\ ClosedAtExact'
  BY <1>1 DEF RowInv, SeatedTwiceOnlyByOverlap, OpenedTogether, ClosedAtExact
<1>3. OrphanedOnlyByOverlap'
  BY <1>1 DEF RowInv, OrphanedOnlyByOverlap
<1>4. TablesExist'
  BY <1>1 DEF RowInv, TablesExist
<1>5. ASSUME NEW v \in Workers PROVE Relies(v, req[v])'
  <2>1. CASE v = w
    BY <2>1, Domains, DoneIs, FloorInvParts DEF Relies, HasSeenTable, Idle
  <2>2. CASE v # w
    <3>1. /\ req'[v] = req[v] /\ Relies(v, req[v])
          /\ openedMeanwhile[v] \subseteq openedMeanwhile'[v]
          /\ deletedMeanwhile[v] \subseteq deletedMeanwhile'[v]
      BY <2>2, Domains, DoneIs, FloorInvParts
    <3>2. \A t \in Tables : HasSeenTable(req[v]) /\ DoneDeleting(w, t) =>
             t \in deletedMeanwhile'[v]
      BY <2>2, NotedBy DEF HasSeenTable
    <3>3. QED
      BY <1>1, <3>1, <3>2 DEF Relies, HasSeenTable, OpenedTogether
  <2>3. QED
    BY <2>1, <2>2
<1>6. QED
  BY <1>2, <1>3, <1>4, <1>5 DEF RowInv

\* The invariant is inductive.
LEMMA FloorInvStep == FloorInv /\ [Next]_vars => FloorInv'
<1> SUFFICES ASSUME FloorInv, [Next]_vars PROVE FloorInv'
  OBVIOUS
<1>1. ASSUME NEW w \in Workers, Opening(w)
      PROVE  RowInv' /\ \A v \in Workers : Relies(v, req[v])'
  <2>1. CASE CreateSessionCommit(w)
    BY <2>1, CreateSessionCommitInv
  <2>2. CASE ~CreateSessionCommit(w)
    <3>1. UNCHANGED <<table, session, meanwhile>>
      BY <1>1, <2>2
         DEF floorVars, Opening, CreateSession, CreateSessionTable, OpenTableSession,
             OpenTableSessionLocation, CreateSessionActive, Begin, Proceed
    <3>2. PICK r : Relies(w, r) /\ req' = [req EXCEPT ![w] = r]
      BY <1>1, <2>2, OpeningRelies DEF Opening
    <3>3. QED
      BY <3>1, <3>2, ReadStep DEF meanwhile
  <2>3. QED
    BY <2>1, <2>2
<1>2. ASSUME NEW w \in Workers, Closing(w)
      PROVE  RowInv' /\ \A v \in Workers : Relies(v, req[v])'
  <2>1. CASE CloseSessionCommit(w)
    BY <2>1, CloseSessionCommitInv
  <2>2. CASE ~CloseSessionCommit(w)
    <3>1. UNCHANGED <<table, session, meanwhile>>
      BY <1>2, <2>2
         DEF floorVars, Closing, UpdateSession, DeleteSession, CloseTableSession,
             CloseSessionTable, BeginClose, Begin, Proceed
    <3>2. PICK r : Relies(w, r) /\ req' = [req EXCEPT ![w] = r]
      BY <1>2, <2>2, ClosingRelies DEF Closing
    <3>3. QED
      BY <3>1, <3>2, ReadStep DEF meanwhile
  <2>3. QED
    BY <2>1, <2>2
<1>3. ASSUME NEW w \in Workers, Registry(w)
      PROVE  RowInv' /\ \A v \in Workers : Relies(v, req[v])'
  <2>1. CASE CreateTableCommit(w)
    <3>1. \A t \in Tables : table'[t].life = "live" \/ table'[t] = table[t]
      BY <2>1, Domains DEF CreateTableCommit
    <3>2. QED
      BY <2>1, <3>1, TableCommitInv DEF CreateTableCommit
  <2>2. CASE UpdateTableCommit(w)
    <3>1. \A t \in Tables : /\ table'[t].life = table[t].life
                           /\ table'[t].openedBeside = table[t].openedBeside
      BY <2>2, FloorInvParts DEF UpdateTableCommit, TypeOK, TableRow
    <3>2. QED
      BY <2>2, <3>1, TableCommitInv DEF UpdateTableCommit
  <2>3. CASE DeleteTableCommit(w)
    <3> DEFINE u == req[w].t
    <3>1. u \in Tables => OpenOn(u) \subseteq openedMeanwhile[w]
      BY <2>3, Domains DEF DeleteTableCommit, Doing, Relies
    <3>2. u \in Tables => /\ table'[u].life = "deleted"
                         /\ table'[u].openedBeside = openedMeanwhile[w]
      BY <2>3, FloorInvParts DEF DeleteTableCommit, TypeOK, TableRow
    <3>3. \A t \in Tables : t # u => table'[t] = table[t]
      BY <2>3, Domains DEF DeleteTableCommit
    <3>4. DoneDeleting(w, u) /\ UNCHANGED session
      BY <2>3 DEF DeleteTableCommit
    <3> HIDE DEF u
    <3>5. QED
      BY <3>1, <3>2, <3>3, <3>4, TableCommitInv
  <2>4. CASE CreateLocation(w)
    <3>1. Relies(w, req[w]) /\ req' = [req EXCEPT ![w] = req[w]]
      BY <2>4, Domains, FloorInvParts DEF CreateLocation, TypeOK
    <3>2. QED
      BY <2>4, <3>1, ReadStep DEF CreateLocation, meanwhile
  <2>5. CASE UpdateLocationCommit(w) \/ DeleteLocationCommit(w)
    <3>1. /\ Done(w) \/ (\E x : DoneDeleting(w, x))
          /\ UNCHANGED <<table, session>>
      BY <2>5 DEF UpdateLocationCommit, DeleteLocationCommit
    <3>2. QED
      BY <3>1, DoneIs, ReadStep, FloorInvParts
  <2>6. CASE \/ CreateTable(w) \/ UpdateTable(w) \/ UpdateTableLocation(w)
             \/ DeleteTable(w) \/ DeleteTableActive(w) \/ UpdateLocation(w)
             \/ DeleteLocation(w) \/ DeleteLocationActive(w)
    <3>1. UNCHANGED <<table, session, meanwhile>>
      BY <2>6
         DEF floorVars, CreateTable, UpdateTable, UpdateTableLocation, DeleteTable,
             DeleteTableActive, UpdateLocation, DeleteLocation,
             DeleteLocationActive, Begin, Proceed
    <3>2. PICK r : Relies(w, r) /\ req' = [req EXCEPT ![w] = r]
      BY <2>6, RegistryRelies
    <3>3. QED
      BY <3>1, <3>2, ReadStep DEF meanwhile
  <2>7. QED
    BY <1>3, <2>1, <2>2, <2>3, <2>4, <2>5, <2>6 DEF Registry
<1>4. ASSUME NEW w \in Workers, Abort(w)
      PROVE  RowInv' /\ \A v \in Workers : Relies(v, req[v])'
  <2>1. Done(w) /\ UNCHANGED <<table, session>>
    BY <1>4 DEF Abort, floorVars
  <2>2. QED
    BY <2>1, DoneIs, ReadStep, FloorInvParts
<1>5. ASSUME Seed
      PROVE  RowInv' /\ \A v \in Workers : Relies(v, req[v])'
  <2>1. UNCHANGED req /\ RowInv /\ TypeOK
    BY <1>5, Domains, FloorInvParts DEF Seed
  <2>2. \A t \in Tables : \/ table'[t].life = "live"
                          \/ table'[t] = table[t] /\ t \notin SeededTables \cup SeededLocations
    <3>1. ASSUME NEW t \in Tables
          PROVE  \/ table'[t].life = "live"
                 \/ table'[t] = table[t] /\ t \notin SeededTables \cup SeededLocations
      <4>1. CASE t \in SeededTables
        BY <1>5, <2>1, <4>1 DEF Seed, TypeOK, TableRow
      <4>2. CASE t \notin SeededTables
        BY <1>5, <4>2, FloorAssumption DEF Seed
      <4>3. QED
        BY <4>1, <4>2
    <3>2. QED
      BY <3>1
  <2>3. \A s \in Sessions :
           /\ session'[s].status = session[s].status
           /\ session'[s].table = session[s].table
           /\ session'[s].closedAt = session[s].closedAt
           /\ session'[s].openedBeside = session[s].openedBeside
           /\ session'[s].deletedBeside =
                 session[s].deletedBeside \ (SeededTables \cup SeededLocations)
    BY <1>5, <2>1, SeedSessions
  <2>4. /\ \A t : OpenOn(t)' = OpenOn(t) /\ OpenOn(t) \subseteq Sessions
        /\ \A r, s \in Sessions : OpenedTogether(r, s)' <=> OpenedTogether(r, s)
    BY <2>3 DEF OpenOn, OpenedTogether
  <2>5. SeatedTwiceOnlyByOverlap' /\ ClosedAtExact'
    BY <2>1, <2>3, <2>4 DEF RowInv, SeatedTwiceOnlyByOverlap, ClosedAtExact
  <2>6. OrphanedOnlyByOverlap' /\ TablesExist'
    BY <2>1, <2>2, <2>3, <2>4 DEF RowInv, OrphanedOnlyByOverlap, TablesExist
  <2>7. ASSUME NEW v \in Workers PROVE Relies(v, req[v])'
    <3>1. /\ openedMeanwhile'[v] = openedMeanwhile[v]
          /\ deletedMeanwhile'[v] =
                deletedMeanwhile[v] \ (SeededTables \cup SeededLocations)
      BY <1>5 DEF Seed
    <3>2. QED
      BY <2>1, <2>2, <2>3, <2>4, <3>1, Domains DEF Relies, HasSeenTable
  <2>8. QED
    BY <2>5, <2>6, <2>7 DEF RowInv
<1>6. ASSUME UNCHANGED vars
      PROVE  RowInv' /\ \A v \in Workers : Relies(v, req[v])'
  BY <1>6, Domains
     DEF vars, floorVars, meanwhile, RowInv, SeatedTwiceOnlyByOverlap,
         OrphanedOnlyByOverlap, OpenedTogether, ClosedAtExact, TablesExist, OpenOn,
         Relies, HasSeenTable
<1>7. RowInv' /\ \A v \in Workers : Relies(v, req[v])'
  BY <1>1, <1>2, <1>3, <1>4, <1>5, <1>6 DEF Next
<1>8. TypeOK'
  BY TypeStep DEF FloorInv
<1>9. QED
  BY <1>7, <1>8 DEF FloorInv, RowInv

\* The inductive invariant holds throughout.
THEOREM FloorCorrect == Spec => []FloorInv
<1>1. Init => FloorInv
  <2> SUFFICES ASSUME Init PROVE FloorInv
    OBVIOUS
  <2>1. TypeOK
    BY InitType
  <2>2. \A s \in Sessions : session[s].status = "absent" /\ session[s].closedAt = FALSE
    BY DEF Init, NoSessionRow
  <2>3. \A t \in Tables : table[t].life # "deleted"
    BY DEF Init
  <2>4. \A w \in Workers : Relies(w, req[w])
    BY IdleRelies DEF Init
  <2>5. QED
    BY <2>1, <2>2, <2>3, <2>4
       DEF FloorInv, SeatedTwiceOnlyByOverlap, OrphanedOnlyByOverlap,
           ClosedAtExact, TablesExist, OpenOn
<1>2. QED
  BY <1>1, FloorInvStep, PTL DEF Spec

\* Two sessions are open on one table only if their openings overlapped
\* (service.py:500).
THEOREM DoubleSeating == Spec => []SeatedTwiceOnlyByOverlap
<1>1. FloorInv => SeatedTwiceOnlyByOverlap
  BY DEF FloorInv
<1>2. QED
  BY <1>1, FloorCorrect, PTL

\* A session is open on a deleted table only if its opening and the deletion
\* overlapped (service.py:460, 495).
THEOREM Orphaning == Spec => []OrphanedOnlyByOverlap
<1>1. FloorInv => OrphanedOnlyByOverlap
  BY DEF FloorInv
<1>2. QED
  BY <1>1, FloorCorrect, PTL

\* closed_at tells exactly whether a session has ended.
THEOREM ClosedAtCorrect == Spec => []ClosedAtExact
<1>1. FloorInv => ClosedAtExact
  BY DEF FloorInv
<1>2. QED
  BY <1>1, FloorCorrect, PTL

----------------------------------------------------------------------------
(* Locations *)

\* A step of a worker changes nobody else's request, and takes nothing from what
\* others have missed.
LEMMA OwnRequest ==
  ASSUME TypeOK, NEW w \in Workers, Opening(w) \/ Closing(w) \/ Registry(w) \/ Abort(w)
  PROVE  \A u \in Workers : u # w =>
            /\ req'[u] = req[u]
            /\ openedMeanwhile[u] \subseteq openedMeanwhile'[u]
            /\ deletedMeanwhile[u] \subseteq deletedMeanwhile'[u]
<1>1. \/ (\E r : req' = [req EXCEPT ![w] = r]) /\ UNCHANGED meanwhile
      \/ UNCHANGED <<req, meanwhile>>
      \/ Done(w) \/ (\E s : DoneOpening(w, s)) \/ (\E x : DoneDeleting(w, x))
  <2>1. CASE Opening(w)
    BY <2>1 DEF Opening, CreateSession, CreateSessionTable, OpenTableSession,
                OpenTableSessionLocation, CreateSessionActive, CreateSessionCommit,
                Begin, Proceed
  <2>2. CASE Closing(w)
    BY <2>2 DEF Closing, UpdateSession, DeleteSession, CloseTableSession, BeginClose,
                CloseSessionTable, CloseSessionCommit, Begin, Proceed
  <2>3. CASE Registry(w)
    BY <2>3, ZenonT(60)
       DEF Registry, CreateTable, CreateTableCommit, UpdateTable, UpdateTableLocation,
           UpdateTableCommit, DeleteTable, DeleteTableActive, DeleteTableCommit,
           CreateLocation, UpdateLocation, UpdateLocationCommit, DeleteLocation,
           DeleteLocationActive, DeleteLocationCommit, Begin, Proceed
  <2>4. CASE Abort(w)
    BY <2>4 DEF Abort
  <2>5. QED
    BY <2>1, <2>2, <2>3, <2>4
<1>2. CASE Done(w) \/ (\E s : DoneOpening(w, s)) \/ (\E x : DoneDeleting(w, x))
  BY <1>2, DoneIs
<1>3. CASE \/ (\E r : req' = [req EXCEPT ![w] = r]) /\ UNCHANGED meanwhile
           \/ UNCHANGED <<req, meanwhile>>
  BY <1>3 DEF TypeOK, meanwhile
<1>4. QED
  BY <1>1, <1>2, <1>3

\* A step that opens no session and deletes no location, and after which the
\* worker is idle or its request knows enough of its location.
LEMMA LocationStep ==
  ASSUME LocationInv, FloorInv', NEW w \in Workers,
         \A u \in Workers : u # w =>
             /\ req'[u] = req[u]
             /\ openedMeanwhile[u] \subseteq openedMeanwhile'[u]
             /\ deletedMeanwhile[u] \subseteq deletedMeanwhile'[u],
         \A s \in Sessions : session'[s].status = "open" =>
             /\ session[s].status = "open" /\ session'[s].loc = session[s].loc
             /\ session'[s].deletedBeside = session[s].deletedBeside,
         \A l \in Locations :
             /\ location[l].life # "absent" => location'[l].life # "absent"
             /\ location'[l].life = "deleted" =>
                    location[l].life = "deleted"
                    /\ location'[l].openedBeside = location[l].openedBeside,
         \/ req'[w] = Idle
         \/ req'[w] = req[w] /\ UNCHANGED meanwhile
         \/ /\ UNCHANGED meanwhile
            /\ req'[w].op \in {"create_session", "open_table_session"} =>
                   req'[w].l \in Locations
            /\ req'[w].op = "create_session" =>
                   /\ location[req'[w].l].life # "absent"
                   /\ location[req'[w].l].life = "deleted" =>
                          req'[w].l \in deletedMeanwhile[w]
            /\ req'[w].op = "delete_location" /\ req'[w].at = "commit" =>
                   OpenAt(req'[w].l) \subseteq openedMeanwhile[w]
  PROVE  LocationInv'
<1>1. \A l : \A s \in OpenAt(l)' :
          s \in OpenAt(l) /\ session'[s].deletedBeside = session[s].deletedBeside
  BY DEF OpenAt
<1>2. StrandedOnlyByOverlap' /\ LocationsExist'
  BY <1>1 DEF LocationInv, StrandedOnlyByOverlap, LocationsExist
<1>3. LocationRelies(w)'
  <2>1. CASE req'[w] = Idle
    BY <2>1 DEF LocationRelies, Idle
  <2>2. CASE req'[w] # Idle
    BY <1>1, <2>2 DEF LocationInv, LocationRelies, meanwhile
  <2>3. QED
    BY <2>1, <2>2
<1>4. ASSUME NEW u \in Workers, u # w PROVE LocationRelies(u)'
  BY <1>1, <1>4 DEF LocationInv, LocationRelies
<1>5. QED
  BY <1>2, <1>3, <1>4 DEF LocationInv

\* A session is opened at a location that its worker has found live and not deleted since.
LEMMA LocationOpening ==
  ASSUME LocationInv, FloorInv', NEW w \in Workers,
         Opening(w)
  PROVE  LocationInv'
<1>1. /\ TypeOK /\ LocationRelies(w) /\ req[w] \in RequestFields
      /\ req \in [Workers -> Request]
      /\ \A u \in Workers : u # w =>
             /\ req'[u] = req[u]
             /\ openedMeanwhile[u] \subseteq openedMeanwhile'[u]
             /\ deletedMeanwhile[u] \subseteq deletedMeanwhile'[u]
  BY OwnRequest DEF LocationInv, FloorInv, TypeOK, Request
<1>2. UNCHANGED location
  BY DEF Opening, CreateSession, CreateSessionTable, OpenTableSession,
         OpenTableSessionLocation, CreateSessionActive, CreateSessionCommit, Begin, Proceed,
         floorVars
<1>3. CASE CreateSession(w)
  <2>1. PICK t \in Tables \cup {NoTable}, l \in Locations :
          /\ location[l].life = "live"
          /\ req' = [req EXCEPT ![w] =
                [Idle EXCEPT !.op = "create_session", !.t = t, !.l = l,
                             !.at = IF t = NoTable THEN "commit" ELSE "table"]]
    BY <1>3 DEF CreateSession, Begin
  <2>2. req'[w].op = "create_session" /\ req'[w].l = l
    BY <1>1, <2>1 DEF Idle
  <2>3. UNCHANGED <<session, meanwhile>>
    BY <1>3 DEF CreateSession, Begin, floorVars
  <2>4. QED
    BY <1>1, <1>2, <2>1, <2>2, <2>3, LocationStep
<1>4. CASE CreateSessionTable(w) \/ CreateSessionActive(w)
  <2>1. /\ req'[w].op = "create_session" /\ req'[w].l = req[w].l
        /\ req[w].op = "create_session" /\ UNCHANGED <<session, meanwhile>>
    <3>1. CASE CreateSessionTable(w)
      BY <1>1, <3>1 DEF floorVars, CreateSessionTable, Proceed, Doing, RequestFields
    <3>2. CASE CreateSessionActive(w)
      BY <1>1, <3>2 DEF floorVars, CreateSessionActive, Proceed, Doing, RequestFields
    <3>3. QED
      BY <1>4, <3>1, <3>2
  <2>2. QED
    BY <1>1, <1>2, <2>1, LocationStep DEF LocationRelies
<1>5. CASE OpenTableSession(w)
  <2>1. PICK t \in Tables :
          /\ table[t].loc # NoLocation
          /\ req' = [req EXCEPT ![w] =
                [Idle EXCEPT !.op = "open_table_session", !.at = "location",
                             !.t = t, !.l = table[t].loc,
                             !.tableStatus = table[t].status]]
    BY <1>5 DEF OpenTableSession, Begin
  <2>2. req'[w].op = "open_table_session" /\ req'[w].l \in Locations
    BY <1>1, <2>1, RowTypes DEF Idle
  <2>3. UNCHANGED <<session, meanwhile>>
    BY <1>5 DEF OpenTableSession, Begin, floorVars
  <2>4. QED
    BY <1>1, <1>2, <2>2, <2>3, LocationStep
<1>6. CASE OpenTableSessionLocation(w)
  <2>1. /\ req'[w].op = "create_session" /\ req'[w].l = req[w].l
        /\ req[w].op = "open_table_session" /\ location[req[w].l].life = "live"
        /\ UNCHANGED <<session, meanwhile>>
    BY <1>1, <1>6 DEF floorVars, OpenTableSessionLocation, Proceed, Doing, RequestFields
  <2>2. QED
    BY <1>1, <1>2, <2>1, LocationStep DEF LocationRelies
<1>7. CASE CreateSessionCommit(w)
  <2>1. PICK s \in Sessions :
          session' = [session EXCEPT ![s] = Opened(w)] /\ DoneOpening(w, s)
    BY <1>7 DEF CreateSessionCommit
  <2>2. /\ session'[s].loc = req[w].l /\ session'[s].deletedBeside = deletedMeanwhile[w]
        /\ \A r \in Sessions : r # s => session'[r] = session[r]
    BY <1>1, <2>1 DEF TypeOK, Opened
  <2>3. /\ req[w].op = "create_session" /\ location[req[w].l].life # "absent"
        /\ location[req[w].l].life = "deleted" => req[w].l \in deletedMeanwhile[w]
    BY <1>1, <1>7 DEF CreateSessionCommit, Doing, LocationRelies
  <2>4. req'[w] = Idle
    BY <1>1, <2>1, DoneIs
  <2>5. StrandedOnlyByOverlap' /\ LocationsExist'
    <3> SUFFICES ASSUME NEW l \in Locations, NEW r \in Sessions,
                        session'[r].status = "open", session'[r].loc = l
                 PROVE  /\ location[l].life = "deleted" =>
                               \/ l \in session'[r].deletedBeside
                               \/ r \in location[l].openedBeside
                        /\ location[l].life # "absent"
      BY <1>2 DEF StrandedOnlyByOverlap, LocationsExist, OpenAt, LocationInv
    <3>1. CASE r = s
      BY <2>2, <2>3, <3>1
    <3>2. CASE r # s
      BY <2>2, <3>2
         DEF LocationInv, StrandedOnlyByOverlap, LocationsExist, OpenAt
    <3>3. QED
      BY <3>1, <3>2
  <2>6. LocationRelies(w)'
    BY <2>4 DEF LocationRelies, Idle
  <2>7. ASSUME NEW u \in Workers, u # w PROVE LocationRelies(u)'
    <3>1. \A l : OpenAt(l)' \subseteq OpenAt(l) \cup {s}
      BY <2>2 DEF OpenAt
    <3>2. req[u].op # "none" => s \in openedMeanwhile'[u]
      BY <2>1, <2>7, NotedBy
    <3>3. QED
      BY <1>1, <1>2, <2>7, <3>1, <3>2 DEF LocationInv, LocationRelies
  <2>8. QED
    BY <2>5, <2>6, <2>7 DEF LocationInv
<1>8. QED
  BY <1>3, <1>4, <1>5, <1>6, <1>7 DEF Opening

\* Closing opens nothing, and does not touch the locations.
LEMMA LocationClosing ==
  ASSUME LocationInv, FloorInv', NEW w \in Workers,
         Closing(w)
  PROVE  LocationInv'
<1>1. /\ TypeOK /\ Relies(w, req[w]) /\ req[w] \in RequestFields
      /\ req \in [Workers -> Request]
      /\ \A u \in Workers : u # w =>
             /\ req'[u] = req[u]
             /\ openedMeanwhile[u] \subseteq openedMeanwhile'[u]
             /\ deletedMeanwhile[u] \subseteq deletedMeanwhile'[u]
  BY OwnRequest DEF LocationInv, FloorInv, TypeOK, Request
<1>2. UNCHANGED location
  BY DEF Closing, UpdateSession, DeleteSession, CloseTableSession, BeginClose,
         CloseSessionTable, CloseSessionCommit, Begin, Proceed, floorVars
<1>3. CASE CloseSessionCommit(w)
  <2> DEFINE s == req[w].s
             x == Written(req[w].sessionStatus, req[w].to, session[s].status)
  <2>1. /\ req'[w] = Idle /\ s \in Sessions /\ session[s] \in SessionRow
        /\ req[w].to \in {"closed", "expired"}
        /\ req[w].sessionStatus # "open" => session[s].status # "open"
    BY <1>1, <1>3 DEF CloseSessionCommit, Doing, Done, Relies, TypeOK
  <2>2. x # "open"
    BY <2>1 DEF Written
  <2>3. session' = [session EXCEPT ![s] =
            [session[s] EXCEPT !.status = x, !.closedAt = TRUE]]
    BY <1>1, <1>3, <2>1 DEF CloseSessionCommit, TypeOK
  <2> HIDE DEF s, x
  <2>4. /\ session'[s].status = x
        /\ \A r \in Sessions : r # s => session'[r] = session[r]
    BY <1>1, <2>1, <2>3 DEF TypeOK, SessionRow
  <2>5. QED
    BY <1>1, <1>2, <2>1, <2>2, <2>4, LocationStep DEF Idle
<1>4. CASE \/ UpdateSession(w) \/ DeleteSession(w) \/ CloseTableSession(w)
           \/ CloseSessionTable(w)
  <2>1. UNCHANGED <<session, meanwhile>>
    BY <1>4 DEF UpdateSession, DeleteSession, CloseTableSession, BeginClose,
                CloseSessionTable, Begin, Proceed, floorVars
  <2>2. req'[w].op = "close_session"
    <3>1. CASE CloseSessionTable(w)
      BY <1>1, <3>1 DEF CloseSessionTable, Proceed, Doing, RequestFields
    <3>2. CASE UpdateSession(w) \/ DeleteSession(w) \/ CloseTableSession(w)
      <4>1. PICK s, to, at : req' = [req EXCEPT ![w] =
               [Idle EXCEPT
                  !.op = "close_session", !.s = s, !.to = to,
                  !.t = session[s].table, !.sessionStatus = session[s].status,
                  !.at = at]]
        BY <3>2, ZenonT(60) DEF UpdateSession, DeleteSession, CloseTableSession, BeginClose, Begin
      <4>2. QED
        BY <1>1, <4>1 DEF Idle
    <3>3. QED
      BY <1>4, <3>1, <3>2
  <2>3. QED
    BY <1>1, <1>2, <2>1, <2>2, LocationStep
<1>5. QED
  BY <1>3, <1>4 DEF Closing

\* A location is deleted only by a request that has missed every session open there.
LEMMA LocationRegistry ==
  ASSUME LocationInv, FloorInv', NEW w \in Workers,
         Registry(w)
  PROVE  LocationInv'
<1>1. /\ TypeOK /\ LocationRelies(w) /\ req[w] \in RequestFields
      /\ req \in [Workers -> Request] /\ location \in [Locations -> LocationRow]
      /\ \A u \in Workers : u # w =>
             /\ req'[u] = req[u]
             /\ openedMeanwhile[u] \subseteq openedMeanwhile'[u]
             /\ deletedMeanwhile[u] \subseteq deletedMeanwhile'[u]
  BY OwnRequest DEF LocationInv, FloorInv, TypeOK, Request
<1>2. UNCHANGED session
  BY DEF Registry, CreateTable, CreateTableCommit, UpdateTable, UpdateTableLocation,
         UpdateTableCommit, DeleteTable, DeleteTableActive, DeleteTableCommit,
         CreateLocation, UpdateLocation, UpdateLocationCommit, DeleteLocation,
         DeleteLocationActive, DeleteLocationCommit, Begin, Proceed, floorVars
<1>3. CASE CreateTableCommit(w) \/ UpdateTableCommit(w) \/ DeleteTableCommit(w)
  <2>1. req'[w] = Idle /\ UNCHANGED location
    BY <1>1, <1>3, DoneIs DEF CreateTableCommit, UpdateTableCommit, DeleteTableCommit
  <2>2. QED
    BY <1>1, <1>2, <2>1, LocationStep DEF Idle
<1>4. CASE UpdateTableLocation(w) \/ DeleteTableActive(w)
  <2>1. req'[w].op \in {"update_table", "delete_table"} /\ UNCHANGED <<location, meanwhile>>
    BY <1>1, <1>4 DEF floorVars, UpdateTableLocation, DeleteTableActive, Proceed, Doing, RequestFields
  <2>2. QED
    BY <1>1, <1>2, <2>1, LocationStep
<1>5. CASE CreateTable(w)
  <2>1. PICK status, l : req' = [req EXCEPT ![w] =
          [Idle EXCEPT !.op = "create_table", !.at = "commit", !.status = status, !.l = l]]
    BY <1>5 DEF CreateTable, Begin
  <2>2. req'[w].op = "create_table" /\ UNCHANGED <<location, meanwhile>>
    BY <1>1, <1>5, <2>1 DEF Idle, CreateTable, Begin, floorVars
  <2>3. QED
    BY <1>1, <1>2, <2>2, LocationStep
<1>6. CASE UpdateTable(w)
  <2>1. PICK t, status, l : req' = [req EXCEPT ![w] =
          [Idle EXCEPT !.op = "update_table", !.t = t, !.status = status, !.l = l,
                       !.tableStatus = table[t].status, !.tableLoc = table[t].loc,
                       !.at = IF l \in {NoLocation, table[t].loc}
                                THEN "commit" ELSE "location"]]
    BY <1>6 DEF UpdateTable, Begin
  <2>2. req'[w].op = "update_table" /\ UNCHANGED <<location, meanwhile>>
    BY <1>1, <1>6, <2>1 DEF Idle, UpdateTable, Begin, floorVars
  <2>3. QED
    BY <1>1, <1>2, <2>2, LocationStep
<1>7. CASE DeleteTable(w)
  <2>1. PICK t : req' = [req EXCEPT ![w] =
          [Idle EXCEPT !.op = "delete_table", !.at = "active", !.t = t,
                       !.tableStatus = table[t].status]]
    BY <1>7 DEF DeleteTable, Begin
  <2>2. req'[w].op = "delete_table" /\ UNCHANGED <<location, meanwhile>>
    BY <1>1, <1>7, <2>1 DEF Idle, DeleteTable, Begin, floorVars
  <2>3. QED
    BY <1>1, <1>2, <2>2, LocationStep
<1>8. CASE CreateLocation(w)
  <2>1. /\ req'[w] = req[w] /\ UNCHANGED meanwhile
        /\ \A l \in Locations :
              \/ location'[l] = location[l]
              \/ location[l].life = "absent" /\ location'[l].life = "live"
    BY <1>1, <1>8 DEF CreateLocation
  <2>2. QED
    BY <1>1, <1>2, <2>1, LocationStep
<1>9. CASE UpdateLocation(w)
  <2>1. PICK l, services : req' = [req EXCEPT ![w] =
          [Idle EXCEPT !.op = "update_location", !.at = "commit", !.l = l,
                       !.services = services, !.hadServices = location[l].services]]
    BY <1>9 DEF UpdateLocation, Begin
  <2>2. req'[w].op = "update_location" /\ UNCHANGED <<location, meanwhile>>
    BY <1>1, <1>9, <2>1 DEF Idle, UpdateLocation, Begin, floorVars
  <2>3. QED
    BY <1>1, <1>2, <2>2, LocationStep
<1>10. CASE UpdateLocationCommit(w)
  <2>1. \A l \in Locations :
          /\ location'[l].life = location[l].life
          /\ location'[l].openedBeside = location[l].openedBeside
    BY <1>1, <1>10 DEF UpdateLocationCommit, LocationRow
  <2>2. req'[w] = Idle
    BY <1>1, <1>10, DoneIs DEF UpdateLocationCommit
  <2>3. QED
    BY <1>1, <1>2, <2>1, <2>2, LocationStep DEF Idle
<1>11. CASE DeleteLocation(w)
  <2>1. PICK l : req' = [req EXCEPT ![w] =
          [Idle EXCEPT !.op = "delete_location", !.at = "active", !.l = l]]
    BY <1>11 DEF DeleteLocation, Begin
  <2>2. /\ req'[w].op = "delete_location" /\ req'[w].at = "active"
        /\ UNCHANGED <<location, meanwhile>>
    BY <1>1, <1>11, <2>1 DEF Idle, DeleteLocation, Begin, floorVars
  <2>3. QED
    BY <1>1, <1>2, <2>2, LocationStep
<1>12. CASE DeleteLocationActive(w)
  <2>1. /\ req'[w].op = "delete_location" /\ req'[w].l = req[w].l
        /\ OpenAt(req[w].l) = {} /\ UNCHANGED <<location, meanwhile>>
    BY <1>1, <1>12 DEF floorVars, DeleteLocationActive, Proceed, Doing, RequestFields
  <2>2. QED
    BY <1>1, <1>2, <2>1, LocationStep
<1>13. CASE DeleteLocationCommit(w)
  <2> DEFINE l == req[w].l
  <2>1. /\ OpenAt(l) \subseteq openedMeanwhile[w] /\ req'[w] = Idle
        /\ DoneDeleting(w, l)
    BY <1>1, <1>13, DoneIs DEF DeleteLocationCommit, Doing, LocationRelies
  <2>2. /\ \A k \in Locations : k # l => location'[k] = location[k]
        /\ l \in Locations => /\ location'[l].life = "deleted"
                              /\ location'[l].openedBeside = openedMeanwhile[w]
    BY <1>1, <1>13 DEF DeleteLocationCommit, LocationRow
  <2> HIDE DEF l
  <2>3. \A k : OpenAt(k)' = OpenAt(k)
    BY <1>2 DEF OpenAt
  <2>4. StrandedOnlyByOverlap' /\ LocationsExist'
    BY <1>2, <2>1, <2>2, <2>3
       DEF LocationInv, StrandedOnlyByOverlap, LocationsExist
  <2>5. LocationRelies(w)'
    BY <2>1 DEF LocationRelies, Idle
  <2>6. ASSUME NEW u \in Workers, u # w PROVE LocationRelies(u)'
    <3>1. req[u].op # "none" => l \in deletedMeanwhile'[u]
      BY <2>1, <2>6, NotedBy
    <3>2. QED
      BY <1>1, <1>2, <2>2, <2>3, <2>6, <3>1 DEF LocationInv, LocationRelies
  <2>7. QED
    BY <2>4, <2>5, <2>6 DEF LocationInv
<1>14. QED
  BY <1>3, <1>4, <1>5, <1>6, <1>7, <1>8, <1>9, <1>10, <1>11, <1>12, <1>13 DEF Registry

\* What requests rely on of a location, and what a deletion leaves behind, holds
\* throughout (service.py:399, 474).
THEOREM LocationsCorrect == Spec => []LocationInv
<1>1. Init /\ FloorInv => LocationInv
  <2> SUFFICES ASSUME Init, FloorInv PROVE LocationInv
    OBVIOUS
  <2>1. /\ \A l : OpenAt(l) = {}
        /\ \A l \in Locations : location[l].life # "deleted"
    BY DEF Init, NoSessionRow, OpenAt
  <2>2. \A w \in Workers : LocationRelies(w)
    BY DEF Init, LocationRelies, Idle
  <2>3. QED
    BY <2>1, <2>2 DEF LocationInv, StrandedOnlyByOverlap, LocationsExist
<1>2. LocationInv /\ FloorInv' /\ [Next]_vars => LocationInv'
  <2> SUFFICES ASSUME LocationInv, FloorInv', [Next]_vars PROVE LocationInv'
    OBVIOUS
  <2>1. ASSUME NEW w \in Workers, Abort(w) PROVE LocationInv'
    <3>1. req'[w] = Idle /\ UNCHANGED <<location, session>>
      BY <2>1 DEF Abort, Done, floorVars, LocationInv, FloorInv, TypeOK
    <3>2. \A u \in Workers : u # w =>
             /\ req'[u] = req[u]
             /\ openedMeanwhile[u] \subseteq openedMeanwhile'[u]
             /\ deletedMeanwhile[u] \subseteq deletedMeanwhile'[u]
      BY <2>1, OwnRequest DEF LocationInv, FloorInv
    <3>3. QED
      BY <3>1, <3>2, LocationStep
  <2>2. CASE Seed
    <3>1. UNCHANGED req /\ TypeOK
      BY <2>2 DEF Seed, LocationInv, FloorInv
    <3>2. \A l \in Locations :
             \/ location'[l].life = "live"
             \/ location'[l] = location[l] /\ l \notin SeededTables \cup SeededLocations
      <4>1. ASSUME NEW l \in Locations
            PROVE  \/ location'[l].life = "live"
                   \/ location'[l] = location[l] /\ l \notin SeededTables \cup SeededLocations
        <5>1. CASE l \in SeededLocations
          BY <2>2, <3>1, <5>1 DEF Seed, TypeOK, LocationRow
        <5>2. CASE l \notin SeededLocations
          BY <2>2, <5>2, FloorAssumption DEF Seed
        <5>3. QED
          BY <5>1, <5>2
      <4>2. QED
        BY <4>1
    <3>3. \A s \in Sessions :
             /\ session'[s].status = session[s].status /\ session'[s].loc = session[s].loc
             /\ session'[s].deletedBeside =
                   session[s].deletedBeside \ (SeededTables \cup SeededLocations)
      BY <2>2, <3>1, SeedSessions
    <3>4. \A l : OpenAt(l)' = OpenAt(l) /\ OpenAt(l) \subseteq Sessions
      BY <3>3 DEF OpenAt
    <3>5. StrandedOnlyByOverlap' /\ LocationsExist'
      BY <3>2, <3>3, <3>4 DEF LocationInv, StrandedOnlyByOverlap, LocationsExist
    <3>6. ASSUME NEW w \in Workers PROVE LocationRelies(w)'
      <4>1. /\ openedMeanwhile'[w] = openedMeanwhile[w]
            /\ deletedMeanwhile'[w] =
                  deletedMeanwhile[w] \ (SeededTables \cup SeededLocations)
        BY <2>2 DEF Seed
      <4>2. QED
        BY <3>1, <3>2, <3>4, <4>1 DEF LocationInv, LocationRelies
    <3>7. QED
      BY <3>5, <3>6 DEF LocationInv
  <2>3. CASE UNCHANGED vars
    BY <2>3 DEF vars, floorVars, meanwhile, LocationInv, StrandedOnlyByOverlap,
                LocationsExist, OpenAt, LocationRelies
  <2>4. QED
    BY <2>1, <2>2, <2>3, LocationOpening, LocationClosing, LocationRegistry DEF Next
<1>3. QED
  BY <1>1, <1>2, FloorCorrect, PTL DEF Spec

\* A session is open at a deleted location only if its opening and the deletion
\* overlapped.
THEOREM Stranding == Spec => []StrandedOnlyByOverlap
<1>1. LocationInv => StrandedOnlyByOverlap
  BY DEF LocationInv
<1>2. QED
  BY <1>1, LocationsCorrect, PTL

----------------------------------------------------------------------------
(* What a change of a table's status needs *)

\* The status of a table changes at these steps only.
LEMMA StatusChanges ==
  ASSUME [Next]_vars, table' # table
  PROVE  \/ Seed
         \/ \E w \in Workers :
               \/ CreateSessionCommit(w) \/ CloseSessionCommit(w) \/ CreateTableCommit(w)
               \/ UpdateTableCommit(w) \/ DeleteTableCommit(w)
  BY ZenonT(60)
     DEF Next, vars, floorVars, Opening, Closing, Registry, Abort, Begin, Proceed,
         CreateSession, CreateSessionTable, OpenTableSession,
         OpenTableSessionLocation, CreateSessionActive,
         UpdateSession, DeleteSession, CloseTableSession, CloseSessionTable,
         BeginClose, CreateTable, UpdateTable, UpdateTableLocation, DeleteTable,
         DeleteTableActive, CreateLocation, UpdateLocation, UpdateLocationCommit,
         DeleteLocation, DeleteLocationActive, DeleteLocationCommit

\* An open session is opened at its insertion, and its table never changes.
LEMMA SessionChanges ==
  ASSUME [Next]_vars, TypeOK, NEW s \in Sessions,
         session'[s].status # session[s].status \/ session'[s].table # session[s].table
  PROVE  \E w \in Workers : CreateSessionCommit(w) \/ CloseSessionCommit(w)
<1>1. ~Seed
  BY SeedSessions
<1>2. QED
  BY <1>1, ZenonT(60)
     DEF Next, vars, floorVars, Opening, Closing, Registry, Abort, Begin, Proceed,
         CreateSession, CreateSessionTable, OpenTableSession,
         OpenTableSessionLocation, CreateSessionActive,
         UpdateSession, DeleteSession, CloseTableSession, CloseSessionTable,
         BeginClose, CreateTable, CreateTableCommit, UpdateTable,
         UpdateTableLocation, UpdateTableCommit, DeleteTable,
         DeleteTableActive, DeleteTableCommit, CreateLocation,
         UpdateLocation, UpdateLocationCommit, DeleteLocation,
         DeleteLocationActive, DeleteLocationCommit

\* Opening a session gives away no table but one that was freed since it looked.
LEMMA OpeningFrees ==
  ASSUME FloorInv, NEW w \in Workers, CreateSessionCommit(w),
         NEW s \in Unmarked' \ Unmarked
  PROVE  req'[w] # req[w] /\ BehindTheBackOf(w, s)
<1>1. /\ req[w].op = "create_session" /\ req'[w] = Idle
      /\ req[w] \in RequestFields /\ table \in [Tables -> TableRow]
      /\ Doing(w, "create_session", "commit")
  BY FloorInvParts DEF CreateSessionCommit, DoneOpening, Doing, TypeOK, Request
<1>2. PICK r \in Sessions : session' = [session EXCEPT ![r] = Opened(w)]
  BY DEF CreateSessionCommit
<1>3. /\ session'[r].table = req[w].t
      /\ \A q \in Sessions : q # r => session'[q] = session[q]
  BY <1>2, Domains DEF Opened
<1> DEFINE t == session'[s].table
<1>4. /\ s \in Sessions /\ t \in Tables /\ session'[s].status = "open"
      /\ table'[t].status # "occupied"
  BY DEF Unmarked
<1>5. t = req[w].t
  <2> SUFFICES ASSUME t # req[w].t PROVE FALSE
    OBVIOUS
  <2>1. session'[s] = session[s]
    BY <1>3, <1>4
  <2>2. table'[t] = table[t]
    BY <1>1, <1>4 DEF CreateSessionCommit
  <2>3. QED
    BY <1>4, <2>1, <2>2 DEF Unmarked
<1>6. t # NoTable
  BY <1>4, FloorAssumption
<1>7. table'[t].status = Written(req[w].tableStatus, "occupied", table[t].status)
  BY <1>1, <1>4, <1>5, <1>6 DEF CreateSessionCommit, TableRow
<1>8. req[w].tableStatus = "occupied" /\ table[t].status # "occupied"
  BY <1>4, <1>7 DEF Written
<1>9. req[w] # Idle
  BY <1>1 DEF Idle
<1>10. QED
  BY <1>1, <1>5, <1>8, <1>9 DEF BehindTheBackOf

\* Closing a session frees the table under no other session, unless the closing
\* request was told to, or overlapped the opening of that one.
LEMMA ClosingFrees ==
  ASSUME FloorInv, NEW w \in Workers, CloseSessionCommit(w),
         NEW s \in Unmarked' \ Unmarked
  PROVE  req'[w] # req[w] /\ (SaysSo(w) \/ BehindTheBackOf(w, s))
<1>1. /\ req[w].op = "close_session" /\ req'[w] = Idle
      /\ session \in [Sessions -> SessionRow] /\ table \in [Tables -> TableRow]
      /\ Doing(w, "close_session", "commit") /\ Relies(w, req[w])
  BY FloorInvParts DEF CloseSessionCommit, Done, Doing, TypeOK
<1> DEFINE x == Written(req[w].sessionStatus, req[w].to, session[req[w].s].status)
<1>2. /\ req[w].s \in Sessions /\ req[w].to \in {"closed", "expired"}
      /\ req[w].sessionStatus # "open" => session[req[w].s].status # "open"
  BY <1>1 DEF Relies
<1>3. x # "open"
  BY <1>2 DEF Written
<1>4. session' = [session EXCEPT ![req[w].s] =
          [session[req[w].s] EXCEPT !.status = x, !.closedAt = TRUE]]
  BY <1>1, <1>2 DEF CloseSessionCommit
<1> HIDE DEF x
<1>5. /\ session'[req[w].s].status # "open"
      /\ \A q \in Sessions : q # req[w].s => session'[q] = session[q]
  BY <1>1, <1>2, <1>3, <1>4 DEF SessionRow
<1> DEFINE t == session'[s].table
<1>6. /\ s \in Sessions /\ t \in Tables /\ session'[s].status = "open"
      /\ table'[t].status # "occupied"
  BY DEF Unmarked
<1>7. s # req[w].s /\ session[s].status = "open" /\ session[s].table = t
  BY <1>5, <1>6
<1>8. table'[t].status # table[t].status
  BY <1>6, <1>7 DEF Unmarked
<1>9. t = req[w].t
  BY <1>1, <1>6, <1>8 DEF CloseSessionCommit
<1>10. s \in OpenOn(req[w].t) \ {req[w].s}
  BY <1>6, <1>7, <1>9 DEF OpenOn
<1>11. req[w].sessionStatus = "open" =>
          s \in openedMeanwhile[w] \/ OpenedTogether(req[w].s, s)
  BY <1>1, <1>6, <1>9, <1>10 DEF Relies
<1>12. req[w] # Idle
  BY <1>1 DEF Idle
<1>13. QED
  BY <1>1, <1>11, <1>12 DEF SaysSo, BehindTheBackOf

\* The table of an open session stays marked as occupied until somebody says
\* otherwise, or a request that overlapped another frees it (service.py:506, 566).
THEOREM FreedByOverlap == Spec => FreedUnderPartyOnlyByOverlap
<1>1. FloorInv /\ [Next]_vars =>
        [\A s \in Unmarked' \ Unmarked :
            \/ Seed
            \/ \E w \in Workers :
                  req'[w] # req[w] /\ (SaysSo(w) \/ BehindTheBackOf(w, s))]_vars
  <2> SUFFICES ASSUME FloorInv, [Next]_vars, NEW s \in Unmarked' \ Unmarked
               PROVE  \/ Seed
                      \/ \E w \in Workers :
                            req'[w] # req[w] /\ (SaysSo(w) \/ BehindTheBackOf(w, s))
    OBVIOUS
  <2> DEFINE t == session'[s].table
  <2>1. /\ s \in Sessions /\ t \in Tables /\ session'[s].status = "open"
        /\ table'[t].status # "occupied"
    BY DEF Unmarked
  <2>2. ASSUME UNCHANGED session
        PROVE  /\ s \in OpenOn(t) /\ table'[t].status # table[t].status
               /\ table[t].life # "absent"
    <3>1. session[s].status = "open" /\ session[s].table = t
      BY <2>1, <2>2
    <3>2. s \in OpenOn(t) /\ table'[t].status # table[t].status
      BY <2>1, <3>1 DEF Unmarked, OpenOn
    <3>3. QED
      BY <2>1, <3>2, Domains DEF RowInv, TablesExist
  <2>3. ASSUME NEW w \in Workers, CreateTableCommit(w) PROVE FALSE
    <3>1. table'[t] = table[t] \/ table[t].life = "absent"
      BY <2>1, <2>3, Domains DEF CreateTableCommit
    <3>2. QED
      BY <2>2, <2>3, <3>1 DEF CreateTableCommit
  <2>4. ASSUME NEW w \in Workers, UpdateTableCommit(w)
        PROVE  req'[w] # req[w] /\ SaysSo(w)
    BY <2>4, Domains DEF UpdateTableCommit, Done, Doing, SaysSo, Idle
  <2>5. ASSUME NEW w \in Workers, DeleteTableCommit(w)
        PROVE  req'[w] # req[w] /\ BehindTheBackOf(w, s)
    <3>1. s \in OpenOn(t) /\ t = req[w].t
      BY <2>1, <2>2, <2>5, Domains DEF DeleteTableCommit
    <3>2. s \in openedMeanwhile[w]
      BY <2>1, <2>5, <3>1, Domains DEF DeleteTableCommit, Doing, Relies
    <3>3. req'[w] # req[w]
      BY <2>5, Domains DEF DeleteTableCommit, DoneDeleting, Doing, Idle
    <3>4. QED
      BY <2>5, <3>2, <3>3 DEF DeleteTableCommit, BehindTheBackOf
  <2>6. CASE table' = table
    <3>1. session[s].status # "open" \/ session[s].table # t
      BY <2>1, <2>6 DEF Unmarked
    <3>2. \E w \in Workers : CreateSessionCommit(w) \/ CloseSessionCommit(w)
      BY <2>1, <3>1, SessionChanges, FloorInvParts
    <3>3. QED
      BY <3>2, OpeningFrees, ClosingFrees
  <2>7. QED
    BY <2>3, <2>4, <2>5, <2>6, StatusChanges, OpeningFrees, ClosingFrees
<1>2. QED
  BY <1>1, FloorCorrect, PTL DEF Spec, FreedUnderPartyOnlyByOverlap

----------------------------------------------------------------------------
(* One request at a time *)

\* A lone worker has nobody beside it.
LEMMA NothingMissed ==
  ASSUME \A v, w \in Workers : v = w, TypeOK, NothingMeanwhile, NEW w \in Workers,
         Done(w) \/ (\E s : DoneOpening(w, s)) \/ (\E x : DoneDeleting(w, x))
  PROVE  \A v \in Workers : openedMeanwhile'[v] = {} /\ deletedMeanwhile'[v] = {}
  BY DEF NothingMeanwhile, TypeOK, Done, DoneOpening, DoneDeleting, Noted

\* With a single worker nothing is ever opened or deleted beside a request.
THEOREM NobodyBeside ==
  ASSUME \A v, w \in Workers : v = w
  PROVE  Spec => []NothingMeanwhile
<1>1. Init => NothingMeanwhile
  BY DEF Init, NoSessionRow, NothingMeanwhile
<1>2. TypeOK /\ NothingMeanwhile /\ [Next]_vars => NothingMeanwhile'
  <2> SUFFICES ASSUME TypeOK, NothingMeanwhile, [Next]_vars PROVE NothingMeanwhile'
    OBVIOUS
  <2> DEFINE Sets ==
         \A v \in Workers : openedMeanwhile[v] = {} /\ deletedMeanwhile[v] = {}
  <2>0. /\ Sets
        /\ \A s \in Sessions : session[s].openedBeside = {} /\ session[s].deletedBeside = {}
        /\ \A t \in Tables : table[t].openedBeside = {}
        /\ \A l \in Locations : location[l].openedBeside = {}
    BY DEF NothingMeanwhile
  <2>1. ASSUME NEW w \in Workers, CreateSessionCommit(w) PROVE NothingMeanwhile'
    <3>1. Sets'
      BY <2>1, NothingMissed DEF CreateSessionCommit
    <3>2. \A s \in Sessions : session'[s] = session[s] \/ session'[s] = Opened(w)
      BY <2>1 DEF CreateSessionCommit, TypeOK
    <3>3. \A t \in Tables : table'[t].openedBeside = table[t].openedBeside
      BY <2>1 DEF CreateSessionCommit, TypeOK, TableRow
    <3>4. UNCHANGED location
      BY <2>1 DEF CreateSessionCommit
    <3>5. QED
      BY <2>0, <3>1, <3>2, <3>3, <3>4 DEF NothingMeanwhile, Opened
  <2>2. ASSUME NEW w \in Workers, CloseSessionCommit(w) PROVE NothingMeanwhile'
    <3>1. Sets'
      BY <2>2, NothingMissed DEF CloseSessionCommit
    <3>2. \A s \in Sessions : /\ session'[s].openedBeside = session[s].openedBeside
                             /\ session'[s].deletedBeside = session[s].deletedBeside
      <4> DEFINE r == req[w].s
                 x == Written(req[w].sessionStatus, req[w].to, session[r].status)
      <4>1. session' = [session EXCEPT ![r] =
                [session[r] EXCEPT !.status = x, !.closedAt = TRUE]]
        BY <2>2 DEF CloseSessionCommit, TypeOK
      <4> HIDE DEF r, x
      <4>2. QED
        BY <4>1 DEF TypeOK, SessionRow
    <3>3. \A t \in Tables : table'[t].openedBeside = table[t].openedBeside
      BY <2>2 DEF CloseSessionCommit, TypeOK, TableRow
    <3>4. UNCHANGED location
      BY <2>2 DEF CloseSessionCommit
    <3>5. QED
      BY <2>0, <3>1, <3>2, <3>3, <3>4 DEF NothingMeanwhile
  <2>3. ASSUME NEW w \in Workers,
               CreateTableCommit(w) \/ UpdateTableCommit(w) \/ DeleteTableCommit(w)
        PROVE  NothingMeanwhile'
    <3>1. Sets' /\ UNCHANGED <<session, location>>
      BY <2>3, NothingMissed DEF CreateTableCommit, UpdateTableCommit, DeleteTableCommit
    <3>2. \A t \in Tables : table'[t].openedBeside \in
             {table[t].openedBeside, openedMeanwhile[w], {}}
      <4>1. CASE CreateTableCommit(w)
        BY <4>1 DEF CreateTableCommit, TypeOK
      <4>2. CASE UpdateTableCommit(w)
        BY <4>2 DEF UpdateTableCommit, TypeOK, TableRow
      <4>3. CASE DeleteTableCommit(w)
        BY <4>3 DEF DeleteTableCommit, TypeOK, TableRow
      <4>4. QED
        BY <2>3, <4>1, <4>2, <4>3
    <3>3. QED
      BY <2>0, <3>1, <3>2 DEF NothingMeanwhile
  <2>4. ASSUME NEW w \in Workers,
               CreateLocation(w) \/ UpdateLocationCommit(w) \/ DeleteLocationCommit(w)
        PROVE  NothingMeanwhile'
    <3>1. Sets' /\ UNCHANGED <<session, table>>
      BY <2>0, <2>4, NothingMissed
         DEF CreateLocation, UpdateLocationCommit, DeleteLocationCommit, meanwhile
    <3>2. \A l \in Locations : location'[l].openedBeside \in
             {location[l].openedBeside, openedMeanwhile[w], {}}
      <4>1. CASE CreateLocation(w)
        BY <4>1 DEF CreateLocation, TypeOK
      <4>2. CASE UpdateLocationCommit(w)
        BY <4>2 DEF UpdateLocationCommit, TypeOK, LocationRow
      <4>3. CASE DeleteLocationCommit(w)
        BY <4>3 DEF DeleteLocationCommit, TypeOK, LocationRow
      <4>4. QED
        BY <2>4, <4>1, <4>2, <4>3
    <3>3. QED
      BY <2>0, <3>1, <3>2 DEF NothingMeanwhile
  <2>5. ASSUME NEW w \in Workers, Abort(w) PROVE NothingMeanwhile'
    BY <2>0, <2>5, NothingMissed DEF Abort, floorVars, NothingMeanwhile
  <2>6. CASE Seed
    <3>1. Sets'
      BY <2>0, <2>6 DEF Seed
    <3>2. \A s \in Sessions : session'[s].openedBeside = {} /\ session'[s].deletedBeside = {}
      BY <2>0, <2>6, SeedSessions
    <3>3. \A t \in Tables : table'[t].openedBeside = table[t].openedBeside
      BY <2>6 DEF Seed, TypeOK, TableRow
    <3>4. \A l \in Locations : location'[l].openedBeside = location[l].openedBeside
      BY <2>6 DEF Seed, TypeOK, LocationRow
    <3>5. QED
      BY <2>0, <3>1, <3>2, <3>3, <3>4 DEF NothingMeanwhile
  <2>7. CASE UNCHANGED <<floorVars, meanwhile>>
    BY <2>7 DEF floorVars, meanwhile, NothingMeanwhile
  <2>8. QED
    BY <2>1, <2>2, <2>3, <2>4, <2>5, <2>6, <2>7, ZenonT(60)
       DEF Next, vars, Opening, Closing, Registry, Begin, Proceed, CreateSession,
           CreateSessionTable, OpenTableSession, OpenTableSessionLocation,
           CreateSessionActive, UpdateSession, DeleteSession, CloseTableSession,
           CloseSessionTable, BeginClose, CreateTable, UpdateTable,
           UpdateTableLocation, DeleteTable, DeleteTableActive, UpdateLocation,
           DeleteLocation, DeleteLocationActive
<1>3. QED
  BY <1>1, <1>2, TypeCorrect, PTL DEF Spec

\* With a single worker, requests one after the other, a table has at most one
\* open session (service.py:500).
THEOREM SerialSeating ==
  ASSUME \A v, w \in Workers : v = w
  PROVE  Spec => []OneOpenSessionPerTable
<1>1. FloorInv /\ NothingMeanwhile => OneOpenSessionPerTable
  BY DEF FloorInv, NothingMeanwhile, SeatedTwiceOnlyByOverlap, OpenedTogether,
         OneOpenSessionPerTable, OpenOn
<1>2. QED
  BY <1>1, FloorCorrect, NobodyBeside, PTL

\* Nor is a session open on a table that does not exist (service.py:460, 495).
THEOREM SerialTables ==
  ASSUME \A v, w \in Workers : v = w
  PROVE  Spec => []OpenSessionHasTable
<1>1. FloorInv /\ NothingMeanwhile => OpenSessionHasTable
  <2> SUFFICES ASSUME FloorInv, NothingMeanwhile, NEW t \in Tables, NEW s \in OpenOn(t)
               PROVE  table[t].life = "live"
    BY DEF OpenSessionHasTable
  <2>1. table[t].life \in Life
    BY DEF FloorInv, TypeOK, TableRow
  <2>2. table[t].life # "absent"
    BY DEF FloorInv, TablesExist
  <2>3. table[t].life # "deleted"
    BY DEF FloorInv, OrphanedOnlyByOverlap, NothingMeanwhile, OpenOn
  <2>4. QED
    BY <2>1, <2>2, <2>3 DEF Life
<1>2. QED
  BY <1>1, FloorCorrect, NobodyBeside, PTL

\* So with a single worker no session is open at a location that does not exist.
THEOREM SerialLocations ==
  ASSUME \A v, w \in Workers : v = w
  PROVE  Spec => []OpenSessionHasLocation
<1>1. LocationInv /\ NothingMeanwhile => OpenSessionHasLocation
  <2> SUFFICES ASSUME LocationInv, NothingMeanwhile, NEW l \in Locations, NEW s \in OpenAt(l)
               PROVE  location[l].life = "live"
    BY DEF OpenSessionHasLocation
  <2>1. location[l].life \in Life
    BY DEF LocationInv, FloorInv, TypeOK, LocationRow
  <2>2. location[l].life # "absent"
    BY DEF LocationInv, LocationsExist
  <2>3. location[l].life # "deleted"
    BY DEF LocationInv, StrandedOnlyByOverlap, NothingMeanwhile, OpenAt
  <2>4. QED
    BY <2>1, <2>2, <2>3 DEF Life
<1>2. QED
  BY <1>1, LocationsCorrect, NobodyBeside, PTL

----------------------------------------------------------------------------
(* The floor *)

\* The party of a table, from the sessions open there.
LEMMA PartyIs ==
  ASSUME FloorInv, NothingMeanwhile, NEW t \in Tables
  PROVE  /\ OpenOn(t) = {} => party[t] = NoSession
         /\ \A s \in OpenOn(t) : party[t] = s /\ s # NoSession
<1>1. \A r, s \in OpenOn(t) : r = s
  BY DEF FloorInv, NothingMeanwhile, SeatedTwiceOnlyByOverlap, OpenedTogether, OpenOn
<1>2. OpenOn(t) = {} => party[t] = NoSession
  BY DEF party, PartyOf
<1>3. ASSUME NEW s \in OpenOn(t) PROVE party[t] = s /\ s # NoSession
  <2>1. party[t] = CHOOSE r \in OpenOn(t) : TRUE
    BY <1>3 DEF party, PartyOf
  <2>2. party[t] \in OpenOn(t)
    BY <1>3, <2>1
  <2>3. s # NoSession
    BY FloorAssumption DEF OpenOn
  <2>4. QED
    BY <1>1, <2>2, <2>3
<1>4. QED
  BY <1>2, <1>3

\* A commit that leaves the sessions alone is seen in the tables' lives only.
LEMMA SameParties ==
  ASSUME \A s \in Sessions : /\ session'[s].status = session[s].status
                             /\ session'[s].table = session[s].table
  PROVE  UNCHANGED <<party, been>>
<1>1. \A t \in Tables : OpenOn(t)' = OpenOn(t)
  BY DEF OpenOn
<1>2. QED
  BY <1>1 DEF party, been

\* With one worker the session that is opened finds its table free.
LEMMA FloorOpens ==
  ASSUME FloorInv, FloorInv', NothingMeanwhile, NEW w \in Workers,
         CreateSessionCommit(w)
  PROVE  \/ \E t \in Tables, s \in Sessions : F!Seat(t, s)
         \/ \E s \in Sessions : F!OrderAhead(s)
<1>0. PICK t \in Tables \cup {NoTable} : t = req[w].t
  BY Domains
<1>1. PICK s \in Sessions :
        /\ session[s].status = "absent"
        /\ session' = [session EXCEPT ![s] = Opened(w)]
  BY <1>0 DEF CreateSessionCommit
<1>2. /\ session'[s].status = "open" /\ session'[s].table = t
      /\ \A r \in Sessions : r # s => session'[r] = session[r]
      /\ Relies(w, req[w])
  BY <1>0, <1>1, Domains DEF Opened
<1>3. \A u \in Tables : table'[u].life = table[u].life
  <2>1. CASE t = NoTable
    BY <1>0, <2>1 DEF CreateSessionCommit
  <2>2. CASE t # NoTable
    BY <1>0, <2>2, Domains, FloorInvParts DEF CreateSessionCommit, TypeOK, TableRow
  <2>3. QED
    BY <2>1, <2>2
<1>4. s \notin been /\ been' = been \cup {s} /\ retired' = retired
  BY <1>1, <1>2, <1>3 DEF been, retired
<1>5. t \in Tables => OpenOn(t) = {} /\ table[t].life # "deleted"
  BY <1>0, <1>2 DEF CreateSessionCommit, Doing, Relies, HasSeenTable, NothingMeanwhile
<1>6. \A u \in Tables : u # t => OpenOn(u)' = OpenOn(u)
  BY <1>1, <1>2 DEF OpenOn
<1>7. CASE t = NoTable
  <2>1. party' = party
    BY <1>6, <1>7, FloorAssumption DEF party
  <2>2. F!OrderAhead(s)
    BY <1>4, <2>1 DEF F!OrderAhead
  <2>3. QED
    BY <2>2
<1>8. CASE t \in Tables
  <2>1. party[t] = NoSession /\ t \notin retired
    BY <1>5, <1>8, PartyIs DEF retired
  <2>2. s \in OpenOn(t)'
    BY <1>2 DEF OpenOn
  <2>3. party'[t] = s
    <3>1. \A r \in OpenOn(t)' : r = s
      BY <1>2, <1>5, <1>8 DEF OpenOn
    <3>2. PartyOf(OpenOn(t)') \in OpenOn(t)'
      BY <2>2 DEF PartyOf
    <3>3. party'[t] = PartyOf(OpenOn(t)')
      BY <1>8 DEF party
    <3>4. QED
      BY <3>1, <3>2, <3>3
  <2>4. party' = [party EXCEPT ![t] = s]
    BY <1>6, <2>3 DEF party
  <2>5. F!Seat(t, s)
    BY <1>4, <2>1, <2>4 DEF F!Seat
  <2>6. QED
    BY <1>8, <2>5
<1>9. QED
  BY <1>7, <1>8

\* A session that closes leaves its table free.
LEMMA FloorCloses ==
  ASSUME FloorInv, NothingMeanwhile, NEW w \in Workers,
         CloseSessionCommit(w)
  PROVE  (\E t \in Tables : F!Leave(t)) \/ UNCHANGED <<party, retired, been>>
<1> DEFINE s == req[w].s
           x == Written(req[w].sessionStatus, req[w].to, session[s].status)
<1>1. /\ s \in Sessions /\ session[s].status # "absent"
      /\ req[w].to \in {"closed", "expired"}
      /\ req[w].sessionStatus # "open" => session[s].status # "open"
      /\ TypeOK /\ session[s] \in SessionRow
  BY Domains DEF CloseSessionCommit, Doing, Relies, FloorInv, TypeOK
<1>2. x # "open" /\ x # "absent"
  BY <1>1 DEF Written
<1>3. session' = [session EXCEPT ![s] =
          [session[s] EXCEPT !.status = x, !.closedAt = TRUE]]
  BY <1>1, Domains DEF CloseSessionCommit
<1> HIDE DEF s, x
<1>4. /\ session'[s].status = x /\ session'[s].table = session[s].table
      /\ \A r \in Sessions : r # s => session'[r] = session[r]
  BY <1>1, <1>3 DEF TypeOK, SessionRow
<1>5. \A u \in Tables : table'[u].life = table[u].life
  <2>1. CASE req[w].t = NoTable
    BY <2>1 DEF CloseSessionCommit
  <2>2. CASE req[w].t # NoTable
    BY <2>2, Domains, FloorInvParts DEF CloseSessionCommit, TypeOK, TableRow
  <2>3. QED
    BY <2>1, <2>2
<1>6. been' = been /\ retired' = retired
  BY <1>1, <1>2, <1>4, <1>5 DEF been, retired
<1>7. \A u \in Tables : OpenOn(u)' = OpenOn(u) \ {s}
  BY <1>2, <1>4 DEF OpenOn
<1>8. CASE \A u \in Tables : s \notin OpenOn(u)
  <2>1. \A u \in Tables : OpenOn(u)' = OpenOn(u)
    BY <1>7, <1>8
  <2>2. QED
    BY <1>6, <2>1 DEF party
<1>9. ASSUME NEW t \in Tables, s \in OpenOn(t) PROVE F!Leave(t)
  <2>1. party[t] = s /\ s # NoSession
    BY <1>9, PartyIs
  <2>2. OpenOn(t)' = {}
    <3>1. \A r \in OpenOn(t) : r = s
      BY <2>1, PartyIs
    <3>2. QED
      BY <1>7, <3>1
  <2>3. \A u \in Tables : u # t => OpenOn(u)' = OpenOn(u)
    BY <1>7, <1>9 DEF OpenOn
  <2>4. party' = [party EXCEPT ![t] = NoSession]
    <3>1. PartyOf(OpenOn(t)') = NoSession
      BY <2>2 DEF PartyOf
    <3>2. QED
      BY <2>3, <3>1 DEF party
  <2>5. QED
    BY <1>6, <2>1, <2>4 DEF F!Leave
<1>10. QED
  BY <1>8, <1>9

\* A table is deleted while nobody sits there; no other request deletes one.
LEMMA FloorRetires ==
  ASSUME FloorInv, NothingMeanwhile, NEW w \in Workers, Registry(w)
  PROVE  (\E t \in Tables : F!Retire(t)) \/ UNCHANGED <<party, retired, been>>
<1>1. /\ table \in [Tables -> TableRow] /\ req[w] \in RequestFields /\ Relies(w, req[w])
  BY DEF FloorInv, TypeOK, Request
<1>2. UNCHANGED session
  BY DEF Registry, CreateTable, CreateTableCommit, UpdateTable, UpdateTableLocation,
         UpdateTableCommit, DeleteTable, DeleteTableActive, DeleteTableCommit,
         CreateLocation, UpdateLocation, UpdateLocationCommit, DeleteLocation,
         DeleteLocationActive, DeleteLocationCommit, Begin, Proceed, floorVars
<1>3. UNCHANGED <<party, been>>
  BY <1>2, SameParties
<1>4. CASE DeleteTableCommit(w)
  <2> DEFINE t == req[w].t
  <2>1. /\ \A u \in Tables \ {t} : table'[u] = table[u]
        /\ t \in Tables => table'[t].life = "deleted"
    BY <1>1, <1>4 DEF DeleteTableCommit, TableRow
  <2>2. t \in Tables => OpenOn(t) = {}
    BY <1>1, <1>4 DEF DeleteTableCommit, Doing, Relies, NothingMeanwhile
  <2> HIDE DEF t
  <2>3. CASE t \in Tables
    <3>1. party[t] = NoSession
      BY <2>2, <2>3, PartyIs
    <3>2. retired' = retired \cup {t}
      BY <2>1, <2>3 DEF retired
    <3>3. F!Retire(t)
      BY <1>3, <3>1, <3>2 DEF F!Retire
    <3>4. QED
      BY <2>3, <3>3
  <2>4. CASE t \notin Tables
    BY <1>3, <2>1, <2>4 DEF retired
  <2>5. QED
    BY <2>3, <2>4
<1>5. CASE CreateTableCommit(w) \/ UpdateTableCommit(w)
  <2>1. \A u \in Tables : table'[u].life = "deleted" <=> table[u].life = "deleted"
    BY <1>1, <1>5 DEF CreateTableCommit, UpdateTableCommit, TableRow
  <2>2. QED
    BY <1>3, <2>1 DEF retired
<1>6. CASE UNCHANGED table
  BY <1>3, <1>6 DEF retired
<1>7. QED
  BY <1>4, <1>5, <1>6
     DEF Registry, CreateTable, UpdateTable, UpdateTableLocation, DeleteTable,
         DeleteTableActive, CreateLocation, UpdateLocation, UpdateLocationCommit,
         DeleteLocation, DeleteLocationActive, DeleteLocationCommit, Begin, Proceed, floorVars

\* With a single worker the handlers implement the floor: one party a table,
\* seated once, and no table retired under it (service.py:460, 500).
THEOREM SerialFloor ==
  ASSUME \A v, w \in Workers : v = w
  PROVE  Spec => ImplementsFloor
<1>1. Init => F!Init
  <2> SUFFICES ASSUME Init PROVE F!Init
    OBVIOUS
  <2>1. \A t \in Tables : OpenOn(t) = {} /\ table[t].life # "deleted"
    BY DEF Init, OpenOn, NoSessionRow
  <2>2. party = [t \in Tables |-> NoSession]
    BY <2>1 DEF party, PartyOf
  <2>3. retired = {} /\ been = {}
    BY <2>1 DEF Init, retired, been, NoSessionRow
  <2>4. QED
    BY <2>2, <2>3 DEF F!Init
<1>2. FloorInv /\ FloorInv' /\ NothingMeanwhile /\ [Next]_vars => [F!Next]_<<party, retired, been>>
  <2> SUFFICES ASSUME FloorInv, FloorInv', NothingMeanwhile, [Next]_vars
               PROVE  F!Next \/ UNCHANGED <<party, retired, been>>
    OBVIOUS
  <2>1. ASSUME NEW w \in Workers, Opening(w)
        PROVE  F!Next \/ UNCHANGED <<party, retired, been>>
    <3>1. CASE CreateSessionCommit(w)
      BY <3>1, FloorOpens DEF F!Next
    <3>2. CASE UNCHANGED <<table, session>>
      BY <3>2, SameParties DEF retired
    <3>3. QED
      BY <2>1, <3>1, <3>2
         DEF Opening, CreateSession, CreateSessionTable, OpenTableSession,
             OpenTableSessionLocation, CreateSessionActive, Begin, Proceed, floorVars
  <2>2. ASSUME NEW w \in Workers, Closing(w)
        PROVE  F!Next \/ UNCHANGED <<party, retired, been>>
    <3>1. CASE CloseSessionCommit(w)
      BY <3>1, FloorCloses DEF F!Next
    <3>2. CASE UNCHANGED <<table, session>>
      BY <3>2, SameParties DEF retired
    <3>3. QED
      BY <2>2, <3>1, <3>2
         DEF Closing, UpdateSession, DeleteSession, CloseTableSession, BeginClose,
             CloseSessionTable, Begin, Proceed, floorVars
  <2>3. ASSUME NEW w \in Workers, Registry(w)
        PROVE  F!Next \/ UNCHANGED <<party, retired, been>>
    BY <2>3, FloorRetires DEF F!Next
  <2>4. CASE Seed
    <3>1. UNCHANGED <<party, been>>
      BY <2>4, SeedSessions, SameParties DEF FloorInv
    <3>2. retired' = retired \ SeededTables
      <4>1. \A t \in Tables :
               table'[t].life = IF t \in SeededTables THEN "live" ELSE table[t].life
        <5> SUFFICES ASSUME NEW t \in Tables
                     PROVE  table'[t].life =
                               IF t \in SeededTables THEN "live" ELSE table[t].life
          OBVIOUS
        <5>1. table[t] \in TableRow
          BY DEF FloorInv, TypeOK
        <5>2. CASE t \in SeededTables
          BY <2>4, <5>1, <5>2 DEF Seed, TableRow
        <5>3. CASE t \notin SeededTables
          BY <2>4, <5>3 DEF Seed
        <5>4. QED
          BY <5>2, <5>3
      <4>2. QED
        BY <4>1 DEF retired
    <3>3. F!Restore(SeededTables) /\ SeededTables \in SUBSET Tables
      BY <3>1, <3>2, FloorAssumption DEF F!Restore
    <3>4. QED
      BY <3>3 DEF F!Next
  <2>5. CASE (\E w \in Workers : Abort(w)) \/ UNCHANGED vars
    <3>1. UNCHANGED <<table, session>>
      BY <2>5 DEF Abort, vars, floorVars
    <3>2. QED
      BY <3>1, SameParties DEF retired
  <2>6. QED
    BY <2>1, <2>2, <2>3, <2>4, <2>5 DEF Next
<1>3. QED
  BY <1>1, <1>2, FloorCorrect, NobodyBeside, PTL DEF Spec, ImplementsFloor, F!Spec

----------------------------------------------------------------------------
(* What does not come back *)

\* A session that has ended never opens again.
THEOREM EndedStaysEnded == Spec => ClosedForGood
<1>1. FloorInv /\ [Next]_vars =>
        [\A s \in Sessions :
            session[s].status \in {"closed", "expired"}
              => session'[s].status \in {"closed", "expired"}]_vars
  <2> SUFFICES ASSUME FloorInv, [Next]_vars, NEW s \in Sessions,
                      session[s].status \in {"closed", "expired"}
               PROVE  session'[s].status \in {"closed", "expired"}
    OBVIOUS
  <2>1. CASE \E w \in Workers : CreateSessionCommit(w)
    BY <2>1, Domains DEF CreateSessionCommit
  <2>2. ASSUME NEW w \in Workers, CloseSessionCommit(w)
        PROVE  session'[s].status \in {"closed", "expired"}
    <3>1. req[w].to \in {"closed", "expired"}
      BY <2>2, Domains DEF CloseSessionCommit, Doing, Relies
    <3>2. session'[s].status \in {req[w].to, session[s].status}
      BY <2>2, WrittenIn, FloorInvParts DEF CloseSessionCommit, TypeOK, SessionRow
    <3>3. QED
      BY <3>1, <3>2
  <2>3. CASE session'[s].status = session[s].status
    BY <2>3
  <2>4. (\E w \in Workers : CreateSessionCommit(w) \/ CloseSessionCommit(w))
          \/ session'[s].status = session[s].status
    BY SessionChanges, FloorInvParts
  <2>5. QED
    BY <2>1, <2>2, <2>3, <2>4
<1>2. QED
  BY <1>1, FloorCorrect, PTL DEF Spec, ClosedForGood

\* Only the seed tool brings a deleted table or location back.
THEOREM DeletionLasts == Spec => DeletedForGood
<1>1. TypeOK /\ [Next]_vars =>
        [\/ Seed
         \/ /\ \A t \in Tables :
                 table[t].life = "deleted" => table'[t].life = "deleted"
            /\ \A l \in Locations :
                 location[l].life = "deleted" => location'[l].life = "deleted"]_vars
  <2> SUFFICES ASSUME TypeOK, NEW w \in Workers,
                      Opening(w) \/ Closing(w) \/ Registry(w) \/ Abort(w)
               PROVE  /\ \A t \in Tables :
                           table[t].life = "deleted" => table'[t].life = "deleted"
                      /\ \A l \in Locations :
                           location[l].life = "deleted" => location'[l].life = "deleted"
    BY DEF Next
  <2>1. CASE CreateSessionCommit(w)
    BY <2>1 DEF CreateSessionCommit, TypeOK, TableRow
  <2>2. CASE CloseSessionCommit(w)
    BY <2>2 DEF CloseSessionCommit, TypeOK, TableRow
  <2>3. CASE CreateTableCommit(w)
    BY <2>3 DEF CreateTableCommit, TypeOK, TableRow
  <2>4. CASE UpdateTableCommit(w)
    BY <2>4 DEF UpdateTableCommit, TypeOK, TableRow
  <2>5. CASE DeleteTableCommit(w)
    BY <2>5 DEF DeleteTableCommit, TypeOK, TableRow
  <2>6. CASE CreateLocation(w)
    BY <2>6 DEF CreateLocation, TypeOK
  <2>7. CASE UpdateLocationCommit(w)
    BY <2>7 DEF UpdateLocationCommit, TypeOK, LocationRow
  <2>8. CASE DeleteLocationCommit(w)
    BY <2>8 DEF DeleteLocationCommit, TypeOK, LocationRow
  <2>9. CASE UNCHANGED <<table, location>>
    BY <2>9
  <2>10. QED
    BY <2>1, <2>2, <2>3, <2>4, <2>5, <2>6, <2>7, <2>8, <2>9
       DEF Opening, Closing, Registry, Abort, Begin, Proceed, floorVars,
           CreateSession, CreateSessionTable, OpenTableSession,
           OpenTableSessionLocation, CreateSessionActive,
           UpdateSession, DeleteSession, CloseTableSession, CloseSessionTable,
           BeginClose, CreateTable, UpdateTable, UpdateTableLocation,
           DeleteTable, DeleteTableActive, UpdateLocation, DeleteLocation,
           DeleteLocationActive
<1>2. QED
  BY <1>1, TypeCorrect, PTL DEF Spec, DeletedForGood

=============================================================================
