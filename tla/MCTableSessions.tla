-------------------------- MODULE MCTableSessions --------------------------
(***************************************************************************)
(* Finite instances of TableSessions.                                      *)
(***************************************************************************)
EXTENDS TableSessions, TLC

\* The seed's loc_001 supports every service.
MCSeededServices == [l \in SeededLocations |-> Service]

\* The services requests give locations: all, or no dine-in as in loc_002.
MCServiceSets == {Service, {"pickup", "delivery"}}

SessionOps == {"create_session", "open_table_session", "close_session"}

TableOps == {"create_table", "update_table", "delete_table"}

LocationOps == {"create_location", "update_location", "delete_location"}

EveryOp == SessionOps \cup TableOps \cup LocationOps \cup {"seed"}

\* Slices for two workers: sessions against changes of their table; and the same at
\* a restaurant that starts with nothing and sets up its location and table.
SeatingOps == SessionOps \cup {"update_table", "delete_table"}

FurnitureOps ==
    SeatingOps \cup {"create_table", "create_location", "delete_location"}

\* The history that no step and no property looks at any more: about a session that
\* has ended, but for a close that still takes it for open, and that of a request
\* which neither opens, closes nor deletes.
Past(s) ==
    /\ session[s].status # "open"
    /\ \A w \in Workers : ~(req[w].s = s /\ req[w].sessionStatus = "open")

Present(S) == {s \in S : ~Past(s)}

Opens(w) == req[w].op \in {"create_session", "open_table_session"}

View ==
    <<req,
      [l \in Locations |-> [location[l] EXCEPT !.openedBeside = Present(@)]],
      [t \in Tables |-> [table[t] EXCEPT !.openedBeside = Present(@)]],
      [s \in Sessions |->
          IF Past(s) THEN [session[s] EXCEPT !.openedBeside = {}, !.deletedBeside = {}]
          ELSE [session[s] EXCEPT !.openedBeside = Present(@)]],
      [w \in Workers |->
          <<IF Opens(w) \/ req[w].op \in {"close_session", "delete_table", "delete_location"}
              THEN Present(openedMeanwhile[w]) ELSE {},
            IF Opens(w) THEN deletedMeanwhile[w] ELSE {}>>]>>

Symmetry == Permutations(Workers) \cup Permutations(Sessions)
=============================================================================
