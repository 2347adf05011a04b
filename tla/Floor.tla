------------------------------- MODULE Floor -------------------------------
(***************************************************************************)
(* What the session and table routes promise the people on the floor,      *)
(* without requests, statuses or rows: each table has at most one party,   *)
(* a party is seated once and for one visit, and a table is retired only   *)
(* while nobody sits at it.                                                *)
(***************************************************************************)

CONSTANTS Tables, Sessions, NoSession

VARIABLES
    party,      \* the session seated at each table, or NoSession
    retired,    \* the tables out of use
    been        \* the sessions that exist or existed, seated or not

Init ==
    /\ party = [t \in Tables |-> NoSession]
    /\ retired = {}
    /\ been = {}

Seat(t, s) ==
    /\ party[t] = NoSession
    /\ t \notin retired
    /\ s \notin been
    /\ party' = [party EXCEPT ![t] = s]
    /\ been' = been \cup {s}
    /\ UNCHANGED retired

\* A session without a table: pickup, delivery or third party.
OrderAhead(s) ==
    /\ s \notin been
    /\ been' = been \cup {s}
    /\ UNCHANGED <<party, retired>>

Leave(t) ==
    /\ party[t] # NoSession
    /\ party' = [party EXCEPT ![t] = NoSession]
    /\ UNCHANGED <<retired, been>>

Retire(t) ==
    /\ party[t] = NoSession
    /\ retired' = retired \cup {t}
    /\ UNCHANGED <<party, been>>

\* Seeding brings tables back.
Restore(T) ==
    /\ retired' = retired \ T
    /\ UNCHANGED <<party, been>>

Next ==
    \/ \E t \in Tables, s \in Sessions : Seat(t, s)
    \/ \E s \in Sessions : OrderAhead(s)
    \/ \E t \in Tables : Leave(t) \/ Retire(t)
    \/ \E T \in SUBSET Tables : Restore(T)

Spec == Init /\ [][Next]_<<party, retired, been>>

=============================================================================
