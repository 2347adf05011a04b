-------------------------- MODULE MCOrderLifecycle --------------------------
(***************************************************************************)
(* Finite instances of OrderLifecycle.                                     *)
(***************************************************************************)
EXTENDS OrderLifecycle, TLC

\* Session s1 sits at table t1, any other has no table.
CONSTANTS s1, t1

MCTableOf == [s \in Sessions |-> IF s = s1 THEN t1 ELSE NoTable]

FloorOps == {"close_session", "update_table"}

ChangeOps == {"update_order", "delete_order", "transition"}

EveryOp == {"create_order"} \cup FloorOps \cup ChangeOps

\* Slices for two workers: taking orders while the floor changes, and working
\* on orders that exist.
IntakeOps == {"create_order", "close_session", "update_table"}

KitchenOps == {"create_order"} \cup ChangeOps

Symmetry == Permutations(Workers) \cup Permutations(Orders)
=============================================================================
