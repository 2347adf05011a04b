--------------------------- MODULE MCKitchenScreen ---------------------------
(***************************************************************************)
(* Finite instances of KitchenScreen: one session without a table, orders  *)
(* without keys, placed, canceled and moved on.                            *)
(***************************************************************************)
EXTENDS KitchenScreen, TLC

MCTableOf == [s \in Sessions |-> NoTable]

ScreenOps == {"create_order", "delete_order", "transition", "close_session"}

\* Neither a guard nor a property reads what has been published and answered, or
\* more of a history than its length.
View ==
    <<session, order, [o \in Orders |-> Len(history[o])], req, clock, began, created>>

Symmetry == Permutations(Workers) \cup Permutations(Orders)
=============================================================================
