----------------------------- MODULE MCCheckout -----------------------------
(***************************************************************************)
(* A finite instance of Checkout: the seeded restaurant with a category    *)
(* and an item, a second restaurant, and rows that are still to be made.   *)
(***************************************************************************)
EXTENDS Checkout, TLC

CONSTANTS w1, w2, r1, r2, c1, c2, c3, i1, i2, p1, p2

LiveRow(home, price, k) ==
    [life |-> "live", home |-> home, active |-> TRUE,
     available |-> price # None, price |-> price, category |-> k]

Deleted(row) == [row EXCEPT !.life = "deleted", !.active = FALSE]

MCOpening ==
    [x \in Rows |->
        CASE x = r1 -> LiveRow(None, None, None)
          [] x = r2 -> Deleted(LiveRow(None, None, None))
          [] x = c1 -> LiveRow(r1, None, None)
          [] x = c2 -> LiveRow(r2, None, None)
          [] x \in {i1, i2} -> LiveRow(r1, p1, c1)
          [] OTHER -> NoRow]

MCSeeded == {r1, c1, i1}

MCNewItems ==
    {[active |-> TRUE, available |-> TRUE, price |-> p2],
     [active |-> FALSE, available |-> TRUE, price |-> p1]}

NoPatch == [active |-> None, available |-> None, price |-> None, category |-> None]

MCItemPatches ==
    {[NoPatch EXCEPT !.price = p2],
     [NoPatch EXCEPT !.available = FALSE],
     [NoPatch EXCEPT !.active = TRUE, !.available = TRUE],
     [NoPatch EXCEPT !.category = c2],
     [NoPatch EXCEPT !.category = c3]}

MCCarts == {{i1, i2}}

\* Both sell at the counter.  One changes the catalog as well, the other deletes
\* items, orders in sessions it was told of, and reads the page.
MCAsks ==
    w1 :> (WriteOp \cup {"create_restaurant", "seed", "create_counter_order"})
      @@ w2 :> {"delete_menu_item", "create_counter_order", "create_order",
                "close_session", "get_public_catalog"}

Symmetry == Permutations(Orders) \cup Permutations(Sessions)
=============================================================================
