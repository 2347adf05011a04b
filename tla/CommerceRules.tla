--------------------------- MODULE CommerceRules ---------------------------
(***************************************************************************)
(* The enumerations and the pure rules every service of the backend calls: *)
(* domain/commerce/enums.py, domain/commerce/rules.py and                  *)
(* domain/kitchen/workflow.py.  A rule that raises in the code is a        *)
(* predicate here: FALSE means that the request is refused.                *)
(***************************************************************************)
EXTENDS Naturals

Channel == {"dine_in", "pickup", "delivery", "third_party"}

\* What a location can support; third_party orders need delivery support.
Service == {"dine_in", "pickup", "delivery"}

SessionStatus == {"open", "closed", "expired"}

TableStatus == {"available", "occupied", "out_of_service"}

OrderStatus ==
    {"pending", "accepted", "ready", "served", "settled", "canceled"}

\* The actors the services write into the history.
ActorType == {"system", "staff", "kitchen"}

----------------------------------------------------------------------------

\* ensure_channel_table_consistency: a table is given exactly for dine-in.
ChannelTableConsistent(channel, hasTable) == (channel = "dine_in") <=> hasTable

\* _validate_location_support
LocationSupports(services, channel) ==
    (IF channel = "third_party" THEN "delivery" ELSE channel) \in services

\* Fault: an expired session takes orders.
SessionAcceptsUnlessClosed(status) == status # "closed"

\* ensure_session_accepts_orders: the status alone decides, not expires_at.
SessionAcceptsOrders(status) == status \notin {"closed", "expired"}

\* ensure_dine_in_table_ready
DineInTableReady(status) == status \in {"available", "occupied"}

CanDeleteOrder(status) == status = "pending"

CanPatchOrder(status) == status \in {"pending", "accepted", "ready", "served"}

----------------------------------------------------------------------------

\* _WORKFLOW_ACTIONS: the status an action needs and the one it leads to.
WorkflowAction == {"accept", "ready", "served", "settled"}

Required ==
    [accept |-> "pending", ready |-> "accepted",
     served |-> "ready", settled |-> "served"]

TargetStatus ==
    [accept |-> "accepted", ready |-> "ready",
     served |-> "served", settled |-> "settled"]

\* apply_action raises unless the order is in the required status.
ActionAllowed(status, action) == status = Required[action]

ApplyAction(action) == TargetStatus[action]

\* transition attributes accept and ready to the kitchen, the rest to staff.
ActorOf(action) == IF action \in {"accept", "ready"} THEN "kitchen" ELSE "staff"

=============================================================================
