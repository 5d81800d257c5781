----------------------------- MODULE TraderData -----------------------------
(***************************************************************************)
(* What the workflows of Capital Trader share: its database tables orders  *)
(* and positions, the trading mode, and the account at Capital.com that    *)
(* the tables are meant to mirror.                                         *)
(*                                                                         *)
(* An order row is named by its client_order_id: a submission for the row  *)
(* its workflow creates, a deal for the row "broker:<deal>" that           *)
(* reconciliation imports.  The column is unique, so a name has one row.   *)
(***************************************************************************)
EXTENDS Integers, FiniteSets

CONSTANTS
  None,
  Submissions,   \* calls of submit_and_place
  Deals,         \* deal ids Capital.com may give to orders and positions
  Sizes,         \* sizes of positions
  MaxMishaps     \* bound: restarts, database errors and failed broker reads

ASSUME DataAssumption ==
  /\ Submissions \cap Deals = {}
  /\ None \notin Submissions \cup Deals
  /\ Sizes \subseteq Nat \ {0}
  /\ MaxMishaps \in Nat

VARIABLES
  mode,             \* trading_state.mode
  state,            \* orders.state by row, "none" while there is no row
  broker_order_id,  \* orders.broker_order_id by row
  position,         \* positions.status by deal, "none" while there is no row
  local_size,       \* positions.size by deal
  deal,             \* what Capital.com holds under a deal id
  broker_size,      \* the size of the position it holds, 0 without one
  placed_by,        \* the submission that placed the deal
  mishaps           \* how much of the bound is used up

orders    == <<state, broker_order_id>>
positions == <<position, local_size>>
account   == <<deal, broker_size, placed_by>>
data      == <<mode, orders, positions, account, mishaps>>

Rows  == Submissions \cup Deals
Modes == {"observe", "live", "degraded"}

(* The states the code gives to an order row, and those the broker reports. *)
BrokerStates == {"PENDING", "WORKING"}
OrderStates  == {"none", "PENDING", "SUBMITTED", "REJECTED"} \cup BrokerStates

(* The two identifiers an answer of Capital.com may carry.                  *)
DealId(d)    == [name |-> "dealId", deal |-> d]
Reference(d) == [name |-> "dealReference", deal |-> d]
BrokerIds    == [name : {"dealId", "dealReference"}, deal : Deals]

ASSUME IdAssumption == None \notin BrokerIds

TradingAllowed == mode = "live"

OpenPositions == {d \in Deals : position[d] = "OPEN"}

(* A database call or a broker read that raises.                            *)
Mishap == mishaps < MaxMishaps /\ mishaps' = mishaps + 1

DataInit ==
  /\ mode \in {"observe", "live"}
  /\ state = [r \in Rows |-> "none"]
  /\ broker_order_id = [r \in Rows |-> None]
  /\ position = [d \in Deals |-> "none"]
  /\ local_size = [d \in Deals |-> 0]
  /\ deal = [d \in Deals |-> "unused"]
  /\ broker_size = [d \in Deals |-> 0]
  /\ placed_by = [d \in Deals |-> None]
  /\ mishaps = 0

DataTypeOK ==
  /\ mode \in Modes
  /\ state \in [Rows -> OrderStates]
  /\ broker_order_id \in [Rows -> BrokerIds \cup {None}]
  /\ position \in [Deals -> {"none", "OPEN", "CLOSED"}]
  /\ local_size \in [Deals -> Sizes \cup {0}]
  /\ deal \in [Deals -> {"unused", "working", "open", "cancelled", "gone"}]
  /\ broker_size \in [Deals -> Sizes \cup {0}]
  /\ placed_by \in [Deals -> Submissions \cup {None}]
  /\ mishaps \in 0..MaxMishaps

-----------------------------------------------------------------------------
(* The account also changes by itself and by other hands: working orders    *)
(* fill or are cancelled, positions are opened, reduced and closed.  A deal *)
(* id is never used again.                                                  *)
Appears(d, s, by) ==
  /\ deal[d] = "unused"
  /\ deal' = [deal EXCEPT ![d] = s]
  /\ placed_by' = [placed_by EXCEPT ![d] = by]
  /\ IF s = "open"
     THEN \E n \in Sizes : broker_size' = [broker_size EXCEPT ![d] = n]
     ELSE UNCHANGED broker_size

OpenedElsewhere(d) ==
  /\ \E s \in {"working", "open"} : Appears(d, s, None)
  /\ UNCHANGED <<mode, orders, positions, mishaps>>

Fills(d) ==
  /\ deal[d] = "working"
  /\ deal' = [deal EXCEPT ![d] = "open"]
  /\ \E n \in Sizes : broker_size' = [broker_size EXCEPT ![d] = n]
  /\ UNCHANGED <<mode, orders, positions, placed_by, mishaps>>

Reduced(d) ==
  /\ deal[d] = "open"
  /\ \E n \in Sizes :
       /\ n < broker_size[d]
       /\ broker_size' = [broker_size EXCEPT ![d] = n]
  /\ UNCHANGED <<mode, orders, positions, deal, placed_by, mishaps>>

Vanishes(d) ==
  /\ deal[d] \in {"working", "open"}
  /\ deal' = [deal EXCEPT ![d] = IF @ = "working" THEN "cancelled" ELSE "gone"]
  /\ broker_size' = [broker_size EXCEPT ![d] = 0]
  /\ UNCHANGED <<mode, orders, positions, placed_by, mishaps>>

AccountMoves(d) == OpenedElsewhere(d) \/ Fills(d) \/ Reduced(d) \/ Vanishes(d)
=============================================================================
