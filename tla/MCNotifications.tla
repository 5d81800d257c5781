-------------------------- MODULE MCNotifications --------------------------
(* Instances of Notifications for TLC: a price alert and a market-open      *)
(* alert on one market.                                                    *)
EXTENDS Notifications, TLC

MCSettings ==
  [r \in Rules |->
     IF r = 1
     THEN [type |-> "price", condition |-> "above", threshold |-> 5, source |-> "gold",
           cooldown |-> 2, notify_recovery |-> TRUE]
     ELSE [type |-> "market_open", condition |-> "open", threshold |-> 0, source |-> "gold",
           cooldown |-> 1, notify_recovery |-> FALSE]]

(* Open above the threshold, open below it, closed without a price. *)
MCReadings ==
  {[flag |-> TRUE, value |-> 5], [flag |-> TRUE, value |-> 4], [flag |-> FALSE, value |-> NoValue]}

(* Open above the threshold, closed without a price. *)
MCTwoReadings == {[flag |-> TRUE, value |-> 5], [flag |-> FALSE, value |-> NoValue]}

Symmetric == Permutations(Evaluators)
=============================================================================
