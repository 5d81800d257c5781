--------------------------- MODULE TicketContract ---------------------------
(***************************************************************************)
(* What the ticket flow of the operator agent promises, whatever the       *)
(* interleaving of its handlers, the loss of answers or a restart:         *)
(*                                                                         *)
(*   - a ticket blocked at its creation stays blocked and has no order;    *)
(*   - the broker gets an order only for a ticket that somebody confirmed  *)
(*     with the ticket's own phrase while it was pending;                  *)
(*   - a ticket says "executed" only when the broker holds an order of it; *)
(*   - a settled ticket never becomes pending or approved again.           *)
(*                                                                         *)
(* It does not promise that the ticket is ordered once, nor that a blocked *)
(* ticket has no order: the code keeps neither promise.                    *)
(***************************************************************************)
CONSTANT Tickets

VARIABLES
  status,     \* trade_tickets.status, "none" before the row exists
  confirmed,  \* tickets whose exact phrase was supplied while pending
  ordered     \* tickets the broker has an order of (or a close)

vars == <<status, confirmed, ordered>>

Settled == {"blocked", "executed"}

Init ==
  /\ status = [t \in Tickets |-> "none"]
  /\ confirmed = {}
  /\ ordered = {}

Create(t) ==
  /\ status[t] = "none"
  /\ \E s \in {"blocked", "pending_confirmation"} :
       status' = [status EXCEPT ![t] = s]
  /\ UNCHANGED <<confirmed, ordered>>

Confirm(t) ==
  /\ status[t] = "pending_confirmation"
  /\ status' = [status EXCEPT ![t] = "approved"]
  /\ confirmed' = confirmed \cup {t}
  /\ UNCHANGED ordered

Order(t) ==
  /\ t \in confirmed
  /\ ordered' = ordered \cup {t}
  /\ UNCHANGED <<status, confirmed>>

(* The outcome of an execution.  It may replace an earlier outcome.         *)
Settle(t) ==
  /\ t \in confirmed
  /\ \E s \in Settled :
       /\ s = "executed" => t \in ordered
       /\ status' = [status EXCEPT ![t] = s]
  /\ UNCHANGED <<confirmed, ordered>>

Next == \E t \in Tickets : Create(t) \/ Confirm(t) \/ Order(t) \/ Settle(t)

Spec == Init /\ [][Next]_vars
=============================================================================
