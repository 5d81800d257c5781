-------------------------- MODULE MCTicketExecution --------------------------
(* Small instance of TicketExecution: tickets as model values, proposals       *)
(* (sizes in tenths of a lot) and the two position counts around the limit.    *)
EXTENDS TicketExecution, TLC

Proposal(size, stop_loss, stop_distance) ==
  [direction |-> "BUY", order_type |-> "MARKET", size |-> size, level |-> None,
   stop_loss |-> stop_loss, take_profit |-> None, stop_distance |-> stop_distance,
   limit_distance |-> None]

\* one that passes the rules, one that is oversized, two with NaN that the gate
\* lets through: a size, and a limit order's level
MCRequests ==
  {Proposal(5, None, 10), Proposal(6, None, 10), Proposal(NaN, None, 10),
   [Proposal(5, None, 10) EXCEPT !.order_type = "LIMIT", !.level = NaN]}

\* a stop given as a price level, alone or together with a distance
MCRequestsByLevel == {Proposal(5, 90, None), Proposal(5, 90, 10)}

MCPositionCounts == {4, 5}

MCSymmetry == Permutations(Tickets) \cup Permutations(Handlers)
==============================================================================
