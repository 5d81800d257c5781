-------------------------- MODULE PositionWorkflow --------------------------
(***************************************************************************)
(* PositionWorkflowService.close_position: the preview compares the local  *)
(* row with the broker's position, then the broker closes it, then the row *)
(* is marked CLOSED.  The local row is read before the broker is asked.    *)
(***************************************************************************)
EXTENDS TraderData

CONSTANT Closers   \* calls of close_position served at the same time

VARIABLES
  cpc,      \* where each call is
  target,   \* the deal it closes, with the local size it read
  closed    \* whether Capital.com's answer says closed

closing == <<cpc, target, closed>>

NoTarget == [deal |-> None, size |-> 0]

CloseInit ==
  /\ cpc = [c \in Closers |-> "idle"]
  /\ target = [c \in Closers |-> NoTarget]
  /\ closed = [c \in Closers |-> FALSE]

CloseTypeOK ==
  /\ cpc \in [Closers -> {"idle", "previewing", "requested", "answered"}]
  /\ target \in [Closers -> [deal : Deals \cup {None}, size : Sizes \cup {0}]]
  /\ closed \in [Closers -> BOOLEAN]

Return(c) ==
  /\ cpc' = [cpc EXCEPT ![c] = "idle"]
  /\ target' = [target EXCEPT ![c] = NoTarget]
  /\ closed' = [closed EXCEPT ![c] = FALSE]

-----------------------------------------------------------------------------
(* preview_close reads the local row, which must be OPEN.                   *)
ReadLocal(c, d) ==
  /\ cpc[c] = "idle"
  /\ position[d] = "OPEN"
  /\ cpc' = [cpc EXCEPT ![c] = "previewing"]
  /\ target' = [target EXCEPT ![c] = [deal |-> d, size |-> local_size[d]]]
  /\ UNCHANGED <<data, closed>>

(* It then asks the broker, which must hold the position with that size.    *)
PreviewApproves(c) ==
  LET d == target[c].deal
  IN /\ cpc[c] = "previewing"
     /\ TradingAllowed
     /\ deal[d] = "open"
     /\ broker_size[d] = target[c].size
     /\ cpc' = [cpc EXCEPT ![c] = "requested"]
     /\ UNCHANGED <<data, target, closed>>

(* Not found, a mismatch, a market that is not tradeable, a failed read or  *)
(* trade log: nothing has been asked of the broker.                         *)
PreviewEnds(c) ==
  /\ cpc[c] = "previewing"
  /\ Return(c)
  /\ UNCHANGED data

(* Capital.com closes the position, whatever its size is now; or it finds   *)
(* none.                                                                    *)
BrokerCloses(c) ==
  LET d == target[c].deal
  IN /\ cpc[c] = "requested"
     /\ cpc' = [cpc EXCEPT ![c] = "answered"]
     /\ closed' = [closed EXCEPT ![c] = deal[d] = "open"]
     /\ IF deal[d] = "open"
        THEN /\ deal' = [deal EXCEPT ![d] = "gone"]
             /\ broker_size' = [broker_size EXCEPT ![d] = 0]
        ELSE UNCHANGED <<deal, broker_size>>
     /\ UNCHANGED <<mode, orders, positions, placed_by, mishaps, target>>

(* The broker call raises, perhaps after the position was closed.  Nothing  *)
(* catches it: the row is left alone.                                       *)
CloseFails(c) ==
  /\ cpc[c] \in {"requested", "answered"}
  /\ Return(c)
  /\ UNCHANGED data

CloseSucceeds(c) ==
  /\ cpc[c] = "answered"
  /\ closed[c]
  /\ Return(c)
  /\ \/ /\ position' = [position EXCEPT ![target[c].deal] = "CLOSED"]
        /\ UNCHANGED mishaps
     \/ Mishap /\ UNCHANGED position
  /\ UNCHANGED <<mode, orders, local_size, account>>

Close(c) ==
  \/ \E d \in Deals : ReadLocal(c, d)
  \/ PreviewApproves(c)
  \/ PreviewEnds(c)
  \/ CloseFails(c)
  \/ CloseSucceeds(c)
=============================================================================
