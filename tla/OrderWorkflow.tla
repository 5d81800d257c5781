--------------------------- MODULE OrderWorkflow ---------------------------
(***************************************************************************)
(* OrderWorkflowService.submit_and_place: the risk gate, the local order   *)
(* row, then the order at Capital.com.  Each action is the code between    *)
(* two awaits; every database call and the broker call may raise.          *)
(***************************************************************************)
EXTENDS TraderData

CONSTANTS
  OrderRequests,     \* size and current spread of the orders asked for
  MaxPositionSize,   \* settings.max_position_size
  MaxSpread,         \* settings.max_spread of the epic
  MaxOpenPositions,  \* settings.max_open_positions
  AnswerNames        \* identifiers the broker's answer to an order carries

ASSUME WorkflowAssumption ==
  /\ MaxOpenPositions \in Nat
  /\ AnswerNames \subseteq {"dealId", "dealReference"}

VARIABLES
  opc,     \* where each submission is
  counted, \* the open positions each submission has read
  wire,    \* submissions whose order request Capital.com has not dealt with
  answer   \* the identifier in the answer to a submission, None without one

workflow == <<opc, counted, wire, answer>>

OrderInit ==
  /\ opc = [o \in Submissions |-> "start"]
  /\ counted = [o \in Submissions |-> {}]
  /\ wire = {}
  /\ answer = [o \in Submissions |-> None]

OrderTypeOK ==
  /\ opc \in [Submissions -> {"start", "checking", "persisting", "placing", "ended"}]
  /\ counted \in [Submissions -> SUBSET Deals]
  /\ wire \subseteq Submissions
  /\ answer \in [Submissions -> BrokerIds \cup {None}]

-----------------------------------------------------------------------------
(* RiskManager.can_trade.  The other three checks cannot fail here: nothing *)
(* calls record_loss, so daily_loss is 0; the tick is stamped now; and the  *)
(* client_order_id is drawn afresh by submit.                               *)
CanTrade(r, open_positions) ==
  /\ TradingAllowed
  /\ r.size <= MaxPositionSize
  /\ Cardinality(open_positions) < MaxOpenPositions
  /\ r.spread <= MaxSpread

(* The quote is fetched, the local open positions are read.                 *)
ReadPositions(o) ==
  /\ opc[o] = "start"
  /\ opc' = [opc EXCEPT ![o] = "checking"]
  /\ counted' = [counted EXCEPT ![o] = OpenPositions]
  /\ UNCHANGED <<data, wire, answer>>

(* No quote, or the local positions cannot be read.                         *)
QuoteFails(o) ==
  /\ opc[o] = "start"
  /\ opc' = [opc EXCEPT ![o] = "ended"]
  /\ UNCHANGED <<data, counted, wire, answer>>

(* The gate decides on their number and the mode of now.                   *)
RiskApproves(o, r) ==
  /\ opc[o] = "checking"
  /\ CanTrade(r, counted[o])
  /\ opc' = [opc EXCEPT ![o] = "persisting"]
  /\ counted' = [counted EXCEPT ![o] = {}]
  /\ UNCHANGED <<data, wire, answer>>

(* Rejected by the gate: the call ends with no row.                         *)
RiskRejects(o, r) ==
  /\ opc[o] = "checking"
  /\ ~CanTrade(r, counted[o])
  /\ opc' = [opc EXCEPT ![o] = "ended"]
  /\ counted' = [counted EXCEPT ![o] = {}]
  /\ UNCHANGED <<data, wire, answer>>

(* The row is stored, then its trade log; if either raises the call ends.   *)
PersistOrder(o) ==
  /\ opc[o] = "persisting"
  /\ \E stored \in {"both", "row", "nothing"} :
       /\ state' = IF stored = "nothing" THEN state
                   ELSE [state EXCEPT ![o] = "PENDING"]
       /\ IF stored = "both"
          THEN /\ opc' = [opc EXCEPT ![o] = "placing"]
               /\ wire' = wire \cup {o}
               /\ UNCHANGED mishaps
          ELSE /\ opc' = [opc EXCEPT ![o] = "ended"]
               /\ Mishap
               /\ UNCHANGED wire
  /\ UNCHANGED <<mode, broker_order_id, positions, account, counted, answer>>

(* Capital.com refuses the order, or accepts it as a working order or as a *)
(* position; its answer may be lost, or come when nobody waits for it.     *)
BrokerRefuses(o) ==
  /\ o \in wire
  /\ wire' = wire \ {o}
  /\ UNCHANGED <<data, opc, counted, answer>>

BrokerAccepts(o, d) ==
  /\ o \in wire
  /\ wire' = wire \ {o}
  /\ \E s \in {"working", "open"} : Appears(d, s, o)
  /\ \/ /\ opc[o] = "placing"
        /\ \E name \in AnswerNames :
             answer' = [answer EXCEPT ![o] = [name |-> name, deal |-> d]]
     \/ UNCHANGED answer
  /\ UNCHANGED <<mode, orders, positions, mishaps, opc, counted>>

(* Mutant: a failed order keeps its reference and stays SUBMITTED.          *)
PlaceFailsSubmitted(o) ==
  /\ opc[o] = "placing"
  /\ opc' = [opc EXCEPT ![o] = "ended"]
  /\ state' = [state EXCEPT ![o] = "SUBMITTED"]
  /\ answer' = [answer EXCEPT ![o] = None]
  /\ UNCHANGED <<mode, broker_order_id, positions, account, mishaps, counted, wire>>

(* Mutant: a request that failed is sent again.                             *)
PlaceRetried(o) ==
  /\ opc[o] = "placing"
  /\ wire' = wire \cup {o}
  /\ UNCHANGED <<data, opc, counted, answer>>

(* place_order raises, before or after Capital.com acted: the row becomes  *)
(* REJECTED, unless the database call raises too.                          *)
PlaceFails(o) ==
  /\ opc[o] = "placing"
  /\ opc' = [opc EXCEPT ![o] = "ended"]
  /\ \/ /\ state' = [state EXCEPT ![o] = "REJECTED"]
        /\ UNCHANGED mishaps
     \/ Mishap /\ UNCHANGED state
  /\ answer' = [answer EXCEPT ![o] = None]
  /\ UNCHANGED <<mode, broker_order_id, positions, account, counted, wire>>

PlaceSucceeds(o) ==
  /\ opc[o] = "placing"
  /\ answer[o] # None
  /\ opc' = [opc EXCEPT ![o] = "ended"]
  /\ \/ /\ state' = [state EXCEPT ![o] = "SUBMITTED"]
        /\ broker_order_id' = [broker_order_id EXCEPT ![o] = answer[o]]
        /\ UNCHANGED mishaps
     \/ Mishap /\ UNCHANGED orders
  /\ answer' = [answer EXCEPT ![o] = None]
  /\ UNCHANGED <<mode, positions, account, counted, wire>>

Submission(o) ==
  \/ \E r \in OrderRequests : RiskApproves(o, r) \/ RiskRejects(o, r)
  \/ ReadPositions(o)
  \/ QuoteFails(o)
  \/ PersistOrder(o)
  \/ PlaceFails(o)
  \/ PlaceSucceeds(o)

OrderBroker(o) == BrokerRefuses(o) \/ \E d \in Deals : BrokerAccepts(o, d)
=============================================================================
