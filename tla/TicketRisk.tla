----------------------------- MODULE TicketRisk -----------------------------
(***************************************************************************)
(* The deterministic risk gate of the operator agent (clean-agent):        *)
(* risk.evaluate_ticket, and the part of a ticket that actually reaches    *)
(* Capital Trader (execution._broker_order_payload).                       *)
(*                                                                         *)
(* A ticket is a record with fields direction, order_type, size, level,    *)
(* stop_loss, take_profit, stop_distance, limit_distance.  The last five   *)
(* are optional: None stands for an absent value.  Sizes and prices are    *)
(* integers; the code only compares them, so the unit does not matter.     *)
(* Python's JSON also reads NaN, a number no comparison is true of.        *)
(***************************************************************************)
EXTENDS Integers

CONSTANTS
  None,              \* an absent optional field
  NaN,               \* the float that is not a number
  MaxTicketSize,     \* settings.max_ticket_size
  MaxOpenPositions,  \* settings.max_open_positions
  RequireStopLoss    \* settings.require_stop_loss

ASSUME RiskAssumption ==
  /\ MaxTicketSize \in Int
  /\ MaxOpenPositions \in Int
  /\ RequireStopLoss \in BOOLEAN
  /\ NaN \notin Int \cup {None}

-----------------------------------------------------------------------------
(* What broker_snapshot captures: each call answers, or leaves an error with *)
(* the text of its exception.  Creating a ticket also captures the market of *)
(* its epic.  There is no list of positions when that call failed or its     *)
(* answer has none; a text that is empty is no error to the gate, so errors  *)
(* are those with a text.                                                    *)
Captured == {"health", "balance", "positions", "orders"}

Snapshots(counts, keys) ==
  {s \in [positions : counts \cup {None}, errors : SUBSET keys] :
     "positions" \in s.errors => s.positions = None}

(* Without a list 0 positions are counted.                                   *)
CountOpenPositions(snapshot) ==
  IF snapshot.positions = None THEN 0 ELSE snapshot.positions

(* balance_error is captured but not a reason to block.                      *)
BlockingErrors(snapshot) ==
  snapshot.errors \cap {"health", "positions", "orders", "market"}

-----------------------------------------------------------------------------
(* The rules that look at the ticket alone.  The code asks for what is     *)
(* wrong, and a comparison with NaN finds nothing wrong.                   *)
Numbers == Int \cup {NaN}

Leq(a, b) == a # NaN /\ b # NaN /\ a <= b

KnownKind(t) ==
  /\ t.direction \in {"BUY", "SELL"}
  /\ t.order_type \in {"MARKET", "LIMIT", "STOP"}

SizeAllowed(t) == ~Leq(t.size, 0) /\ (t.size = NaN \/ Leq(t.size, MaxTicketSize))

StopGiven(t) == t.stop_loss # None \/ t.stop_distance # None

DistancesPositive(t) ==
  \A d \in {t.stop_distance, t.limit_distance} : d # None => ~Leq(d, 0)

StopSideRight(t) ==
  (t.level # None /\ t.stop_loss # None) =>
    /\ t.direction = "BUY" => ~Leq(t.level, t.stop_loss)
    /\ t.direction = "SELL" => ~Leq(t.stop_loss, t.level)

ProfitSideRight(t) ==
  (t.level # None /\ t.take_profit # None) =>
    /\ t.direction = "BUY" => ~Leq(t.take_profit, t.level)
    /\ t.direction = "SELL" => ~Leq(t.level, t.take_profit)

LevelGiven(t) == t.order_type \in {"LIMIT", "STOP"} => t.level # None

TicketRulesHold(t) ==
  /\ KnownKind(t)
  /\ SizeAllowed(t)
  /\ RequireStopLoss => StopGiven(t)
  /\ DistancesPositive(t)
  /\ StopSideRight(t)
  /\ ProfitSideRight(t)
  /\ LevelGiven(t)

(* evaluate_ticket: any error blocks, warnings do not.                      *)
EvaluateTicket(t, snapshot) ==
  IF /\ TicketRulesHold(t)
     /\ CountOpenPositions(snapshot) < MaxOpenPositions
     /\ BlockingErrors(snapshot) = {}
  THEN "approved"
  ELSE "blocked"

-----------------------------------------------------------------------------
(* What proposals may be, and what the table keeps of one.  SQLite stores  *)
(* NaN as NULL: an optional column takes it and has no value then, and the *)
(* size column refuses the row.                                            *)
Proposals ==
  [direction : STRING, order_type : STRING, size : Numbers,
   level : Numbers \cup {None}, stop_loss : Numbers \cup {None},
   take_profit : Numbers \cup {None}, stop_distance : Numbers \cup {None},
   limit_distance : Numbers \cup {None}]

StoredTicket(r) == [f \in DOMAIN r |-> IF r[f] = NaN THEN None ELSE r[f]]

(* _broker_order_payload: the fields of the order request.  The absolute   *)
(* stop_loss and take_profit of the ticket are not among them.             *)
PayloadFields == {"level", "limit_distance", "stop_distance"}

BrokerOrderPayload(t) ==
  [f \in {"direction", "size", "order_type"} \cup
         {g \in PayloadFields : t[g] # None} |-> t[f]]
=============================================================================
