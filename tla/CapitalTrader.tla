--------------------------- MODULE CapitalTrader ---------------------------
(***************************************************************************)
(* The order workflow, the close workflow and reconciliation of Capital    *)
(* Trader at work on the same tables and the same account, with restarts.  *)
(***************************************************************************)
EXTENDS OrderWorkflow, PositionWorkflow, Reconciliation

VARIABLE
  raced   \* history: deals reconciliation found no row for while the
          \* submission that placed them had not stored their identifier yet

vars == <<data, workflow, closing, reconciling, raced>>

Init ==
  /\ DataInit
  /\ OrderInit
  /\ CloseInit
  /\ ReconcileInit
  /\ raced = {}

(* The process dies and starts again with the mode its settings give.  An  *)
(* order request on its way still reaches Capital.com.                     *)
Restart ==
  /\ Mishap
  /\ Boot
  /\ opc' = [o \in Submissions |-> IF opc[o] = "start" THEN "start" ELSE "ended"]
  /\ counted' = [o \in Submissions |-> {}]
  /\ answer' = [o \in Submissions |-> None]
  /\ cpc' = [c \in Closers |-> "idle"]
  /\ target' = [c \in Closers |-> NoTarget]
  /\ closed' = [c \in Closers |-> FALSE]
  /\ UNCHANGED <<orders, positions, account, wire, run, raced>>

Races ==
  raced' = raced \cup
    {d \in Deals : /\ orphan' = d
                   /\ placed_by[d] # None
                   /\ opc[placed_by[d]] = "placing"}

Next ==
  \/ /\ \/ \E o \in Submissions : Submission(o) \/ OrderBroker(o)
     /\ UNCHANGED <<closing, reconciling, raced>>
  \/ /\ \/ \E c \in Closers : Close(c) \/ BrokerCloses(c)
     /\ UNCHANGED <<workflow, reconciling, raced>>
  \/ /\ Reconcile \/ RunFails
     /\ Races
     /\ UNCHANGED <<workflow, closing>>
  \/ /\ \E d \in Deals : AccountMoves(d)
     /\ UNCHANGED <<workflow, closing, reconciling, raced>>
  \/ Restart

Spec == Init /\ [][Next]_vars

(* Once started, the reconciliation loop never stops: each of its calls    *)
(* returns, the next run starts after its sleep.                           *)
FairSpec == Spec /\ WF_vars(Reconcile /\ Races /\ UNCHANGED <<workflow, closing>>)

-----------------------------------------------------------------------------
TypeOK ==
  /\ DataTypeOK
  /\ OrderTypeOK
  /\ CloseTypeOK
  /\ ReconcileTypeOK
  /\ raced \subseteq Deals

(* A position is marked CLOSED only when the broker no longer holds it, in *)
(* spite of stale snapshots, lost answers and concurrent closes.           *)
ClosedIsGone ==
  \A d \in Deals : position[d] = "CLOSED" => deal[d] = "gone"

(* A CLOSED position is never opened again, not even by a snapshot that was *)
(* taken before it was closed.                                              *)
NeverReopened ==
  [][\A d \in Deals : position[d] = "CLOSED" => position'[d] = "CLOSED"]_vars

(* The ledger that the tables and the account make up. *)
StoredRows   == {o \in Submissions : state[o] # "none"}
ImportedRows == {d \in Deals : broker_order_id[d] # None}
NamedDeals   == [o \in Submissions |-> IF broker_order_id[o] = None THEN None
                                       ELSE broker_order_id[o].deal]

Ledger == INSTANCE TradeLedger WITH
  held <- deal, owner <- placed_by, row <- position,
  stored <- StoredRows, imported <- ImportedRows, known <- NamedDeals

(* The three workflows implement the promises of TradeLedger: each step of *)
(* a call, a run or a restart is a step of the ledger or none.             *)
ImplementsLedger == Ledger!Spec

(* When a run has gone over the positions, the tables say what its snapshot *)
(* says, although rows were closed meanwhile: each position of it has a     *)
(* row of its size, and no other row is OPEN.                               *)
SnapshotMirrored ==
  rpc = "closing" /\ todo = {} =>
    /\ \A d \in Seen : position[d] # "none" /\ local_size[d] = seen[d]
    /\ OpenPositions \subseteq Seen

(* What the workflow placed at the broker has a local row, whatever failed *)
(* after that.                                                             *)
PlacedHasRow ==
  \A d \in Deals : placed_by[d] # None => state[placed_by[d]] # "none"

(* A submitted row names an order that the broker accepted from it.         *)
SubmittedIsPlaced ==
  \A o \in Submissions :
    state[o] = "SUBMITTED" =>
      \E d \in Deals : /\ placed_by[d] = o
                       /\ broker_order_id[o] \in {DealId(d), Reference(d)}

(* Two rows have one broker deal id only if reconciliation looked for the   *)
(* order before the submission that placed it stored its answer; the import *)
(* may come after that.                                                     *)
DuplicateOnlyFromRace ==
  \A d \in Deals : Cardinality(Matches(d)) > 1 => d \in raced

(* A run row is RUNNING between runs only after a restart or a database    *)
(* failure.                                                                *)
RunsSettled ==
  run = "RUNNING" /\ rpc \in {"sleeping", "stopped"} => mishaps > 0

(* The loop was never started since the last start of the process.          *)
Unattended == rpc = "stopped"

(* Liveness, while the loop runs: a position the broker holds is imported, *)
(* or closed again.                                                        *)
PositionsImported ==
  \A d \in Deals :
    deal[d] = "open" ~> (position[d] # "none" \/ deal[d] # "open" \/ Unattended)

(* Liveness, while the loop runs: a position the broker no longer holds    *)
(* does not stay OPEN.                                                     *)
ClosuresNoticed ==
  \A d \in Deals :
    (deal[d] = "gone" /\ position[d] = "OPEN")
      ~> (position[d] = "CLOSED" \/ Unattended)

(* Liveness, while the loop runs: a working order gets a row with its deal *)
(* id, unless a duplicate makes every run fail.                            *)
OrdersRecorded ==
  \A d \in Deals :
    deal[d] = "working"
      ~> (Matches(d) # {} \/ deal[d] # "working" \/ raced # {} \/ Unattended)

(* Docs/ARCHITECTURE_AUDIT.md: "Import orphan broker working orders into   *)
(* DB": an order whose workflow row already carries the identifier the     *)
(* broker gave it is no orphan, and is not taken for one.                  *)
OnlyOrphansImported ==
  [][\A d \in Deals, o \in Submissions :
       (orphan # d /\ orphan' = d /\ placed_by[d] = o) => broker_order_id[o] = None]_vars

(* Docs/ARCHITECTURE_AUDIT.md, checks of the risk manager: "Open positions  *)
(* must be below settings.max_open_positions."  The workflow alone does not *)
(* bring the account above the limit.                                       *)
PositionLimitKept ==
  Cardinality({d \in Deals : deal[d] = "open" /\ placed_by[d] # None})
    <= MaxOpenPositions
=============================================================================
