--------------------------- MODULE Reconciliation ---------------------------
(***************************************************************************)
(* ReconciliationService: every five minutes it reads positions and        *)
(* working orders from Capital.com, then brings the local tables to what   *)
(* it read, one committed write at a time.  The tables and the account go  *)
(* on changing meanwhile.                                                  *)
(***************************************************************************)
EXTENDS TraderData

VARIABLES
  rpc,     \* where the run is, "sleeping" between runs, "stopped" if the loop
           \* was never started
  run,     \* reconciliation_runs.status of the latest run
  seen,    \* the size of each position in the snapshot, 0 if not in it
  listed,  \* the working orders in the snapshot
  todo,    \* the deals the present loop has still to look at
  orphan   \* the working order no row was found for and that is to be
           \* imported next, None without one

reconciling == <<rpc, run, seen, listed, todo, orphan>>

Phases == {"sleeping", "stopped", "positions", "orders", "importing", "closing",
           "matching", "logging"}

Unseen == [d \in Deals |-> 0]

ReconcileInit ==
  /\ rpc \in {"sleeping", "stopped"}
  /\ rpc = "stopped" => mode = "observe"
  /\ run = "none"
  /\ seen = Unseen
  /\ listed = {}
  /\ todo = {}
  /\ orphan = None

ReconcileTypeOK ==
  /\ rpc \in Phases
  /\ run \in {"none", "RUNNING", "COMPLETED", "FAILED"}
  /\ seen \in [Deals -> Sizes \cup {0}]
  /\ listed \subseteq Deals
  /\ todo \subseteq Deals
  /\ orphan \in Deals \cup {None}

Seen == {d \in Deals : seen[d] # 0}

Enter(phase, work) == rpc' = phase /\ todo' = work /\ orphan' = None

Done(d) == todo' = todo \ {d} /\ orphan' = None /\ UNCHANGED <<rpc, run, seen, listed>>

Idle(phase) == Enter(phase, {}) /\ seen' = Unseen /\ listed' = {}

Sleep == Idle("sleeping")

(* StartupService.run, then the loop.  If the websocket cannot be connected *)
(* the startup raises: the process serves requests, but without the loop    *)
(* and with trading off.                                                    *)
Boot ==
  \/ mode' \in {"observe", "live"} /\ Sleep
  \/ mode' = "observe" /\ Idle("stopped")

-----------------------------------------------------------------------------
StartRun ==
  /\ rpc = "sleeping"
  /\ Enter("positions", {})
  /\ run' = "RUNNING"
  /\ UNCHANGED <<data, seen, listed>>

FetchPositions ==
  /\ rpc = "positions"
  /\ seen' = [d \in Deals |-> IF deal[d] = "open" THEN broker_size[d] ELSE 0]
  /\ Enter("orders", {})
  /\ UNCHANGED <<data, run, listed>>

FetchOrders ==
  /\ rpc = "orders"
  /\ listed' = {d \in Deals : deal[d] = "working"}
  /\ Enter("importing", Seen)
  /\ UNCHANGED <<data, run, seen>>

-----------------------------------------------------------------------------
(* Mutant: only an OPEN row counts as existing.                             *)
ImportReopens(d) ==
  /\ rpc = "importing"
  /\ d \in todo
  /\ position' = [position EXCEPT ![d] = "OPEN"]
  /\ local_size' = [local_size EXCEPT ![d] = seen[d]]
  /\ Done(d)
  /\ UNCHANGED <<mode, orders, account, mishaps>>

(* Mutant: a deal that has a row is left alone.                             *)
ImportNewOnly(d) ==
  /\ rpc = "importing"
  /\ d \in todo
  /\ IF position[d] = "none"
     THEN /\ position' = [position EXCEPT ![d] = "OPEN"]
          /\ local_size' = [local_size EXCEPT ![d] = seen[d]]
     ELSE UNCHANGED positions
  /\ Done(d)
  /\ UNCHANGED <<mode, orders, account, mishaps>>

(* _reconcile_positions, one position of the snapshot: a deal without a row *)
(* is imported, a different size is corrected, whatever the status.         *)
ImportPosition(d) ==
  /\ rpc = "importing"
  /\ d \in todo
  /\ position' = IF position[d] = "none" THEN [position EXCEPT ![d] = "OPEN"]
                 ELSE position
  /\ local_size' = [local_size EXCEPT ![d] = seen[d]]
  /\ Done(d)
  /\ UNCHANGED <<mode, orders, account, mishaps>>

(* Mutant: the wrong list says what is missing.                             *)
ReadOpenWrongList ==
  /\ rpc = "importing"
  /\ todo = {}
  /\ Enter("closing", OpenPositions \ listed)
  /\ UNCHANGED <<data, run, seen, listed>>

(* After the import the OPEN rows are read; those that are not in the      *)
(* snapshot are to be closed.                                              *)
ReadOpen ==
  /\ rpc = "importing"
  /\ todo = {}
  /\ Enter("closing", OpenPositions \ Seen)
  /\ UNCHANGED <<data, run, seen, listed>>

(* Mutants: the missing rows are only reported; a status nobody knows.      *)
CloseMissingMisspelt(d) ==
  /\ rpc = "closing"
  /\ d \in todo
  /\ position' = [position EXCEPT ![d] = "MISSING"]
  /\ Done(d)
  /\ UNCHANGED <<mode, orders, local_size, account, mishaps>>

ReportMissing(d) ==
  /\ rpc = "closing"
  /\ d \in todo
  /\ Done(d)
  /\ UNCHANGED data

CloseMissing(d) ==
  /\ rpc = "closing"
  /\ d \in todo
  /\ position' = [position EXCEPT ![d] = "CLOSED"]
  /\ Done(d)
  /\ UNCHANGED <<mode, orders, local_size, account, mishaps>>

(* The positions are done; only the working orders are still needed.        *)
StartMatching ==
  /\ rpc = "closing"
  /\ todo = {}
  /\ Enter("matching", listed)
  /\ seen' = Unseen
  /\ listed' = {}
  /\ UNCHANGED <<data, run>>

-----------------------------------------------------------------------------
(* _reconcile_orders looks a working order up by its deal id.               *)
Matches(d) == {r \in Rows : broker_order_id[r] = DealId(d)}

(* Mutants: only the row an import would make is looked for; an unknown    *)
(* order is skipped.                                                       *)
LookupByName(d) ==
  /\ rpc = "matching"
  /\ d \in todo
  /\ orphan = None
  /\ state[d] = "none"
  /\ orphan' = d
  /\ UNCHANGED <<data, rpc, run, seen, listed, todo>>

LookupSkips(d) ==
  /\ rpc = "matching"
  /\ d \in todo
  /\ Matches(d) = {}
  /\ Done(d)
  /\ UNCHANGED data

(* get_by_broker_id finds no row ...                                        *)
LookupOrder(d) ==
  /\ rpc = "matching"
  /\ d \in todo
  /\ orphan = None
  /\ Matches(d) = {}
  /\ orphan' = d
  /\ UNCHANGED <<data, rpc, run, seen, listed, todo>>

(* ... and the order is imported under a row of its own, whoever may have  *)
(* stored its identifier meanwhile.                                        *)
ImportOrder(d, s) ==
  /\ rpc = "matching"
  /\ orphan = d
  /\ state' = [state EXCEPT ![d] = s]
  /\ broker_order_id' = [broker_order_id EXCEPT ![d] = DealId(d)]
  /\ Done(d)
  /\ UNCHANGED <<mode, positions, account, mishaps>>

(* One row has it and takes the state the broker reports.  Lookup and write *)
(* are one step: whoever wrote the identifier writes the row no more.       *)
UpdateOrder(d, s) ==
  /\ rpc = "matching"
  /\ d \in todo
  /\ orphan = None
  /\ \E r \in Rows :
       /\ Matches(d) = {r}
       /\ state' = [state EXCEPT ![r] = s]
  /\ Done(d)
  /\ UNCHANGED <<mode, broker_order_id, positions, account, mishaps>>

(* Mutant: the run row is left RUNNING.                                     *)
CompleteUnmarked ==
  /\ rpc = "matching"
  /\ todo = {}
  /\ Enter("logging", {})
  /\ UNCHANGED <<data, run, seen, listed>>

Complete ==
  /\ rpc = "matching"
  /\ todo = {}
  /\ Enter("logging", {})
  /\ run' = "COMPLETED"
  /\ UNCHANGED <<data, seen, listed>>

Logged ==
  /\ rpc = "logging"
  /\ Sleep
  /\ UNCHANGED <<data, run>>

-----------------------------------------------------------------------------
(* Mutant: the exception ends the loop.                                     *)
AbandonForGood(marks) ==
  /\ run' \in marks
  /\ mode' = "degraded"
  /\ Enter("ended", {})
  /\ UNCHANGED <<seen, listed, orders, positions, account>>

(* The run raises: it is marked FAILED, even if it was COMPLETED, or not at *)
(* all if the database is down; trading is degraded until a restart.        *)
Abandon(marks) ==
  /\ run' \in marks
  /\ mode' = "degraded"
  /\ Sleep
  /\ UNCHANGED <<orders, positions, account>>

(* A database call or a read of the broker raises.                          *)
RunFails ==
  /\ rpc # "stopped"
  /\ Mishap
  /\ IF rpc = "sleeping" THEN Abandon({run}) ELSE Abandon({run, "FAILED"})

(* Two rows have the deal id: scalar_one_or_none raises.                    *)
DuplicateFails(d) ==
  /\ rpc = "matching"
  /\ d \in todo
  /\ orphan = None
  /\ Cardinality(Matches(d)) > 1
  /\ Abandon({"FAILED"})
  /\ UNCHANGED mishaps

MatchOrder(d) ==
  \/ LookupOrder(d)
  \/ \E s \in BrokerStates : ImportOrder(d, s) \/ UpdateOrder(d, s)
  \/ DuplicateFails(d)

Reconcile ==
  \/ StartRun
  \/ FetchPositions
  \/ FetchOrders
  \/ \E d \in Deals : ImportPosition(d) \/ CloseMissing(d) \/ MatchOrder(d)
  \/ ReadOpen
  \/ StartMatching
  \/ Complete
  \/ Logged
=============================================================================
