---------------------------- MODULE LedgerProofs ----------------------------
(***************************************************************************)
(* CapitalTrader implements TradeLedger, and a run of reconciliation makes *)
(* the tables say what its snapshot says; for any submissions, deals,      *)
(* closers, sizes and bounds.                                              *)
(***************************************************************************)
EXTENDS CapitalTraderProofs

USE DEF data, orders, positions, account, workflow, closing, reconciling

(* A submission has placed nothing while its request is on its way, and its *)
(* row has no identifier before the call ends; a row that is about to be    *)
(* closed exists.                                                           *)
OnceInv ==
  /\ \A o \in Submissions : opc[o] # "ended" => broker_order_id[o] = None
  /\ \A o \in wire, d \in Deals : placed_by[d] # o
  /\ \A c \in Closers : cpc[c] # "idle" => position[target[c].deal] # "none"
  /\ rpc = "closing" => \A d \in todo : position[d] # "none"

(* Nothing is placed, named or about to be closed in the beginning. *)
LEMMA OnceInitInv == Init => OnceInv
  BY DEF Init, DataInit, OrderInit, CloseInit, ReconcileInit, OnceInv, Rows

(* A request is put on its way once, and dealt with once. *)
LEMMA OnceSubmission ==
  ASSUME IInv, RaceInv, OnceInv, NEW o \in Submissions, Submission(o) \/ OrderBroker(o),
         UNCHANGED <<closing, reconciling, raced>>
  PROVE  OnceInv'
<1> USE DEF OnceInv
<1>0. TypeOK /\ OrderInv
  BY DEF IInv
<1>1. CASE \/ QuoteFails(o) \/ ReadPositions(o)
           \/ \E r \in OrderRequests : RiskApproves(o, r) \/ RiskRejects(o, r)
  BY <1>0, <1>1 DEF QuoteFails, ReadPositions, RiskApproves, RiskRejects, TypeOK, OrderTypeOK
<1>2. CASE PersistOrder(o)
  <2>1. \A d \in Deals : placed_by[d] # o
    <3>1. opc[o] = "persisting" /\ o # None
      BY <1>2, DataAssumption DEF PersistOrder
    <3> QED
      BY <3>1 DEF RaceInv, Placed
  <2>2. wire' \subseteq wire \cup {o} /\ UNCHANGED <<broker_order_id, positions, account>>
    BY <1>2 DEF PersistOrder
  <2>3. \A p \in Submissions : opc'[p] # "ended" => opc[p] # "ended"
    BY <1>0, <1>2 DEF PersistOrder, TypeOK, OrderTypeOK
  <2> QED
    BY <2>1, <2>2, <2>3
<1>3. CASE PlaceFails(o)
  BY <1>0, <1>3 DEF PlaceFails, TypeOK, OrderTypeOK
<1>4. CASE PlaceSucceeds(o)
  BY <1>0, <1>4 DEF PlaceSucceeds, TypeOK, OrderTypeOK, DataTypeOK, Rows
<1>5. CASE BrokerRefuses(o)
  BY <1>5 DEF BrokerRefuses
<1>6. ASSUME NEW d \in Deals, BrokerAccepts(o, d)
      PROVE  OnceInv'
  BY <1>0, <1>6 DEF BrokerAccepts, Appears, TypeOK, DataTypeOK
<1> QED
  BY <1>1, <1>2, <1>3, <1>4, <1>5, <1>6 DEF Submission, OrderBroker

(* A position row, once there, stays there. *)
LEMMA RowsStayThere ==
  ASSUME IInv, [Next]_vars, NEW d \in Deals, position[d] # "none"
  PROVE  position'[d] # "none"
<1>0. position \in [Deals -> {"none", "OPEN", "CLOSED"}]
  BY DEF IInv, TypeOK, DataTypeOK
<1>1. ASSUME NEW o \in Submissions, Submission(o) \/ OrderBroker(o)
      PROVE  position' = position
  BY <1>1 DEF Submission, OrderBroker, ReadPositions, RiskApproves, RiskRejects, QuoteFails, PersistOrder,
     PlaceFails, PlaceSucceeds, BrokerRefuses, BrokerAccepts
<1>2. ASSUME NEW c \in Closers, Close(c) \/ BrokerCloses(c)
      PROVE  position' = position \/ position' = [position EXCEPT ![target[c].deal] = "CLOSED"]
  BY <1>2 DEF Close, ReadLocal, PreviewApproves, PreviewEnds, CloseFails, CloseSucceeds,
     BrokerCloses, Return
<1>3. ASSUME NEW e \in Deals, ImportPosition(e) \/ CloseMissing(e)
      PROVE  position'[d] # "none"
  BY <1>0, <1>3 DEF ImportPosition, CloseMissing
<1>4. ASSUME NEW e \in Deals, MatchOrder(e)
      PROVE  position' = position
  BY <1>4 DEF MatchOrder, LookupOrder, ImportOrder, UpdateOrder, DuplicateFails, Abandon
<1>5. ASSUME Reconcile \/ RunFails
      PROVE  position'[d] # "none"
  BY <1>3, <1>4, <1>5 DEF Reconcile, StartRun, FetchPositions, FetchOrders, ReadOpen,
     StartMatching, Complete, Logged, RunFails, Abandon
<1>6. ASSUME NEW e \in Deals, AccountMoves(e)
      PROVE  position' = position
  BY <1>6 DEF AccountMoves, OpenedElsewhere, Fills, Reduced, Vanishes
<1>7. ASSUME Restart PROVE position' = position
  BY <1>7 DEF Restart
<1>8. ASSUME NEW c \in Closers, Close(c) \/ BrokerCloses(c)
      PROVE  position'[d] # "none"
  BY <1>0, <1>2, <1>8
<1>9. ASSUME UNCHANGED vars PROVE position' = position
  BY <1>9 DEF vars
<1> QED
  BY <1>1, <1>5, <1>6, <1>7, <1>8, <1>9 DEF Next

(* A close is of a deal whose row was OPEN when it began. *)
LEMMA OnceClose ==
  ASSUME IInv, OnceInv, [Next]_vars, NEW c \in Closers, Close(c) \/ BrokerCloses(c),
         UNCHANGED <<workflow, reconciling, raced>>
  PROVE  OnceInv'
<1>0. TypeOK /\ CloseInv
  BY DEF IInv
<1>1. UNCHANGED <<broker_order_id, placed_by>>
  BY DEF Close, ReadLocal, PreviewApproves, PreviewEnds, CloseFails, CloseSucceeds, BrokerCloses
<1>2. ASSUME NEW b \in Closers, cpc'[b] # "idle"
      PROVE  position'[target'[b].deal] # "none"
  <2>1. CASE \E d \in Deals : b = c /\ ReadLocal(c, d)
    <3>1. PICK d \in Deals : b = c /\ ReadLocal(c, d)
      BY <2>1
    <3>2. target'[b].deal = d /\ position' = position /\ position[d] = "OPEN"
      BY <1>0, <3>1 DEF ReadLocal, TypeOK, CloseTypeOK
    <3> QED
      BY <3>2
  <2>2. CASE ~ \E d \in Deals : b = c /\ ReadLocal(c, d)
    <3>1. target'[b] = target[b] /\ cpc[b] # "idle"
      BY <1>0, <1>2, <2>2 DEF Close, ReadLocal, PreviewApproves, PreviewEnds, CloseFails,
         CloseSucceeds, BrokerCloses, Return, TypeOK, CloseTypeOK
    <3>2. target[b].deal \in Deals /\ position[target[b].deal] # "none"
      BY <1>0, <3>1 DEF CloseInv, OnceInv, TypeOK, CloseTypeOK
    <3> QED
      BY <3>1, <3>2, RowsStayThere
  <2> QED
    BY <2>1, <2>2
<1>3. rpc' = "closing" => \A d \in todo' : position'[d] # "none"
  BY <1>0, RowsStayThere DEF OnceInv, TypeOK, ReconcileTypeOK
<1> QED
  BY <1>1, <1>2, <1>3 DEF OnceInv

(* Reconciliation closes rows that are OPEN, and imports orders under the  *)
(* name of their deal.                                                     *)
LEMMA OnceReconcile ==
  ASSUME IInv, OnceInv, [Next]_vars, Reconcile \/ RunFails, UNCHANGED <<workflow, closing>>
  PROVE  OnceInv'
<1>0. TypeOK /\ CloseInv
  BY DEF IInv
<1>1. placed_by' = placed_by /\ \A o \in Submissions : broker_order_id'[o] = broker_order_id[o]
  <2>1. ASSUME NEW d \in Deals, ImportPosition(d) \/ CloseMissing(d)
        PROVE  UNCHANGED <<placed_by, broker_order_id>>
    BY <2>1 DEF ImportPosition, CloseMissing
  <2>2. ASSUME NEW d \in Deals, MatchOrder(d)
        PROVE  /\ placed_by' = placed_by
               /\ broker_order_id' = broker_order_id
                  \/ broker_order_id' = [broker_order_id EXCEPT ![d] = DealId(d)]
    BY <2>2 DEF MatchOrder, LookupOrder, ImportOrder, UpdateOrder, DuplicateFails, Abandon
  <2>3. \A o \in Submissions : o \notin Deals /\ o \in Rows
    BY DataAssumption DEF Rows
  <2> QED
    BY <1>0, <2>1, <2>2, <2>3 DEF Reconcile, StartRun, FetchPositions, FetchOrders, ReadOpen,
       StartMatching, Complete, Logged, RunFails, Abandon, TypeOK, DataTypeOK
<1>2. ASSUME NEW c \in Closers, cpc'[c] # "idle"
      PROVE  position'[target'[c].deal] # "none"
  <2>1. target[c].deal \in Deals /\ position[target[c].deal] # "none"
    BY <1>0, <1>2 DEF CloseInv, OnceInv, TypeOK, CloseTypeOK
  <2> QED
    BY <2>1, RowsStayThere
<1>3. ASSUME rpc' = "closing", NEW d \in todo'
      PROVE  position'[d] # "none"
  <2>1. CASE rpc = "closing" /\ todo' \subseteq todo
    BY <1>0, <1>3, <2>1, RowsStayThere DEF OnceInv, TypeOK, ReconcileTypeOK
  <2>2. CASE ReadOpen
    BY <1>3, <2>2 DEF ReadOpen, Enter, OpenPositions
  <2>3. (rpc = "closing" /\ todo' \subseteq todo) \/ ReadOpen
    BY <1>3 DEF Reconcile, StartRun, FetchPositions, FetchOrders, ImportPosition, CloseMissing,
       MatchOrder, LookupOrder, ImportOrder, UpdateOrder, DuplicateFails, StartMatching, Complete, Logged,
       RunFails, Abandon, Sleep, Idle, Enter, Done
  <2> QED
    BY <2>1, <2>2, <2>3
<1> QED
  BY <1>1, <1>2, <1>3 DEF OnceInv

(* Every step keeps the invariant. *)
LEMMA OnceNext == IInv /\ RaceInv /\ OnceInv /\ [Next]_vars => OnceInv'
<1> SUFFICES ASSUME IInv, RaceInv, OnceInv, [Next]_vars PROVE OnceInv'
  OBVIOUS
<1>1. ASSUME NEW d \in Deals, AccountMoves(d), UNCHANGED <<workflow, closing, reconciling, raced>>
      PROVE  OnceInv'
  <2>1. UNCHANGED <<broker_order_id, position>>
    BY <1>1 DEF AccountMoves, OpenedElsewhere, Fills, Reduced, Vanishes
  <2>2. \A e \in Deals : placed_by'[e] = placed_by[e] \/ placed_by'[e] = None
    BY <1>1 DEF AccountMoves, OpenedElsewhere, Appears, Fills, Reduced, Vanishes, IInv,
       TypeOK, DataTypeOK
  <2>3. \A o \in wire : o # None
    BY DataAssumption DEF IInv, TypeOK, OrderTypeOK
  <2> QED
    BY <1>1, <2>1, <2>2, <2>3 DEF OnceInv
<1>2. CASE Restart
  <2>1. /\ UNCHANGED <<broker_order_id, placed_by, wire>> /\ todo' = {}
        /\ \A c \in Closers : cpc'[c] = "idle"
    BY <1>2 DEF Restart, Boot, Sleep, Idle, Enter
  <2>2. \A o \in Submissions : opc'[o] # "ended" => opc[o] # "ended"
    BY <1>2 DEF Restart
  <2> QED
    BY <2>1, <2>2 DEF OnceInv
<1>3. CASE UNCHANGED vars
  BY <1>3 DEF vars, OnceInv
<1> QED
  BY <1>1, <1>2, <1>3, OnceSubmission, OnceClose, OnceReconcile DEF Next

(* The invariants the ledger rests on hold of every behaviour. *)
LEMMA OnceInvariance == Spec => [](IInv /\ RaceInv /\ OnceInv)
BY RaceInit, OnceInitInv, RaceNext, OnceNext, Invariance, PTL DEF Spec

-----------------------------------------------------------------------------
(* The tables as the ledger sees them.                                      *)

(* Identifiers that do not change leave the ledger's identifiers alone. *)
LEMMA SameNames ==
  ASSUME broker_order_id' = broker_order_id
  PROVE  ImportedRows' = ImportedRows /\ NamedDeals' = NamedDeals
  BY DEF ImportedRows, NamedDeals

(* Rows that are neither made nor lost leave the stored ones as they are.   *)
LEMMA SameStored ==
  ASSUME \A o \in Submissions : state'[o] # "none" <=> state[o] # "none"
  PROVE  StoredRows' = StoredRows
  BY DEF StoredRows

(* A step that touches neither tables nor account is no step of the ledger. *)
LEMMA NoLedgerStep ==
  ASSUME UNCHANGED <<orders, position, deal, placed_by>>
  PROVE  UNCHANGED Ledger!vars
  BY SameNames, SameStored DEF Ledger!vars, Ledger!broker

(* A submission stores its row, then learns what it has placed.             *)
LEMMA SubmissionLedger ==
  ASSUME IInv, RaceInv, OnceInv, NEW o \in Submissions, Submission(o)
  PROVE  Ledger!Next \/ UNCHANGED Ledger!vars
<1>0. TypeOK /\ OrderInv
  BY DEF IInv
<1>1. CASE \/ QuoteFails(o) \/ ReadPositions(o)
           \/ \E r \in OrderRequests : RiskApproves(o, r) \/ RiskRejects(o, r)
  BY <1>1, NoLedgerStep DEF QuoteFails, ReadPositions, RiskApproves, RiskRejects
<1>2. CASE PersistOrder(o)
  <2>1. UNCHANGED <<broker_order_id, position, deal, placed_by>>
    BY <1>2 DEF PersistOrder
  <2>2. StoredRows' = StoredRows \cup {o} \/ state' = state
    BY <1>0, <1>2 DEF PersistOrder, StoredRows, TypeOK, DataTypeOK, Rows
  <2>3. CASE StoredRows' = StoredRows \cup {o}
    <3>1. Ledger!Store(o)
      BY <2>1, <2>3, SameNames DEF Ledger!Store, Ledger!broker
    <3> QED
      BY <3>1 DEF Ledger!Next
  <2> QED
    BY <2>1, <2>2, <2>3, NoLedgerStep
<1>3. CASE PlaceFails(o)
  <2>1. UNCHANGED <<broker_order_id, position, deal, placed_by>>
    BY <1>3 DEF PlaceFails
  <2>2. state[o] # "none" /\ opc[o] = "placing"
    BY <1>0, <1>3 DEF PlaceFails, OrderInv
  <2>3. \A p \in Submissions : state'[p] # "none" <=> state[p] # "none"
    BY <1>0, <1>3, <2>2 DEF PlaceFails, TypeOK, DataTypeOK, Rows
  <2> QED
    BY <2>1, <2>3, SameNames, SameStored DEF Ledger!vars, Ledger!broker
<1>4. CASE PlaceSucceeds(o)
  <2>1. UNCHANGED <<position, deal, placed_by>>
    BY <1>4 DEF PlaceSucceeds
  <2>2. state[o] # "none" /\ opc[o] = "placing" /\ broker_order_id[o] = None
        /\ answer[o] \in BrokerIds
    BY <1>0, <1>4 DEF PlaceSucceeds, OrderInv, OnceInv, TypeOK, OrderTypeOK
  <2>3. CASE UNCHANGED orders
    BY <2>1, <2>3, NoLedgerStep
  <2>4. CASE /\ state' = [state EXCEPT ![o] = "SUBMITTED"]
             /\ broker_order_id' = [broker_order_id EXCEPT ![o] = answer[o]]
    <3> DEFINE d == answer[o].deal
    <3>1. d \in Deals /\ placed_by[d] = o /\ answer[o] # None
      BY <1>0, <2>2, IdAssumption DEF OrderInv, BrokerIds
    <3>2. StoredRows' = StoredRows /\ o \in StoredRows
      BY <1>0, <2>2, <2>4 DEF TypeOK, DataTypeOK, Rows, StoredRows
    <3>3. ImportedRows' = ImportedRows
      BY <1>0, <2>4, DataAssumption DEF TypeOK, DataTypeOK, Rows, ImportedRows
    <3>4. NamedDeals[o] = None /\ NamedDeals' = [NamedDeals EXCEPT ![o] = d]
      <4>1. \A p \in Submissions : broker_order_id'[p] = IF p = o THEN answer[o] ELSE broker_order_id[p]
        BY <1>0, <2>4 DEF TypeOK, DataTypeOK, Rows
      <4> QED
        BY <2>2, <3>1, <4>1 DEF NamedDeals
    <3>5. Ledger!Learn(o, d)
      BY <2>1, <3>1, <3>2, <3>3, <3>4 DEF Ledger!Learn, Ledger!broker
    <3> QED
      BY <3>1, <3>5 DEF Ledger!Next
  <2> QED
    BY <1>4, <2>3, <2>4 DEF PlaceSucceeds
<1> QED
  BY <1>1, <1>2, <1>3, <1>4 DEF Submission

(* The broker places a deal for a request that is on its way.               *)
LEMMA BrokerLedger ==
  ASSUME IInv, OnceInv, NEW o \in Submissions, OrderBroker(o)
  PROVE  Ledger!Next \/ UNCHANGED Ledger!vars
<1>0. TypeOK /\ OrderInv
  BY DEF IInv
<1>1. CASE BrokerRefuses(o)
  BY <1>1, NoLedgerStep DEF BrokerRefuses
<1>2. ASSUME NEW d \in Deals, BrokerAccepts(o, d)
      PROVE  Ledger!Next
  <2>1. o \in StoredRows /\ \A e \in Deals : placed_by[e] # o
    BY <1>0, <1>2 DEF BrokerAccepts, OrderInv, OnceInv, StoredRows
  <2>2. StoredRows' = StoredRows /\ ImportedRows' = ImportedRows /\ NamedDeals' = NamedDeals
    BY <1>2, SameNames, SameStored DEF BrokerAccepts
  <2>3. Ledger!Place(o, d)
    BY <1>2, <2>1, <2>2 DEF BrokerAccepts, Appears, Ledger!Place, Ledger!Begin
  <2> QED
    BY <2>3 DEF Ledger!Next
<1> QED
  BY <1>1, <1>2 DEF OrderBroker

(* A row is closed only if it was OPEN or CLOSED already.                   *)
LEMMA ClosedLedger ==
  ASSUME IInv, NEW d \in Deals, position[d] # "none", deal[d] = "gone",
         UNCHANGED <<orders, deal, placed_by>>,
         position' = [position EXCEPT ![d] = "CLOSED"]
  PROVE  Ledger!Next \/ UNCHANGED Ledger!vars
<1>0. position \in [Deals -> {"none", "OPEN", "CLOSED"}]
  BY DEF IInv, TypeOK, DataTypeOK
<1>1. CASE position[d] = "OPEN"
  <2>1. StoredRows' = StoredRows /\ ImportedRows' = ImportedRows /\ NamedDeals' = NamedDeals
    BY SameNames, SameStored
  <2>2. Ledger!CloseRow(d)
    BY <1>1, <2>1 DEF Ledger!CloseRow, Ledger!broker
  <2> QED
    BY <2>2 DEF Ledger!Next
<1>2. CASE position[d] = "CLOSED"
  <2>1. position' = position
    BY <1>0, <1>2
  <2> QED
    BY <2>1, NoLedgerStep
<1> QED
  BY <1>0, <1>1, <1>2

(* A deal moves on in the account while the tables stay as they are.        *)
LEMMA MovesLedger ==
  ASSUME NEW d \in Deals, UNCHANGED <<orders, position, placed_by>>,
         \/ deal[d] = "working" /\ deal' = [deal EXCEPT ![d] = "open"]
         \/ deal[d] = "working" /\ deal' = [deal EXCEPT ![d] = "cancelled"]
         \/ deal[d] = "open" /\ deal' = [deal EXCEPT ![d] = "gone"]
  PROVE  Ledger!Next
<1>1. StoredRows' = StoredRows /\ ImportedRows' = ImportedRows /\ NamedDeals' = NamedDeals
  BY SameNames, SameStored
<1>2. Ledger!Move(d)
  BY <1>1 DEF Ledger!Move
<1> QED
  BY <1>2 DEF Ledger!Next

(* A close ends the position at the broker, then closes its row.            *)
LEMMA CloseLedger ==
  ASSUME IInv, OnceInv, NEW c \in Closers, Close(c) \/ BrokerCloses(c)
  PROVE  Ledger!Next \/ UNCHANGED Ledger!vars
<1>0. TypeOK /\ CloseInv
  BY DEF IInv
<1>1. cpc[c] # "idle" => target[c].deal \in Deals
  BY <1>0 DEF CloseInv, TypeOK, CloseTypeOK
<1>2. CASE BrokerCloses(c)
  <2>1. target[c].deal \in Deals /\ UNCHANGED <<orders, position, placed_by>>
    BY <1>1, <1>2 DEF BrokerCloses
  <2>2. CASE deal[target[c].deal] = "open"
    BY <1>2, <2>1, <2>2, MovesLedger DEF BrokerCloses
  <2>3. CASE deal[target[c].deal] # "open"
    BY <1>2, <2>1, <2>3, NoLedgerStep DEF BrokerCloses
  <2> QED
    BY <2>2, <2>3
<1>3. CASE CloseSucceeds(c)
  <2>1. /\ target[c].deal \in Deals /\ UNCHANGED <<orders, deal, placed_by>>
        /\ deal[target[c].deal] = "gone" /\ position[target[c].deal] # "none"
    BY <1>0, <1>1, <1>3 DEF CloseSucceeds, CloseInv, OnceInv
  <2>2. position' = [position EXCEPT ![target[c].deal] = "CLOSED"] \/ position' = position
    BY <1>3 DEF CloseSucceeds
  <2> QED
    BY <2>1, <2>2, ClosedLedger, NoLedgerStep
<1>4. ASSUME Close(c), ~CloseSucceeds(c)
      PROVE  UNCHANGED Ledger!vars
  <2>1. UNCHANGED data
    BY <1>4 DEF Close, ReadLocal, PreviewApproves, PreviewEnds, CloseFails
  <2> QED
    BY <2>1, NoLedgerStep
<1> QED
  BY <1>2, <1>3, <1>4

(* A run makes a row of what it has seen, and closes one of what is gone.   *)
LEMMA PositionsLedger ==
  ASSUME IInv, OnceInv, NEW d \in Deals, ImportPosition(d) \/ CloseMissing(d)
  PROVE  Ledger!Next \/ UNCHANGED Ledger!vars
<1>0. TypeOK /\ MirrorInv
  BY DEF IInv
<1>1. UNCHANGED <<orders, deal, placed_by>> /\ d \in todo
  BY DEF ImportPosition, CloseMissing
<1>2. CASE CloseMissing(d)
  <2>1. deal[d] = "gone" /\ position[d] # "none"
    BY <1>0, <1>2 DEF CloseMissing, MirrorInv, OnceInv
  <2> QED
    BY <1>1, <1>2, <2>1, ClosedLedger DEF CloseMissing
<1>3. CASE ImportPosition(d) /\ position[d] = "none"
  <2>1. deal[d] \in {"open", "gone"}
    BY <1>0, <1>3 DEF ImportPosition, MirrorInv
  <2>2. StoredRows' = StoredRows /\ ImportedRows' = ImportedRows /\ NamedDeals' = NamedDeals
    BY <1>1, SameNames, SameStored
  <2>3. Ledger!OpenRow(d)
    BY <1>1, <1>3, <2>1, <2>2 DEF ImportPosition, Ledger!OpenRow, Ledger!broker
  <2> QED
    BY <2>3 DEF Ledger!Next
<1>4. CASE ImportPosition(d) /\ position[d] # "none"
  BY <1>1, <1>4, NoLedgerStep DEF ImportPosition
<1> QED
  BY <1>2, <1>3, <1>4

(* A run imports an order the broker has had, or updates a row.             *)
LEMMA MatchLedger ==
  ASSUME IInv, RaceInv, NEW d \in Deals, MatchOrder(d)
  PROVE  Ledger!Next \/ UNCHANGED Ledger!vars
<1>0. TypeOK
  BY DEF IInv
<1>1. ASSUME NEW s \in BrokerStates, ImportOrder(d, s)
      PROVE  Ledger!Next
  <2>1. UNCHANGED <<position, deal, placed_by>> /\ deal[d] # "unused"
    BY <1>1 DEF ImportOrder, RaceInv, Claimed
  <2>2. StoredRows' = StoredRows
    BY <1>0, <1>1, DataAssumption DEF ImportOrder, StoredRows, TypeOK, DataTypeOK, Rows
  <2>3. \A r \in Rows : broker_order_id'[r] = IF r = d THEN DealId(d) ELSE broker_order_id[r]
    BY <1>0, <1>1 DEF ImportOrder, TypeOK, DataTypeOK
  <2>4. DealId(d) # None
    BY IdAssumption DEF DealId, BrokerIds
  <2>5. ImportedRows' = ImportedRows \cup {d}
    BY <2>3, <2>4 DEF ImportedRows, Rows
  <2>6. NamedDeals' = NamedDeals
    BY <2>3, DataAssumption DEF NamedDeals, Rows
  <2>7. Ledger!Import(d)
    BY <2>1, <2>2, <2>5, <2>6 DEF Ledger!Import, Ledger!broker
  <2> QED
    BY <2>7 DEF Ledger!Next
<1>2. ASSUME NEW s \in BrokerStates, UpdateOrder(d, s)
      PROVE  UNCHANGED Ledger!vars
  <2>1. UNCHANGED <<broker_order_id, position, deal, placed_by>>
    BY <1>2 DEF UpdateOrder
  <2>2. PICK r \in Rows : Matches(d) = {r} /\ state' = [state EXCEPT ![r] = s]
    BY <1>2 DEF UpdateOrder
  <2>3. broker_order_id[r] # None /\ s # "none"
    <3>1. r \in Matches(d)
      BY <2>2
    <3> QED
      BY <3>1, IdAssumption DEF Matches, DealId, BrokerIds, BrokerStates
  <2>4. ASSUME NEW o \in Submissions, broker_order_id[o] # None
        PROVE  state[o] # "none"
    <3>1. broker_order_id[o] \in BrokerIds
      BY <1>0, <2>4 DEF TypeOK, DataTypeOK, Rows
    <3>2. broker_order_id[o].deal \in Deals /\ placed_by[broker_order_id[o].deal] = o
      BY <2>4, <3>1 DEF IInv, OrderInv, BrokerIds
    <3> QED
      BY <3>2, DataAssumption DEF IInv, OrderInv, PlacedHasRow
  <2>5. \A p \in Submissions : state'[p] # "none" <=> state[p] # "none"
    BY <1>0, <2>2, <2>3, <2>4 DEF TypeOK, DataTypeOK, Rows
  <2> QED
    BY <2>1, <2>5, SameNames, SameStored DEF Ledger!vars, Ledger!broker
<1>3. CASE LookupOrder(d) \/ DuplicateFails(d)
  BY <1>3, NoLedgerStep DEF LookupOrder, DuplicateFails, Abandon
<1> QED
  BY <1>1, <1>2, <1>3 DEF MatchOrder

(* The account moves by itself.                                             *)
LEMMA AccountLedger ==
  ASSUME IInv, NEW d \in Deals, AccountMoves(d)
  PROVE  Ledger!Next \/ UNCHANGED Ledger!vars
<1>1. CASE OpenedElsewhere(d)
  <2>1. UNCHANGED <<orders, position>>
    BY <1>1 DEF OpenedElsewhere
  <2>2. StoredRows' = StoredRows /\ ImportedRows' = ImportedRows /\ NamedDeals' = NamedDeals
    BY <2>1, SameNames, SameStored
  <2>3. PICK s \in {"working", "open"} : Appears(d, s, None)
    BY <1>1 DEF OpenedElsewhere
  <2>4. deal[d] = "unused" /\ deal' = [deal EXCEPT ![d] = s]
    BY <2>3 DEF Appears
  <2>5. placed_by' = placed_by
    BY <2>3, <2>4 DEF Appears, IInv, OrderInv, TypeOK, DataTypeOK
  <2>6. Ledger!OpenElsewhere(d)
    BY <2>1, <2>2, <2>4, <2>5 DEF Ledger!OpenElsewhere, Ledger!Begin
  <2> QED
    BY <2>6 DEF Ledger!Next
<1>2. CASE Fills(d)
  BY <1>2, MovesLedger DEF Fills
<1>3. CASE Reduced(d)
  BY <1>3, NoLedgerStep DEF Reduced
<1>4. CASE Vanishes(d)
  <2>1. UNCHANGED <<orders, position, placed_by>>
    BY <1>4 DEF Vanishes
  <2>2. \/ deal[d] = "working" /\ deal' = [deal EXCEPT ![d] = "cancelled"]
        \/ deal[d] = "open" /\ deal' = [deal EXCEPT ![d] = "gone"]
    BY <1>4 DEF Vanishes
  <2> QED
    BY <2>1, <2>2, MovesLedger
<1> QED
  BY <1>1, <1>2, <1>3, <1>4 DEF AccountMoves

(* The account, the tables and what runs over them implement the ledger:   *)
(* one deal per submission at most, identifiers that are true and given    *)
(* once, position rows made once and closed once, of what was held and is  *)
(* gone.                                                                   *)
THEOREM LedgerKept == Spec => ImplementsLedger
<1>1. Init => Ledger!Init
  <2> SUFFICES ASSUME Init PROVE Ledger!Init
    OBVIOUS
  <2>1. StoredRows = {} /\ ImportedRows = {}
    BY DEF Init, DataInit, StoredRows, ImportedRows, Rows
  <2>2. NamedDeals = [o \in Submissions |-> None]
    BY DEF Init, DataInit, NamedDeals, Rows
  <2> QED
    BY <2>1, <2>2 DEF Init, DataInit, Ledger!Init
<1>2. IInv /\ RaceInv /\ OnceInv /\ [Next]_vars => [Ledger!Next]_(Ledger!vars)
  <2> SUFFICES ASSUME IInv, RaceInv, OnceInv, [Next]_vars
               PROVE  Ledger!Next \/ UNCHANGED Ledger!vars
    OBVIOUS
  <2>1. CASE Reconcile \/ RunFails
    <3>1. ASSUME ~ \E d \in Deals : ImportPosition(d) \/ CloseMissing(d) \/ MatchOrder(d)
          PROVE  UNCHANGED Ledger!vars
      BY <2>1, <3>1, NoLedgerStep DEF Reconcile, StartRun, FetchPositions, FetchOrders, ReadOpen,
         StartMatching, Complete, Logged, RunFails, Abandon
    <3> QED
      BY <3>1, PositionsLedger, MatchLedger
  <2>2. CASE Restart \/ UNCHANGED vars
    BY <2>2, NoLedgerStep DEF Restart, vars
  <2> QED
    BY <2>1, <2>2, SubmissionLedger, BrokerLedger, CloseLedger, AccountLedger DEF Next
<1> QED
  BY <1>1, <1>2, OnceInvariance, PTL DEF Spec, ImplementsLedger, Ledger!Spec

-----------------------------------------------------------------------------
(* What follows from the ledger alone.                                      *)
LedgerInv ==
  /\ Ledger!TypeOK
  /\ Ledger!Sound
  /\ \A d \in Deals : deal[d] = "unused" => placed_by[d] = None

(* An empty ledger is sound. *)
LEMMA LedgerInitInv == Ledger!Init => LedgerInv
  BY DEF Ledger!Init, LedgerInv, Ledger!TypeOK, Ledger!Sound

(* A step of the ledger keeps it sound. *)
LEMMA LedgerNext == LedgerInv /\ [Ledger!Next]_(Ledger!vars) => LedgerInv'
<1> SUFFICES ASSUME LedgerInv, [Ledger!Next]_(Ledger!vars) PROVE LedgerInv'
  OBVIOUS
<1> USE DEF LedgerInv, Ledger!TypeOK, Ledger!Sound, Ledger!broker
<1>1. ASSUME NEW o \in Submissions, Ledger!Store(o)
      PROVE  LedgerInv'
  BY <1>1 DEF Ledger!Store
<1>2. ASSUME NEW o \in Submissions, NEW d \in Deals, Ledger!Place(o, d)
      PROVE  LedgerInv'
  BY <1>2, DataAssumption DEF Ledger!Place, Ledger!Begin
<1>3. ASSUME NEW o \in Submissions, NEW d \in Deals, Ledger!Learn(o, d)
      PROVE  LedgerInv'
  BY <1>3 DEF Ledger!Learn
<1>4. ASSUME NEW d \in Deals, Ledger!OpenElsewhere(d)
      PROVE  LedgerInv'
  BY <1>4 DEF Ledger!OpenElsewhere, Ledger!Begin
<1>5. ASSUME NEW d \in Deals, Ledger!Move(d)
      PROVE  LedgerInv'
  BY <1>5 DEF Ledger!Move
<1>6. ASSUME NEW d \in Deals, Ledger!Import(d)
      PROVE  LedgerInv'
  BY <1>6 DEF Ledger!Import
<1>7. ASSUME NEW d \in Deals, Ledger!OpenRow(d) \/ Ledger!CloseRow(d)
      PROVE  LedgerInv'
  BY <1>7 DEF Ledger!OpenRow, Ledger!CloseRow
<1>8. CASE UNCHANGED Ledger!vars
  BY <1>8 DEF Ledger!vars
<1> QED
  BY <1>1, <1>2, <1>3, <1>4, <1>5, <1>6, <1>7, <1>8 DEF Ledger!Next

(* So the tables are sound: a submission has placed one deal at most, after *)
(* its row was stored, and what the tables name, import or close is true.   *)
THEOREM LedgerSound == Spec => []Ledger!Sound
<1>1. LedgerInv => Ledger!Sound
  BY DEF LedgerInv
<1> QED
  BY <1>1, LedgerInitInv, LedgerNext, LedgerKept, PTL DEF ImplementsLedger, Ledger!Spec

-----------------------------------------------------------------------------
(* A run makes the tables a mirror of its snapshot, row by row: what the   *)
(* loop has passed has a row of its size, and what is OPEN without being   *)
(* in the snapshot is still to be closed.                                  *)
Mirrored(d) == position[d] # "none" /\ local_size[d] = seen[d]

MirroredInv ==
  /\ rpc = "importing" => \A d \in Seen \ todo : Mirrored(d)
  /\ rpc = "closing" => \A d \in Seen : Mirrored(d)
  /\ rpc = "closing" => OpenPositions \ Seen \subseteq todo

(* A step outside reconciliation leaves the sizes alone and opens no row.   *)
LEMMA MirrorKept ==
  ASSUME IInv, [Next]_vars, MirroredInv, UNCHANGED <<reconciling, local_size>>,
         \A d \in Deals : position'[d] = "OPEN" => position[d] = "OPEN"
  PROVE  MirroredInv'
<1>1. Seen' = Seen /\ Seen \subseteq Deals /\ OpenPositions' \subseteq OpenPositions
  BY DEF Seen, OpenPositions
<1>2. ASSUME NEW d \in Deals, Mirrored(d) PROVE Mirrored(d)'
  BY <1>2, RowsStayThere DEF Mirrored
<1> QED
  BY <1>1, <1>2 DEF MirroredInv

(* The loops of a run do what they are there for.                           *)
LEMMA MirrorRun ==
  ASSUME IInv, [Next]_vars, MirroredInv, Reconcile \/ RunFails
  PROVE  MirroredInv'
<1>0. TypeOK
  BY DEF IInv
<1>1. CASE rpc' \notin {"importing", "closing"}
  BY <1>1 DEF MirroredInv
<1>2. CASE FetchOrders
  <2>1. todo' = Seen /\ Seen' = Seen /\ rpc' = "importing"
    BY <1>2 DEF FetchOrders, Enter, Seen
  <2> QED
    BY <2>1 DEF MirroredInv
<1>3. ASSUME NEW e \in Deals, ImportPosition(e) PROVE MirroredInv'
  <2>1. /\ rpc = "importing" /\ rpc' = "importing" /\ todo' = todo \ {e}
        /\ seen' = seen /\ Seen' = Seen
    BY <1>3 DEF ImportPosition, Done, Seen
  <2>2. Mirrored(e)'
    BY <1>0, <1>3 DEF ImportPosition, Done, Mirrored, TypeOK, DataTypeOK
  <2>3. ASSUME NEW d \in Deals, d # e, Mirrored(d) PROVE Mirrored(d)'
    BY <1>0, <1>3, <2>3 DEF ImportPosition, Done, Mirrored, TypeOK, DataTypeOK
  <2> QED
    BY <2>1, <2>2, <2>3 DEF MirroredInv, Seen
<1>4. CASE ReadOpen
  <2>1. /\ rpc = "importing" /\ todo = {} /\ todo' = OpenPositions \ Seen
        /\ UNCHANGED <<seen, position, local_size>> /\ rpc' = "closing"
    BY <1>4 DEF ReadOpen, Enter
  <2>2. Seen' = Seen /\ OpenPositions' = OpenPositions
    BY <2>1 DEF Seen, OpenPositions
  <2>3. \A d \in Deals : Mirrored(d)' <=> Mirrored(d)
    BY <2>1 DEF Mirrored
  <2> QED
    BY <2>1, <2>2, <2>3 DEF MirroredInv, Seen
<1>5. ASSUME NEW e \in Deals, CloseMissing(e) PROVE MirroredInv'
  <2>1. /\ rpc = "closing" /\ rpc' = "closing" /\ todo' = todo \ {e}
        /\ UNCHANGED <<seen, local_size>> /\ Seen' = Seen
        /\ position' = [position EXCEPT ![e] = "CLOSED"]
    BY <1>5 DEF CloseMissing, Done, Seen
  <2>2. OpenPositions' = OpenPositions \ {e}
    BY <1>0, <2>1 DEF OpenPositions, TypeOK, DataTypeOK
  <2>3. \A d \in Deals : Mirrored(d) => Mirrored(d)'
    BY <1>0, <2>1 DEF Mirrored, TypeOK, DataTypeOK
  <2> QED
    BY <2>1, <2>2, <2>3 DEF MirroredInv, Seen
<1>6. ASSUME rpc' \in {"importing", "closing"}
      PROVE  FetchOrders \/ ReadOpen \/ \E e \in Deals : ImportPosition(e) \/ CloseMissing(e)
  BY <1>6 DEF Reconcile, StartRun, FetchPositions, MatchOrder, LookupOrder, ImportOrder, UpdateOrder,
     DuplicateFails, StartMatching, Complete, Logged, RunFails, Abandon, Sleep, Idle, Enter, Done
<1> QED
  BY <1>1, <1>2, <1>3, <1>4, <1>5, <1>6

(* Every step keeps the mirror.                                             *)
LEMMA MirrorNext == IInv /\ MirroredInv /\ [Next]_vars => MirroredInv'
<1> SUFFICES ASSUME IInv, MirroredInv, [Next]_vars PROVE MirroredInv'
  OBVIOUS
<1>1. ASSUME NEW o \in Submissions, Submission(o) \/ OrderBroker(o), UNCHANGED reconciling
      PROVE  MirroredInv'
  <2>1. UNCHANGED positions
    BY <1>1 DEF Submission, OrderBroker, ReadPositions, RiskApproves, RiskRejects, QuoteFails, PersistOrder,
       PlaceFails, PlaceSucceeds, BrokerRefuses, BrokerAccepts
  <2> QED
    BY <1>1, <2>1, MirrorKept
<1>2. ASSUME NEW c \in Closers, Close(c) \/ BrokerCloses(c), UNCHANGED reconciling
      PROVE  MirroredInv'
  <2>1. /\ UNCHANGED local_size
        /\ position' = position \/ position' = [position EXCEPT ![target[c].deal] = "CLOSED"]
    BY <1>2 DEF Close, ReadLocal, PreviewApproves, PreviewEnds, CloseFails, CloseSucceeds,
       BrokerCloses, Return
  <2>2. \A d \in Deals : position'[d] = "OPEN" => position[d] = "OPEN"
    BY <2>1 DEF IInv, TypeOK, DataTypeOK
  <2> QED
    BY <1>2, <2>1, <2>2, MirrorKept
<1>3. ASSUME NEW d \in Deals, AccountMoves(d), UNCHANGED reconciling
      PROVE  MirroredInv'
  <2>1. UNCHANGED positions
    BY <1>3 DEF AccountMoves, OpenedElsewhere, Fills, Reduced, Vanishes
  <2> QED
    BY <1>3, <2>1, MirrorKept
<1>4. CASE Restart
  <2>1. rpc' \in {"sleeping", "stopped"}
    BY <1>4 DEF Restart, Boot, Sleep, Idle, Enter
  <2> QED
    BY <2>1 DEF MirroredInv
<1>5. CASE UNCHANGED vars
  BY <1>5, MirrorKept DEF vars
<1> QED
  BY <1>1, <1>2, <1>3, <1>4, <1>5, MirrorRun DEF Next

(* A run of reconciliation ends its work on the positions with the tables   *)
(* saying what its snapshot says, whatever was closed and reduced meanwhile *)
(* (reconciliation_service.py, _reconcile_positions).                       *)
THEOREM RunMirrorsSnapshot == Spec => []SnapshotMirrored
<1>1. Init => MirroredInv
  BY DEF Init, ReconcileInit, MirroredInv
<1>2. MirroredInv => SnapshotMirrored
  BY DEF MirroredInv, Mirrored, SnapshotMirrored
<1> QED
  BY <1>1, <1>2, MirrorNext, Invariance, PTL DEF Spec
=============================================================================
