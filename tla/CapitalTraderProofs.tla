------------------------ MODULE CapitalTraderProofs ------------------------
(***************************************************************************)
(* Proofs about CapitalTrader, for any submissions, deals, closers, sizes  *)
(* and bounds.  IInv is inductive; there is one lemma per action, with one *)
(* step per part of the invariant.                                         *)
(***************************************************************************)
EXTENDS CapitalTrader, FiniteSetTheorems, TLAPS

USE DEF data, orders, positions, account, workflow, closing, reconciling

(* The inductive invariant behind ClosedIsGone, PlacedHasRow and           *)
(* SubmittedIsPlaced.                                                      *)
Reading == {"orders", "importing", "closing"}

(* What the snapshot and the local rows say was true of the broker, and    *)
(* only a position that is gone is missing or about to be closed.          *)
MirrorInv ==
  \A d \in Deals :
    /\ deal[d] = "open" => broker_size[d] \in Sizes
    /\ position[d] = "OPEN" \/ seen[d] # 0 => deal[d] \in {"open", "gone"}
    /\ position[d] = "CLOSED" => deal[d] = "gone"
    /\ rpc \in Reading /\ position[d] = "OPEN" /\ seen[d] = 0 => deal[d] = "gone"
    /\ rpc = "importing" /\ d \in todo => seen[d] # 0
    /\ rpc = "closing" /\ d \in todo => deal[d] = "gone"

CloseInv ==
  \A c \in Closers :
    /\ cpc[c] = "idle" \/ target[c].deal # None
    /\ closed[c] => cpc[c] = "answered" /\ deal[target[c].deal] = "gone"

OrderInv ==
  /\ \A o \in Submissions :
       /\ o \in wire => state[o] # "none"
       /\ opc[o] = "placing" => state[o] # "none"
       /\ answer[o] # None => placed_by[answer[o].deal] = o
       /\ broker_order_id[o] # None => placed_by[broker_order_id[o].deal] = o
       /\ state[o] = "SUBMITTED" => broker_order_id[o] # None
  /\ \A d \in Deals : deal[d] = "unused" => placed_by[d] = None
  /\ PlacedHasRow

IInv == TypeOK /\ MirrorInv /\ CloseInv /\ OrderInv

(* The initial states satisfy the inductive invariant.                      *)
LEMMA InitInv == Init => IInv
<1> SUFFICES ASSUME Init PROVE IInv
  OBVIOUS
<1> USE DEF Init, DataInit, OrderInit, CloseInit, ReconcileInit
<1>1. TypeOK
  BY DataAssumption DEF TypeOK, DataTypeOK, OrderTypeOK, CloseTypeOK, ReconcileTypeOK,
     OrderStates, BrokerStates, Modes, Phases, Unseen, NoTarget
<1>2. MirrorInv
  BY DEF MirrorInv, Unseen, Reading
<1>3. CloseInv
  BY DEF CloseInv
<1>4. OrderInv
  BY DataAssumption DEF OrderInv, PlacedHasRow, Rows
<1> QED
  BY <1>1, <1>2, <1>3, <1>4 DEF IInv

-----------------------------------------------------------------------------
(* The order workflow and the broker's dealing with its requests.           *)

(* The gate only moves the submission on.                                   *)
LEMMA RiskInv ==
  ASSUME IInv, NEW o \in Submissions, NEW r,
         ReadPositions(o) \/ RiskApproves(o, r) \/ RiskRejects(o, r) \/ QuoteFails(o),
         UNCHANGED <<closing, reconciling, raced>>
  PROVE  IInv'
<1> USE DEF IInv, ReadPositions, RiskApproves, RiskRejects, QuoteFails
<1>1. TypeOK'
  BY DEF TypeOK, DataTypeOK, OrderTypeOK, CloseTypeOK, ReconcileTypeOK, OpenPositions
<1>2. MirrorInv'
  BY DEF MirrorInv, Reading
<1>3. CloseInv'
  BY DEF CloseInv
<1>4. OrderInv'
  BY DEF OrderInv, PlacedHasRow, TypeOK, OrderTypeOK
<1> QED
  BY <1>1, <1>2, <1>3, <1>4

(* The row is there before the request is on the wire.                      *)
LEMMA PersistInv ==
  ASSUME IInv, NEW o \in Submissions, PersistOrder(o),
         UNCHANGED <<closing, reconciling, raced>>
  PROVE  IInv'
<1> USE DEF IInv, PersistOrder, Mishap
<1>1. TypeOK'
  BY DataAssumption DEF TypeOK, DataTypeOK, OrderTypeOK, CloseTypeOK, ReconcileTypeOK, Rows, OrderStates
<1>2. MirrorInv'
  BY DEF MirrorInv, Reading
<1>3. CloseInv'
  BY DEF CloseInv
<1>4. OrderInv'
  BY DataAssumption DEF OrderInv, PlacedHasRow, TypeOK, DataTypeOK, OrderTypeOK, Rows
<1> QED
  BY <1>1, <1>2, <1>3, <1>4

(* A refusal leaves the tables and the account alone.                       *)
LEMMA RefusesInv ==
  ASSUME IInv, NEW o \in Submissions, BrokerRefuses(o),
         UNCHANGED <<closing, reconciling, raced>>
  PROVE  IInv'
<1> USE DEF IInv, BrokerRefuses
<1>1. TypeOK'
  BY DEF TypeOK, DataTypeOK, OrderTypeOK, CloseTypeOK, ReconcileTypeOK
<1>2. MirrorInv'
  BY DEF MirrorInv, Reading
<1>3. CloseInv'
  BY DEF CloseInv
<1>4. OrderInv'
  BY DEF OrderInv, PlacedHasRow
<1> QED
  BY <1>1, <1>2, <1>3, <1>4

(* The broker places the deal for a submission whose row exists.            *)
LEMMA AcceptsInv ==
  ASSUME IInv, NEW o \in Submissions, NEW d \in Deals, BrokerAccepts(o, d),
         UNCHANGED <<closing, reconciling, raced>>
  PROVE  IInv'
<1> USE DEF IInv, BrokerAccepts, Appears
<1>1. TypeOK'
  <2>1. ASSUME NEW name \in AnswerNames
        PROVE  [name |-> name, deal |-> d] \in BrokerIds
    BY <2>1, WorkflowAssumption DEF BrokerIds
  <2>2. answer' \in [Submissions -> BrokerIds \cup {None}]
    BY <2>1 DEF TypeOK, OrderTypeOK
  <2>3. deal' \in [Deals -> {"unused", "working", "open", "cancelled", "gone"}]
        /\ placed_by' \in [Deals -> Submissions \cup {None}]
        /\ broker_size' \in [Deals -> Sizes \cup {0}]
    BY DEF TypeOK, DataTypeOK
  <2> QED
    BY <2>2, <2>3 DEF TypeOK, DataTypeOK, OrderTypeOK, CloseTypeOK, ReconcileTypeOK
<1>2. MirrorInv'
  BY DEF MirrorInv, Reading, TypeOK, DataTypeOK
<1>3. CloseInv'
  BY DEF CloseInv, TypeOK, DataTypeOK
<1>4. OrderInv'
  <2>1. /\ deal[d] = "unused" /\ placed_by[d] = None /\ placed_by' = [placed_by EXCEPT ![d] = o]
        /\ deal'[d] # "unused" /\ \A e \in Deals \ {d} : deal'[e] = deal[e]
    <3>1. PICK s \in {"working", "open"} : deal' = [deal EXCEPT ![d] = s]
      OBVIOUS
    <3>2. deal[d] = "unused" /\ deal \in [Deals -> {"unused", "working", "open", "cancelled", "gone"}]
      BY DEF TypeOK, DataTypeOK
    <3>3. deal'[d] # "unused" /\ \A e \in Deals \ {d} : deal'[e] = deal[e]
      BY <3>1, <3>2
    <3> QED
      BY <3>2, <3>3 DEF OrderInv
  <2>2. /\ UNCHANGED <<state, broker_order_id, opc>> /\ wire' \subseteq wire /\ state[o] # "none"
        /\ None \notin Submissions /\ placed_by \in [Deals -> Submissions \cup {None}]
    BY DataAssumption DEF orders, TypeOK, DataTypeOK, OrderInv
  <2>3. /\ \A b \in BrokerIds : b.deal \in Deals
        /\ answer \in [Submissions -> BrokerIds \cup {None}]
        /\ \A p \in Submissions : broker_order_id[p] \in BrokerIds \cup {None}
    BY DEF TypeOK, DataTypeOK, OrderTypeOK, BrokerIds, Rows
  <2>4. \A p \in Submissions : answer'[p] # None => placed_by'[answer'[p].deal] = p
    <3>1. CASE UNCHANGED answer
      BY <2>1, <2>2, <2>3, <3>1 DEF OrderInv
    <3>2. CASE \E name \in AnswerNames : answer' = [answer EXCEPT ![o] = [name |-> name, deal |-> d]]
      BY <2>1, <2>2, <2>3, <3>2 DEF OrderInv
    <3> QED
      BY <3>1, <3>2
  <2>5. \A p \in Submissions :
          broker_order_id[p] # None => placed_by'[broker_order_id[p].deal] = p
    BY <2>1, <2>2, <2>3 DEF OrderInv
  <2>6. \A e \in Deals : deal'[e] = "unused" => placed_by'[e] = None
    BY <2>1, <2>2 DEF OrderInv
  <2>7. PlacedHasRow'
    <3>1. \A e \in Deals : placed_by'[e] = IF e = d THEN o ELSE placed_by[e]
      BY <2>1, <2>2
    <3> QED
      BY <2>2, <3>1 DEF OrderInv, PlacedHasRow
  <2> QED
    BY <2>2, <2>4, <2>5, <2>6, <2>7 DEF OrderInv
<1> QED
  BY <1>1, <1>2, <1>3, <1>4

(* A failed order keeps its row.                                            *)
LEMMA PlaceFailsInv ==
  ASSUME IInv, NEW o \in Submissions, PlaceFails(o),
         UNCHANGED <<closing, reconciling, raced>>
  PROVE  IInv'
<1> USE DEF IInv, PlaceFails, Mishap
<1>1. TypeOK'
  <2>1. state' \in [Rows -> OrderStates] /\ mishaps' \in 0..MaxMishaps
    BY DataAssumption DEF TypeOK, DataTypeOK, Rows, OrderStates
  <2>2. OrderTypeOK'
    BY DEF TypeOK, OrderTypeOK
  <2>3. DataTypeOK'
    BY <2>1 DEF TypeOK, DataTypeOK, positions, account
  <2> QED
    BY <2>2, <2>3 DEF TypeOK, CloseTypeOK, ReconcileTypeOK, closing, reconciling
<1>2. MirrorInv'
  BY DEF MirrorInv, Reading
<1>3. CloseInv'
  BY DEF CloseInv
<1>4. OrderInv'
  BY DataAssumption DEF OrderInv, PlacedHasRow, TypeOK, DataTypeOK, OrderTypeOK, Rows
<1> QED
  BY <1>1, <1>2, <1>3, <1>4

(* The row takes the identifier of the answer.                              *)
LEMMA PlaceSucceedsInv ==
  ASSUME IInv, NEW o \in Submissions, PlaceSucceeds(o),
         UNCHANGED <<closing, reconciling, raced>>
  PROVE  IInv'
<1> USE DEF IInv, PlaceSucceeds, Mishap
<1>1. TypeOK'
  <2>1. /\ state' \in [Rows -> OrderStates] /\ mishaps' \in 0..MaxMishaps
        /\ broker_order_id' \in [Rows -> BrokerIds \cup {None}]
    BY DataAssumption DEF TypeOK, DataTypeOK, OrderTypeOK, Rows, OrderStates, orders
  <2>2. OrderTypeOK'
    BY DEF TypeOK, OrderTypeOK
  <2>3. DataTypeOK'
    BY <2>1 DEF TypeOK, DataTypeOK, positions, account
  <2> QED
    BY <2>2, <2>3 DEF TypeOK, CloseTypeOK, ReconcileTypeOK, closing, reconciling
<1>2. MirrorInv'
  BY DEF MirrorInv, Reading
<1>3. CloseInv'
  BY DEF CloseInv
<1>4. OrderInv'
  BY DataAssumption DEF OrderInv, PlacedHasRow, TypeOK, DataTypeOK, OrderTypeOK, Rows
<1> QED
  BY <1>1, <1>2, <1>3, <1>4

-----------------------------------------------------------------------------
(* The close workflow.                                                      *)

(* A close begins with the size read from the row.                          *)
LEMMA ReadLocalInv ==
  ASSUME IInv, NEW c \in Closers, NEW d \in Deals, ReadLocal(c, d),
         UNCHANGED <<workflow, reconciling, raced>>
  PROVE  IInv'
<1> USE DEF IInv, ReadLocal
<1>1. TypeOK'
  <2>1. [deal |-> d, size |-> local_size[d]] \in
          [deal : Deals \cup {None}, size : Sizes \cup {0}]
    BY DEF TypeOK, DataTypeOK
  <2>2. target' \in [Closers -> [deal : Deals \cup {None}, size : Sizes \cup {0}]]
    BY <2>1 DEF TypeOK, CloseTypeOK
  <2> QED
    BY <2>2 DEF TypeOK, DataTypeOK, OrderTypeOK, CloseTypeOK, ReconcileTypeOK
<1>2. MirrorInv'
  BY DEF MirrorInv, Reading
<1>3. CloseInv'
  BY DataAssumption DEF CloseInv, TypeOK, CloseTypeOK
<1>4. OrderInv'
  BY DEF OrderInv, PlacedHasRow
<1> QED
  BY <1>1, <1>2, <1>3, <1>4

(* The ends of a close that write nothing.                                  *)
LEMMA PreviewInv ==
  ASSUME IInv, NEW c \in Closers, PreviewApproves(c) \/ PreviewEnds(c) \/ CloseFails(c),
         UNCHANGED <<workflow, reconciling, raced>>
  PROVE  IInv'
<1> USE DEF IInv, PreviewApproves, PreviewEnds, CloseFails, Return, NoTarget
<1>1. TypeOK'
  <2>1. NoTarget \in [deal : Deals \cup {None}, size : Sizes \cup {0}]
    OBVIOUS
  <2>2. target' \in [Closers -> [deal : Deals \cup {None}, size : Sizes \cup {0}]]
    <3> HIDE DEF NoTarget
    <3> QED
      BY <2>1 DEF TypeOK, CloseTypeOK
  <2> QED
    BY <2>2 DEF TypeOK, DataTypeOK, OrderTypeOK, CloseTypeOK, ReconcileTypeOK
<1>2. MirrorInv'
  BY DEF MirrorInv, Reading
<1>3. CloseInv'
  BY DEF CloseInv, TypeOK, CloseTypeOK
<1>4. OrderInv'
  BY DEF OrderInv, PlacedHasRow
<1> QED
  BY <1>1, <1>2, <1>3, <1>4

(* The broker closes the position: from now on it is gone.                  *)
LEMMA BrokerClosesInv ==
  ASSUME IInv, NEW c \in Closers, BrokerCloses(c),
         UNCHANGED <<workflow, reconciling, raced>>
  PROVE  IInv'
<1> USE DEF IInv, BrokerCloses
<1>1. TypeOK'
  BY DEF TypeOK, DataTypeOK, OrderTypeOK, CloseTypeOK, ReconcileTypeOK
<1>2. MirrorInv'
  BY DataAssumption DEF MirrorInv, Reading, TypeOK, DataTypeOK, CloseInv
<1>3. CloseInv'
  BY DEF CloseInv, TypeOK, DataTypeOK, CloseTypeOK
<1>4. OrderInv'
  BY DataAssumption DEF OrderInv, PlacedHasRow, TypeOK, DataTypeOK, CloseTypeOK
<1> QED
  BY <1>1, <1>2, <1>3, <1>4

(* The row is closed after the broker's answer.                             *)
LEMMA CloseSucceedsInv ==
  ASSUME IInv, NEW c \in Closers, CloseSucceeds(c),
         UNCHANGED <<workflow, reconciling, raced>>
  PROVE  IInv'
<1> USE DEF IInv, CloseSucceeds, Return, NoTarget, Mishap
<1>1. TypeOK'
  <2>1. position' \in [Deals -> {"none", "OPEN", "CLOSED"}] /\ mishaps' \in 0..MaxMishaps
    BY DataAssumption DEF TypeOK, DataTypeOK
  <2>2. DataTypeOK'
    BY <2>1 DEF TypeOK, DataTypeOK, orders, account
  <2>3. CloseTypeOK'
    BY DEF TypeOK, CloseTypeOK
  <2> QED
    BY <2>2, <2>3 DEF TypeOK, OrderTypeOK, ReconcileTypeOK, workflow, reconciling
<1>2. MirrorInv'
  BY DEF MirrorInv, Reading, TypeOK, DataTypeOK, CloseInv, CloseTypeOK
<1>3. CloseInv'
  BY DataAssumption DEF CloseInv, TypeOK, CloseTypeOK
<1>4. OrderInv'
  BY DEF OrderInv, PlacedHasRow
<1> QED
  BY <1>1, <1>2, <1>3, <1>4

-----------------------------------------------------------------------------
(* Reconciliation.                                                          *)

(* A run begins without a snapshot.                                         *)
LEMMA StartRunInv ==
  ASSUME IInv, StartRun,
         raced' \subseteq Deals,
         UNCHANGED <<workflow, closing>>
  PROVE  IInv'
<1> USE DEF IInv, StartRun, Enter
<1>1. TypeOK'
  BY DEF TypeOK, DataTypeOK, OrderTypeOK, CloseTypeOK, ReconcileTypeOK, Phases
<1>2. MirrorInv'
  BY DEF MirrorInv, Reading
<1>3. CloseInv'
  BY DEF CloseInv
<1>4. OrderInv'
  BY DEF OrderInv, PlacedHasRow
<1> QED
  BY <1>1, <1>2, <1>3, <1>4

(* An OPEN row that the snapshot lacks is of a position that is gone.       *)
LEMMA FetchPositionsInv ==
  ASSUME IInv, FetchPositions,
         raced' \subseteq Deals,
         UNCHANGED <<workflow, closing>>
  PROVE  IInv'
<1> USE DEF IInv, FetchPositions, Enter
<1>1. TypeOK'
  BY DEF TypeOK, DataTypeOK, OrderTypeOK, CloseTypeOK, ReconcileTypeOK, Phases
<1>2. MirrorInv'
  BY DataAssumption DEF MirrorInv, Reading, TypeOK, DataTypeOK, ReconcileTypeOK
<1>3. CloseInv'
  BY DEF CloseInv
<1>4. OrderInv'
  BY DEF OrderInv, PlacedHasRow
<1> QED
  BY <1>1, <1>2, <1>3, <1>4

(* The loop goes over the positions of the snapshot.                        *)
LEMMA FetchOrdersInv ==
  ASSUME IInv, FetchOrders,
         raced' \subseteq Deals,
         UNCHANGED <<workflow, closing>>
  PROVE  IInv'
<1> USE DEF IInv, FetchOrders, Enter, Seen
<1>1. TypeOK'
  BY DEF TypeOK, DataTypeOK, OrderTypeOK, CloseTypeOK, ReconcileTypeOK, Phases
<1>2. MirrorInv'
  BY DEF MirrorInv, Reading
<1>3. CloseInv'
  BY DEF CloseInv
<1>4. OrderInv'
  BY DEF OrderInv, PlacedHasRow
<1> QED
  BY <1>1, <1>2, <1>3, <1>4

(* An imported row is of a position the snapshot has.                       *)
LEMMA ImportPositionInv ==
  ASSUME IInv, NEW d \in Deals, ImportPosition(d),
         raced' \subseteq Deals,
         UNCHANGED <<workflow, closing>>
  PROVE  IInv'
<1> USE DEF IInv, ImportPosition, Done
<1>1. TypeOK'
  BY DEF TypeOK, DataTypeOK, OrderTypeOK, CloseTypeOK, ReconcileTypeOK
<1>2. MirrorInv'
  BY DEF MirrorInv, Reading, TypeOK, DataTypeOK, ReconcileTypeOK
<1>3. CloseInv'
  BY DEF CloseInv
<1>4. OrderInv'
  BY DEF OrderInv, PlacedHasRow
<1> QED
  BY <1>1, <1>2, <1>3, <1>4

(* What is to be closed is gone.                                            *)
LEMMA ReadOpenInv ==
  ASSUME IInv, ReadOpen,
         raced' \subseteq Deals,
         UNCHANGED <<workflow, closing>>
  PROVE  IInv'
<1> USE DEF IInv, ReadOpen, Enter, OpenPositions, Seen
<1>1. TypeOK'
  BY DEF TypeOK, DataTypeOK, OrderTypeOK, CloseTypeOK, ReconcileTypeOK, Phases
<1>2. MirrorInv'
  BY DEF MirrorInv, Reading
<1>3. CloseInv'
  BY DEF CloseInv
<1>4. OrderInv'
  BY DEF OrderInv, PlacedHasRow
<1> QED
  BY <1>1, <1>2, <1>3, <1>4

(* The row of a missing position is closed.                                 *)
LEMMA CloseMissingInv ==
  ASSUME IInv, NEW d \in Deals, CloseMissing(d),
         raced' \subseteq Deals,
         UNCHANGED <<workflow, closing>>
  PROVE  IInv'
<1> USE DEF IInv, CloseMissing, Done
<1>1. TypeOK'
  BY DEF TypeOK, DataTypeOK, OrderTypeOK, CloseTypeOK, ReconcileTypeOK
<1>2. MirrorInv'
  BY DEF MirrorInv, Reading, TypeOK, DataTypeOK, ReconcileTypeOK
<1>3. CloseInv'
  BY DEF CloseInv
<1>4. OrderInv'
  BY DEF OrderInv, PlacedHasRow
<1> QED
  BY <1>1, <1>2, <1>3, <1>4

(* The snapshot of positions is no longer needed.                           *)
LEMMA StartMatchingInv ==
  ASSUME IInv, StartMatching,
         raced' \subseteq Deals,
         UNCHANGED <<workflow, closing>>
  PROVE  IInv'
<1> USE DEF IInv, StartMatching, Enter, Unseen
<1>1. TypeOK'
  BY DEF TypeOK, DataTypeOK, OrderTypeOK, CloseTypeOK, ReconcileTypeOK, Phases
<1>2. MirrorInv'
  BY DEF MirrorInv, Reading
<1>3. CloseInv'
  BY DEF CloseInv
<1>4. OrderInv'
  BY DEF OrderInv, PlacedHasRow
<1> QED
  BY <1>1, <1>2, <1>3, <1>4

(* An order without a row is kept in mind. *)
LEMMA LookupOrderInv ==
  ASSUME IInv, NEW d \in Deals, LookupOrder(d),
         raced' \subseteq Deals,
         UNCHANGED <<workflow, closing>>
  PROVE  IInv'
<1> USE DEF IInv, LookupOrder
<1>1. TypeOK'
  BY DEF TypeOK, DataTypeOK, OrderTypeOK, CloseTypeOK, ReconcileTypeOK
<1>2. MirrorInv'
  BY DEF MirrorInv, Reading
<1>3. CloseInv'
  BY DEF CloseInv
<1>4. OrderInv'
  BY DEF OrderInv, PlacedHasRow
<1> QED
  BY <1>1, <1>2, <1>3, <1>4

(* An imported order is no submission's row.                                *)
LEMMA ImportOrderInv ==
  ASSUME IInv, NEW d \in Deals, NEW s \in BrokerStates, ImportOrder(d, s),
         raced' \subseteq Deals,
         UNCHANGED <<workflow, closing>>
  PROVE  IInv'
<1> USE DEF IInv, ImportOrder, Done
<1>1. TypeOK'
  BY DEF TypeOK, DataTypeOK, OrderTypeOK, CloseTypeOK, ReconcileTypeOK, Rows, OrderStates, BrokerIds, DealId
<1>2. MirrorInv'
  BY DEF MirrorInv, Reading
<1>3. CloseInv'
  BY DEF CloseInv
<1>4. OrderInv'
  BY DataAssumption DEF OrderInv, PlacedHasRow, TypeOK, DataTypeOK, Rows, BrokerStates
<1> QED
  BY <1>1, <1>2, <1>3, <1>4

(* A drift update never empties a row.                                      *)
LEMMA UpdateOrderInv ==
  ASSUME IInv, NEW d \in Deals, NEW s \in BrokerStates, UpdateOrder(d, s),
         raced' \subseteq Deals,
         UNCHANGED <<workflow, closing>>
  PROVE  IInv'
<1> USE DEF IInv, UpdateOrder, Done
<1>1. TypeOK'
  BY DEF TypeOK, DataTypeOK, OrderTypeOK, CloseTypeOK, ReconcileTypeOK, Rows, OrderStates
<1>2. MirrorInv'
  BY DEF MirrorInv, Reading
<1>3. CloseInv'
  BY DEF CloseInv
<1>4. OrderInv'
  BY DataAssumption DEF OrderInv, PlacedHasRow, TypeOK, DataTypeOK, Rows, BrokerStates
<1> QED
  BY <1>1, <1>2, <1>3, <1>4

(* The end of a run touches the run row only.                               *)
LEMMA CompleteInv ==
  ASSUME IInv, Complete \/ Logged,
         raced' \subseteq Deals,
         UNCHANGED <<workflow, closing>>
  PROVE  IInv'
<1> USE DEF IInv, Complete, Logged, Enter, Sleep, Idle, Unseen
<1>1. TypeOK'
  BY DEF TypeOK, DataTypeOK, OrderTypeOK, CloseTypeOK, ReconcileTypeOK, Phases
<1>2. MirrorInv'
  BY DEF MirrorInv, Reading
<1>3. CloseInv'
  BY DEF CloseInv
<1>4. OrderInv'
  BY DEF OrderInv, PlacedHasRow
<1> QED
  BY <1>1, <1>2, <1>3, <1>4

(* A failed run leaves the tables as they are.                              *)
LEMMA RunFailsInv ==
  ASSUME IInv, RunFails,
         raced' \subseteq Deals,
         UNCHANGED <<workflow, closing>>
  PROVE  IInv'
<1> USE DEF IInv, RunFails, Abandon, Mishap, Enter, Sleep, Idle, Unseen
<1>1. TypeOK'
  BY DataAssumption DEF TypeOK, DataTypeOK, OrderTypeOK, CloseTypeOK, ReconcileTypeOK, Phases, Modes
<1>2. MirrorInv'
  BY DEF MirrorInv, Reading
<1>3. CloseInv'
  BY DEF CloseInv
<1>4. OrderInv'
  BY DEF OrderInv, PlacedHasRow
<1> QED
  BY <1>1, <1>2, <1>3, <1>4

(* So does a run that meets a duplicate.                                    *)
LEMMA DuplicateInv ==
  ASSUME IInv, NEW d \in Deals, DuplicateFails(d),
         raced' \subseteq Deals,
         UNCHANGED <<workflow, closing>>
  PROVE  IInv'
<1> USE DEF IInv, DuplicateFails, Abandon, Enter, Sleep, Idle, Unseen
<1>1. TypeOK'
  BY DEF TypeOK, DataTypeOK, OrderTypeOK, CloseTypeOK, ReconcileTypeOK, Phases, Modes
<1>2. MirrorInv'
  BY DEF MirrorInv, Reading
<1>3. CloseInv'
  BY DEF CloseInv
<1>4. OrderInv'
  BY DEF OrderInv, PlacedHasRow
<1> QED
  BY <1>1, <1>2, <1>3, <1>4

-----------------------------------------------------------------------------
(* The account and restarts.                                                *)

(* A deal opened elsewhere has no local row.                                *)
LEMMA OpenedElsewhereInv ==
  ASSUME IInv, NEW d \in Deals, OpenedElsewhere(d),
         UNCHANGED <<workflow, closing, reconciling, raced>>
  PROVE  IInv'
<1> USE DEF IInv, OpenedElsewhere, Appears
<1>1. TypeOK'
  BY DEF TypeOK, DataTypeOK, OrderTypeOK, CloseTypeOK, ReconcileTypeOK
<1>2. MirrorInv'
  BY DEF MirrorInv, Reading, TypeOK, DataTypeOK
<1>3. CloseInv'
  BY DEF CloseInv, TypeOK, DataTypeOK
<1>4. OrderInv'
  BY DataAssumption DEF OrderInv, PlacedHasRow, TypeOK, DataTypeOK, OrderTypeOK
<1> QED
  BY <1>1, <1>2, <1>3, <1>4

(* A working order becomes a position.                                      *)
LEMMA FillsInv ==
  ASSUME IInv, NEW d \in Deals, Fills(d),
         UNCHANGED <<workflow, closing, reconciling, raced>>
  PROVE  IInv'
<1> USE DEF IInv, Fills
<1>1. TypeOK'
  BY DEF TypeOK, DataTypeOK, OrderTypeOK, CloseTypeOK, ReconcileTypeOK
<1>2. MirrorInv'
  BY DEF MirrorInv, Reading, TypeOK, DataTypeOK
<1>3. CloseInv'
  BY DEF CloseInv, TypeOK, DataTypeOK
<1>4. OrderInv'
  BY DEF OrderInv, PlacedHasRow, TypeOK, DataTypeOK
<1> QED
  BY <1>1, <1>2, <1>3, <1>4

(* A reduced position is still open.                                        *)
LEMMA ReducedInv ==
  ASSUME IInv, NEW d \in Deals, Reduced(d),
         UNCHANGED <<workflow, closing, reconciling, raced>>
  PROVE  IInv'
<1> USE DEF IInv, Reduced
<1>1. TypeOK'
  BY DEF TypeOK, DataTypeOK, OrderTypeOK, CloseTypeOK, ReconcileTypeOK
<1>2. MirrorInv'
  BY DEF MirrorInv, Reading, TypeOK, DataTypeOK
<1>3. CloseInv'
  BY DEF CloseInv
<1>4. OrderInv'
  BY DEF OrderInv, PlacedHasRow
<1> QED
  BY <1>1, <1>2, <1>3, <1>4

(* A position that vanished is gone for good.                               *)
LEMMA VanishesInv ==
  ASSUME IInv, NEW d \in Deals, Vanishes(d),
         UNCHANGED <<workflow, closing, reconciling, raced>>
  PROVE  IInv'
<1> USE DEF IInv, Vanishes
<1>1. TypeOK'
  BY DEF TypeOK, DataTypeOK, OrderTypeOK, CloseTypeOK, ReconcileTypeOK
<1>2. MirrorInv'
  BY DataAssumption DEF MirrorInv, Reading, TypeOK, DataTypeOK
<1>3. CloseInv'
  BY DEF CloseInv, TypeOK, DataTypeOK
<1>4. OrderInv'
  BY DEF OrderInv, PlacedHasRow, TypeOK, DataTypeOK
<1> QED
  BY <1>1, <1>2, <1>3, <1>4

(* A restart forgets the calls and the snapshot.                            *)
LEMMA RestartInv ==
  ASSUME IInv, Restart
  PROVE  IInv'
<1> USE DEF IInv, Restart, Boot, Mishap, Enter, Sleep, Idle, Unseen
<1>1. TypeOK'
  BY DataAssumption DEF TypeOK, DataTypeOK, OrderTypeOK, CloseTypeOK, ReconcileTypeOK, Phases, Modes, NoTarget
<1>2. MirrorInv'
  BY DEF MirrorInv, Reading
<1>3. CloseInv'
  BY DEF CloseInv, NoTarget
<1>4. OrderInv'
  BY DEF OrderInv, PlacedHasRow, TypeOK, OrderTypeOK
<1> QED
  BY <1>1, <1>2, <1>3, <1>4

-----------------------------------------------------------------------------
(* Every step keeps the invariant: one step per action of Next.             *)
LEMMA NextInv == IInv /\ [Next]_vars => IInv'
<1> SUFFICES ASSUME IInv, [Next]_vars PROVE IInv'
  OBVIOUS
<1>1. ASSUME NEW o \in Submissions, Submission(o) \/ OrderBroker(o),
             UNCHANGED <<closing, reconciling, raced>>
      PROVE  IInv'
  BY <1>1, RiskInv, PersistInv, PlaceFailsInv, PlaceSucceedsInv, RefusesInv, AcceptsInv
  DEF Submission, OrderBroker
<1>2. ASSUME NEW c \in Closers, Close(c) \/ BrokerCloses(c),
             UNCHANGED <<workflow, reconciling, raced>>
      PROVE  IInv'
  BY <1>2, ReadLocalInv, PreviewInv, CloseSucceedsInv, BrokerClosesInv DEF Close
<1>3. ASSUME Reconcile \/ RunFails, Races, UNCHANGED <<workflow, closing>>
      PROVE  IInv'
  <2>1. raced' \subseteq Deals
    BY <1>3 DEF Races, IInv, TypeOK
  <2>2. ASSUME NEW d \in Deals, ImportPosition(d) PROVE IInv'
    BY <1>3, <2>1, <2>2, ImportPositionInv
  <2>3. ASSUME NEW d \in Deals, MatchOrder(d) PROVE IInv'
    BY <1>3, <2>1, <2>3, LookupOrderInv, ImportOrderInv, UpdateOrderInv, DuplicateInv DEF MatchOrder
  <2> QED
    BY <1>3, <2>1, <2>2, <2>3, StartRunInv, FetchPositionsInv, FetchOrdersInv,
       ReadOpenInv, CloseMissingInv, StartMatchingInv, CompleteInv, RunFailsInv
    DEF Reconcile
<1>4. ASSUME NEW d \in Deals, AccountMoves(d),
             UNCHANGED <<workflow, closing, reconciling, raced>>
      PROVE  IInv'
  BY <1>4, OpenedElsewhereInv, FillsInv, ReducedInv, VanishesInv DEF AccountMoves
<1>5. ASSUME Restart PROVE IInv'
  BY <1>5, RestartInv
<1>6. ASSUME UNCHANGED vars PROVE IInv'
  <2> USE <1>6 DEF vars, IInv
  <2>1. TypeOK'
    BY DEF TypeOK, DataTypeOK, OrderTypeOK, CloseTypeOK, ReconcileTypeOK
  <2>2. MirrorInv' /\ CloseInv' /\ OrderInv'
    BY DEF MirrorInv, Reading, CloseInv, OrderInv, PlacedHasRow
  <2> QED
    BY <2>1, <2>2
<1> QED
  BY <1>1, <1>2, <1>3, <1>4, <1>5, <1>6 DEF Next

(* The inductive invariant holds of every behaviour.                         *)
THEOREM Invariance == Spec => []IInv
BY InitInv, NextInv, PTL DEF Spec

(* Every variable keeps its type: no row ever has an unknown status.        *)
THEOREM TypeCorrect == Spec => []TypeOK
<1>1. IInv => TypeOK
  BY DEF IInv
<1> QED
  BY <1>1, Invariance, PTL

(* A row says CLOSED only of a position the broker no longer holds, however *)
(* stale the snapshots and whatever answers are lost.                       *)
THEOREM ClosedIsTrue == Spec => []ClosedIsGone
<1>1. IInv => ClosedIsGone
  BY DEF IInv, MirrorInv, ClosedIsGone
<1> QED
  BY <1>1, Invariance, PTL

(* Every deal the workflow placed has a local row, whatever failed later.   *)
THEOREM PlacedIsStored == Spec => []PlacedHasRow
<1>1. IInv => PlacedHasRow
  BY DEF IInv, OrderInv
<1> QED
  BY <1>1, Invariance, PTL

(* A SUBMITTED row names a deal that the broker accepted from it.           *)
THEOREM SubmittedIsTrue == Spec => []SubmittedIsPlaced
<1>1. IInv => SubmittedIsPlaced
  <2> SUFFICES ASSUME IInv, NEW o \in Submissions, state[o] = "SUBMITTED"
               PROVE  \E d \in Deals :
                        /\ placed_by[d] = o
                        /\ broker_order_id[o] \in {DealId(d), Reference(d)}
    BY DEF SubmittedIsPlaced
  <2>1. broker_order_id[o] # None /\ placed_by[broker_order_id[o].deal] = o
    BY DEF IInv, OrderInv
  <2>2. broker_order_id[o] \in BrokerIds
    BY <2>1 DEF IInv, TypeOK, DataTypeOK, Rows
  <2>3. /\ broker_order_id[o].deal \in Deals
        /\ broker_order_id[o] \in {DealId(broker_order_id[o].deal),
                                   Reference(broker_order_id[o].deal)}
    BY <2>2 DEF BrokerIds, DealId, Reference
  <2> QED
    BY <2>1, <2>3
<1> QED
  BY <1>1, Invariance, PTL

(* No step opens a CLOSED row again, not even the import of a snapshot that *)
(* was taken while the position was open.                                   *)
THEOREM ClosedForever == Spec => NeverReopened
<1>1. IInv /\ [Next]_vars =>
        [\A d \in Deals : position[d] = "CLOSED" => position'[d] = "CLOSED"]_vars
  <2> SUFFICES ASSUME IInv, Next, NEW d \in Deals, position[d] = "CLOSED"
               PROVE  position'[d] = "CLOSED"
    OBVIOUS
  <2>1. ASSUME NEW e \in Deals,
               \/ position' = [position EXCEPT ![e] = "CLOSED"]
               \/ position[e] = "none" /\ position' = [position EXCEPT ![e] = "OPEN"]
               \/ position' = position
        PROVE  position'[d] = "CLOSED"
    BY <2>1 DEF IInv, TypeOK, DataTypeOK
  <2>2. ASSUME NEW o \in Submissions, Submission(o) \/ OrderBroker(o)
        PROVE  position' = position
    BY <2>2 DEF Submission, OrderBroker, ReadPositions, RiskApproves, RiskRejects, QuoteFails, PersistOrder,
       PlaceFails, PlaceSucceeds, BrokerRefuses, BrokerAccepts
  <2>3. ASSUME NEW c \in Closers, Close(c) \/ BrokerCloses(c)
        PROVE  position' = position \/ position' = [position EXCEPT ![target[c].deal] = "CLOSED"]
    BY <2>3 DEF Close, ReadLocal, PreviewApproves, PreviewEnds, CloseFails, CloseSucceeds,
       BrokerCloses, Return
  <2>4. ASSUME NEW e \in Deals, ImportPosition(e) \/ CloseMissing(e)
        PROVE  position'[d] = "CLOSED"
    BY <2>1, <2>4 DEF ImportPosition, CloseMissing
  <2>5. ASSUME NEW e \in Deals, MatchOrder(e)
        PROVE  position' = position
    BY <2>5 DEF MatchOrder, LookupOrder, ImportOrder, UpdateOrder, DuplicateFails, Abandon
  <2>6. ASSUME Reconcile \/ RunFails PROVE position'[d] = "CLOSED"
    BY <2>4, <2>5, <2>6 DEF Reconcile, StartRun, FetchPositions, FetchOrders, ReadOpen,
       StartMatching, Complete, Logged, RunFails, Abandon
  <2>7. ASSUME NEW e \in Deals, AccountMoves(e) PROVE position' = position
    BY <2>7 DEF AccountMoves, OpenedElsewhere, Fills, Reduced, Vanishes
  <2>8. ASSUME Restart PROVE position' = position
    BY <2>8 DEF Restart
  <2>9. ASSUME NEW c \in Closers, Close(c) \/ BrokerCloses(c) PROVE position'[d] = "CLOSED"
    BY <2>3, <2>9 DEF IInv, TypeOK, DataTypeOK
  <2> QED
    BY <2>2, <2>6, <2>7, <2>8, <2>9 DEF Next
<1> QED
  BY <1>1, Invariance, PTL DEF Spec, NeverReopened

-----------------------------------------------------------------------------
(* Runs of reconciliation: a row that is not settled after its run was left *)
(* by a mishap.                                                             *)
SettledInv ==
  run = "RUNNING" /\ rpc \in {"sleeping", "stopped", "logging"} => mishaps > 0

(* A step leaves the row as it is, ends its run, or is a mishap. *)
LEMMA SettledNext == IInv /\ SettledInv /\ [Next]_vars => SettledInv'
<1> SUFFICES ASSUME IInv, SettledInv, [Next]_vars PROVE SettledInv'
  OBVIOUS
<1>1. mishaps \in Nat
  BY DataAssumption DEF IInv, TypeOK, DataTypeOK
<1>2. ASSUME NEW o \in Submissions, Submission(o) \/ OrderBroker(o), UNCHANGED reconciling
      PROVE  SettledInv'
  <2>1. mishaps' = mishaps \/ mishaps' = mishaps + 1
    BY <1>2 DEF Submission, OrderBroker, ReadPositions, RiskApproves, RiskRejects, QuoteFails, PersistOrder,
       PlaceFails, PlaceSucceeds, BrokerRefuses, BrokerAccepts, Mishap
  <2> QED
    BY <1>1, <1>2, <2>1 DEF SettledInv
<1>3. ASSUME NEW c \in Closers, Close(c) \/ BrokerCloses(c), UNCHANGED reconciling
      PROVE  SettledInv'
  <2>1. mishaps' = mishaps \/ mishaps' = mishaps + 1
    BY <1>3 DEF Close, ReadLocal, PreviewApproves, PreviewEnds, CloseFails, CloseSucceeds,
       BrokerCloses, Mishap
  <2> QED
    BY <1>1, <1>3, <2>1 DEF SettledInv
<1>4. ASSUME NEW d \in Deals, ImportPosition(d) \/ CloseMissing(d) \/ MatchOrder(d)
      PROVE  SettledInv'
  BY <1>4 DEF SettledInv, ImportPosition, CloseMissing, MatchOrder, LookupOrder, ImportOrder, UpdateOrder,
     DuplicateFails, Abandon, Done
<1>5. ASSUME Reconcile PROVE SettledInv'
  BY <1>4, <1>5 DEF SettledInv, Reconcile, StartRun, FetchPositions, FetchOrders, ReadOpen,
     StartMatching, Complete, Logged, Enter, Sleep, Idle
<1>6. ASSUME RunFails \/ Restart PROVE SettledInv'
  BY <1>1, <1>6 DEF SettledInv, RunFails, Restart, Mishap
<1>7. ASSUME NEW d \in Deals, AccountMoves(d), UNCHANGED reconciling
      PROVE  SettledInv'
  BY <1>7 DEF SettledInv, AccountMoves, OpenedElsewhere, Fills, Reduced, Vanishes
<1>8. ASSUME UNCHANGED vars PROVE SettledInv'
  BY <1>8 DEF SettledInv, vars
<1> QED
  BY <1>2, <1>3, <1>5, <1>6, <1>7, <1>8 DEF Next

(* A run's row says how the run ended, unless the process ended with it or *)
(* the database failed (reconciliation_service.py:95-151).                 *)
THEOREM RunsEndMarked == Spec => []RunsSettled
<1>1. Init => SettledInv
  BY DEF Init, ReconcileInit, SettledInv
<1>2. SettledInv => RunsSettled
  BY DEF SettledInv, RunsSettled
<1> QED
  BY <1>1, <1>2, SettledNext, Invariance, PTL DEF Spec

-----------------------------------------------------------------------------
(* The race for an order's row.  Reconciliation claims an order when it     *)
(* finds no row of it; the row it then makes is named after the deal.  Only *)
(* the submission that placed the order can give its identifier to a        *)
(* second row, and if it had not yet done so when the order was claimed,    *)
(* that was noted as a race.                                                *)
Placed == {"placing", "ended"}

Claimed(d) == broker_order_id[d] # None \/ orphan = d

RaceInv ==
  /\ \A d \in Deals : broker_order_id[d] # None => broker_order_id[d] = DealId(d)
  /\ \A d \in Deals : Claimed(d) => deal[d] # "unused"
  /\ \A d \in listed : deal[d] # "unused"
  /\ rpc = "matching" => \A d \in todo : deal[d] # "unused"
  /\ \A o \in wire : opc[o] \in Placed
  /\ \A d \in Deals : placed_by[d] # None => opc[placed_by[d]] \in Placed
  /\ \A d \in Deals :
       Claimed(d) /\ placed_by[d] # None /\ opc[placed_by[d]] = "placing" => d \in raced
  /\ \A d \in Deals, o \in Submissions :
       Claimed(d) /\ broker_order_id[o] = DealId(d) => d \in raced

(* The submission's steps: only its answer names a row, and it names the   *)
(* deal that was placed for it.                                            *)
LEMMA RaceSubmission ==
  ASSUME IInv, RaceInv, NEW o \in Submissions, Submission(o) \/ OrderBroker(o),
         UNCHANGED <<closing, reconciling, raced>>
  PROVE  RaceInv'
<1> USE DEF RaceInv, Claimed, Placed, Rows
<1>0. TypeOK /\ OrderInv
  BY DEF IInv
<1>1. CASE \/ QuoteFails(o) \/ ReadPositions(o)
           \/ \E r \in OrderRequests : RiskApproves(o, r) \/ RiskRejects(o, r)
  BY <1>0, <1>1 DEF QuoteFails, ReadPositions, RiskApproves, RiskRejects, TypeOK, OrderTypeOK, DataTypeOK
<1>2. CASE PersistOrder(o)
  BY <1>0, <1>2, DataAssumption DEF PersistOrder, TypeOK, OrderTypeOK, DataTypeOK
<1>3. CASE PlaceFails(o)
  BY <1>0, <1>3, DataAssumption DEF PlaceFails, TypeOK, OrderTypeOK, DataTypeOK
<1>4. CASE PlaceSucceeds(o)
  <2>1. answer[o] \in BrokerIds /\ placed_by[answer[o].deal] = o /\ opc[o] = "placing"
    BY <1>0, <1>4 DEF PlaceSucceeds, TypeOK, OrderTypeOK, OrderInv
  <2>2. \A d \in Deals : broker_order_id'[d] = broker_order_id[d] /\ d # o
    BY <1>0, <1>4, DataAssumption DEF PlaceSucceeds, TypeOK, DataTypeOK
  <2>3. ASSUME NEW d \in Deals, answer[o] = DealId(d), Claimed(d)
        PROVE  d \in raced
    BY <2>1, <2>3, <1>0, DataAssumption DEF DealId, TypeOK, DataTypeOK
  <2>4. \A p \in Submissions : broker_order_id'[p] = broker_order_id[p]
                              \/ (p = o /\ broker_order_id'[p] = answer[o])
    BY <1>0, <1>4 DEF PlaceSucceeds, TypeOK, DataTypeOK
  <2>5. \A p \in Submissions : opc'[p] = opc[p] \/ opc'[p] = "ended"
    BY <1>0, <1>4 DEF PlaceSucceeds, TypeOK, OrderTypeOK
  <2> QED
    BY <1>0, <1>4, <2>2, <2>3, <2>4, <2>5 DEF PlaceSucceeds
<1>5. CASE BrokerRefuses(o)
  BY <1>5 DEF BrokerRefuses
<1>6. ASSUME NEW d \in Deals, BrokerAccepts(o, d)
      PROVE  RaceInv'
  <2>1. deal[d] = "unused" /\ broker_order_id[d] = None /\ opc[o] \in Placed
    BY <1>6 DEF BrokerAccepts, Appears
  <2>2. \A e \in Deals : (e # d => deal'[e] = deal[e] /\ placed_by'[e] = placed_by[e])
                        /\ deal'[d] # "unused" /\ placed_by'[d] = o
    BY <1>0, <1>6 DEF BrokerAccepts, Appears, TypeOK, DataTypeOK
  <2> QED
    BY <1>0, <1>6, <2>1, <2>2 DEF BrokerAccepts, TypeOK, DataTypeOK, OrderTypeOK, ReconcileTypeOK
<1> QED
  BY <1>1, <1>2, <1>3, <1>4, <1>5, <1>6 DEF Submission, OrderBroker

(* A lookup that finds no row is noted if the order's submission is still  *)
(* waiting for the answer.                                                 *)
LEMMA RaceLookup ==
  ASSUME IInv, RaceInv, NEW d \in Deals, LookupOrder(d), Races, UNCHANGED <<workflow, closing>>
  PROVE  RaceInv'
<1> USE DEF RaceInv, Claimed, Placed, Rows
<1>1. /\ orphan' = d /\ deal[d] # "unused"
      /\ UNCHANGED <<broker_order_id, deal, placed_by, listed, rpc, todo>>
  BY DEF LookupOrder
<1>2. \A r \in Rows : broker_order_id[r] # DealId(d)
  BY DEF LookupOrder, Matches
<1>3. raced \subseteq raced'
      /\ (placed_by[d] # None /\ opc[placed_by[d]] = "placing" => d \in raced')
  BY <1>1 DEF Races
<1> QED
  BY <1>1, <1>2, <1>3

(* An import makes the row of an order that was claimed before. *)
LEMMA RaceImport ==
  ASSUME IInv, RaceInv, NEW d \in Deals, NEW s \in BrokerStates, ImportOrder(d, s),
         Races, UNCHANGED <<workflow, closing>>
  PROVE  RaceInv'
<1> USE DEF RaceInv, Claimed, Placed, Rows
<1>1. /\ broker_order_id' = [broker_order_id EXCEPT ![d] = DealId(d)]
      /\ UNCHANGED <<deal, placed_by, listed, rpc>> /\ todo' = todo \ {d}
      /\ orphan = d /\ orphan' = None
  BY DEF ImportOrder, Done
<1>2. broker_order_id'[d] = DealId(d)
      /\ \A r \in Rows : r # d => broker_order_id'[r] = broker_order_id[r]
  BY <1>1 DEF IInv, TypeOK, DataTypeOK
<1>3. \A e \in Deals : Claimed(e)' => Claimed(e)
  BY <1>1, <1>2, DataAssumption
<1>4. raced \subseteq raced'
  BY DEF Races
<1>5. \A o \in Submissions : broker_order_id'[o] = broker_order_id[o]
  BY <1>2, DataAssumption
<1> QED
  BY <1>1, <1>2, <1>3, <1>4, <1>5 DEF IInv, TypeOK, DataTypeOK, OrderTypeOK, ReconcileTypeOK

(* The other steps of reconciliation give no row an identifier.             *)
LEMMA RaceReconcile ==
  ASSUME IInv, RaceInv, Reconcile \/ RunFails, Races, UNCHANGED <<workflow, closing>>
  PROVE  RaceInv'
<1> USE DEF RaceInv, Claimed, Placed, Rows
<1>1. ASSUME UNCHANGED <<broker_order_id, deal, placed_by>>,
             listed' \subseteq listed, orphan' = None \/ UNCHANGED orphan,
             rpc' # "matching"
      PROVE  RaceInv'
  BY <1>1, DataAssumption DEF Races, IInv, TypeOK
<1>2. CASE StartRun \/ FetchPositions \/ ReadOpen \/ Complete \/ Logged
  BY <1>1, <1>2 DEF StartRun, FetchPositions, ReadOpen, Complete, Logged, Enter, Sleep, Idle
<1>3. CASE FetchOrders
  BY <1>3, DataAssumption DEF FetchOrders, Enter, Races
<1>4. CASE StartMatching
  BY <1>4, DataAssumption DEF StartMatching, Enter, Races
<1>5. ASSUME NEW d \in Deals, ImportPosition(d) \/ CloseMissing(d)
      PROVE  RaceInv'
  BY <1>1, <1>5 DEF ImportPosition, CloseMissing, Done
<1>6. ASSUME NEW d \in Deals, MatchOrder(d) PROVE RaceInv'
  <2>1. ASSUME NEW s \in BrokerStates, UpdateOrder(d, s) PROVE RaceInv'
    BY <2>1, DataAssumption DEF UpdateOrder, Done, Races
  <2>2. CASE DuplicateFails(d)
    BY <1>1, <2>2 DEF DuplicateFails, Abandon, Sleep, Idle, Enter
  <2> QED
    BY <1>6, <2>1, <2>2, RaceLookup, RaceImport DEF MatchOrder
<1>7. CASE RunFails
  BY <1>1, <1>7 DEF RunFails, Abandon, Sleep, Idle, Enter
<1> QED
  BY <1>2, <1>3, <1>4, <1>5, <1>6, <1>7 DEF Reconcile

(* Every step keeps the invariant of the race. *)
LEMMA RaceNext == IInv /\ RaceInv /\ [Next]_vars => RaceInv'
<1> SUFFICES ASSUME IInv, RaceInv, [Next]_vars PROVE RaceInv'
  OBVIOUS
<1> USE DEF RaceInv, Claimed, Placed, Rows
<1>1. ASSUME NEW c \in Closers, Close(c) \/ BrokerCloses(c),
             UNCHANGED <<workflow, reconciling, raced>>
      PROVE  RaceInv'
  <2>1. UNCHANGED <<broker_order_id, placed_by>>
    BY <1>1 DEF Close, ReadLocal, PreviewApproves, PreviewEnds, CloseFails, CloseSucceeds,
       BrokerCloses, Return
  <2>2. \A d \in Deals : deal'[d] = deal[d] \/ deal'[d] = "gone"
    BY <1>1 DEF Close, ReadLocal, PreviewApproves, PreviewEnds, CloseFails, CloseSucceeds,
       BrokerCloses, Return, IInv, TypeOK, DataTypeOK
  <2> QED
    BY <1>1, <2>1, <2>2 DEF IInv, TypeOK, ReconcileTypeOK
<1>2. ASSUME NEW d \in Deals, AccountMoves(d), UNCHANGED <<workflow, reconciling, raced>>
      PROVE  RaceInv'
  <2>1. broker_order_id' = broker_order_id
        /\ \A e \in Deals : placed_by'[e] = placed_by[e] \/ placed_by'[e] = None
    BY <1>2 DEF AccountMoves, OpenedElsewhere, Appears, Fills, Reduced, Vanishes,
       IInv, TypeOK, DataTypeOK
  <2>2. \A e \in Deals : deal[e] # "unused" => deal'[e] # "unused"
    BY <1>2 DEF AccountMoves, OpenedElsewhere, Appears, Fills, Reduced, Vanishes,
       IInv, TypeOK, DataTypeOK
  <2> QED
    BY <1>2, <2>1, <2>2 DEF IInv, TypeOK, ReconcileTypeOK
<1>3. CASE Restart
  <2>1. /\ UNCHANGED <<broker_order_id, deal, placed_by, wire, raced>>
        /\ listed' = {} /\ todo' = {} /\ orphan' = None
    BY <1>3 DEF Restart, Boot, Sleep, Idle, Enter
  <2>2. \A o \in Submissions : opc[o] \in Placed => opc'[o] = "ended"
    BY <1>3 DEF Restart, IInv, TypeOK, OrderTypeOK
  <2>3. \A o \in Submissions : opc'[o] # "placing"
    BY <1>3 DEF Restart
  <2> QED
    BY <2>1, <2>2, <2>3, DataAssumption DEF IInv, TypeOK, DataTypeOK, OrderTypeOK
<1>4. CASE UNCHANGED vars
  BY <1>4 DEF vars
<1> QED
  BY <1>1, <1>2, <1>3, <1>4, RaceSubmission, RaceReconcile DEF Next

(* At first no order is claimed. *)
LEMMA RaceInit == Init => RaceInv
BY DataAssumption DEF Init, DataInit, OrderInit, ReconcileInit, RaceInv, Claimed, Rows

(* Two rows get one deal id only when reconciliation looked for the order  *)
(* before submit_and_place had stored its answer, even if it imported it   *)
(* afterwards: lookup (reconciliation_service.py:226), import (:240) and   *)
(* update (order_workflow_service.py:217-223) share no lock.               *)
THEOREM DuplicatesComeFromRaces == Spec => []DuplicateOnlyFromRace
<1>1. IInv /\ RaceInv => DuplicateOnlyFromRace
  <2> SUFFICES ASSUME IInv, RaceInv, NEW d \in Deals, d \notin raced
               PROVE  ~ (Cardinality(Matches(d)) > 1)
    BY DEF DuplicateOnlyFromRace
  <2>1. DealId(d) # None /\ DealId(d).deal = d
        /\ \A e \in Deals : DealId(e) = DealId(d) => e = d
    BY IdAssumption DEF DealId, BrokerIds
  <2>2. \A r \in Matches(d) : r = d \/ (r \in Submissions /\ r = placed_by[d])
    BY <2>1 DEF Matches, Rows, RaceInv, IInv, OrderInv
  <2>3. \A r \in Matches(d) : r \in Submissions => d \notin Matches(d)
    BY <2>1 DEF Matches, Rows, RaceInv, Claimed
  <2>4. \E x : Matches(d) \subseteq {x}
    <3>1. CASE d \in Matches(d)
      BY <2>2, <2>3, <3>1
    <3>2. CASE d \notin Matches(d)
      BY <2>2, <3>2
    <3> QED
      BY <3>1, <3>2
  <2>5. CASE Matches(d) = {}
    BY <2>5, FS_EmptySet
  <2>6. CASE \E x : Matches(d) = {x}
    <3>1. PICK x : Matches(d) = {x}
      BY <2>6
    <3>2. Cardinality({x}) = 1
      BY FS_Singleton
    <3> QED
      BY <3>1, <3>2
  <2> QED
    BY <2>4, <2>5, <2>6
<1> QED
  BY <1>1, RaceInit, RaceNext, Invariance, PTL DEF Spec
=============================================================================
