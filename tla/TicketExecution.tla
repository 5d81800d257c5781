-------------------------- MODULE TicketExecution --------------------------
(***************************************************************************)
(* The life of a trade ticket in the operator agent (clean-agent):         *)
(* creation, approval by phrase, and execution through Capital Trader.     *)
(*                                                                         *)
(* The agent is one asyncio event loop.  A handler runs alone up to its    *)
(* next await, so each action below is the code between two awaits; the    *)
(* handlers of different requests interleave at the awaits.  Tickets live  *)
(* in SQLite and survive a crash, handlers do not.  An order or close      *)
(* request is sent by a worker thread over HTTP: once sent, Capital Trader *)
(* may act on it even if the agent has stopped waiting.                    *)
(***************************************************************************)
EXTENDS TicketRisk

CONSTANTS
  Tickets,         \* ids of the tickets that may be created
  Handlers,        \* requests the agent serves at the same time
  Requests,        \* arguments create_trade_ticket may be called with
  PositionCounts,  \* numbers of open positions the broker may report
  MaxMishaps       \* bound: restarts of the agent and SQLite errors at the end
                   \* of an execution, counted together

ASSUME TicketAssumption ==
  /\ None \notin Tickets
  /\ Requests \subseteq Proposals
  /\ MaxMishaps \in Nat

VARIABLES
  \* the trade_tickets table
  status, kind, request,
  \* the outcomes of executions in audit_events, per ticket
  audit,
  \* settings.allow_trading_writes of the running process
  writes,
  \* the handlers executing tickets: where they wait, the ticket, the number
  \* of the request sent for it, Capital Trader's answer
  pc, job, req, reply,
  \* requests Capital Trader has not dealt with, and those the broker accepted
  wire, placed,
  \* history: requests sent per ticket; tickets confirmed by phrase; tickets two
  \* handlers executed at once; tickets whose execution was cut short after the
  \* request was sent
  sent, confirmed, overlapped, cut,
  \* restarts and store errors so far
  mishaps

store   == <<status, kind, request, audit>>
handler == <<pc, job, req, reply>>
broker  == <<wire, placed>>
history == <<sent, confirmed, overlapped, cut>>
vars    == <<store, writes, handler, broker, history, mishaps>>

(* The rows an open ticket may have. *)
Rows == {StoredTicket(r) : r \in {q \in Requests : q.size # NaN}}

Kinds    == {"open_position", "close_position"}
Statuses == {"none", "blocked", "pending_confirmation", "approved", "executed"}
Events   == {"execution_blocked", "execution_failed", "executed"}
Settled  == {"blocked", "executed"}

Running(h, t) == pc[h] # "idle" /\ job[h] = t

-----------------------------------------------------------------------------
Init ==
  /\ status = [t \in Tickets |-> "none"]
  /\ kind = [t \in Tickets |-> "open_position"]
  /\ request = [t \in Tickets |-> None]
  /\ audit = [t \in Tickets |-> {}]
  /\ writes \in BOOLEAN
  /\ pc = [h \in Handlers |-> "idle"]
  /\ job = [h \in Handlers |-> None]
  /\ req = [h \in Handlers |-> 0]
  /\ reply = [h \in Handlers |-> "none"]
  /\ wire = [t \in Tickets |-> {}]
  /\ placed = [t \in Tickets |-> {}]
  /\ sent = [t \in Tickets |-> 0]
  /\ confirmed = {}
  /\ overlapped = {}
  /\ cut = {}
  /\ mishaps = 0

-----------------------------------------------------------------------------
(* Store.create_ticket: the row of a new ticket.                             *)
NewTicket(t, ticket_type, ticket_status) ==
  /\ status[t] = "none"
  /\ status' = [status EXCEPT ![t] = ticket_status]
  /\ kind' = [kind EXCEPT ![t] = ticket_type]
  /\ UNCHANGED <<audit, writes, handler, broker, history, mishaps>>

(* create_trade_ticket.  The id is drawn by the handler and nobody else     *)
(* knows it before the row is there, so the awaits inside need no step of   *)
(* their own.  The gate judges what was asked, NaN included; a size that is *)
(* NaN makes the insert raise.                                              *)
CreateTradeTicket(t, r) ==
  /\ r.size # NaN
  /\ \E snapshot \in Snapshots(PositionCounts, Captured \cup {"market"}) :
       NewTicket(t, "open_position",
                 IF EvaluateTicket(r, snapshot) = "blocked"
                 THEN "blocked" ELSE "pending_confirmation")
  /\ request' = [request EXCEPT ![t] = StoredTicket(r)]

(* create_close_ticket, when the close preview answers: a rejected preview *)
(* makes a blocked ticket.  If the preview fails no ticket is created.     *)
CreateCloseTicket(t, approved) ==
  /\ NewTicket(t, "close_position",
               IF approved THEN "pending_confirmation" ELSE "blocked")
  /\ UNCHANGED request

(* Mutant: a status written that nobody knows.                               *)
ApproveMisspelt(t, phrase) ==
  /\ status[t] = "pending_confirmation"
  /\ status' = [status EXCEPT ![t] = "confirmed"]
  /\ UNCHANGED <<kind, request, audit, writes, handler, broker, history, mishaps>>

(* approve_ticket, also behind approve_close_ticket, when it approves.  The *)
(* phrase of a ticket contains its id: a phrase is identified with the      *)
(* ticket it confirms.                                                      *)
ApproveTicket(t, phrase) ==
  /\ status[t] = "pending_confirmation"
  /\ phrase = t
  /\ status' = [status EXCEPT ![t] = "approved"]
  /\ confirmed' = confirmed \cup {t}
  /\ UNCHANGED <<kind, request, audit, writes, handler, broker, sent,
                 overlapped, cut, mishaps>>

-----------------------------------------------------------------------------
(* execute_ticket up to its first await, also behind execute_close_ticket. *)
(* Nothing in the store says that an execution is under way.               *)
ExecuteTicket(h, t) ==
  /\ pc[h] = "idle"
  /\ writes
  /\ status[t] = "approved"
  /\ pc' = [pc EXCEPT ![h] = "checking"]
  /\ job' = [job EXCEPT ![h] = t]
  /\ overlapped' = IF \E g \in Handlers : Running(g, t)
                   THEN overlapped \cup {t} ELSE overlapped
  /\ UNCHANGED <<store, writes, req, reply, broker, sent, confirmed, cut, mishaps>>

(* The end of an execution: update_ticket, then audit, then the answer.      *)
(* Either write may raise (SQLite locked, disk full), which ends the handler *)
(* with what was written so far.                                             *)
Settle(h, outcome, event) ==
  LET t == job[h]
  IN \E stored \in {"both", "ticket", "nothing"} :
       /\ stored # "both" => mishaps < MaxMishaps
       /\ mishaps' = IF stored = "both" THEN mishaps ELSE mishaps + 1
       /\ status' = IF stored = "nothing" THEN status
                    ELSE [status EXCEPT ![t] = outcome]
       /\ audit' = IF stored = "both"
                   THEN [audit EXCEPT ![t] = @ \cup {event}] ELSE audit
       /\ cut' = IF stored # "both" /\ pc[h] # "checking"
                 THEN cut \cup {t} ELSE cut
       /\ pc' = [pc EXCEPT ![h] = "idle"]
       /\ job' = [job EXCEPT ![h] = None]
       /\ req' = [req EXCEPT ![h] = 0]
       /\ reply' = [reply EXCEPT ![h] = "none"]
       /\ UNCHANGED <<kind, request, writes, broker, sent, confirmed, overlapped>>

(* The fresh snapshot and risk check of an open ticket.  It has no market  *)
(* check, unlike the one at creation.                                      *)
FreshRisk(t, verdict) ==
  /\ kind[t] = "open_position"
  /\ \E snapshot \in Snapshots(PositionCounts, Captured) :
       EvaluateTicket(request[t], snapshot) = verdict

(* The fresh close preview of a close ticket; it may reject or fail.         *)
FreshPreview(t, verdict) ==
  /\ kind[t] = "close_position"
  /\ verdict \in {"approved", "blocked"}

CheckBlocks(h) ==
  /\ pc[h] = "checking"
  /\ FreshRisk(job[h], "blocked") \/ FreshPreview(job[h], "blocked")
  /\ Settle(h, "blocked", "execution_blocked")

(* The request is handed to the worker thread.                               *)
Send(h) ==
  LET t == job[h]
      n == sent[t] + 1
  IN /\ pc' = [pc EXCEPT ![h] = "submitting"]
     /\ req' = [req EXCEPT ![h] = n]
     /\ sent' = [sent EXCEPT ![t] = n]
     /\ wire' = [wire EXCEPT ![t] = @ \cup {n}]
     /\ UNCHANGED <<store, writes, job, reply, placed, confirmed, overlapped, cut,
                    mishaps>>

(* Mutant: the judgement of the creation is taken for good.                 *)
CheckSkipped(h) == pc[h] = "checking" /\ Send(h)

CheckPasses(h) ==
  /\ pc[h] = "checking"
  /\ FreshRisk(job[h], "approved") \/ FreshPreview(job[h], "approved")
  /\ Send(h)

-----------------------------------------------------------------------------
(* Capital Trader deals with a request: it refuses it, the broker accepts  *)
(* it, or the broker accepts it and Capital Trader still answers an error. *)
(* An answer to a handler that no longer waits is dropped (_finish).       *)
TraderHandles(t, n, result) ==
  /\ n \in wire[t]
  /\ wire' = [wire EXCEPT ![t] = @ \ {n}]
  /\ placed' = IF result = "refused" THEN placed
               ELSE [placed EXCEPT ![t] = @ \cup {n}]
  /\ reply' = [h \in Handlers |->
                 IF pc[h] = "submitting" /\ job[h] = t /\ req[h] = n
                 THEN IF result = "accepted" THEN "ok" ELSE "failed"
                 ELSE reply[h]]
  /\ UNCHANGED <<store, writes, pc, job, req, history, mishaps>>

(* Mutants: no timeout on the order call; a failed order left approved so  *)
(* that it can be retried; a failed order audited as never sent; a lost    *)
(* answer taken for success.                                               *)
SubmitWaitsForAnswer(h) ==
  /\ pc[h] = "submitting" /\ reply[h] = "failed"
  /\ Settle(h, "blocked", "execution_failed")

SubmitLeavesApproved(h) ==
  /\ pc[h] = "submitting"
  /\ Settle(h, "approved", "execution_failed")

SubmitFailsSilently(h) ==
  /\ pc[h] = "submitting"
  /\ Settle(h, "blocked", "execution_blocked")

SubmitReportsExecuted(h) ==
  /\ pc[h] = "submitting"
  /\ Settle(h, "executed", "executed")

(* submit_order or close_position raises: an error answer, or the HTTP     *)
(* timeout, which may come before or after Capital Trader acted.           *)
SubmitFails(h) ==
  /\ pc[h] = "submitting"
  /\ Settle(h, "blocked", "execution_failed")

SubmitSucceeds(h) ==
  /\ pc[h] = "submitting"
  /\ reply[h] = "ok"
  /\ pc' = [pc EXCEPT ![h] = "reconciling"]
  /\ UNCHANGED <<store, writes, job, req, reply, broker, history, mishaps>>

(* The after-snapshot has been taken, with its errors as data.               *)
Reconciled(h) ==
  /\ pc[h] = "reconciling"
  /\ Settle(h, "executed", "executed")

(* The process dies and restarts with the settings then in force.            *)
Crash ==
  /\ mishaps < MaxMishaps
  /\ mishaps' = mishaps + 1
  /\ cut' = cut \cup {job[h] : h \in {g \in Handlers :
                                        pc[g] \in {"submitting", "reconciling"}}}
  /\ pc' = [h \in Handlers |-> "idle"]
  /\ job' = [h \in Handlers |-> None]
  /\ req' = [h \in Handlers |-> 0]
  /\ reply' = [h \in Handlers |-> "none"]
  /\ writes' \in BOOLEAN
  /\ UNCHANGED <<store, broker, sent, confirmed, overlapped>>

-----------------------------------------------------------------------------
Operator(t) ==
  \/ \E r \in Requests : CreateTradeTicket(t, r)
  \/ \E approved \in BOOLEAN : CreateCloseTicket(t, approved)
  \/ \E phrase \in Tickets : ApproveTicket(t, phrase)
  \/ \E h \in Handlers : ExecuteTicket(h, t)

Trader(t) ==
  \E n \in wire[t], result \in {"refused", "accepted", "accepted_but_failed"} :
    TraderHandles(t, n, result)

CheckEnds(h)  == CheckBlocks(h) \/ CheckPasses(h)
SubmitEnds(h) == SubmitFails(h) \/ SubmitSucceeds(h)

Next ==
  \/ \E t \in Tickets : Operator(t) \/ Trader(t)
  \/ \E h \in Handlers : CheckEnds(h) \/ SubmitEnds(h) \/ Reconciled(h)
  \/ Crash

Spec == Init /\ [][Next]_vars

(* Every await of an execution ends: the snapshot captures have wait_for,  *)
(* the order and close calls an HTTP timeout.  Nothing is assumed of the   *)
(* operator, of Capital Trader or of restarts.                             *)
Fairness ==
  \A h \in Handlers :
    /\ WF_vars(CheckEnds(h))
    /\ WF_vars(SubmitEnds(h))
    /\ WF_vars(Reconciled(h))

FairSpec == Spec /\ Fairness

-----------------------------------------------------------------------------
TypeOK ==
  /\ status \in [Tickets -> Statuses]
  /\ kind \in [Tickets -> Kinds]
  /\ request \in [Tickets -> Rows \cup {None}]
  /\ audit \in [Tickets -> SUBSET Events]
  /\ writes \in BOOLEAN
  /\ pc \in [Handlers -> {"idle", "checking", "submitting", "reconciling"}]
  /\ job \in [Handlers -> Tickets \cup {None}]
  /\ req \in [Handlers -> Nat]
  /\ reply \in [Handlers -> {"none", "ok", "failed"}]
  /\ wire \in [Tickets -> SUBSET Nat]
  /\ placed \in [Tickets -> SUBSET Nat]
  /\ sent \in [Tickets -> Nat]
  /\ confirmed \subseteq Tickets
  /\ overlapped \subseteq Tickets
  /\ cut \subseteq Tickets
  /\ mishaps \in 0..MaxMishaps

(* The flow implements the contract of TicketContract: no order without a   *)
(* confirmation, nothing after a block at creation, "executed" only with an *)
(* order at the broker, no way back to pending or approved.                 *)
Contract == INSTANCE TicketContract
              WITH ordered <- {t \in Tickets : placed[t] # {}}

ImplementsContract == Contract!Spec

(* A ticket is submitted a second time only if two executions of it          *)
(* overlapped, or an execution was cut short by a crash or a store error     *)
(* after its request went out.  A lost or late answer alone never leads to a *)
(* second order: the timeout blocks the ticket.                              *)
ResubmittedOnlyAfterRaceOrCut ==
  \A t \in Tickets : sent[t] > 1 => t \in overlapped \cup cut

(* A broker order is never without a trace: once no execution of the ticket *)
(* is under way and none was cut short, the audit trail of a ticket with an *)
(* order holds the end of an execution that had sent a request.             *)
OrdersAudited ==
  \A t \in Tickets :
    /\ placed[t] # {}
    /\ t \notin cut
    /\ \A h \in Handlers : ~Running(h, t)
    => audit[t] \cap {"execution_failed", "executed"} # {}

(* README: execution requires "fresh risk checks passing".  What the request *)
(* of an opened ticket carries obeys the rules, however long ago the ticket  *)
(* was judged and whatever raced: its size is within the limit, a limit or   *)
(* stop order has its level, distances are positive, and no value is NaN.    *)
OrdersWithinRules ==
  \A t \in Tickets :
    kind[t] = "open_position" /\ wire[t] \cup placed[t] # {} =>
      LET order == BrokerOrderPayload(request[t])
      IN /\ order.direction \in {"BUY", "SELL"}
         /\ 0 < order.size /\ order.size <= MaxTicketSize
         /\ order.order_type \in {"LIMIT", "STOP"} => "level" \in DOMAIN order
         /\ \A f \in {"stop_distance", "limit_distance"} \cap DOMAIN order :
              order[f] > 0
         /\ \A f \in DOMAIN order : order[f] # NaN

(* Liveness: a handler that began an execution comes back to its caller.     *)
EveryExecutionEnds ==
  \A h \in Handlers : (pc[h] # "idle") ~> (pc[h] = "idle")

(* Liveness: without a crash or a store error an execution settles its     *)
(* ticket, even if Capital Trader never answers.                           *)
EveryExecutionSettles ==
  \A t \in Tickets :
    (\E h \in Handlers : Running(h, t)) ~>
      (status[t] \in Settled \/ mishaps > 0)

(* README: "Stop loss is required by default."  With RequireStopLoss, the  *)
(* order request of every opened ticket carries a stop.                    *)
OrdersCarryStop ==
  \A t \in Tickets :
    (RequireStopLoss /\ kind[t] = "open_position" /\ placed[t] # {}) =>
      "stop_distance" \in DOMAIN BrokerOrderPayload(request[t])

(* README: execute_ticket requires "ticket status `approved`": no request is *)
(* sent for a ticket that is not approved when it is sent.                   *)
SentOnlyWhileApproved ==
  [][\A t \in Tickets : sent'[t] # sent[t] => status[t] = "approved"]_vars
=============================================================================
