----------------------- MODULE TicketExecutionProofs -----------------------
(***************************************************************************)
(* Proofs about TicketExecution, for any tickets, handlers, requests and   *)
(* bounds.  IInv is shown inductive one action at a time; the invariants   *)
(* follow from it, and with it every step is a step of the contract or     *)
(* leaves the contract's variables alone.                                  *)
(***************************************************************************)
EXTENDS TicketExecution, TLAPS

(* The inductive invariant.  Sending: the execution's request is out.       *)
Sending(h, t) == Running(h, t) /\ pc[h] \in {"submitting", "reconciling"}

HandlersHaveTickets ==
  \A h \in Handlers :
    /\ pc[h] # "idle" => job[h] \in confirmed
    /\ pc[h] \in {"idle", "checking"} => reply[h] = "none"
    /\ reply[h] = "ok" \/ pc[h] = "reconciling" => placed[job[h]] # {}

RequestsConfirmed ==
  \A t \in Tickets :
    status[t] = "approved" \/ wire[t] # {} => t \in confirmed

ExecutedAlone ==
  \A t \in Tickets \ (overlapped \cup cut) :
    /\ \A g, h \in Handlers : Running(g, t) /\ Running(h, t) => g = h
    /\ \A h \in Handlers :
         Running(h, t) => status[t] = "approved" /\ (pc[h] = "checking" => sent[t] = 0)
    /\ sent[t] <= 1
    /\ status[t] \notin Settled /\ (\A h \in Handlers : ~Running(h, t)) => sent[t] = 0

RequestsTraced ==
  \A t \in Tickets \ cut :
    wire[t] \cup placed[t] # {} =>
      \/ \E h \in Handlers : Sending(h, t)
      \/ audit[t] \cap {"execution_failed", "executed"} # {}

IInv ==
  /\ TypeOK
  /\ HandlersHaveTickets
  /\ RequestsConfirmed
  /\ ExecutedAlone
  /\ RequestsTraced

-----------------------------------------------------------------------------
(* The initial states satisfy the inductive invariant.                      *)
LEMMA InitInv == Init => IInv
<1>1. Init => TypeOK
  BY TicketAssumption DEF Init, TypeOK, Statuses, Kinds, Events
<1>2. Init => HandlersHaveTickets
  BY DEF Init, HandlersHaveTickets
<1>3. Init => RequestsConfirmed
  BY DEF Init, RequestsConfirmed
<1>4. Init => ExecutedAlone
  BY DEF Init, ExecutedAlone, Running
<1>5. Init => RequestsTraced
  BY DEF Init, RequestsTraced
<1> QED
  BY <1>1, <1>2, <1>3, <1>4, <1>5 DEF IInv

-----------------------------------------------------------------------------
(* The end of an execution keeps the invariant, whichever of its two writes *)
(* are stored, when its outcome and event fit the point it is at.           *)
LEMMA SettleInv ==
  ASSUME IInv, NEW h \in Handlers, NEW outcome \in Settled, NEW event \in Events,
         pc[h] # "idle",
         pc[h] # "checking" => event \in {"execution_failed", "executed"},
         Settle(h, outcome, event)
  PROVE  IInv'
<1> DEFINE t == job[h]
<1>1. PICK stored \in {"both", "ticket", "nothing"} :
        /\ stored # "both" => mishaps < MaxMishaps
        /\ mishaps' = IF stored = "both" THEN mishaps ELSE mishaps + 1
        /\ status' = IF stored = "nothing" THEN status
                     ELSE [status EXCEPT ![t] = outcome]
        /\ audit' = IF stored = "both"
                    THEN [audit EXCEPT ![t] = @ \cup {event}] ELSE audit
        /\ cut' = IF stored # "both" /\ pc[h] # "checking"
                  THEN cut \cup {t} ELSE cut
  BY DEF Settle
<1>2. /\ pc' = [pc EXCEPT ![h] = "idle"]
      /\ job' = [job EXCEPT ![h] = None]
      /\ req' = [req EXCEPT ![h] = 0]
      /\ reply' = [reply EXCEPT ![h] = "none"]
      /\ UNCHANGED <<kind, request, writes, broker, sent, confirmed, overlapped>>
  BY DEF Settle
<1>3. t \in Tickets /\ t \in confirmed
  BY DEF IInv, TypeOK, HandlersHaveTickets
<1>4. TypeOK'
  BY <1>1, <1>2, <1>3, TicketAssumption
  DEF IInv, TypeOK, Statuses, Settled, broker
<1>5. \A g \in Handlers : g # h =>
        /\ pc'[g] = pc[g] /\ job'[g] = job[g] /\ reply'[g] = reply[g]
        /\ \A u \in Tickets : Running(g, u)' <=> Running(g, u)
        /\ \A u \in Tickets : Sending(g, u)' <=> Sending(g, u)
  BY <1>2 DEF IInv, TypeOK, Running, Sending
<1>6. pc'[h] = "idle" /\ reply'[h] = "none" /\ \A u \in Tickets : ~Running(h, u)'
  BY <1>2 DEF IInv, TypeOK, Running
<1>7. HandlersHaveTickets'
  BY <1>2, <1>5, <1>6 DEF IInv, HandlersHaveTickets, broker
<1>8. RequestsConfirmed'
  BY <1>1, <1>2, <1>3 DEF IInv, TypeOK, RequestsConfirmed, Settled, broker
<1>9. ExecutedAlone'
  <2> SUFFICES ASSUME NEW u \in Tickets, u \notin (overlapped \cup cut)'
               PROVE  /\ \A f, g \in Handlers :
                           Running(f, u)' /\ Running(g, u)' => f = g
                      /\ \A g \in Handlers :
                           Running(g, u)' =>
                             status'[u] = "approved" /\ (pc'[g] = "checking" => sent'[u] = 0)
                      /\ sent'[u] <= 1
                      /\ status'[u] \notin Settled /\ (\A g \in Handlers : ~Running(g, u)')
                           => sent'[u] = 0
    BY DEF ExecutedAlone
  <2>1. u \notin overlapped \cup cut
    BY <1>1, <1>2
  <2>2. CASE u = t
    <3>1. Running(h, u)
      BY <2>2 DEF Running
    <3>2. \A g \in Handlers : ~Running(g, u)'
      BY <2>1, <3>1, <1>5, <1>6 DEF IInv, ExecutedAlone
    <3>3. stored = "nothing" => sent[u] = 0
      BY <1>1, <2>1, <2>2, <3>1 DEF IInv, ExecutedAlone
    <3>4. stored # "nothing" => status'[u] \in Settled
      BY <1>1, <1>3, <2>2 DEF IInv, TypeOK
    <3> QED
      BY <1>2, <2>1, <3>2, <3>3, <3>4 DEF IInv, ExecutedAlone
  <2>3. CASE u # t
    <3>1. status'[u] = status[u] /\ sent'[u] = sent[u]
      BY <1>1, <1>2, <2>3 DEF IInv, TypeOK
    <3>2. \A g \in Handlers : Running(g, u)' <=> Running(g, u)
      BY <1>5, <1>6, <2>3 DEF Running
    <3>3. \A g \in Handlers : Running(g, u)' => pc'[g] = pc[g]
      BY <1>5, <1>6
    <3> QED
      BY <2>1, <3>1, <3>2, <3>3 DEF IInv, ExecutedAlone
  <2> QED
    BY <2>2, <2>3
<1>10. RequestsTraced'
  <2> SUFFICES ASSUME NEW u \in Tickets, u \notin cut', (wire[u] \cup placed[u] # {})'
               PROVE  \/ \E g \in Handlers : Sending(g, u)'
                      \/ audit'[u] \cap {"execution_failed", "executed"} # {}
    BY DEF RequestsTraced
  <2>1. \/ \E g \in Handlers : Sending(g, u)
        \/ audit[u] \cap {"execution_failed", "executed"} # {}
    BY <1>1, <1>2 DEF IInv, RequestsTraced, broker
  <2>2. audit[u] \subseteq audit'[u]
    BY <1>1 DEF IInv, TypeOK
  <2>3. CASE Sending(h, u)
    <3>1. u = t /\ pc[h] # "checking"
      BY <2>3 DEF Sending, Running
    <3>2. stored = "both"
      BY <1>1, <3>1
    <3>3. audit'[u] = audit[u] \cup {event}
      BY <1>1, <3>1, <3>2 DEF IInv, TypeOK
    <3> QED
      BY <3>1, <3>3
  <2>4. CASE ~Sending(h, u)
    BY <2>1, <2>2, <2>4, <1>5
  <2> QED
    BY <2>3, <2>4
<1> QED
  BY <1>4, <1>7, <1>8, <1>9, <1>10 DEF IInv
-----------------------------------------------------------------------------
(* The creation of a ticket, of either kind, touches no handler and no     *)
(* request; the new ticket is not approved.                                *)
LEMMA CreateInv ==
  ASSUME IInv, NEW t \in Tickets, status[t] = "none",
         NEW s \in {"blocked", "pending_confirmation"},
         status' = [status EXCEPT ![t] = s],
         NEW k \in Kinds, kind' = [kind EXCEPT ![t] = k],
         request' \in [Tickets -> Rows \cup {None}],
         UNCHANGED <<audit, writes, handler, broker, history, mishaps>>
  PROVE  IInv'
<1>1. TypeOK'
  BY DEF IInv, TypeOK, Statuses, handler, broker, history
<1>2. HandlersHaveTickets'
  BY DEF IInv, HandlersHaveTickets, handler, broker, history
<1>3. RequestsConfirmed'
  BY DEF IInv, TypeOK, RequestsConfirmed, handler, broker, history
<1>4. ExecutedAlone'
  BY DEF IInv, TypeOK, ExecutedAlone, Running, Settled, handler, broker, history
<1>5. RequestsTraced'
  BY DEF IInv, RequestsTraced, Sending, Running, handler, broker, history
<1> QED
  BY <1>1, <1>2, <1>3, <1>4, <1>5 DEF IInv

(* An approval confirms the ticket and leaves its executions alone.         *)
LEMMA ApproveInv ==
  ASSUME IInv, NEW t \in Tickets, NEW phrase \in Tickets, ApproveTicket(t, phrase)
  PROVE  IInv'
<1>1. TypeOK'
  BY DEF IInv, TypeOK, ApproveTicket, Statuses, handler, broker
<1>2. HandlersHaveTickets'
  BY DEF IInv, HandlersHaveTickets, ApproveTicket, handler, broker
<1>3. RequestsConfirmed'
  BY DEF IInv, TypeOK, RequestsConfirmed, ApproveTicket, broker
<1>4. ExecutedAlone'
  BY DEF IInv, TypeOK, ExecutedAlone, ApproveTicket, Running, Settled, handler
<1>5. RequestsTraced'
  BY DEF IInv, RequestsTraced, ApproveTicket, Sending, Running, handler, broker
<1> QED
  BY <1>1, <1>2, <1>3, <1>4, <1>5 DEF IInv

(* A second execution of a ticket marks it as overlapped.                   *)
LEMMA ExecuteInv ==
  ASSUME IInv, NEW h \in Handlers, NEW t \in Tickets, ExecuteTicket(h, t)
  PROVE  IInv'
<1>1. /\ pc' = [pc EXCEPT ![h] = "checking"]
      /\ job' = [job EXCEPT ![h] = t]
      /\ pc[h] = "idle" /\ status[t] = "approved"
      /\ UNCHANGED <<store, writes, req, reply, broker, sent, confirmed, cut, mishaps>>
  BY DEF ExecuteTicket
<1>2. TypeOK'
  BY DEF IInv, TypeOK, ExecuteTicket, store, broker
<1>3. HandlersHaveTickets'
  BY <1>1 DEF IInv, TypeOK, HandlersHaveTickets, RequestsConfirmed, broker
<1>4. RequestsConfirmed'
  BY <1>1 DEF IInv, RequestsConfirmed, store, broker
<1>5. \A g \in Handlers, u \in Tickets :
        /\ Running(g, u)' <=> (Running(g, u) \/ (g = h /\ u = t))
        /\ Sending(g, u)' <=> Sending(g, u)
        /\ g # h => pc'[g] = pc[g]
  BY <1>1 DEF IInv, TypeOK, Running, Sending
<1>6. ExecutedAlone'
  <2> SUFFICES ASSUME NEW u \in Tickets, u \notin (overlapped \cup cut)'
               PROVE  /\ \A f, g \in Handlers :
                           Running(f, u)' /\ Running(g, u)' => f = g
                      /\ \A g \in Handlers :
                           Running(g, u)' =>
                             status'[u] = "approved" /\ (pc'[g] = "checking" => sent'[u] = 0)
                      /\ sent'[u] <= 1
                      /\ status'[u] \notin Settled /\ (\A g \in Handlers : ~Running(g, u)')
                           => sent'[u] = 0
    BY DEF ExecutedAlone
  <2>1. u \notin overlapped \cup cut
    BY DEF ExecuteTicket
  <2>2. u = t => \A g \in Handlers : ~Running(g, u)
    BY DEF ExecuteTicket
  <2>3. status' = status /\ sent' = sent
    BY <1>1 DEF store
  <2>4. ~Running(h, u)
    BY <1>1 DEF Running
  <2>5. u = t => sent[u] = 0
    BY <1>1, <2>1, <2>2 DEF IInv, ExecutedAlone, Settled
  <2> QED
    BY <1>1, <1>5, <2>1, <2>2, <2>3, <2>4, <2>5 DEF IInv, ExecutedAlone
<1>7. RequestsTraced'
  BY <1>1, <1>5 DEF IInv, RequestsTraced, store, broker
<1> QED
  BY <1>2, <1>3, <1>4, <1>6, <1>7 DEF IInv

(* The request goes out for a confirmed ticket.                             *)
LEMMA CheckPassesInv ==
  ASSUME IInv, NEW h \in Handlers, CheckPasses(h)
  PROVE  IInv'
<1> DEFINE t == job[h]
<1>1. /\ pc[h] = "checking"
      /\ pc' = [pc EXCEPT ![h] = "submitting"]
      /\ req' = [req EXCEPT ![h] = sent[t] + 1]
      /\ sent' = [sent EXCEPT ![t] = sent[t] + 1]
      /\ wire' = [wire EXCEPT ![t] = @ \cup {sent[t] + 1}]
      /\ UNCHANGED <<store, writes, job, reply, placed, confirmed, overlapped, cut,
                     mishaps>>
  BY DEF CheckPasses, Send
<1>2. t \in Tickets /\ t \in confirmed
  BY <1>1 DEF IInv, TypeOK, HandlersHaveTickets
<1>3. TypeOK'
  BY <1>1, <1>2 DEF IInv, TypeOK, store
<1>4. HandlersHaveTickets'
  BY <1>1 DEF IInv, TypeOK, HandlersHaveTickets
<1>5. RequestsConfirmed'
  BY <1>1, <1>2 DEF IInv, TypeOK, RequestsConfirmed, store
<1>6. \A g \in Handlers, u \in Tickets :
        /\ Running(g, u)' <=> Running(g, u)
        /\ Sending(g, u)' <=> (Sending(g, u) \/ (g = h /\ u = t))
  BY <1>1 DEF IInv, TypeOK, Running, Sending
<1>7. \A g \in Handlers : pc'[g] = "checking" => pc[g] = "checking" /\ g # h
  BY <1>1 DEF IInv, TypeOK
<1>8. Running(h, t)
  BY <1>1 DEF Running
<1>9. ExecutedAlone'
  BY <1>1, <1>2, <1>6, <1>7, <1>8 DEF IInv, TypeOK, ExecutedAlone, store
<1>10. RequestsTraced'
  BY <1>1, <1>2, <1>6 DEF IInv, TypeOK, RequestsTraced, store
<1> QED
  BY <1>3, <1>4, <1>5, <1>9, <1>10 DEF IInv

-----------------------------------------------------------------------------
(* An order at the broker keeps the trace its request had.                  *)
LEMMA TraderHandlesInv ==
  ASSUME IInv, NEW t \in Tickets, NEW n \in wire[t],
         NEW result \in {"refused", "accepted", "accepted_but_failed"},
         TraderHandles(t, n, result)
  PROVE  IInv'
<1>1. n \in Nat
  BY DEF IInv, TypeOK
<1>2. TypeOK'
  BY <1>1 DEF IInv, TypeOK, TraderHandles, store, history
<1>3. \A u \in Tickets : placed[u] \subseteq placed'[u] /\ wire'[u] \subseteq wire[u]
  BY DEF IInv, TypeOK, TraderHandles
<1>4. \A u \in Tickets : wire'[u] \cup placed'[u] # {} => wire[u] \cup placed[u] # {}
  BY DEF IInv, TypeOK, TraderHandles
<1>5. HandlersHaveTickets'
  <2> SUFFICES ASSUME NEW h \in Handlers
               PROVE  /\ pc'[h] # "idle" => job'[h] \in confirmed'
                      /\ pc'[h] \in {"idle", "checking"} => reply'[h] = "none"
                      /\ reply'[h] = "ok" \/ pc'[h] = "reconciling" =>
                           placed'[job'[h]] # {}
    BY DEF HandlersHaveTickets
  <2>1. UNCHANGED <<pc, job, confirmed>>
    BY DEF TraderHandles, history
  <2>2. reply'[h] = IF pc[h] = "submitting" /\ job[h] = t /\ req[h] = n
                    THEN IF result = "accepted" THEN "ok" ELSE "failed"
                    ELSE reply[h]
    BY DEF TraderHandles
  <2>3. pc[h] # "idle" => job[h] \in Tickets
    BY DEF IInv, TypeOK, HandlersHaveTickets
  <2>4. pc[h] = "submitting" /\ job[h] = t /\ result = "accepted" => placed'[t] # {}
    BY DEF IInv, TypeOK, TraderHandles
  <2> QED
    BY <1>3, <2>1, <2>2, <2>3, <2>4 DEF IInv, HandlersHaveTickets
<1>6. RequestsConfirmed'
  BY <1>3 DEF IInv, RequestsConfirmed, TraderHandles, store, history
<1>7. ExecutedAlone'
  BY DEF IInv, ExecutedAlone, TraderHandles, Running, store, history
<1>8. RequestsTraced'
  BY <1>4 DEF IInv, RequestsTraced, TraderHandles, Sending, Running, store, history
<1> QED
  BY <1>2, <1>5, <1>6, <1>7, <1>8 DEF IInv

(* A success is believed only with an order at the broker.                  *)
LEMMA SubmitSucceedsInv ==
  ASSUME IInv, NEW h \in Handlers, SubmitSucceeds(h)
  PROVE  IInv'
<1>1. /\ pc[h] = "submitting" /\ reply[h] = "ok"
      /\ pc' = [pc EXCEPT ![h] = "reconciling"]
      /\ UNCHANGED <<store, writes, job, req, reply, broker, history, mishaps>>
  BY DEF SubmitSucceeds
<1>2. TypeOK'
  BY <1>1 DEF IInv, TypeOK, store, broker, history
<1>3. HandlersHaveTickets'
  BY <1>1 DEF IInv, TypeOK, HandlersHaveTickets, broker, history
<1>4. RequestsConfirmed'
  BY <1>1 DEF IInv, RequestsConfirmed, store, broker, history
<1>5. \A g \in Handlers, u \in Tickets :
        /\ Running(g, u)' <=> Running(g, u)
        /\ Sending(g, u)' <=> Sending(g, u)
        /\ pc'[g] = "checking" => pc[g] = "checking"
  BY <1>1 DEF IInv, TypeOK, Running, Sending
<1>6. ExecutedAlone'
  BY <1>1, <1>5 DEF IInv, ExecutedAlone, store, history
<1>7. RequestsTraced'
  BY <1>1, <1>5 DEF IInv, RequestsTraced, store, broker, history
<1> QED
  BY <1>2, <1>3, <1>4, <1>6, <1>7 DEF IInv

(* A crash cuts short the executions that had sent a request.               *)
LEMMA CrashInv ==
  ASSUME IInv, Crash
  PROVE  IInv'
<1>1. /\ cut' = cut \cup {job[h] : h \in {g \in Handlers :
                               pc[g] \in {"submitting", "reconciling"}}}
      /\ \A h \in Handlers : pc'[h] = "idle" /\ job'[h] = None /\ reply'[h] = "none"
      /\ UNCHANGED <<store, broker, sent, confirmed, overlapped>>
  BY DEF Crash
<1>2. TypeOK'
  <2>1. cut' \subseteq Tickets
    BY <1>1 DEF IInv, TypeOK, HandlersHaveTickets
  <2> QED
    BY <2>1, TicketAssumption DEF IInv, TypeOK, Crash, store, broker
<1>3. HandlersHaveTickets'
  BY <1>1 DEF HandlersHaveTickets
<1>4. RequestsConfirmed'
  BY <1>1 DEF IInv, RequestsConfirmed, store, broker
<1>5. \A h \in Handlers, u \in Tickets : ~Running(h, u)' /\ ~Sending(h, u)'
  BY <1>1 DEF Running, Sending
<1>6. \A h \in Handlers, u \in Tickets : Sending(h, u) => u \in cut'
  BY <1>1 DEF Running, Sending
<1>7. ExecutedAlone'
  <2> SUFFICES ASSUME NEW u \in Tickets, u \notin (overlapped \cup cut)'
               PROVE  sent[u] <= 1 /\ (status[u] \notin Settled => sent[u] = 0)
    BY <1>1, <1>5 DEF ExecutedAlone, store
  <2>1. u \notin overlapped \cup cut
    BY <1>1
  <2>2. \A h \in Handlers : Running(h, u) => pc[h] = "checking"
    BY <1>6 DEF IInv, TypeOK, Running, Sending
  <2> QED
    BY <2>1, <2>2 DEF IInv, ExecutedAlone
<1>8. RequestsTraced'
  BY <1>1, <1>5, <1>6 DEF IInv, RequestsTraced, store, broker
<1> QED
  BY <1>2, <1>3, <1>4, <1>7, <1>8 DEF IInv
-----------------------------------------------------------------------------
(* Every step keeps the invariant: one step per action of Next.             *)
LEMMA NextInv == IInv /\ [Next]_vars => IInv'
<1> SUFFICES ASSUME IInv, [Next]_vars PROVE IInv'
  OBVIOUS
<1>1. ASSUME NEW t \in Tickets, NEW r \in Requests, CreateTradeTicket(t, r)
      PROVE  IInv'
  <2>1. PICK s \in {"blocked", "pending_confirmation"} :
          status' = [status EXCEPT ![t] = s]
    BY <1>1 DEF CreateTradeTicket, NewTicket
  <2>2. /\ status[t] = "none"
        /\ kind' = [kind EXCEPT ![t] = "open_position"]
        /\ request' = [request EXCEPT ![t] = StoredTicket(r)]
        /\ StoredTicket(r) \in Rows
        /\ UNCHANGED <<audit, writes, handler, broker, history, mishaps>>
    BY <1>1 DEF CreateTradeTicket, NewTicket, Rows
  <2>3. "open_position" \in Kinds /\ request' \in [Tickets -> Rows \cup {None}]
    BY <2>2 DEF IInv, TypeOK, Kinds
  <2> QED
    BY <2>1, <2>2, <2>3, CreateInv
<1>2. ASSUME NEW t \in Tickets, NEW approved \in BOOLEAN, CreateCloseTicket(t, approved)
      PROVE  IInv'
  <2>1. PICK s \in {"blocked", "pending_confirmation"} :
          status' = [status EXCEPT ![t] = s]
    BY <1>2 DEF CreateCloseTicket, NewTicket
  <2>2. /\ status[t] = "none"
        /\ kind' = [kind EXCEPT ![t] = "close_position"]
        /\ UNCHANGED <<audit, writes, handler, broker, history, mishaps>>
    BY <1>2 DEF CreateCloseTicket, NewTicket
  <2>3. "close_position" \in Kinds /\ request' \in [Tickets -> Rows \cup {None}]
    BY <1>2 DEF CreateCloseTicket, NewTicket, IInv, TypeOK, Kinds
  <2> QED
    BY <2>1, <2>2, <2>3, CreateInv
<1>3. ASSUME NEW t \in Tickets, NEW phrase \in Tickets, ApproveTicket(t, phrase)
      PROVE  IInv'
  BY <1>3, ApproveInv
<1>4. ASSUME NEW t \in Tickets, NEW h \in Handlers, ExecuteTicket(h, t)
      PROVE  IInv'
  BY <1>4, ExecuteInv
<1>5. ASSUME NEW t \in Tickets, Trader(t)
      PROVE  IInv'
  BY <1>5, TraderHandlesInv DEF Trader
<1>6. ASSUME NEW h \in Handlers, CheckBlocks(h)
      PROVE  IInv'
  BY <1>6, SettleInv DEF CheckBlocks, Settled, Events
<1>7. ASSUME NEW h \in Handlers, CheckPasses(h)
      PROVE  IInv'
  BY <1>7, CheckPassesInv
<1>8. ASSUME NEW h \in Handlers, SubmitFails(h)
      PROVE  IInv'
  BY <1>8, SettleInv DEF SubmitFails, Settled, Events
<1>9. ASSUME NEW h \in Handlers, SubmitSucceeds(h)
      PROVE  IInv'
  BY <1>9, SubmitSucceedsInv
<1>10. ASSUME NEW h \in Handlers, Reconciled(h)
       PROVE  IInv'
  BY <1>10, SettleInv DEF Reconciled, Settled, Events
<1>11. ASSUME Crash PROVE IInv'
  BY <1>11, CrashInv
<1>12. ASSUME UNCHANGED vars PROVE IInv'
  BY <1>12 DEF vars, store, handler, broker, history, IInv, TypeOK,
     HandlersHaveTickets, RequestsConfirmed, ExecutedAlone, RequestsTraced,
     Running, Sending
<1> QED
  BY <1>1, <1>2, <1>3, <1>4, <1>5, <1>6, <1>7, <1>8, <1>9, <1>10, <1>11, <1>12
  DEF Next, Operator, CheckEnds, SubmitEnds

(* The inductive invariant holds of every behaviour.                         *)
THEOREM Invariance == Spec => []IInv
BY InitInv, NextInv, PTL DEF Spec

(* Every variable keeps its type: in particular no ticket ever has a status *)
(* outside the five the code knows.                                         *)
THEOREM TypeCorrect == Spec => []TypeOK
<1>1. IInv => TypeOK
  BY DEF IInv
<1> QED
  BY <1>1, Invariance, PTL

(* However many tickets and handlers there are, a second request for one   *)
(* ticket needs overlapping executions or one that was cut short.          *)
THEOREM NoSecondRequest == Spec => []ResubmittedOnlyAfterRaceOrCut
<1>1. IInv => ResubmittedOnlyAfterRaceOrCut
  BY DEF IInv, TypeOK, ExecutedAlone, ResubmittedOnlyAfterRaceOrCut
<1> QED
  BY <1>1, Invariance, PTL

(* An order at the broker is never without a trace in the audit trail.      *)
THEOREM OrdersTraced == Spec => []OrdersAudited
<1>1. IInv => OrdersAudited
  BY DEF IInv, RequestsTraced, OrdersAudited, Sending
<1> QED
  BY <1>1, Invariance, PTL

-----------------------------------------------------------------------------
(* A row has the fields of its proposal, and no value of it is NaN.         *)
LEMMA RowFields ==
  ASSUME NEW r \in Rows
  PROVE  /\ r.size \in Int
         /\ \A f \in {"stop_distance", "limit_distance"} : r[f] \in Int \cup {None}
         /\ \A f \in {"direction", "size", "order_type"} \cup PayloadFields : r[f] # NaN
<1>1. PICK q \in Requests : q.size # NaN /\ r = StoredTicket(q)
  BY DEF Rows
<1>2. q \in Proposals
  BY TicketAssumption
<1>3. \A f \in {"direction", "order_type", "size"} \cup PayloadFields :
        f \in DOMAIN q /\ r[f] = IF q[f] = NaN THEN None ELSE q[f]
  BY <1>1, <1>2 DEF Proposals, StoredTicket, PayloadFields
<1>4. /\ q.size \in Numbers
      /\ q.stop_distance \in Numbers \cup {None} /\ q.limit_distance \in Numbers \cup {None}
  BY <1>2 DEF Proposals
<1>5. \A f \in {"direction", "size", "order_type"} \cup PayloadFields : r[f] # NaN
  BY <1>3, RiskAssumption
<1>6. r.size \in Int
  BY <1>1, <1>3, <1>4 DEF Numbers
<1>7. \A f \in {"stop_distance", "limit_distance"} : r[f] \in Int \cup {None}
  BY <1>3, <1>4 DEF Numbers, PayloadFields
<1> QED
  BY <1>5, <1>6, <1>7

(* What the gate says of an order's payload (evaluate_ticket,              *)
(* _broker_order_payload): absent fields are left out, the others are as   *)
(* the row has them.                                                       *)
LEMMA PayloadOfRules ==
  ASSUME NEW r \in Rows, TicketRulesHold(r)
  PROVE  LET order == BrokerOrderPayload(r)
         IN /\ order.direction \in {"BUY", "SELL"}
            /\ 0 < order.size /\ order.size <= MaxTicketSize
            /\ order.order_type \in {"LIMIT", "STOP"} => "level" \in DOMAIN order
            /\ \A f \in {"stop_distance", "limit_distance"} \cap DOMAIN order :
                 order[f] > 0
            /\ \A f \in DOMAIN order : order[f] # NaN
<1> DEFINE order == BrokerOrderPayload(r)
<1>1. DOMAIN order = {"direction", "size", "order_type"} \cup
                     {g \in PayloadFields : r[g] # None}
  BY DEF BrokerOrderPayload
<1>2. \A f \in DOMAIN order : order[f] = r[f]
  BY DEF BrokerOrderPayload
<1>3. /\ order.direction = r.direction
      /\ order.size = r.size
      /\ order.order_type = r.order_type
  BY <1>1, <1>2
<1>4. \A n \in Int : n # NaN
  BY RiskAssumption
<1>5. ASSUME NEW f \in {"stop_distance", "limit_distance"}, f \in DOMAIN order
      PROVE  order[f] > 0
  <2>1. order[f] = r[f] /\ r[f] # None /\ r[f] \in Int
    BY <1>1, <1>2, <1>5, RowFields
  <2>2. ~Leq(r[f], 0)
    BY <2>1, <1>5 DEF TicketRulesHold, DistancesPositive
  <2> QED
    BY <1>4, <2>1, <2>2 DEF Leq
<1>6. order.order_type \in {"LIMIT", "STOP"} => "level" \in DOMAIN order
  BY <1>1, <1>3 DEF TicketRulesHold, LevelGiven, PayloadFields
<1>7. 0 < order.size /\ order.size <= MaxTicketSize
  <2>1. r.size \in Int
    BY RowFields
  <2>2. ~Leq(r.size, 0) /\ (r.size = NaN \/ Leq(r.size, MaxTicketSize))
    BY DEF TicketRulesHold, SizeAllowed
  <2> QED
    BY <1>3, <1>4, <2>1, <2>2 DEF Leq
<1>8. \A f \in DOMAIN order : order[f] # NaN
  BY <1>1, <1>2, RowFields
<1> QED
  BY <1>3, <1>5, <1>6, <1>7, <1>8 DEF TicketRulesHold, KnownKind

(* Which tickets have requests: confirmed ones, whose rows are there and   *)
(* are not written anew, and which the gate let through.                   *)
GatedInv ==
  \A t \in Tickets :
    /\ t \in confirmed => status[t] # "none"
    /\ placed[t] # {} => t \in confirmed
    /\ kind[t] = "open_position" /\ status[t] # "none" => request[t] \in Rows
    /\ kind[t] = "open_position" /\ wire[t] \cup placed[t] # {} =>
         request[t] \in Rows /\ TicketRulesHold(request[t])

(* The initial states satisfy it. *)
LEMMA GatedInit == Init => GatedInv
  BY DEF Init, GatedInv

(* A new row is of a ticket without requests. *)
LEMMA CreateGated ==
  ASSUME IInv, GatedInv, NEW t \in Tickets, status[t] = "none",
         NEW s \in {"blocked", "pending_confirmation"},
         status' = [status EXCEPT ![t] = s],
         \A u \in Tickets : u # t => kind'[u] = kind[u] /\ request'[u] = request[u],
         kind'[t] = "open_position" => request'[t] \in Rows,
         UNCHANGED <<broker, history>>
  PROVE  GatedInv'
<1> SUFFICES ASSUME NEW u \in Tickets
             PROVE  /\ u \in confirmed' => status'[u] # "none"
                    /\ placed'[u] # {} => u \in confirmed'
                    /\ kind'[u] = "open_position" /\ status'[u] # "none" =>
                         request'[u] \in Rows
                    /\ kind'[u] = "open_position" /\ wire'[u] \cup placed'[u] # {} =>
                         request'[u] \in Rows /\ TicketRulesHold(request'[u])
  BY DEF GatedInv
<1>1. UNCHANGED <<wire, placed, confirmed>>
  BY DEF broker, history
<1>2. status'[u] = IF u = t THEN s ELSE status[u]
  BY DEF IInv, TypeOK
<1>3. u = t => wire[u] = {} /\ placed[u] = {}
  BY DEF IInv, RequestsConfirmed, GatedInv
<1> QED
  BY <1>1, <1>2, <1>3 DEF GatedInv

(* A request goes out when the fresh check approves: of an open ticket, when *)
(* the rules hold of its row.                                                *)
LEMMA CheckPassesGated ==
  ASSUME IInv, GatedInv, NEW h \in Handlers, CheckPasses(h)
  PROVE  GatedInv'
<1> DEFINE t == job[h]
<1>1. /\ pc[h] = "checking"
      /\ wire' = [wire EXCEPT ![t] = @ \cup {sent[t] + 1}]
      /\ UNCHANGED <<status, kind, request, placed, confirmed>>
  BY DEF CheckPasses, Send, store
<1>2. kind[t] = "open_position" => TicketRulesHold(request[t])
  BY DEF CheckPasses, Send, FreshRisk, FreshPreview, EvaluateTicket
<1>3. \A u \in Tickets : u # t => wire'[u] = wire[u]
  BY <1>1 DEF IInv, TypeOK
<1>4. t \in confirmed /\ t \in Tickets
  BY <1>1 DEF IInv, TypeOK, HandlersHaveTickets
<1>5. kind[t] = "open_position" => request[t] \in Rows
  BY <1>4 DEF GatedInv
<1> QED
  BY <1>1, <1>2, <1>3, <1>5 DEF GatedInv

(* The broker holds what was on the wire. *)
LEMMA TraderGated ==
  ASSUME IInv, GatedInv, NEW t \in Tickets, NEW n \in wire[t],
         NEW result \in {"refused", "accepted", "accepted_but_failed"},
         TraderHandles(t, n, result)
  PROVE  GatedInv'
<1>1. UNCHANGED <<status, kind, request, confirmed>>
  BY DEF TraderHandles, store, history
<1>2. \A u \in Tickets : /\ wire'[u] \cup placed'[u] # {} => wire[u] \cup placed[u] # {}
                         /\ placed'[u] # {} => placed[u] # {} \/ u = t
  BY DEF TraderHandles, IInv, TypeOK
<1>3. t \in confirmed
  BY DEF IInv, RequestsConfirmed
<1> QED
  BY <1>1, <1>2, <1>3 DEF GatedInv

(* The other steps of an execution give a status that is not "none", and   *)
(* leave rows and requests alone.                                          *)
LEMMA SettleGated ==
  ASSUME IInv, GatedInv, NEW h \in Handlers, pc[h] # "idle",
         NEW outcome \in Settled, NEW event, Settle(h, outcome, event)
  PROVE  GatedInv'
<1>1. UNCHANGED <<kind, request, wire, placed, confirmed>>
  BY DEF Settle, broker
<1>2. \A u \in Tickets : status'[u] = status[u] \/ (u = job[h] /\ status'[u] = outcome)
  BY DEF Settle, IInv, TypeOK
<1>3. status[job[h]] # "none"
  BY DEF IInv, TypeOK, HandlersHaveTickets, GatedInv
<1> QED
  BY <1>1, <1>2, <1>3 DEF GatedInv, Settled

(* Every step keeps it. *)
LEMMA GatedNext == IInv /\ GatedInv /\ [Next]_vars => GatedInv'
<1> SUFFICES ASSUME IInv, GatedInv, [Next]_vars PROVE GatedInv'
  OBVIOUS
<1>1. ASSUME NEW t \in Tickets, NEW r \in Requests, CreateTradeTicket(t, r)
      PROVE  GatedInv'
  <2>1. PICK s \in {"blocked", "pending_confirmation"} :
          status' = [status EXCEPT ![t] = s]
    BY <1>1 DEF CreateTradeTicket, NewTicket
  <2>2. /\ status[t] = "none" /\ UNCHANGED <<broker, history>>
        /\ \A u \in Tickets : u # t => kind'[u] = kind[u] /\ request'[u] = request[u]
        /\ request'[t] \in Rows
    BY <1>1 DEF CreateTradeTicket, NewTicket, IInv, TypeOK, Rows
  <2> QED
    BY <2>1, <2>2, CreateGated
<1>2. ASSUME NEW t \in Tickets, NEW approved \in BOOLEAN, CreateCloseTicket(t, approved)
      PROVE  GatedInv'
  <2>1. PICK s \in {"blocked", "pending_confirmation"} :
          status' = [status EXCEPT ![t] = s]
    BY <1>2 DEF CreateCloseTicket, NewTicket
  <2>2. /\ status[t] = "none" /\ UNCHANGED <<broker, history>>
        /\ \A u \in Tickets : u # t => kind'[u] = kind[u] /\ request'[u] = request[u]
        /\ kind'[t] # "open_position"
    BY <1>2 DEF CreateCloseTicket, NewTicket, IInv, TypeOK
  <2> QED
    BY <2>1, <2>2, CreateGated
<1>3. ASSUME NEW t \in Tickets, NEW phrase \in Tickets, ApproveTicket(t, phrase)
      PROVE  GatedInv'
  BY <1>3 DEF ApproveTicket, GatedInv, IInv, TypeOK, broker
<1>4. ASSUME NEW t \in Tickets, NEW h \in Handlers, ExecuteTicket(h, t)
      PROVE  GatedInv'
  BY <1>4 DEF ExecuteTicket, GatedInv, store, broker
<1>5. ASSUME NEW t \in Tickets, Trader(t)
      PROVE  GatedInv'
  BY <1>5, TraderGated DEF Trader
<1>6. ASSUME NEW h \in Handlers, CheckBlocks(h) \/ SubmitFails(h) \/ Reconciled(h)
      PROVE  GatedInv'
  BY <1>6, SettleGated DEF CheckBlocks, SubmitFails, Reconciled, Settled
<1>7. ASSUME NEW h \in Handlers, CheckPasses(h)
      PROVE  GatedInv'
  BY <1>7, CheckPassesGated
<1>8. ASSUME NEW h \in Handlers, SubmitSucceeds(h)
      PROVE  GatedInv'
  BY <1>8 DEF SubmitSucceeds, GatedInv, store, broker, history
<1>9. ASSUME Crash PROVE GatedInv'
  BY <1>9 DEF Crash, GatedInv, store, broker
<1>10. ASSUME UNCHANGED vars PROVE GatedInv'
  BY <1>10 DEF vars, GatedInv, store, broker, history
<1> QED
  BY <1>1, <1>2, <1>3, <1>4, <1>5, <1>6, <1>7, <1>8, <1>9, <1>10
  DEF Next, Operator, CheckEnds, SubmitEnds

(* No request of an opened ticket ever breaks the rules, for any limits,   *)
(* proposals and snapshots.                                                *)
THEOREM OrdersObeyRules == Spec => []OrdersWithinRules
<1>1. GatedInv => OrdersWithinRules
  BY PayloadOfRules DEF GatedInv, OrdersWithinRules
<1>2. Spec => [](IInv /\ GatedInv)
  BY InitInv, NextInv, GatedInit, GatedNext, PTL DEF Spec
<1> QED
  BY <1>1, <1>2, PTL

-----------------------------------------------------------------------------
(* The refinement: what each step is to the contract.                       *)

ordered == {t \in Tickets : placed[t] # {}}

(* The end of an execution is the contract's Settle, or a stutter.          *)
LEMMA SettleImplements ==
  ASSUME IInv, NEW h \in Handlers, NEW outcome \in Settled, NEW event,
         pc[h] # "idle", outcome = "executed" => placed[job[h]] # {},
         Settle(h, outcome, event)
  PROVE  [Contract!Next]_Contract!vars
<1> DEFINE t == job[h]
<1>1. UNCHANGED <<placed, confirmed>>
  BY DEF Settle, broker
<1>2. t \in Tickets /\ t \in confirmed
  BY DEF IInv, TypeOK, HandlersHaveTickets
<1>3. status' = status \/ status' = [status EXCEPT ![t] = outcome]
  BY DEF Settle
<1>4. ASSUME status' = [status EXCEPT ![t] = outcome] PROVE Contract!Settle(t)
  BY <1>1, <1>2, <1>4 DEF Contract!Settle, Contract!Settled, Settled
<1> QED
  BY <1>1, <1>2, <1>3, <1>4 DEF Contract!Next, Contract!vars

(* The broker's acceptance is the contract's Order, or a stutter.           *)
LEMMA TraderImplements ==
  ASSUME IInv, NEW t \in Tickets, NEW n \in wire[t],
         NEW result \in {"refused", "accepted", "accepted_but_failed"},
         TraderHandles(t, n, result)
  PROVE  [Contract!Next]_Contract!vars
<1>1. UNCHANGED <<status, confirmed>>
  BY DEF TraderHandles, store, history
<1>2. t \in confirmed
  BY DEF IInv, RequestsConfirmed
<1>3. ordered' = ordered \/ ordered' = ordered \cup {t}
  <2>1. CASE result = "refused"
    BY <2>1 DEF TraderHandles, ordered
  <2>2. CASE result # "refused"
    <3>1. placed' = [placed EXCEPT ![t] = @ \cup {n}]
      BY <2>2 DEF TraderHandles
    <3>2. \A u \in Tickets : placed'[u] # {} <=> placed[u] # {} \/ u = t
      BY <3>1 DEF IInv, TypeOK
    <3> QED
      BY <3>2 DEF ordered
  <2> QED
    BY <2>1, <2>2
<1>4. ASSUME ordered' = ordered \cup {t} PROVE Contract!Order(t)
  BY <1>1, <1>2, <1>4 DEF Contract!Order, ordered
<1> QED
  BY <1>1, <1>3, <1>4 DEF Contract!Next, Contract!vars, ordered

(* Every step is a step of the contract or a stutter.                       *)
LEMMA NextImplements == IInv /\ [Next]_vars => [Contract!Next]_Contract!vars
<1> SUFFICES ASSUME IInv, [Next]_vars PROVE [Contract!Next]_Contract!vars
  OBVIOUS
<1>1. ASSUME NEW t \in Tickets,
             \/ \E r \in Requests : CreateTradeTicket(t, r)
             \/ \E approved \in BOOLEAN : CreateCloseTicket(t, approved)
      PROVE  Contract!Create(t)
  BY <1>1 DEF CreateTradeTicket, CreateCloseTicket, NewTicket, Contract!Create, broker, history
<1>2. ASSUME NEW t \in Tickets, NEW phrase \in Tickets, ApproveTicket(t, phrase)
      PROVE  Contract!Confirm(t)
  BY <1>2 DEF ApproveTicket, Contract!Confirm, broker
<1>3. ASSUME NEW t \in Tickets, NEW h \in Handlers, ExecuteTicket(h, t)
      PROVE  UNCHANGED Contract!vars
  BY <1>3 DEF ExecuteTicket, Contract!vars, store, broker
<1>4. ASSUME NEW t \in Tickets, Trader(t)
      PROVE  [Contract!Next]_Contract!vars
  BY <1>4, TraderImplements DEF Trader
<1>5. ASSUME NEW h \in Handlers, CheckBlocks(h)
      PROVE  [Contract!Next]_Contract!vars
  BY <1>5, SettleImplements DEF CheckBlocks, Settled
<1>6. ASSUME NEW h \in Handlers, CheckPasses(h)
      PROVE  UNCHANGED Contract!vars
  BY <1>6 DEF CheckPasses, Send, Contract!vars, store
<1>7. ASSUME NEW h \in Handlers, SubmitFails(h)
      PROVE  [Contract!Next]_Contract!vars
  BY <1>7, SettleImplements DEF SubmitFails, Settled
<1>8. ASSUME NEW h \in Handlers, SubmitSucceeds(h)
      PROVE  UNCHANGED Contract!vars
  BY <1>8 DEF SubmitSucceeds, Contract!vars, store, broker, history
<1>9. ASSUME NEW h \in Handlers, Reconciled(h)
      PROVE  [Contract!Next]_Contract!vars
  BY <1>9, SettleImplements DEF Reconciled, Settled, IInv, HandlersHaveTickets
<1>10. ASSUME Crash PROVE UNCHANGED Contract!vars
  BY <1>10 DEF Crash, Contract!vars, store, broker
<1>11. ASSUME UNCHANGED vars PROVE UNCHANGED Contract!vars
  BY <1>11 DEF vars, store, broker, history, Contract!vars
<1> QED
  BY <1>1, <1>2, <1>3, <1>4, <1>5, <1>6, <1>7, <1>8, <1>9, <1>10, <1>11
  DEF Next, Operator, CheckEnds, SubmitEnds, Contract!Next

(* The ticket flow implements its contract, whatever the interleaving.      *)
THEOREM Refinement == Spec => ImplementsContract
<1>1. Init => Contract!Init
  BY DEF Init, Contract!Init
<1> QED
  BY <1>1, NextImplements, Invariance, PTL DEF Spec, ImplementsContract, Contract!Spec
=============================================================================
