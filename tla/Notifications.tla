--------------------------- MODULE Notifications ---------------------------
(***************************************************************************)
(* The Telegram alerts of the agent (clean-agent/app/notifications.py).    *)
(* evaluate_once reads the enabled rules, fetches what they watch from     *)
(* Capital Trader, and sends an alert when a condition begins to hold and  *)
(* a recovery when it ceases to.  The watch loop and any number of API     *)
(* calls may be inside evaluate_once at the same time: they share one      *)
(* event loop and the SQLite rows, and each works on the rows it read when *)
(* it began.                                                               *)
(***************************************************************************)
EXTENDS Integers, Sequences, FiniteSets

CONSTANTS
  Evaluators,   \* coroutines that run evaluate_once: the watch loop, API calls
  MaxRules,     \* rules that may be created (bound); ids are 1..MaxRules
  Settings,     \* what each rule watches: see SettingsAssumption
  Sources,      \* the Capital Trader answers that are fetched and cached
  Readings,     \* the answers: [flag, value], see Condition
  NoValue,      \* no price, or no open position
  NoRow,        \* a rule that is not created, or not held
  Unfetched,    \* an answer that is not in the cache
  ListLimit,    \* rows list_notification_rules returns at most (100)
  Horizon,      \* last instant of the clock (bound)
  MaxEvents     \* events recorded for a rule (bound)

Rules == 1..MaxRules

RuleTypes == {"market_open", "price", "position_pl", "health"}

(* What a rule is created with and never changes. *)
ASSUME SettingsAssumption ==
  /\ MaxRules \in Nat
  /\ Settings \in [Rules -> [type : RuleTypes, condition : STRING, threshold : Int,
                             source : Sources, cooldown : Nat, notify_recovery : BOOLEAN]]

(* The bounds and the answers of Capital Trader. *)
ASSUME BoundsAssumption ==
  /\ IsFiniteSet(Evaluators)
  /\ NoValue \notin Int
  /\ Readings \subseteq [flag : BOOLEAN, value : Int \cup {NoValue}]
  /\ ListLimit \in Nat \ {0}
  /\ Horizon \in Nat
  /\ MaxEvents \in Nat

VARIABLES
  rules,    \* the rows of notification_rules, or NoRow before a rule is created
  events,   \* the rows of notification_events, per rule in the order written
  now,      \* the clock of the agent
  eval,     \* where each evaluation is, and what it has read
  raced,    \* history: rules two evaluations have held at the same time
  torn      \* history: rules an evaluation was cut off from at a message

vars == <<rules, events, now, eval, raced, torn>>

Never == -1

States == {"inactive", "active", "recovered"}
Rows == [enabled : BOOLEAN, state : States, last : Int]

ASSUME NoRowAssumption == NoRow \notin Rows /\ Unfetched \notin Readings

(* kind, delivery and time of a message; late: the rule was disabled then. *)
Events == [kind : {"alert", "recovery"}, delivered : BOOLEAN, at : Nat, late : BOOLEAN]

Asleep ==
  [at |-> "idle", held |-> [r \in Rules |-> NoRow], cache |-> [s \in Sources |-> Unfetched],
   kind |-> "none", delivered |-> FALSE]

Steps == {"idle", "run", "fetch", "send", "record", "stamp", "mark"}

-----------------------------------------------------------------------------
(* One event loop: a coroutine that is not suspended at an await holds it. *)
Suspended == {"idle", "fetch", "send"}
LoopFree == \A e \in Evaluators : eval[e].at \in Suspended

Held(e) == {r \in Rules : eval[e].held[r] # NoRow}

(* Rules are evaluated newest first. *)
Newest(S) == CHOOSE r \in S : \A q \in S : q <= r

Current(e) == Newest(Held(e))
Reading(e) == eval[e].cache[Settings[Current(e)].source]
Stale(e) == eval[e].held[Current(e)]

(* The rows list_notification_rules(limit=100, enabled=True) returns. *)
EnabledRules == {r \in Rules : rules[r] # NoRow /\ rules[r].enabled}
ActiveRules ==
  {r \in EnabledRules : Cardinality({q \in EnabledRules : q > r}) < ListLimit}

(* _condition: what an answer says of a rule.  flag is TRADEABLE for a     *)
(* market and degraded for the health report.                              *)
Condition(r, reading) ==
  LET s == Settings[r] IN
  CASE s.type = "market_open" -> reading.flag
    [] s.type = "health" -> s.condition = "degraded" /\ reading.flag
    [] OTHER -> \/ s.condition = "above" /\ reading.value >= s.threshold
                \/ s.condition = "below" /\ reading.value <= s.threshold

(* The condition cannot be told: no price, or no open position. *)
Unknown(r, reading) ==
  Settings[r].type \in {"price", "position_pl"} /\ reading.value = NoValue

InCooldown(r, row) == row.last # Never /\ now - row.last < Settings[r].cooldown

(* The evaluation is done with its current rule and goes on to the next. *)
NextRule(e) == [eval[e] EXCEPT !.at = "run", !.held[Current(e)] = NoRow,
                               !.kind = "none", !.delivered = FALSE]

-----------------------------------------------------------------------------
(* The user's operations, each one without an await. *)
Create(r, enabled) ==
  /\ LoopFree
  /\ rules[r] = NoRow
  /\ \A q \in Rules : q < r => rules[q] # NoRow
  /\ rules' = [rules EXCEPT ![r] = [enabled |-> enabled, state |-> "inactive", last |-> Never]]
  /\ UNCHANGED <<events, now, eval, raced, torn>>

(* What the dashboard's request and the chat's tools let through: conditions *)
(* of a market or of the health report are set by them.                      *)
Valid(s) ==
  \/ s.type \in {"price", "position_pl"} /\ s.condition \in {"above", "below"}
  \/ s.type = "market_open" /\ s.condition = "open"
  \/ s.type = "health" /\ s.condition = "degraded"

CreateByRequest(r, enabled) == Valid(Settings[r]) /\ Create(r, enabled)

CreateByTool(r) == Valid(Settings[r]) /\ Create(r, TRUE)

(* Presets around an open position: a market alert and two alerts on its   *)
(* profit, less those that an enabled rule of the list already is.         *)
SameRule(q, r) ==
  /\ Settings[q].type = Settings[r].type
  /\ Settings[q].source = Settings[r].source
  /\ Settings[q].condition = Settings[r].condition
  /\ Settings[q].threshold = Settings[r].threshold

CreatedOnce(S) == \A r \in S : \A q \in ActiveRules \cup (S \ {r}) : ~SameRule(q, r)

CreatePresets(S) ==
  /\ LoopFree
  /\ S # {}
  /\ \A r \in S : rules[r] = NoRow /\ Valid(Settings[r])
                   /\ Settings[r].type \in {"market_open", "position_pl"}
  /\ \A r \in S, q \in Rules \ S : q < r => rules[q] # NoRow
  /\ Cardinality(S) <= 3
  /\ CreatedOnce(S)
  /\ rules' = [r \in Rules |-> IF r \in S
                               THEN [enabled |-> TRUE, state |-> "inactive", last |-> Never]
                               ELSE rules[r]]
  /\ UNCHANGED <<events, now, eval, raced, torn>>

Disable(r) ==
  /\ LoopFree
  /\ rules[r] # NoRow
  /\ rules' = [rules EXCEPT ![r].enabled = FALSE]
  /\ UNCHANGED <<events, now, eval, raced, torn>>

(* evaluate_once begins with a snapshot of the rules. *)
Room ==
  \A r \in Rules : Len(events[r]) + Cardinality({e \in Evaluators : r \in Held(e)}) < MaxEvents

BeginWith(e, snapshot) ==
  /\ LoopFree
  /\ Room
  /\ eval[e].at = "idle"
  /\ eval' = [eval EXCEPT ![e].at = "run",
                          ![e].held = [r \in Rules |-> IF r \in snapshot THEN rules[r] ELSE NoRow]]
  /\ raced' = raced \cup {r \in snapshot : \E f \in Evaluators : r \in Held(f)}
  /\ UNCHANGED <<rules, events, now, torn>>

(* Mutant: the snapshot ignores enabled.                                    *)
BeginAll(e) == BeginWith(e, {r \in Rules : rules[r] # NoRow})

Begin(e) == BeginWith(e, ActiveRules)

(* The answer is fetched once per evaluation, then taken from the cache. *)
Fetch(e) ==
  /\ eval[e].at = "run"
  /\ Held(e) # {}
  /\ Reading(e) = Unfetched
  /\ eval' = [eval EXCEPT ![e].at = "fetch"]
  /\ UNCHANGED <<rules, events, now, raced, torn>>

FetchReturns(e) ==
  /\ LoopFree
  /\ eval[e].at = "fetch"
  /\ \E reading \in Readings :
       eval' = [eval EXCEPT ![e].at = "run", ![e].cache[Settings[Current(e)].source] = reading]
  /\ UNCHANGED <<rules, events, now, raced, torn>>

(* Mutant: the exception is answered by another attempt.                    *)
FetchRetries(e) ==
  /\ LoopFree
  /\ eval[e].at = "fetch"
  /\ eval' = [eval EXCEPT ![e].at = "run"]
  /\ UNCHANGED <<rules, events, now, raced, torn>>

(* The exception is noted for this rule; the next one is tried anyway. *)
FetchFails(e) ==
  /\ LoopFree
  /\ eval[e].at = "fetch"
  /\ eval' = [eval EXCEPT ![e] = NextRule(e)]
  /\ UNCHANGED <<rules, events, now, raced, torn>>

-----------------------------------------------------------------------------
(* _evaluate_rule: the answer is there, the row is the one read at the     *)
(* beginning.                                                              *)
Evaluating(e) ==
  /\ eval[e].at = "run"
  /\ Held(e) # {}
  /\ Reading(e) # Unfetched

(* Nothing to send: the condition cannot be told, or it holds and was      *)
(* already reported, or is within the cooldown.                            *)
Suppress(e) ==
  /\ Evaluating(e)
  /\ \/ Unknown(Current(e), Reading(e))
     \/ /\ ~Unknown(Current(e), Reading(e))
        /\ Condition(Current(e), Reading(e))
        /\ Stale(e).state = "active" \/ InCooldown(Current(e), Stale(e))
  /\ eval' = [eval EXCEPT ![e] = NextRule(e)]
  /\ UNCHANGED <<rules, events, now, raced, torn>>

AlertDue(e) ==
  /\ Evaluating(e)
  /\ ~Unknown(Current(e), Reading(e))
  /\ Condition(Current(e), Reading(e))
  /\ Stale(e).state # "active"
  /\ ~InCooldown(Current(e), Stale(e))

Alert(e) ==
  /\ AlertDue(e)
  /\ eval' = [eval EXCEPT ![e].at = "send", ![e].kind = "alert"]
  /\ UNCHANGED <<rules, events, now, raced, torn>>

RecoveryDue(e) ==
  /\ Evaluating(e)
  /\ ~Unknown(Current(e), Reading(e))
  /\ ~Condition(Current(e), Reading(e))
  /\ Stale(e).state = "active"

(* The row is written before the recovery is sent. *)
RecoverTo(e, state) ==
  /\ RecoveryDue(e)
  /\ rules' = [rules EXCEPT ![Current(e)].state = state]
  /\ eval' = [eval EXCEPT ![e] = IF Settings[Current(e)].notify_recovery
                                 THEN [eval[e] EXCEPT !.at = "send", !.kind = "recovery"]
                                 ELSE NextRule(e)]
  /\ UNCHANGED <<events, now, raced, torn>>

(* Mutant: the recovery is sent, the row stays active.                      *)
RecoverUnmarked(e) == RecoverTo(e, "active")

Recover(e) == RecoverTo(e, "recovered")

(* The stale state is written back. *)
StayQuiet(e) ==
  /\ Evaluating(e)
  /\ ~Unknown(Current(e), Reading(e))
  /\ ~Condition(Current(e), Reading(e))
  /\ Stale(e).state # "active"
  /\ rules' = [rules EXCEPT ![Current(e)].state = Stale(e).state]
  /\ eval' = [eval EXCEPT ![e] = NextRule(e)]
  /\ UNCHANGED <<events, now, raced, torn>>

(* Telegram answers, refuses, times out or is not configured. *)
SendEnds(e) ==
  /\ LoopFree
  /\ eval[e].at = "send"
  /\ \E delivered \in BOOLEAN :
       eval' = [eval EXCEPT ![e].at = "record", ![e].delivered = delivered]
  /\ UNCHANGED <<rules, events, now, raced, torn>>

(* record_notification_event and the update after an alert: three SQLite   *)
(* transactions, whatever the delivery was.                                *)
RecordEvent(e) ==
  /\ eval[e].at = "record"
  /\ events' = [events EXCEPT ![Current(e)] = Append(@,
       [kind |-> eval[e].kind, delivered |-> eval[e].delivered, at |-> now,
        late |-> ~rules[Current(e)].enabled])]
  /\ eval' = [eval EXCEPT ![e].at = "stamp"]
  /\ UNCHANGED <<rules, now, raced, torn>>

Stamped(e, last) ==
  /\ eval[e].at = "stamp"
  /\ rules' = [rules EXCEPT ![Current(e)].last = last]
  /\ eval' = [eval EXCEPT ![e] = IF eval[e].kind = "alert"
                                 THEN [eval[e] EXCEPT !.at = "mark"]
                                 ELSE NextRule(e)]
  /\ UNCHANGED <<events, now, raced, torn>>

LastEvent(r) == events[r][Len(events[r])]

(* Mutant: last_triggered_at counts delivered messages only.                *)
StampDelivered(e) ==
  Stamped(e, IF eval[e].delivered THEN LastEvent(Current(e)).at ELSE rules[Current(e)].last)

StampRule(e) == Stamped(e, LastEvent(Current(e)).at)

Marked(e, state) ==
  /\ eval[e].at = "mark"
  /\ rules' = [rules EXCEPT ![Current(e)].state = state]
  /\ eval' = [eval EXCEPT ![e] = NextRule(e)]
  /\ UNCHANGED <<events, now, raced, torn>>

(* Mutant: the state is named after the message.                            *)
MarkKind(e) == Marked(e, eval[e].kind)

(* Mutant: the row becomes active only if the alert was delivered.          *)
MarkDelivered(e) == Marked(e, IF eval[e].delivered THEN "active" ELSE Stale(e).state)

MarkActive(e) == Marked(e, "active")

(* SQLite refuses a write: the exception is noted for this rule.  An alert *)
(* writes nothing before it is sent.                                       *)
StoreFails(e) ==
  /\ \/ Evaluating(e) /\ ~AlertDue(e) /\ torn' = torn
     \/ eval[e].at \in {"record", "stamp", "mark"} /\ torn' = torn \cup {Current(e)}
  /\ eval' = [eval EXCEPT ![e] = NextRule(e)]
  /\ UNCHANGED <<rules, events, now, raced>>

(* An update is committed, and reading the row back raises: the rest of what *)
(* the evaluation would do for this rule is left out.  Where nothing is left *)
(* to do, this is the step without the failure.                              *)
ReadBackFails(e) ==
  /\ \/ /\ RecoveryDue(e)
        /\ rules' = [rules EXCEPT ![Current(e)].state = "recovered"]
     \/ /\ eval[e].at = "stamp"
        /\ rules' = [rules EXCEPT ![Current(e)].last = LastEvent(Current(e)).at]
  /\ eval' = [eval EXCEPT ![e] = NextRule(e)]
  /\ torn' = torn \cup {Current(e)}
  /\ UNCHANGED <<events, now, raced>>

End(e) ==
  /\ eval[e].at = "run"
  /\ Held(e) = {}
  /\ eval' = [eval EXCEPT ![e] = Asleep]
  /\ UNCHANGED <<rules, events, now, raced, torn>>

(* The process ends at any point and starts again: only the rows remain. *)
Restart ==
  /\ \E e \in Evaluators : eval[e].at # "idle"
  /\ eval' = [e \in Evaluators |-> Asleep]
  /\ torn' = torn \cup {Current(e) : e \in {f \in Evaluators :
                          eval[f].at \in {"send", "record", "stamp", "mark"}}}
  /\ UNCHANGED <<rules, events, now, raced>>

Tick ==
  /\ now < Horizon
  /\ now' = now + 1
  /\ UNCHANGED <<rules, events, eval, raced, torn>>

-----------------------------------------------------------------------------
Init ==
  /\ rules = [r \in Rules |-> NoRow]
  /\ events = [r \in Rules |-> <<>>]
  /\ now = 0
  /\ eval = [e \in Evaluators |-> Asleep]
  /\ raced = {}
  /\ torn = {}

(* An await ends: the event loop resumes the coroutine. *)
Resume(e) == FetchReturns(e) \/ FetchFails(e) \/ SendEnds(e)

(* The coroutine runs on to its next await. *)
Run(e) ==
  \/ Fetch(e) \/ Suppress(e) \/ Alert(e) \/ Recover(e) \/ StayQuiet(e)
  \/ RecordEvent(e) \/ StampRule(e) \/ MarkActive(e)
  \/ StoreFails(e) \/ ReadBackFails(e) \/ End(e)

Next ==
  \/ \E r \in Rules, enabled \in BOOLEAN : CreateByRequest(r, enabled)
  \/ \E r \in Rules : CreateByTool(r)
  \/ \E S \in SUBSET Rules : CreatePresets(S)
  \/ \E r \in Rules : Disable(r)
  \/ \E e \in Evaluators : Begin(e) \/ Resume(e) \/ Run(e)
  \/ Restart
  \/ Tick

Spec == Init /\ [][Next]_vars

(* A coroutine that is not at an await runs on.  Every await has a timeout *)
(* (httpx), and the event loop resumes its ready coroutines in turn: one   *)
(* whose await has ended is not passed over for ever, although others hold *)
(* the loop in between.                                                    *)
FairSpec == Spec /\ \A e \in Evaluators : WF_vars(Run(e)) /\ SF_vars(Resume(e))

-----------------------------------------------------------------------------
(* Type invariant: rows and events hold their columns, a row that is being *)
(* evaluated exists, and at most one coroutine is between awaits.          *)
TypeOK ==
  /\ rules \in [Rules -> Rows \cup {NoRow}]
  /\ events \in [Rules -> Seq(Events)]
  /\ now \in 0..Horizon
  /\ eval \in [Evaluators -> [at : Steps, held : [Rules -> Rows \cup {NoRow}],
                              cache : [Sources -> Readings \cup {Unfetched}],
                              kind : {"none", "alert", "recovery"}, delivered : BOOLEAN]]
  /\ \A e, f \in Evaluators : eval[e].at \in Suspended \/ eval[f].at \in Suspended \/ e = f
  /\ \A e \in Evaluators : \A r \in Held(e) : rules[r] # NoRow
  /\ raced \subseteq Rules
  /\ torn \subseteq Rules

Count(r, kind) == Cardinality({i \in DOMAIN events[r] : events[r][i].kind = kind})

(* As long as no two evaluations hold a rule at once, a recovery follows an *)
(* alert of its own: the row leaves "active" before the recovery is sent,   *)
(* so neither a cut nor a store error sends it twice (evaluate_rule,        *)
(* notifications.py:235-243).                                               *)
RecoveriesMatched ==
  \A r \in Rules \ raced : Count(r, "recovery") <= Count(r, "alert")

(* As long as nothing raced or was cut, two alerts of a rule are at least  *)
(* its cooldown apart, delivered or not (_in_cooldown,                     *)
(* notifications.py:209-214).                                              *)
CooldownKept ==
  \A r \in Rules \ (raced \cup torn) : \A i, j \in DOMAIN events[r] :
    (i < j /\ events[r][i].kind = "alert" /\ events[r][j].kind = "alert")
      => events[r][j].at - events[r][i].at >= Settings[r].cooldown

(* An alert that was recorded is remembered: the row stays "active", so the *)
(* recovery is still owed, until the evaluation that sends it takes over.   *)
AlertRemembered ==
  \A r \in Rules \ (raced \cup torn) :
    (/\ events[r] # <<>>
     /\ LastEvent(r).kind = "alert"
     /\ Settings[r].notify_recovery)
    => \/ rules[r].state = "active"
       \/ \E e \in Evaluators :
            /\ eval[e].at \in {"send", "record", "stamp", "mark"}
            /\ Current(e) = r

(* Disabling a rule does not stop an evaluation that already holds it, but *)
(* each one sends at most one message more: main.py:525-529 against the    *)
(* snapshot at notifications.py:178.                                       *)
LateEventsBounded ==
  \A r \in Rules :
    Cardinality({i \in DOMAIN events[r] : events[r][i].late}) <= Cardinality(Evaluators)

(* A failing trader, Telegram or store never wedges an evaluation, so the  *)
(* watch loop always comes to its next round (notifications.py:187-207).   *)
EvaluationEnds == \A e \in Evaluators : eval[e].at # "idle" ~> eval[e].at = "idle"
=============================================================================
