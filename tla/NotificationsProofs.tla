------------------------- MODULE NotificationsProofs -------------------------
(***************************************************************************)
(* Proofs about Notifications, for any rules, settings, evaluations and    *)
(* answers: the types, with what is true of an evaluation at each of its   *)
(* steps, and the number of steps that are left to it.                     *)
(***************************************************************************)
EXTENDS Notifications, FiniteSetTheorems, WellFoundedInduction, TLAPS

Busy == {"send", "record", "stamp", "mark"}

(* Evaluation e works on rule r: a message is under way or being recorded. *)
Works(e, r) == eval[e].at \in Busy /\ Held(e) # {} /\ Current(e) = r

(* What is true of an evaluation at each of its steps.                     *)
StepOf(e) ==
  /\ eval[e].at = "idle" => Held(e) = {}
  /\ eval[e].at \in Busy \cup {"fetch"} => Held(e) # {}
  /\ eval[e].at \in Busy => eval[e].kind # "none"
  /\ eval[e].at = "mark" => eval[e].kind = "alert"
  /\ eval[e].at \in {"stamp", "mark"} => events[Current(e)] # <<>>

StepInv == \A e \in Evaluators : StepOf(e)

Evals == [at : Steps, held : [Rules -> Rows \cup {NoRow}],
          cache : [Sources -> Readings \cup {Unfetched}],
          kind : {"none", "alert", "recovery"}, delivered : BOOLEAN]

(* A nonempty set of times or numbers that n bounds has a last one.         *)
LEMMA LastOfBounded ==
  ASSUME NEW S \in SUBSET Nat, S # {}, NEW n \in Nat, \A s \in S : s <= n
  PROVE  \E s \in S : \A t \in S : t <= s
<1> DEFINE D == {n - s : s \in S}
<1>1. D \subseteq Nat /\ D # {}
  <2>1. \A s \in S : n - s \in Nat
    OBVIOUS
  <2> QED
    BY <2>1
<1>2. PICK d \in D : \A e \in D : ~ (<<e, d>> \in OpToRel(<, Nat))
  BY <1>1, NatLessThanWellFounded, WFMin
<1>3. PICK s \in S : d = n - s
  OBVIOUS
<1>4. ASSUME NEW t \in S PROVE t <= s
  <2>1. n - t \in D /\ n - t \in Nat /\ d \in Nat
    BY <1>1
  <2>2. ~ (n - t < d)
    BY <1>2, <2>1 DEF OpToRel
  <2> QED
    BY <1>3, <2>1, <2>2
<1> QED
  BY <1>4

(* The rule an evaluation comes to next is one it holds. *)
LEMMA CurrentHeld ==
  ASSUME NEW e \in Evaluators, Held(e) # {}
  PROVE  Current(e) \in Held(e) /\ Current(e) \in Rules
<1>1. Held(e) \in SUBSET Nat /\ \A r \in Held(e) : r <= MaxRules
  BY SettingsAssumption DEF Held, Rules
<1>2. \E r \in Held(e) : \A q \in Held(e) : q <= r
  BY <1>1, LastOfBounded, SettingsAssumption
<1> QED
  BY <1>2 DEF Current, Newest, Held

(* An evaluation that a step leaves alone holds and works on the same.      *)
LEMMA SameEval ==
  ASSUME NEW e, eval'[e] = eval[e]
  PROVE  /\ Held(e)' = Held(e) /\ Current(e)' = Current(e)
         /\ Reading(e)' = Reading(e) /\ Stale(e)' = Stale(e)
         /\ \A r : Works(e, r)' <=> Works(e, r)
BY DEF Held, Current, Reading, Stale, Works

(* Going on to the next rule. *)
LEMMA Going ==
  ASSUME TypeOK, NEW e \in Evaluators, Held(e) # {}
  PROVE  /\ NextRule(e) \in Evals
         /\ NextRule(e).at = "run"
         /\ \A r \in Rules : NextRule(e).held[r] =
              IF r = Current(e) THEN NoRow ELSE eval[e].held[r]
<1>1. Current(e) \in Rules
  BY CurrentHeld
<1>2. eval[e] \in Evals
  BY DEF TypeOK, Evals
<1> QED
  BY <1>1, <1>2 DEF NextRule, Evals, Steps

(* What a step leaves that only goes on to the next rule. *)
LEMMA GoneOn ==
  ASSUME TypeOK, NEW e \in Evaluators, Held(e) # {}, eval' = [eval EXCEPT ![e] = NextRule(e)]
  PROVE  /\ eval'[e] \in Evals /\ eval'[e].at = "run"
         /\ Held(e)' = Held(e) \ {Current(e)}
         /\ \A r \in Rules : r # Current(e) => eval'[e].held[r] = eval[e].held[r]
         /\ \A f \in Evaluators : f # e => eval'[f] = eval[f]
<1>1. eval'[e] = NextRule(e) /\ \A f \in Evaluators : f # e => eval'[f] = eval[f]
  BY DEF TypeOK
<1> QED
  BY <1>1, Going DEF Held

(* The initial states. *)
LEMMA InitTypes == Init => TypeOK /\ StepInv
<1> SUFFICES ASSUME Init PROVE TypeOK /\ StepInv
  OBVIOUS
<1>1. Asleep \in Evals /\ Asleep.at = "idle" /\ \A r \in Rules : Asleep.held[r] = NoRow
  BY DEF Asleep, Evals, Steps
<1>2. \A e \in Evaluators : eval[e] = Asleep
  BY DEF Init
<1>3. TypeOK
  BY <1>1, <1>2, BoundsAssumption DEF Init, TypeOK, Evals, Suspended, Held
<1>4. StepInv
  BY <1>1, <1>2 DEF StepInv, StepOf, Held, Busy
<1> QED
  BY <1>3, <1>4

-----------------------------------------------------------------------------
(* A step of one evaluation, which may change rows and events: what is left *)
(* to show is what has become of that evaluation.                           *)
LEMMA EvalStep ==
  ASSUME TypeOK, StepInv, NEW e \in Evaluators, NEW v \in Evals,
         eval' = [eval EXCEPT ![e] = v],
         rules' \in [Rules -> Rows \cup {NoRow}], events' \in [Rules -> Seq(Events)],
         UNCHANGED now, raced' \subseteq Rules, torn' \subseteq Rules,
         \A r \in Rules : rules[r] # NoRow => rules'[r] # NoRow,
         \A r \in Rules : events[r] # <<>> => events'[r] # <<>>,
         \A r \in Rules : v.held[r] # NoRow => rules[r] # NoRow,
         v.at \in Suspended \/ eval[e].at \notin Suspended \/ LoopFree,
         StepOf(e)'
  PROVE  TypeOK' /\ StepInv'
<1>1. eval' \in [Evaluators -> Evals] /\ eval'[e] = v
      /\ \A f \in Evaluators : f # e => eval'[f] = eval[f]
  BY DEF TypeOK, Evals
<1>2. \A f, g \in Evaluators :
        eval'[f].at \in Suspended \/ eval'[g].at \in Suspended \/ f = g
  BY <1>1 DEF TypeOK, LoopFree
<1>3. \A f \in Evaluators : \A r \in Held(f)' : rules'[r] # NoRow
  BY <1>1 DEF TypeOK, Held
<1>4. TypeOK'
  BY <1>1, <1>2, <1>3 DEF TypeOK, Evals
<1>5. ASSUME NEW f \in Evaluators, f # e PROVE StepOf(f)'
  <2>1. Held(f)' = Held(f) /\ Current(f)' = Current(f) /\ eval'[f] = eval[f]
    BY <1>1, <1>5, SameEval
  <2>2. Held(f) # {} => Current(f) \in Rules
    BY CurrentHeld
  <2>3. eval[f].at \in {"stamp", "mark"} => Held(f) # {}
    BY DEF StepInv, StepOf, Busy
  <2> QED
    BY <2>1, <2>2, <2>3 DEF StepInv, StepOf
<1> QED
  BY <1>4, <1>5 DEF StepInv

(* What every evaluation holds is a row, and what it works on is a rule.    *)
LEMMA HeldRows ==
  ASSUME TypeOK, NEW e \in Evaluators
  PROVE  /\ eval[e] \in Evals
         /\ \A r \in Rules : eval[e].held[r] # NoRow => rules[r] # NoRow
         /\ Held(e) # {} => Current(e) \in Rules /\ rules[Current(e)] \in Rows
                            /\ Stale(e) \in Rows /\ Current(e) \in Held(e)
<1>1. eval[e] \in Evals
  BY DEF TypeOK, Evals
<1>2. \A r \in Rules : eval[e].held[r] # NoRow => rules[r] # NoRow
  BY DEF TypeOK, Held
<1>3. ASSUME Held(e) # {}
      PROVE  Current(e) \in Rules /\ rules[Current(e)] \in Rows /\ Stale(e) \in Rows
             /\ Current(e) \in Held(e)
  <2>1. Current(e) \in Held(e) /\ Current(e) \in Rules
    BY <1>3, CurrentHeld
  <2>2. eval[e].held[Current(e)] # NoRow
    BY <2>1 DEF Held
  <2> QED
    BY <1>1, <1>2, <2>1, <2>2 DEF TypeOK, Evals, Stale
<1> QED
  BY <1>1, <1>2, <1>3

(* A row whose state or time is changed is a row, and the others stay.      *)
LEMMA RowChanged ==
  ASSUME TypeOK, NEW r \in Rules, rules[r] \in Rows,
         \/ \E state \in States : rules' = [rules EXCEPT ![r].state = state]
         \/ \E last \in Int : rules' = [rules EXCEPT ![r].last = last]
         \/ rules' = [rules EXCEPT ![r].enabled = FALSE]
  PROVE  /\ rules' \in [Rules -> Rows \cup {NoRow}]
         /\ rules'[r] \in Rows
         /\ \A q \in Rules : q # r => rules'[q] = rules[q]
         /\ \A q \in Rules : rules[q] # NoRow => rules'[q] # NoRow
<1>1. rules'[r] \in Rows /\ \A q \in Rules : q # r => rules'[q] = rules[q]
  <2>1. ASSUME NEW state \in States, rules' = [rules EXCEPT ![r].state = state]
        PROVE  rules'[r] \in Rows /\ \A q \in Rules : q # r => rules'[q] = rules[q]
    BY <2>1 DEF TypeOK, Rows
  <2>2. ASSUME NEW last \in Int, rules' = [rules EXCEPT ![r].last = last]
        PROVE  rules'[r] \in Rows /\ \A q \in Rules : q # r => rules'[q] = rules[q]
    BY <2>2 DEF TypeOK, Rows
  <2>3. ASSUME rules' = [rules EXCEPT ![r].enabled = FALSE]
        PROVE  rules'[r] \in Rows /\ \A q \in Rules : q # r => rules'[q] = rules[q]
    BY <2>3 DEF TypeOK, Rows
  <2> QED
    BY <2>1, <2>2, <2>3
<1>2. rules' \in [Rules -> Rows \cup {NoRow}]
  BY <1>1 DEF TypeOK
<1> QED
  BY <1>1, <1>2, NoRowAssumption

(* The last of some events is an event. *)
LEMMA LastOne ==
  ASSUME events \in [Rules -> Seq(Events)], NEW r \in Rules, events[r] # <<>>
  PROVE  LastEvent(r) \in Events /\ LastEvent(r).at \in Nat /\ LastEvent(r).at \in Int
<1>1. events[r] \in Seq(Events) /\ Len(events[r]) \in 1..Len(events[r])
  OBVIOUS
<1>2. LastEvent(r) \in Events
  BY <1>1 DEF LastEvent
<1> QED
  BY <1>2 DEF Events

(* The steps that send nothing: the evaluation goes on, or is over.         *)
LEMMA QuietTypes ==
  ASSUME TypeOK, StepInv, NEW e \in Evaluators,
         \/ FetchFails(e) \/ Suppress(e) \/ StayQuiet(e) \/ StoreFails(e) \/ ReadBackFails(e)
         \/ MarkActive(e)
         \/ StampRule(e) /\ eval[e].kind # "alert"
         \/ Recover(e) /\ ~Settings[Current(e)].notify_recovery
  PROVE  TypeOK' /\ StepInv'
<1>1. Held(e) # {} /\ eval[e].at \in Steps
  BY HeldRows DEF FetchFails, Suppress, StayQuiet, StoreFails, ReadBackFails, MarkActive, Marked,
     StampRule, Stamped, Recover, RecoverTo, RecoveryDue, Evaluating, StepInv, StepOf, Busy, Evals
<1>2. eval' = [eval EXCEPT ![e] = NextRule(e)] /\ UNCHANGED <<now, events, raced>>
  BY DEF FetchFails, Suppress, StayQuiet, StoreFails, ReadBackFails, MarkActive, Marked, StampRule,
     Stamped, Recover, RecoverTo, RecoveryDue
<1>3. NextRule(e) \in Evals /\ NextRule(e).at = "run"
      /\ \A r \in Rules : NextRule(e).held[r] # NoRow => rules[r] # NoRow
  BY <1>1, Going, HeldRows
<1>4. eval[e].at \notin Suspended \/ LoopFree
  BY DEF FetchFails, Suppress, StayQuiet, StoreFails, ReadBackFails, MarkActive, Marked, StampRule,
     Stamped, Recover, RecoverTo, RecoveryDue, Evaluating, Suspended
<1>5. eval'[e].at = "run"
  BY <1>2, <1>3 DEF TypeOK
<1>6. StepOf(e)'
  BY <1>5 DEF StepOf, Busy
<1>7. Current(e) \in Rules /\ rules[Current(e)] \in Rows /\ Stale(e) \in Rows
  BY <1>1, HeldRows
<1>8. torn' \subseteq Rules
  BY <1>7 DEF FetchFails, Suppress, StayQuiet, StoreFails, ReadBackFails, MarkActive, Marked,
     StampRule, Stamped, Recover, RecoverTo, RecoveryDue, TypeOK
<1>9. rules' \in [Rules -> Rows \cup {NoRow}]
      /\ \A r \in Rules : rules[r] # NoRow => rules'[r] # NoRow
  <2>1. CASE FetchFails(e) \/ Suppress(e) \/ StoreFails(e)
    BY <2>1 DEF FetchFails, Suppress, StoreFails, TypeOK
  <2>2. CASE StayQuiet(e) \/ MarkActive(e) \/ Recover(e)
    <3>1. \E state \in States : rules' = [rules EXCEPT ![Current(e)].state = state]
      BY <1>7, <2>2 DEF StayQuiet, MarkActive, Marked, Recover, RecoverTo, RecoveryDue, States, Rows
    <3> QED
      BY <1>7, <3>1, RowChanged
  <2>3. CASE StampRule(e)
    <3>1. events[Current(e)] # <<>>
      BY <2>3 DEF StampRule, Stamped, StepInv, StepOf
    <3>2. LastEvent(Current(e)).at \in Int
      BY <1>7, <3>1, LastOne DEF TypeOK
    <3> QED
      BY <1>7, <2>3, <3>2, RowChanged DEF StampRule, Stamped
  <2>4. CASE ReadBackFails(e)
    <3>1. eval[e].at = "stamp" => events[Current(e)] # <<>>
      BY DEF StepInv, StepOf
    <3>2. eval[e].at = "stamp" => LastEvent(Current(e)).at \in Int
      BY <1>7, <3>1, LastOne DEF TypeOK
    <3> QED
      BY <1>7, <2>4, <3>2, RowChanged DEF ReadBackFails, States
  <2> QED
    BY <2>1, <2>2, <2>3, <2>4
<1> QED
  BY <1>2, <1>3, <1>4, <1>6, <1>8, <1>9, EvalStep DEF TypeOK

(* The steps of a message: it is sent, recorded, and its rule stamped.      *)
LEMMA MessageTypes ==
  ASSUME TypeOK, StepInv, NEW e \in Evaluators,
         \/ Alert(e) \/ SendEnds(e) \/ RecordEvent(e)
         \/ StampRule(e) /\ eval[e].kind = "alert"
         \/ Recover(e) /\ Settings[Current(e)].notify_recovery
  PROVE  TypeOK' /\ StepInv'
<1>0. /\ eval[e] \in Evals
      /\ \A r \in Rules : eval[e].held[r] # NoRow => rules[r] # NoRow
      /\ Held(e) # {}
  BY HeldRows DEF Alert, AlertDue, SendEnds, RecordEvent, StampRule, Stamped, Recover, RecoverTo,
     RecoveryDue, Evaluating, StepInv, StepOf, Busy
<1>1. Current(e) \in Rules /\ rules[Current(e)] \in Rows
  BY <1>0, HeldRows
<1> DEFINE Typed == /\ rules \in [Rules -> Rows \cup {NoRow}]
                    /\ events \in [Rules -> Seq(Events)]
                    /\ raced \subseteq Rules /\ torn \subseteq Rules
<1>t. Typed
  BY DEF TypeOK
<1>2. CASE Alert(e)
  <2> DEFINE v == [eval[e] EXCEPT !.at = "send", !.kind = "alert"]
  <2>1. eval' = [eval EXCEPT ![e] = v] /\ v \in Evals /\ v.held = eval[e].held
        /\ v.at = "send" /\ v.kind = "alert"
    BY <1>0, <1>2 DEF Alert, Evals, Steps, TypeOK
  <2>2. eval'[e] = v
    BY <2>1 DEF TypeOK
  <2>3. Held(e)' = Held(e)
    BY <2>1, <2>2 DEF Held
  <2>4. StepOf(e)'
    BY <1>0, <2>1, <2>2, <2>3 DEF StepOf, Busy
  <2> HIDE DEF v
  <2> QED
    <3>1. UNCHANGED <<rules, events, now, raced, torn>>
      BY <1>2 DEF Alert
    <3> QED
      BY <1>0, <1>t, <2>1, <2>4, <3>1, EvalStep DEF Suspended
<1>3. CASE SendEnds(e)
  <2>1. PICK delivered \in BOOLEAN :
          eval' = [eval EXCEPT ![e].at = "record", ![e].delivered = delivered]
    BY <1>3 DEF SendEnds
  <2> DEFINE v == [eval[e] EXCEPT !.at = "record", !.delivered = delivered]
  <2>2. eval' = [eval EXCEPT ![e] = v] /\ v \in Evals /\ v.held = eval[e].held
        /\ v.at = "record" /\ v.kind = eval[e].kind
    BY <1>0, <2>1 DEF Evals, Steps, TypeOK
  <2>3. eval'[e] = v
    BY <2>2 DEF TypeOK
  <2>4. Held(e)' = Held(e)
    BY <2>2, <2>3 DEF Held
  <2>5. eval[e].kind # "none"
    BY <1>3 DEF SendEnds, StepInv, StepOf, Busy
  <2>6. StepOf(e)'
    BY <1>0, <2>2, <2>3, <2>4, <2>5 DEF StepOf, Busy
  <2> HIDE DEF v
  <2> QED
    <3>1. UNCHANGED <<rules, events, now, raced, torn>> /\ LoopFree
      BY <1>3 DEF SendEnds
    <3> QED
      BY <1>0, <1>t, <2>2, <2>6, <3>1, EvalStep
<1>4. CASE RecordEvent(e)
  <2> DEFINE v == [eval[e] EXCEPT !.at = "stamp"]
             ev == [kind |-> eval[e].kind, delivered |-> eval[e].delivered, at |-> now,
                    late |-> ~rules[Current(e)].enabled]
  <2>1. eval' = [eval EXCEPT ![e] = v] /\ v \in Evals /\ v.held = eval[e].held
        /\ v.at = "stamp" /\ v.kind = eval[e].kind
    BY <1>0, <1>4 DEF RecordEvent, Evals, Steps, TypeOK
  <2>2. eval'[e] = v
    BY <2>1 DEF TypeOK
  <2>3. Held(e)' = Held(e) /\ Current(e)' = Current(e)
    BY <2>1, <2>2 DEF Held, Current
  <2>4. eval[e].kind # "none"
    BY <1>4 DEF RecordEvent, StepInv, StepOf, Busy
  <2>5. ev \in Events
    BY <1>0, <1>1, <2>4, BoundsAssumption DEF Events, Evals, TypeOK
  <2>6. events' = [events EXCEPT ![Current(e)] = Append(@, ev)]
    BY <1>4 DEF RecordEvent
  <2> HIDE DEF v, ev
  <2>7. events' \in [Rules -> Seq(Events)] /\ events'[Current(e)] # <<>>
        /\ \A r \in Rules : events[r] # <<>> => events'[r] # <<>>
    <3> DEFINE c == Current(e)
               s == Append(events[c], ev)
    <3>1. c \in Rules /\ events \in [Rules -> Seq(Events)]
      BY <1>1 DEF TypeOK
    <3>2. events[c] \in Seq(Events)
      BY <3>1
    <3> HIDE DEF c
    <3>3. s \in Seq(Events) /\ s # <<>>
      BY <2>5, <3>2
    <3>4. events' = [events EXCEPT ![c] = s]
      BY <2>6 DEF c
    <3> HIDE DEF s
    <3>5. events'[c] = s /\ \A r \in Rules \ {c} : events'[r] = events[r]
      BY <3>1, <3>4
    <3>6. events' \in [Rules -> Seq(Events)]
      BY <3>1, <3>3, <3>4
    <3> QED
      BY <3>3, <3>5, <3>6 DEF c
  <2>8. StepOf(e)'
    BY <1>0, <2>1, <2>2, <2>3, <2>4, <2>7 DEF StepOf, Busy
  <2> QED
    <3>1. UNCHANGED <<rules, now, raced, torn>> /\ eval[e].at \notin Suspended
      BY <1>4 DEF RecordEvent, Suspended
    <3> QED
      BY <1>0, <1>t, <2>1, <2>7, <2>8, <3>1, EvalStep
<1>5. CASE StampRule(e) /\ eval[e].kind = "alert"
  <2> DEFINE v == [eval[e] EXCEPT !.at = "mark"]
  <2>1. eval' = [eval EXCEPT ![e] = v] /\ v \in Evals /\ v.held = eval[e].held
        /\ v.at = "mark" /\ v.kind = "alert"
    BY <1>0, <1>5 DEF StampRule, Stamped, Evals, Steps, TypeOK
  <2>2. eval'[e] = v
    BY <2>1 DEF TypeOK
  <2>3. Held(e)' = Held(e) /\ Current(e)' = Current(e)
    BY <2>1, <2>2 DEF Held, Current
  <2>4. events[Current(e)] # <<>> /\ UNCHANGED events
    BY <1>5 DEF StampRule, Stamped, StepInv, StepOf
  <2>5. StepOf(e)'
    BY <1>0, <2>1, <2>2, <2>3, <2>4 DEF StepOf, Busy
  <2>6. LastEvent(Current(e)).at \in Int
    BY <1>1, <2>4, LastOne DEF TypeOK
  <2>7. rules' \in [Rules -> Rows \cup {NoRow}]
        /\ \A q \in Rules : rules[q] # NoRow => rules'[q] # NoRow
    BY <1>1, <1>5, <2>6, RowChanged DEF StampRule, Stamped
  <2> HIDE DEF v
  <2> QED
    <3>1. UNCHANGED <<events, now, raced, torn>> /\ eval[e].at \notin Suspended
      BY <1>5 DEF StampRule, Stamped, Suspended
    <3> QED
      BY <1>0, <1>t, <2>1, <2>5, <2>7, <3>1, EvalStep
<1>6. CASE Recover(e) /\ Settings[Current(e)].notify_recovery
  <2> DEFINE v == [eval[e] EXCEPT !.at = "send", !.kind = "recovery"]
  <2>1. eval' = [eval EXCEPT ![e] = v] /\ v \in Evals /\ v.held = eval[e].held
        /\ v.at = "send" /\ v.kind = "recovery"
    BY <1>0, <1>6 DEF Recover, RecoverTo, RecoveryDue, Evals, Steps, TypeOK
  <2>2. eval'[e] = v
    BY <2>1 DEF TypeOK
  <2>3. Held(e)' = Held(e)
    BY <2>1, <2>2 DEF Held
  <2>4. StepOf(e)'
    BY <1>0, <2>1, <2>2, <2>3 DEF StepOf, Busy
  <2>5. rules' \in [Rules -> Rows \cup {NoRow}]
        /\ \A q \in Rules : rules[q] # NoRow => rules'[q] # NoRow
    <3>1. "recovered" \in States
      BY DEF States
    <3> QED
      BY <1>1, <1>6, <3>1, RowChanged DEF Recover, RecoverTo, RecoveryDue
  <2> HIDE DEF v
  <2> QED
    <3>1. UNCHANGED <<events, now, raced, torn>> /\ eval[e].at \notin Suspended
      BY <1>6 DEF Recover, RecoverTo, RecoveryDue, Evaluating, Suspended
    <3> QED
      BY <1>0, <1>t, <2>1, <2>4, <2>5, <3>1, EvalStep
<1> QED
  BY <1>2, <1>3, <1>4, <1>5, <1>6

(* An evaluation begins, asks, is answered, and ends.                       *)
LEMMA OtherTypes ==
  ASSUME TypeOK, StepInv, NEW e \in Evaluators,
         Begin(e) \/ Fetch(e) \/ FetchReturns(e) \/ End(e)
  PROVE  TypeOK' /\ StepInv'
<1>0. /\ eval[e] \in Evals
      /\ \A r \in Rules : eval[e].held[r] # NoRow => rules[r] # NoRow
  BY HeldRows
<1>1. /\ rules \in [Rules -> Rows \cup {NoRow}] /\ events \in [Rules -> Seq(Events)]
      /\ raced \subseteq Rules /\ torn \subseteq Rules
  BY DEF TypeOK
<1>2. CASE Begin(e)
  <2> DEFINE v == [eval[e] EXCEPT !.at = "run",
                     !.held = [r \in Rules |-> IF r \in ActiveRules THEN rules[r] ELSE NoRow]]
  <2>1. eval' = [eval EXCEPT ![e] = v] /\ LoopFree /\ UNCHANGED <<rules, events, now, torn>>
        /\ raced' = raced \cup {r \in ActiveRules : \E f \in Evaluators : r \in Held(f)}
    BY <1>2 DEF Begin, BeginWith, TypeOK
  <2>2. v \in Evals /\ v.at = "run"
    BY <1>0, <1>1 DEF Evals, Steps
  <2>3. \A r \in Rules : v.held[r] # NoRow => rules[r] # NoRow
    BY <1>0 DEF Evals
  <2>4. raced' \subseteq Rules
    BY <1>1, <2>1 DEF ActiveRules, EnabledRules
  <2>5. eval'[e].at = "run"
    BY <2>1, <2>2 DEF TypeOK
  <2>6. StepOf(e)'
    BY <2>5 DEF StepOf, Busy
  <2> HIDE DEF v
  <2> QED
    BY <1>1, <2>1, <2>2, <2>3, <2>4, <2>6, EvalStep
<1>3. CASE Fetch(e)
  <2> DEFINE v == [eval[e] EXCEPT !.at = "fetch"]
  <2>1. eval' = [eval EXCEPT ![e] = v] /\ v \in Evals /\ v.held = eval[e].held /\ v.at = "fetch"
    BY <1>0, <1>3 DEF Fetch, Evals, Steps, TypeOK
  <2>2. Held(e) # {} /\ UNCHANGED <<rules, events, now, raced, torn>>
    BY <1>3 DEF Fetch
  <2>3. eval'[e] = v
    BY <2>1 DEF TypeOK
  <2>4. Held(e)' = Held(e)
    BY <2>1, <2>3 DEF Held
  <2>5. StepOf(e)'
    BY <2>1, <2>2, <2>3, <2>4 DEF StepOf, Busy
  <2> HIDE DEF v
  <2> QED
    BY <1>0, <1>1, <2>1, <2>2, <2>5, EvalStep DEF Suspended
<1>4. CASE FetchReturns(e)
  <2>0. Held(e) # {}
    BY <1>4 DEF FetchReturns, StepInv, StepOf
  <2>1. Settings[Current(e)].source \in Sources
    BY <2>0, CurrentHeld, SettingsAssumption
  <2>2. PICK reading \in Readings :
          eval' = [eval EXCEPT ![e].at = "run",
                               ![e].cache[Settings[Current(e)].source] = reading]
    BY <1>4 DEF FetchReturns
  <2> DEFINE v == [eval[e] EXCEPT !.at = "run",
                                  !.cache[Settings[Current(e)].source] = reading]
  <2>3. eval' = [eval EXCEPT ![e] = v]
    BY <2>2 DEF TypeOK
  <2>4. v \in Evals /\ v.held = eval[e].held /\ v.at = "run"
    BY <1>0, <2>1 DEF Evals, Steps
  <2>5. LoopFree /\ UNCHANGED <<rules, events, now, raced, torn>>
    BY <1>4 DEF FetchReturns
  <2>6. eval'[e].at = "run"
    BY <2>3, <2>4 DEF TypeOK
  <2>7. StepOf(e)'
    BY <2>6 DEF StepOf, Busy
  <2> HIDE DEF v
  <2> QED
    BY <1>0, <1>1, <2>3, <2>4, <2>5, <2>7, EvalStep
<1>5. CASE End(e)
  <2>1. Asleep \in Evals /\ Asleep.at = "idle" /\ \A r \in Rules : Asleep.held[r] = NoRow
    BY DEF Asleep, Evals, Steps
  <2>2. eval' = [eval EXCEPT ![e] = Asleep] /\ UNCHANGED <<rules, events, now, raced, torn>>
    BY <1>5 DEF End
  <2>3. eval'[e] = Asleep
    BY <2>2 DEF TypeOK
  <2>4. StepOf(e)'
    BY <2>1, <2>3 DEF StepOf, Busy, Held
  <2> QED
    BY <1>1, <2>1, <2>2, <2>4, EvalStep DEF Suspended
<1> QED
  BY <1>2, <1>3, <1>4, <1>5

(* What the user does, between two steps of the evaluations: new rows, and *)
(* one that is disabled.                                                   *)
LEMMA UserStep ==
  ASSUME TypeOK,
         \/ \E r \in Rules, enabled \in BOOLEAN : CreateByRequest(r, enabled)
         \/ \E r \in Rules : CreateByTool(r)
         \/ \E S \in SUBSET Rules : CreatePresets(S)
         \/ \E r \in Rules : Disable(r)
  PROVE  /\ UNCHANGED <<events, now, eval, raced, torn>>
         /\ rules' \in [Rules -> Rows \cup {NoRow}]
         /\ \A q \in Rules : rules[q] # NoRow =>
              /\ rules'[q] # NoRow
              /\ rules'[q].state = rules[q].state /\ rules'[q].last = rules[q].last
         /\ \A q \in Rules : rules[q] # NoRow /\ ~rules[q].enabled => ~rules'[q].enabled
         /\ \A q \in Rules : rules[q] = NoRow /\ rules'[q] # NoRow
                              => rules'[q].state = "inactive" /\ rules'[q].last = Never
<1>1. ASSUME NEW r \in Rules, NEW enabled \in BOOLEAN, Create(r, enabled)
      PROVE  /\ UNCHANGED <<events, now, eval, raced, torn>>
             /\ rules' \in [Rules -> Rows \cup {NoRow}]
             /\ \A q \in Rules : rules[q] # NoRow => rules'[q] = rules[q]
             /\ \A q \in Rules : rules[q] = NoRow /\ rules'[q] # NoRow
                                  => rules'[q].state = "inactive" /\ rules'[q].last = Never
  <2>1. [enabled |-> enabled, state |-> "inactive", last |-> Never] \in Rows
    BY DEF Rows, States, Never
  <2> QED
    BY <1>1, <2>1 DEF Create, TypeOK
<1>2. ASSUME NEW S \in SUBSET Rules, CreatePresets(S)
      PROVE  /\ UNCHANGED <<events, now, eval, raced, torn>>
             /\ rules' \in [Rules -> Rows \cup {NoRow}]
             /\ \A q \in Rules : rules[q] # NoRow => rules'[q] = rules[q]
             /\ \A q \in Rules : rules[q] = NoRow /\ rules'[q] # NoRow
                                  => rules'[q].state = "inactive" /\ rules'[q].last = Never
  <2>1. [enabled |-> TRUE, state |-> "inactive", last |-> Never] \in Rows
    BY DEF Rows, States, Never
  <2> QED
    BY <1>2, <2>1 DEF CreatePresets, TypeOK
<1>3. ASSUME NEW r \in Rules, Disable(r)
      PROVE  /\ UNCHANGED <<events, now, eval, raced, torn>>
             /\ rules' \in [Rules -> Rows \cup {NoRow}]
             /\ \A q \in Rules : rules[q] # NoRow =>
                  /\ rules'[q] # NoRow
                  /\ rules'[q].state = rules[q].state /\ rules'[q].last = rules[q].last
                  /\ ~rules[q].enabled => ~rules'[q].enabled
             /\ \A q \in Rules : rules[q] = NoRow => rules'[q] = NoRow
  <2>1. rules[r] # NoRow /\ rules[r] \in Rows /\ UNCHANGED <<events, now, eval, raced, torn>>
        /\ rules' = [rules EXCEPT ![r].enabled = FALSE]
    BY <1>3 DEF Disable, TypeOK
  <2>2. rules'[r] \in Rows /\ rules'[r].state = rules[r].state /\ rules'[r].last = rules[r].last
        /\ ~rules'[r].enabled
    BY <2>1 DEF TypeOK, Rows
  <2>3. \A q \in Rules : q # r => rules'[q] = rules[q]
    BY <2>1 DEF TypeOK
  <2> QED
    BY <2>1, <2>2, <2>3, RowChanged
<1> QED
  BY <1>1, <1>2, <1>3 DEF CreateByRequest, CreateByTool

(* Every step keeps the types and what is true of each evaluation. *)
LEMMA NextTypes == TypeOK /\ StepInv /\ [Next]_vars => TypeOK' /\ StepInv'
<1> SUFFICES ASSUME TypeOK, StepInv, [Next]_vars PROVE TypeOK' /\ StepInv'
  OBVIOUS
<1>1. CASE UNCHANGED vars
  <2>1. UNCHANGED <<rules, events, now, eval, raced, torn>>
    BY <1>1 DEF vars
  <2>2. \A e \in Evaluators : Held(e)' = Held(e) /\ Current(e)' = Current(e)
    BY <2>1 DEF Held, Current
  <2>3. TypeOK'
    BY <2>1, <2>2 DEF TypeOK
  <2>4. StepInv'
    BY <2>1, <2>2 DEF StepInv, StepOf
  <2> QED
    BY <2>3, <2>4
<1>2. CASE \/ \E r \in Rules, enabled \in BOOLEAN : CreateByRequest(r, enabled)
           \/ \E r \in Rules : CreateByTool(r)
           \/ \E S \in SUBSET Rules : CreatePresets(S)
           \/ \E r \in Rules : Disable(r)
  <2>1. /\ UNCHANGED <<events, now, eval, raced, torn>>
        /\ rules' \in [Rules -> Rows \cup {NoRow}]
        /\ \A q \in Rules : rules[q] # NoRow => rules'[q] # NoRow
    BY <1>2, UserStep
  <2>2. \A e \in Evaluators : Held(e)' = Held(e) /\ Current(e)' = Current(e)
    BY <2>1 DEF Held, Current
  <2>3. TypeOK'
    BY <2>1, <2>2 DEF TypeOK, Held
  <2>4. StepInv'
    BY <2>1, <2>2 DEF StepInv, StepOf
  <2> QED
    BY <2>3, <2>4
<1>3. ASSUME NEW e \in Evaluators, Begin(e) \/ Resume(e) \/ Run(e)
      PROVE  TypeOK' /\ StepInv'
  <2>1. CASE Begin(e) \/ Fetch(e) \/ FetchReturns(e) \/ End(e)
    BY <2>1, OtherTypes
  <2>2. CASE \/ FetchFails(e) \/ Suppress(e) \/ StayQuiet(e) \/ StoreFails(e) \/ ReadBackFails(e)
             \/ MarkActive(e)
             \/ StampRule(e) /\ eval[e].kind # "alert"
             \/ Recover(e) /\ ~Settings[Current(e)].notify_recovery
    BY <2>2, QuietTypes
  <2>3. CASE \/ Alert(e) \/ SendEnds(e) \/ RecordEvent(e)
             \/ StampRule(e) /\ eval[e].kind = "alert"
             \/ Recover(e) /\ Settings[Current(e)].notify_recovery
    BY <2>3, MessageTypes
  <2> QED
    BY <1>3, <2>1, <2>2, <2>3 DEF Resume, Run
<1>4. CASE Restart
  <2>1. Asleep \in Evals /\ Asleep.at = "idle" /\ \A r \in Rules : Asleep.held[r] = NoRow
    BY DEF Asleep, Evals, Steps
  <2>2. eval' = [e \in Evaluators |-> Asleep] /\ UNCHANGED <<rules, events, now, raced>>
    BY <1>4 DEF Restart
  <2>3. torn' \subseteq Rules
    <3>1. \A e \in Evaluators : eval[e].at \in {"send", "record", "stamp", "mark"} => Current(e) \in Rules
      BY CurrentHeld DEF StepInv, StepOf, Busy
    <3> QED
      BY <1>4, <3>1 DEF Restart, TypeOK
  <2>4. \A e \in Evaluators : eval'[e].at = "idle" /\ Held(e)' = {}
    BY <2>1, <2>2 DEF Held
  <2>5. TypeOK'
    BY <2>1, <2>2, <2>3, <2>4 DEF TypeOK, Evals, Suspended
  <2>6. StepInv'
    BY <2>4 DEF StepInv, StepOf, Busy
  <2> QED
    BY <2>5, <2>6
<1>5. CASE Tick
  <2>1. UNCHANGED <<rules, events, eval, raced, torn>> /\ now' \in 0..Horizon
    BY <1>5, BoundsAssumption DEF Tick, TypeOK
  <2>2. \A e \in Evaluators : Held(e)' = Held(e) /\ Current(e)' = Current(e)
    BY <2>1 DEF Held, Current
  <2> QED
    BY <2>1, <2>2 DEF TypeOK, StepInv, StepOf, Held
<1> QED
  BY <1>1, <1>2, <1>3, <1>4, <1>5 DEF Next

(* The rows and events hold their columns, what an evaluation holds exists, *)
(* and at most one coroutine is between awaits, in every reachable state:   *)
(* one event loop over SQLite (notifications.py:176-207).                   *)
THEOREM TypesKept == Spec => []TypeOK
<1>1. Init => TypeOK /\ StepInv
  BY InitTypes
<1>2. (TypeOK /\ StepInv) /\ [Next]_vars => (TypeOK /\ StepInv)'
  BY NextTypes
<1> QED
  BY <1>1, <1>2, PTL DEF Spec

-----------------------------------------------------------------------------
(* How far an evaluation is with its current rule: fetched, cached, sent,  *)
(* recorded and stamped.                                                   *)
Done(e) ==
  CASE eval[e].at = "fetch"  -> 1
    [] eval[e].at = "send"   -> 3
    [] eval[e].at = "record" -> 4
    [] eval[e].at = "stamp"  -> 5
    [] eval[e].at = "mark"   -> 6
    [] OTHER -> IF Held(e) # {} /\ Reading(e) # Unfetched THEN 2 ELSE 0

(* At most so many steps are left to an evaluation before it is over: seven *)
(* for each rule it still holds, and the last one.                          *)
StepsLeft(e) ==
  IF eval[e].at = "idle" THEN 0 ELSE 1 + 7 * Cardinality(Held(e)) - Done(e)

StepsLeftBounded == \A e \in Evaluators : StepsLeft(e) \in 0..(1 + 7 * ListLimit)

OnlyForward ==
  [][\A e \in Evaluators :
       eval[e].at # "idle" /\ eval'[e] # eval[e] => StepsLeft(e)' < StepsLeft(e)]_vars

HeldFew == \A e \in Evaluators : Cardinality(Held(e)) <= ListLimit

(* The rules are finitely many, and so is every set of them. *)
LEMMA RulesFinite ==
  ASSUME NEW S \in SUBSET Rules
  PROVE  IsFiniteSet(S) /\ Cardinality(S) \in Nat
<1>1. IsFiniteSet(Rules)
  BY SettingsAssumption, FS_Interval DEF Rules
<1> QED
  BY <1>1, FS_Subset, FS_CardinalityType

(* The list has no more rows than its limit: its oldest rule has fewer     *)
(* enabled rules before it than the limit.                                 *)
LEMMA ListIsShort == Cardinality(ActiveRules) <= ListLimit
<1>1. ActiveRules \in SUBSET Rules /\ EnabledRules \in SUBSET Rules /\ ActiveRules \subseteq EnabledRules
  BY DEF ActiveRules, EnabledRules
<1>2. CASE ActiveRules = {}
  BY <1>2, FS_EmptySet, BoundsAssumption
<1>3. CASE ActiveRules # {}
  <2>1. ActiveRules \subseteq Nat
    BY <1>1, SettingsAssumption DEF Rules
  <2>2. PICK q \in ActiveRules : \A r \in ActiveRules : ~ (<<r, q>> \in OpToRel(<, Nat))
    BY <1>3, <2>1, NatLessThanWellFounded, WFMin
  <2>3. \A r \in ActiveRules : q <= r
    <3>1. ASSUME NEW r \in ActiveRules PROVE q <= r
      <4>1. q \in Nat /\ r \in Nat
        BY <2>1
      <4>2. ~ (r < q)
        BY <2>2, <4>1 DEF OpToRel
      <4> QED
        BY <4>1, <4>2
    <3> QED
      BY <3>1
  <2> DEFINE Newer == {r \in EnabledRules : r > q}
  <2>4. ActiveRules \ {q} \subseteq Newer
    <3>1. ASSUME NEW r \in ActiveRules, r # q PROVE r > q
      BY <2>1, <2>3, <3>1
    <3> QED
      BY <1>1, <3>1
  <2>5. IsFiniteSet(Newer) /\ Cardinality(Newer) < ListLimit
    <3>1. Newer \in SUBSET Rules
      BY <1>1
    <3> QED
      BY <3>1, RulesFinite DEF ActiveRules
  <2>6. Cardinality(ActiveRules \ {q}) <= Cardinality(Newer)
    BY <2>4, <2>5, FS_Subset
  <2>7. Cardinality(ActiveRules \ {q}) = Cardinality(ActiveRules) - 1
    BY <1>1, RulesFinite, FS_RemoveElement
  <2>8. Cardinality(ActiveRules) \in Nat /\ Cardinality(Newer) \in Nat
    BY <1>1, <2>5, RulesFinite, FS_CardinalityType
  <2> HIDE DEF Newer
  <2> QED
    BY <2>5, <2>6, <2>7, <2>8, BoundsAssumption
<1> QED
  BY <1>2, <1>3

(* What an evaluation holds, before and after a step, and how far it is.    *)
LEMMA Measured ==
  ASSUME NEW e
  PROVE  /\ IsFiniteSet(Held(e)) /\ Cardinality(Held(e)) \in Nat
         /\ IsFiniteSet(Held(e)') /\ Cardinality(Held(e)') \in Nat
         /\ Done(e) \in 0..6 /\ Done(e)' \in 0..6
         /\ Held(e) # {} => Cardinality(Held(e)) >= 1
<1>1. Held(e) \in SUBSET Rules /\ Held(e)' \in SUBSET Rules
  BY DEF Held
<1>2. Done(e) \in 0..6 /\ Done(e)' \in 0..6
  BY DEF Done
<1>3. Held(e) # {} => Cardinality(Held(e)) # 0
  BY <1>1, RulesFinite, FS_EmptySet
<1> QED
  BY <1>1, <1>2, <1>3, RulesFinite

(* An evaluation under way has a step left: its end. *)
LEMMA SomeLeft ==
  ASSUME TypeOK, StepInv, NEW e \in Evaluators, eval[e].at # "idle"
  PROVE  StepsLeft(e) \in Nat /\ StepsLeft(e) >= 1
         /\ StepsLeft(e) <= 1 + 7 * Cardinality(Held(e))
<1>1. Held(e) = {} => Done(e) = 0
  <2>1. eval[e].at \in Steps
    BY DEF TypeOK
  <2> QED
    BY <2>1 DEF StepInv, StepOf, Busy, Steps, Done
<1>2. Held(e) # {} => Cardinality(Held(e)) >= 1
  BY Measured
<1>3. Cardinality(Held(e)) \in Nat /\ Done(e) \in 0..6
  BY Measured
<1>4. StepsLeft(e) = 1 + 7 * Cardinality(Held(e)) - Done(e)
  BY DEF StepsLeft
<1> QED
  BY <1>1, <1>2, <1>3, <1>4

(* Going on to the next rule leaves fewer steps. *)
LEMMA LessWithNext ==
  ASSUME TypeOK, StepInv, NEW e \in Evaluators, eval[e].at # "idle", Held(e) # {},
         eval' = [eval EXCEPT ![e] = NextRule(e)]
  PROVE  StepsLeft(e)' < StepsLeft(e)
<1>1. Held(e)' = Held(e) \ {Current(e)} /\ eval'[e].at = "run" /\ Current(e) \in Held(e)
  BY GoneOn, CurrentHeld
<1>2. Cardinality(Held(e)') = Cardinality(Held(e)) - 1
  BY <1>1, Measured, FS_RemoveElement
<1>3. Cardinality(Held(e)) \in Nat /\ Done(e) \in 0..6 /\ Done(e)' \in 0..6
  BY Measured
<1>4. StepsLeft(e) = 1 + 7 * Cardinality(Held(e)) - Done(e)
      /\ StepsLeft(e)' = 1 + 7 * Cardinality(Held(e)') - Done(e)'
  BY <1>1 DEF StepsLeft
<1> QED
  BY <1>2, <1>3, <1>4

(* So does being further with the current one. *)
LEMMA LessFurther ==
  ASSUME NEW e \in Evaluators, eval[e].at # "idle", eval'[e].at # "idle",
         Held(e)' = Held(e), Done(e) < Done(e)'
  PROVE  StepsLeft(e)' < StepsLeft(e)
<1>1. Cardinality(Held(e)) \in Nat /\ Done(e) \in 0..6 /\ Done(e)' \in 0..6
  BY Measured
<1>2. StepsLeft(e) = 1 + 7 * Cardinality(Held(e)) - Done(e)
      /\ StepsLeft(e)' = 1 + 7 * Cardinality(Held(e)) - Done(e)'
  BY DEF StepsLeft
<1> QED
  BY <1>1, <1>2

(* Each step of an evaluation leaves it fewer, and holding no more.         *)
LEMMA EachStep ==
  ASSUME TypeOK, StepInv, NEW e \in Evaluators, Resume(e) \/ Run(e)
  PROVE  /\ StepsLeft(e)' < StepsLeft(e)
         /\ Held(e)' \subseteq Held(e)
         /\ \A f \in Evaluators : f # e => eval'[f] = eval[f]
<1>1. eval[e] \in Evals /\ eval \in [Evaluators -> Evals]
  BY DEF TypeOK, Evals
<1>2. eval[e].at \in Busy \cup {"fetch"} => Held(e) # {}
  BY DEF StepInv, StepOf
<1>3. CASE \/ FetchFails(e) \/ Suppress(e) \/ StayQuiet(e) \/ StoreFails(e) \/ ReadBackFails(e)
           \/ MarkActive(e)
           \/ StampRule(e) /\ eval[e].kind # "alert"
           \/ Recover(e) /\ ~Settings[Current(e)].notify_recovery
  <2>1. eval[e].at # "idle" /\ Held(e) # {} /\ eval' = [eval EXCEPT ![e] = NextRule(e)]
    BY <1>2, <1>3 DEF FetchFails, Suppress, StayQuiet, StoreFails, ReadBackFails, MarkActive,
       Marked, StampRule, Stamped, Recover, RecoverTo, RecoveryDue, Evaluating, Busy
  <2> QED
    BY <2>1, LessWithNext, GoneOn
<1>4. CASE \/ Alert(e) \/ SendEnds(e) \/ RecordEvent(e)
           \/ StampRule(e) /\ eval[e].kind = "alert"
           \/ Recover(e) /\ Settings[Current(e)].notify_recovery
  <2>1. CASE Alert(e) \/ (Recover(e) /\ Settings[Current(e)].notify_recovery)
    <3>1. Done(e) = 2 /\ eval[e].at = "run"
      BY <2>1 DEF Alert, AlertDue, Recover, RecoverTo, RecoveryDue, Evaluating, Done
    <3>2. \E kind \in {"alert", "recovery"} :
            eval' = [eval EXCEPT ![e] = [eval[e] EXCEPT !.at = "send", !.kind = kind]]
      <4>1. CASE Alert(e)
        BY <1>1, <4>1 DEF Alert, Evals
      <4>2. CASE Recover(e) /\ Settings[Current(e)].notify_recovery
        BY <4>2 DEF Recover, RecoverTo, RecoveryDue
      <4> QED
        BY <2>1, <4>1, <4>2
    <3>4. eval'[e].at = "send" /\ eval'[e].held = eval[e].held
          /\ \A f \in Evaluators : f # e => eval'[f] = eval[f]
      BY <1>1, <3>2 DEF Evals
    <3>3. Held(e)' = Held(e) /\ Done(e)' = 3
      BY <3>4 DEF Held, Done
    <3> QED
      BY <3>1, <3>3, <3>4, LessFurther
  <2>2. CASE SendEnds(e)
    <3>1. Done(e) = 3 /\ eval[e].at = "send"
      BY <2>2 DEF SendEnds, Done
    <3>2. eval'[e].at = "record" /\ eval'[e].held = eval[e].held
          /\ \A f \in Evaluators : f # e => eval'[f] = eval[f]
      BY <1>1, <2>2 DEF SendEnds, Evals
    <3>3. Held(e)' = Held(e) /\ Done(e)' = 4
      BY <3>2 DEF Held, Done
    <3> QED
      BY <3>1, <3>2, <3>3, LessFurther
  <2>3. CASE RecordEvent(e)
    <3>1. Done(e) = 4 /\ eval[e].at = "record"
      BY <2>3 DEF RecordEvent, Done
    <3>2. eval'[e].at = "stamp" /\ eval'[e].held = eval[e].held
          /\ \A f \in Evaluators : f # e => eval'[f] = eval[f]
      BY <1>1, <2>3 DEF RecordEvent, Evals
    <3>3. Held(e)' = Held(e) /\ Done(e)' = 5
      BY <3>2 DEF Held, Done
    <3> QED
      BY <3>1, <3>2, <3>3, LessFurther
  <2>4. CASE StampRule(e) /\ eval[e].kind = "alert"
    <3>1. Done(e) = 5 /\ eval[e].at = "stamp"
      BY <2>4 DEF StampRule, Stamped, Done
    <3>2. eval'[e].at = "mark" /\ eval'[e].held = eval[e].held
          /\ \A f \in Evaluators : f # e => eval'[f] = eval[f]
      BY <1>1, <2>4 DEF StampRule, Stamped, Evals
    <3>3. Held(e)' = Held(e) /\ Done(e)' = 6
      BY <3>2 DEF Held, Done
    <3> QED
      BY <3>1, <3>2, <3>3, LessFurther
  <2> QED
    BY <1>4, <2>1, <2>2, <2>3, <2>4, Zenon
<1>5. CASE Fetch(e)
  <2>1. Done(e) = 0 /\ eval[e].at = "run"
    BY <1>5 DEF Fetch, Done
  <2>2. eval'[e].at = "fetch" /\ eval'[e].held = eval[e].held
        /\ \A f \in Evaluators : f # e => eval'[f] = eval[f]
    BY <1>1, <1>5 DEF Fetch, Evals
  <2>3. Held(e)' = Held(e) /\ Done(e)' = 1
    BY <2>2 DEF Held, Done
  <2> QED
    BY <2>1, <2>2, <2>3, LessFurther
<1>6. CASE FetchReturns(e)
  <2>1. Done(e) = 1 /\ eval[e].at = "fetch" /\ Held(e) # {}
    BY <1>2, <1>6 DEF FetchReturns, Done
  <2>2. Current(e) \in Rules /\ Settings[Current(e)].source \in Sources
    BY <2>1, CurrentHeld, SettingsAssumption
  <2>3. PICK reading \in Readings :
          eval' = [eval EXCEPT ![e].at = "run", ![e].cache[Settings[Current(e)].source] = reading]
    BY <1>6 DEF FetchReturns
  <2>4. eval'[e].at = "run" /\ eval'[e].held = eval[e].held
        /\ eval'[e].cache[Settings[Current(e)].source] = reading
        /\ \A f \in Evaluators : f # e => eval'[f] = eval[f]
    BY <1>1, <2>2, <2>3 DEF Evals
  <2>5. Held(e)' = Held(e) /\ Current(e)' = Current(e)
    BY <2>4 DEF Held, Current
  <2>6. Reading(e)' = reading /\ reading # Unfetched
    BY <2>4, <2>5, NoRowAssumption DEF Reading
  <2>7. Done(e)' = 2
    BY <2>1, <2>4, <2>5, <2>6 DEF Done
  <2> QED
    BY <2>1, <2>4, <2>5, <2>7, LessFurther
<1>7. CASE End(e)
  <2>1. eval[e].at = "run" /\ eval'[e] = Asleep
        /\ \A f \in Evaluators : f # e => eval'[f] = eval[f]
    BY <1>1, <1>7 DEF End
  <2>2. eval'[e].at = "idle" /\ Held(e)' = {}
    BY <2>1 DEF Asleep, Held
  <2>3. StepsLeft(e)' = 0 /\ StepsLeft(e) >= 1 /\ StepsLeft(e) \in Nat
    BY <2>1, <2>2, SomeLeft DEF StepsLeft
  <2> QED
    BY <2>1, <2>2, <2>3
<1> QED
  BY <1>3, <1>4, <1>5, <1>6, <1>7 DEF Resume, Run

(* No step gives an evaluation more rules than the list has, and a step    *)
(* that changes one under way leaves it fewer steps.                       *)
LEMMA NextForward ==
  ASSUME TypeOK, StepInv, HeldFew, [Next]_vars
  PROVE  /\ HeldFew'
         /\ \A e \in Evaluators :
              eval[e].at # "idle" /\ eval'[e] # eval[e] => StepsLeft(e)' < StepsLeft(e)
<1>0. SUFFICES ASSUME NEW g \in Evaluators
      PROVE  /\ Cardinality(Held(g)') <= ListLimit
             /\ eval[g].at # "idle" /\ eval'[g] # eval[g] => StepsLeft(g)' < StepsLeft(g)
  BY DEF HeldFew
<1>1. ASSUME eval'[g] = eval[g]
      PROVE  Cardinality(Held(g)') <= ListLimit
  BY <1>1 DEF HeldFew, Held
<1>2. CASE UNCHANGED eval
  BY <1>1, <1>2
<1>3. ASSUME NEW e \in Evaluators, Resume(e) \/ Run(e)
      PROVE  /\ Cardinality(Held(g)') <= ListLimit
             /\ eval[g].at # "idle" /\ eval'[g] # eval[g] => StepsLeft(g)' < StepsLeft(g)
  <2>1. CASE g = e
    <3>1. StepsLeft(g)' < StepsLeft(g) /\ Held(g)' \subseteq Held(g)
      BY <1>3, <2>1, EachStep
    <3>2. Cardinality(Held(g)') <= Cardinality(Held(g))
      BY <3>1, Measured, FS_Subset
    <3> QED
      BY <3>1, <3>2, Measured, BoundsAssumption DEF HeldFew
  <2>2. CASE g # e
    BY <1>1, <1>3, <2>2, EachStep
  <2> QED
    BY <2>1, <2>2
<1>4. ASSUME NEW e \in Evaluators, Begin(e)
      PROVE  /\ Cardinality(Held(g)') <= ListLimit
             /\ eval[g].at # "idle" /\ eval'[g] # eval[g] => StepsLeft(g)' < StepsLeft(g)
  <2>1. eval[e].at = "idle"
        /\ eval' = [eval EXCEPT ![e].at = "run",
                     ![e].held = [r \in Rules |-> IF r \in ActiveRules THEN rules[r] ELSE NoRow]]
    BY <1>4 DEF Begin, BeginWith
  <2>2. CASE g = e
    <3>1. eval[g] \in Evals
      BY DEF TypeOK, Evals
    <3>2. eval'[g].held = [r \in Rules |-> IF r \in ActiveRules THEN rules[r] ELSE NoRow]
      BY <2>1, <2>2, <3>1 DEF TypeOK, Evals
    <3>3. Held(g)' = ActiveRules
      BY <3>2 DEF Held, ActiveRules, EnabledRules
    <3> QED
      BY <2>1, <2>2, <3>3, ListIsShort
  <2>3. CASE g # e
    BY <1>1, <2>1, <2>3 DEF TypeOK
  <2> QED
    BY <2>2, <2>3
<1>5. CASE Restart
  <2>1. eval'[g] = Asleep
    BY <1>5 DEF Restart
  <2>2. eval'[g].at = "idle" /\ Held(g)' = {}
    BY <2>1 DEF Asleep, Held
  <2>3. StepsLeft(g)' = 0 /\ Cardinality(Held(g)') = 0
    BY <2>2, FS_EmptySet DEF StepsLeft
  <2> QED
    BY <2>3, SomeLeft, BoundsAssumption
<1>6. CASE \/ \E r \in Rules, enabled \in BOOLEAN : CreateByRequest(r, enabled)
           \/ \E r \in Rules : CreateByTool(r)
           \/ \E S \in SUBSET Rules : CreatePresets(S)
           \/ \E r \in Rules : Disable(r)
  BY <1>2, <1>6, UserStep
<1>7. CASE Tick
  BY <1>2, <1>7 DEF Tick
<1>8. CASE UNCHANGED vars
  BY <1>2, <1>8 DEF vars
<1> QED
  BY <1>3, <1>4, <1>5, <1>6, <1>7, <1>8 DEF Next

(* At first nothing is held. *)
LEMMA InitFew == Init => HeldFew
<1> SUFFICES ASSUME Init PROVE HeldFew
  OBVIOUS
<1>1. \A e \in Evaluators : Held(e) = {}
  BY DEF Init, Asleep, Held
<1> QED
  BY <1>1, FS_EmptySet, BoundsAssumption DEF HeldFew

(* A pass over the rules has at most seven steps for each row of the list, *)
(* and one to end (evaluate_once, notifications.py:176-207).               *)
THEOREM PassesAreShort == Spec => []StepsLeftBounded
<1> DEFINE Inv == TypeOK /\ StepInv /\ HeldFew
<1>1. Init => Inv
  BY InitTypes, InitFew
<1>2. Inv /\ [Next]_vars => Inv'
  BY NextTypes, NextForward
<1>3. Inv => StepsLeftBounded
  <2> SUFFICES ASSUME Inv, NEW e \in Evaluators PROVE StepsLeft(e) \in 0..(1 + 7 * ListLimit)
    BY DEF StepsLeftBounded
  <2>1. CASE eval[e].at = "idle"
    BY <2>1, BoundsAssumption DEF StepsLeft
  <2>2. CASE eval[e].at # "idle"
    <3>1. StepsLeft(e) \in Nat /\ StepsLeft(e) <= 1 + 7 * Cardinality(Held(e))
      BY <2>2, SomeLeft
    <3>2. Cardinality(Held(e)) \in Nat /\ Cardinality(Held(e)) <= ListLimit
      BY Measured DEF HeldFew
    <3> QED
      BY <3>1, <3>2, BoundsAssumption
  <2> QED
    BY <2>1, <2>2
<1> HIDE DEF Inv
<1> QED
  BY <1>1, <1>2, <1>3, PTL DEF Spec

(* Whatever an evaluation does, and whatever else happens, it only gets    *)
(* nearer to its end: a failed fetch, a refused message and a store error  *)
(* go on to the next rule, and nothing is tried again                      *)
(* (notifications.py:189-205).                                             *)
THEOREM PassesOnlyAdvance == Spec => OnlyForward
<1> DEFINE Inv == TypeOK /\ StepInv /\ HeldFew
           Forward == \A e \in Evaluators :
             eval[e].at # "idle" /\ eval'[e] # eval[e] => StepsLeft(e)' < StepsLeft(e)
<1>1. Init => Inv
  BY InitTypes, InitFew
<1>2. Inv /\ [Next]_vars => Inv' /\ Forward
  BY NextTypes, NextForward
<1>3. OnlyForward <=> [][Forward]_vars
  BY DEF OnlyForward
<1> HIDE DEF Inv, Forward
<1> QED
  BY <1>1, <1>2, <1>3, PTL DEF Spec
=============================================================================
