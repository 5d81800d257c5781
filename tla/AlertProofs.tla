----------------------------- MODULE AlertProofs -----------------------------
(***************************************************************************)
(* What Notifications promises of a rule, proved for any rules, settings,  *)
(* evaluations and answers.  Each promise is made inductive rule by rule.  *)
(* A step leaves a rule alone (Untouched), or it is the step of the        *)
(* evaluation that has come to this rule; if the rule did not race, no     *)
(* other evaluation holds it.                                              *)
(***************************************************************************)
EXTENDS NotificationsProofs

Late(q) == Cardinality({i \in DOMAIN events[q] : events[q][i].late})

-----------------------------------------------------------------------------
(* Counting the events of a rule.                                          *)

(* Which events of a sequence are of some kind. *)
Hits(s, T) == {i \in DOMAIN s : s[i] \in T}

(* How many events of a sequence are of some kind, and how an event more   *)
(* changes that.                                                           *)
LEMMA Counted ==
  ASSUME NEW s \in Seq(Events), NEW T
  PROVE  IsFiniteSet(Hits(s, T)) /\ Cardinality(Hits(s, T)) \in Nat
<1>1. DOMAIN s = 1..Len(s) /\ Len(s) \in Nat
  OBVIOUS
<1>2. IsFiniteSet(1..Len(s))
  BY <1>1, FS_Interval
<1>3. Hits(s, T) \subseteq 1..Len(s)
  BY <1>1 DEF Hits
<1>4. IsFiniteSet(Hits(s, T))
  BY <1>2, <1>3, FS_Subset
<1> QED
  BY <1>4, FS_CardinalityType

(* One event more counts once, if it is of the kind. *)
LEMMA CountedMore ==
  ASSUME NEW s \in Seq(Events), NEW v \in Events, NEW T, NEW t, t = Append(s, v)
  PROVE  Cardinality(Hits(t, T)) = Cardinality(Hits(s, T)) + (IF v \in T THEN 1 ELSE 0)
<1>1. DOMAIN s = 1..Len(s) /\ Len(s) \in Nat /\ DOMAIN t = 1..(Len(s) + 1)
      /\ t[Len(s) + 1] = v /\ \A i \in 1..Len(s) : t[i] = s[i]
  OBVIOUS
<1>2. Len(s) + 1 \notin Hits(s, T)
  BY <1>1 DEF Hits
<1>3. IsFiniteSet(Hits(s, T)) /\ Cardinality(Hits(s, T)) \in Nat
  BY Counted
<1>4. CASE v \in T
  <2>1. Hits(t, T) = Hits(s, T) \cup {Len(s) + 1}
    BY <1>1, <1>4 DEF Hits
  <2>2. Cardinality(Hits(s, T) \cup {Len(s) + 1}) = Cardinality(Hits(s, T)) + 1
    BY <1>2, <1>3, FS_AddElement
  <2> QED
    BY <1>4, <2>1, <2>2
<1>5. CASE v \notin T
  <2>1. Hits(t, T) = Hits(s, T)
    BY <1>1, <1>5 DEF Hits
  <2> QED
    BY <1>3, <1>5, <2>1
<1> QED
  BY <1>4, <1>5

KindOf(kind) == {v \in Events : v.kind = kind}
LateOnes == {v \in Events : v.late}

(* The counts the properties speak of. *)
LEMMA Counts ==
  ASSUME TypeOK, NEW q \in Rules
  PROVE  /\ \A kind : Count(q, kind) = Cardinality(Hits(events[q], KindOf(kind)))
         /\ \A kind : Count(q, kind) \in Nat
         /\ Late(q) = Cardinality(Hits(events[q], LateOnes))
         /\ Late(q) \in Nat
<1>1. events[q] \in Seq(Events) /\ \A i \in DOMAIN events[q] : events[q][i] \in Events
  BY DEF TypeOK
<1>2. \A kind : {i \in DOMAIN events[q] : events[q][i].kind = kind} = Hits(events[q], KindOf(kind))
  BY <1>1 DEF KindOf, Hits
<1>3. {i \in DOMAIN events[q] : events[q][i].late} = Hits(events[q], LateOnes)
  BY <1>1 DEF LateOnes, Hits
<1>4. \A T : Cardinality(Hits(events[q], T)) \in Nat
  BY <1>1, Counted
<1>5. \A kind : Count(q, kind) = Cardinality(Hits(events[q], KindOf(kind)))
  BY <1>2 DEF Count
<1>6. Late(q) = Cardinality(Hits(events[q], LateOnes))
  BY <1>3 DEF Late
<1>7. \A kind : Count(q, kind) \in Nat
  BY <1>4, <1>5
<1> QED
  BY <1>4, <1>5, <1>6, <1>7

(* A recorded event is counted. *)
LEMMA CountsMore ==
  ASSUME TypeOK, TypeOK', NEW q \in Rules, NEW v \in Events, events'[q] = Append(events[q], v)
  PROVE  /\ \A kind : Count(q, kind)' = Count(q, kind) + (IF v.kind = kind THEN 1 ELSE 0)
         /\ Late(q)' = Late(q) + (IF v.late THEN 1 ELSE 0)
<1>1. events[q] \in Seq(Events) /\ \A i \in DOMAIN events'[q] : events'[q][i] \in Events
  BY DEF TypeOK
<1>2. \A kind : Count(q, kind)' = Cardinality(Hits(events'[q], KindOf(kind)))
  <2>1. \A kind : {i \in DOMAIN events'[q] : events'[q][i].kind = kind}
                    = Hits(events'[q], KindOf(kind))
    BY <1>1 DEF KindOf, Hits
  <2> QED
    BY <2>1 DEF Count
<1>3. Late(q)' = Cardinality(Hits(events'[q], LateOnes))
  <2>1. {i \in DOMAIN events'[q] : events'[q][i].late} = Hits(events'[q], LateOnes)
    BY <1>1 DEF LateOnes, Hits
  <2> QED
    BY <2>1 DEF Late
<1>4. \A T : Cardinality(Hits(events'[q], T)) =
              Cardinality(Hits(events[q], T)) + (IF v \in T THEN 1 ELSE 0)
  <2>1. ASSUME NEW T
        PROVE  Cardinality(Hits(events'[q], T)) =
                 Cardinality(Hits(events[q], T)) + (IF v \in T THEN 1 ELSE 0)
    <3> DEFINE s == events[q]
               t == events'[q]
    <3>1. s \in Seq(Events) /\ t = Append(s, v)
      BY <1>1
    <3> HIDE DEF s, t
    <3>2. Cardinality(Hits(t, T)) = Cardinality(Hits(s, T)) + (IF v \in T THEN 1 ELSE 0)
      BY <3>1, CountedMore
    <3> QED
      BY <3>2 DEF s, t
  <2> QED
    BY <2>1
<1>5. \A kind : Count(q, kind)' = Count(q, kind) + (IF v.kind = kind THEN 1 ELSE 0)
  <2>1. \A kind : v \in KindOf(kind) <=> v.kind = kind
    BY DEF KindOf
  <2>2. \A kind : Count(q, kind) = Cardinality(Hits(events[q], KindOf(kind)))
    BY Counts
  <2> QED
    BY <1>2, <1>4, <2>1, <2>2
<1>6. Late(q)' = Late(q) + (IF v.late THEN 1 ELSE 0)
  <2>1. v \in LateOnes <=> v.late
    BY DEF LateOnes
  <2>2. Late(q) = Cardinality(Hits(events[q], LateOnes))
    BY Counts
  <2> QED
    BY <1>3, <1>4, <2>1, <2>2
<1> QED
  BY <1>5, <1>6

(* What does not change in a rule, changes no count. *)
LEMMA CountsSame ==
  ASSUME NEW q \in Rules, events'[q] = events[q]
  PROVE  (\A kind : Count(q, kind)' = Count(q, kind)) /\ Late(q)' = Late(q)
BY DEF Count, Late

-----------------------------------------------------------------------------
(* The steps, as one rule sees them.                                       *)

Holds(e, q) == eval[e].held[q] # NoRow

(* Row q is as before, but that it may be disabled, or is new.              *)
RowKept(q) ==
  \/ rules[q] = NoRow /\ rules'[q] = NoRow
  \/ rules[q] = NoRow /\ rules'[q] \in Rows /\ rules'[q].state = "inactive" /\ rules'[q].last = Never
  \/ rules[q] # NoRow /\ rules'[q] \in Rows
     /\ rules'[q].state = rules[q].state /\ rules'[q].last = rules[q].last
     /\ (~rules[q].enabled => ~rules'[q].enabled)

(* Evaluation f sees rule q as before the step. *)
SeesSame(f, q) ==
  /\ eval'[f].held[q] = eval[f].held[q]
  /\ Works(f, q)' <=> Works(f, q)
  /\ Works(f, q) => eval'[f].at = eval[f].at /\ eval'[f].kind = eval[f].kind

(* The step does nothing to rule q and to those that hold it.               *)
Untouched(q) ==
  /\ RowKept(q)
  /\ events'[q] = events[q]
  /\ now' \in Nat /\ now' >= now
  /\ \A f \in Evaluators : SeesSame(f, q)

(* Evaluation e has come to rule q, and is done with it after the step.     *)
Leaves(e, q) == ~Holds(e, q)' /\ ~Works(e, q)'

(* Evaluation e works on rule q after the step.                             *)
GoesTo(e, q, at, kind) ==
  /\ Holds(e, q)' /\ Works(e, q)'
  /\ eval'[e].at = at /\ eval'[e].kind = kind

(* The steps of e at its rule q, by what they do to e, to the row and to   *)
(* the events.  Rows and events stay unless something is said of them.     *)
Quit(e, q) == Leaves(e, q) /\ rules'[q] = rules[q] /\ events'[q] = events[q]

Quieted(e, q) ==
  /\ ~Works(e, q) /\ Leaves(e, q) /\ events'[q] = events[q]
  /\ rules'[q] = [rules[q] EXCEPT !.state = eval[e].held[q].state]

Recovered(e, q) ==
  /\ ~Works(e, q) /\ eval[e].held[q].state = "active"
  /\ rules'[q] = [rules[q] EXCEPT !.state = "recovered"] /\ events'[q] = events[q]
  /\ \/ Settings[q].notify_recovery /\ GoesTo(e, q, "send", "recovery")
     \/ Leaves(e, q) /\ (Settings[q].notify_recovery => q \in torn')

Alerted(e, q) ==
  /\ ~Works(e, q) /\ ~InCooldown(q, eval[e].held[q])
  /\ rules'[q] = rules[q] /\ events'[q] = events[q]
  /\ GoesTo(e, q, "send", "alert")

Sent(e, q) ==
  /\ Works(e, q) /\ eval[e].at = "send"
  /\ rules'[q] = rules[q] /\ events'[q] = events[q]
  /\ GoesTo(e, q, "record", eval[e].kind)

Recorded(e, q) ==
  /\ Works(e, q) /\ eval[e].at = "record" /\ rules'[q] = rules[q]
  /\ \E v \in Events : /\ v.kind = eval[e].kind /\ v.at = now
                       /\ v.late = ~rules[q].enabled
                       /\ events'[q] = Append(events[q], v)
  /\ GoesTo(e, q, "stamp", eval[e].kind)

StampedRow(e, q) ==
  /\ Works(e, q) /\ eval[e].at = "stamp"
  /\ rules'[q] = [rules[q] EXCEPT !.last = LastEvent(q).at] /\ events'[q] = events[q]
  /\ \/ eval[e].kind = "alert" /\ GoesTo(e, q, "mark", "alert")
     \/ Leaves(e, q) /\ (eval[e].kind = "alert" => q \in torn')

MarkedRow(e, q) ==
  /\ Works(e, q) /\ eval[e].at = "mark" /\ Leaves(e, q)
  /\ rules'[q] = [rules[q] EXCEPT !.state = "active"] /\ events'[q] = events[q]

(* What e does to the rule it has come to. *)
Touches(e, q) ==
  /\ Holds(e, q) /\ rules[q] \in Rows
  /\ \A f \in Evaluators : f # e => eval'[f] = eval[f]
  /\ now' = now /\ raced' = raced
  /\ \/ Quit(e, q) /\ (Works(e, q) => q \in torn')
     \/ Quieted(e, q) \/ Recovered(e, q) \/ Alerted(e, q) \/ Sent(e, q)
     \/ Recorded(e, q) \/ StampedRow(e, q) \/ MarkedRow(e, q)

(* Evaluation e begins to work on rule q. *)
Takes(e, q) ==
  /\ rules'[q] = rules[q] /\ events'[q] = events[q] /\ now' = now
  /\ rules[q] \in Rows /\ rules[q].enabled
  /\ raced' = raced \cup {r \in ActiveRules : \E f \in Evaluators : r \in Held(f)}
  /\ q \in ActiveRules
  /\ \A f \in Evaluators : f # e => eval'[f] = eval[f]
  /\ eval'[e].held[q] = rules[q] /\ ~Works(e, q)'

(* The process ends: nobody holds anything. *)
Dropped(q) ==
  /\ rules'[q] = rules[q] /\ events'[q] = events[q] /\ now' = now /\ raced' = raced
  /\ \A f \in Evaluators : eval'[f].held[q] = NoRow /\ ~Works(f, q)'
  /\ \A f \in Evaluators : Works(f, q) => q \in torn'

(* A rule is untouched, touched by the evaluation that has come to it, taken *)
(* up, or dropped with the process.                                          *)
StepsOn(q) ==
  \/ Untouched(q)
  \/ \E e \in Evaluators : Touches(e, q) \/ Takes(e, q)
  \/ Dropped(q)

(* An evaluation that is left alone holds and works on what it did. *)
LEMMA Others ==
  ASSUME NEW f, eval'[f] = eval[f]
  PROVE  \A q : /\ eval'[f].held[q] = eval[f].held[q]
                /\ Holds(f, q)' <=> Holds(f, q)
                /\ Works(f, q)' <=> Works(f, q)
BY SameEval DEF Holds

(* Who works on a rule holds it. *)
LEMMA WorkersHold ==
  ASSUME NEW e \in Evaluators, NEW q, Works(e, q)
  PROVE  Holds(e, q) /\ q \in Held(e) /\ q \in Rules
BY CurrentHeld DEF Works, Holds, Held

(* An evaluation that goes on to its next rule leaves the one it was at.    *)
LEMMA OnePasses ==
  ASSUME TypeOK, NEW e \in Evaluators, Held(e) # {}, eval' = [eval EXCEPT ![e] = NextRule(e)],
         NEW q \in Rules
  PROVE  /\ \A f \in Evaluators : f # e => eval'[f] = eval[f]
         /\ q = Current(e) => Leaves(e, q)
         /\ q # Current(e) => \A f \in Evaluators : SeesSame(f, q)
<1>1. /\ eval'[e].at = "run" /\ Held(e)' = Held(e) \ {Current(e)}
      /\ \A r \in Rules : r # Current(e) => eval'[e].held[r] = eval[e].held[r]
      /\ \A f \in Evaluators : f # e => eval'[f] = eval[f]
  BY GoneOn
<1>2. ~Works(e, q)'
  BY <1>1 DEF Works, Busy
<1>3. q = Current(e) => Leaves(e, q)
  BY <1>1, <1>2 DEF Leaves, Holds, Held
<1>4. q # Current(e) => SeesSame(e, q)
  BY <1>1, <1>2 DEF SeesSame, Works
<1>5. \A f \in Evaluators : f # e => SeesSame(f, q)
  BY <1>1, Others DEF SeesSame
<1> QED
  BY <1>1, <1>3, <1>4, <1>5

(* One that stays at its rule. *)
LEMMA OneStays ==
  ASSUME TypeOK, NEW e \in Evaluators, Held(e) # {}, NEW v, eval' = [eval EXCEPT ![e] = v],
         v.held = eval[e].held, NEW q \in Rules
  PROVE  /\ \A f \in Evaluators : f # e => eval'[f] = eval[f]
         /\ q = Current(e) /\ v.at \in Busy => GoesTo(e, q, v.at, v.kind)
         /\ q # Current(e) \/ (eval[e].at \notin Busy /\ v.at \notin Busy)
              => \A f \in Evaluators : SeesSame(f, q)
<1>1. eval'[e] = v /\ \A f \in Evaluators : f # e => eval'[f] = eval[f]
  BY DEF TypeOK
<1>2. Held(e)' = Held(e) /\ Current(e)' = Current(e)
  BY <1>1 DEF Held, Current
<1>3. q = Current(e) /\ v.at \in Busy => GoesTo(e, q, v.at, v.kind)
  <2>1. Current(e) \in Held(e)
    BY CurrentHeld
  <2> QED
    BY <1>1, <1>2, <2>1 DEF GoesTo, Works, Holds, Held
<1>4. q # Current(e) \/ (eval[e].at \notin Busy /\ v.at \notin Busy) => SeesSame(e, q)
  BY <1>1, <1>2 DEF SeesSame, Works
<1>5. \A f \in Evaluators : f # e => SeesSame(f, q)
  BY <1>1, Others DEF SeesSame
<1> QED
  BY <1>1, <1>3, <1>4, <1>5

(* The rule e has come to, and the rows besides. *)
LEMMA AtCurrent ==
  ASSUME TypeOK, StepInv, NEW e \in Evaluators, Held(e) # {}
  PROVE  /\ Holds(e, Current(e)) /\ Current(e) \in Rules /\ rules[Current(e)] \in Rows
         /\ Stale(e) = eval[e].held[Current(e)]
         /\ (eval[e].at \in Busy <=> Works(e, Current(e)))
BY HeldRows, CurrentHeld DEF Holds, Held, Stale, Works

(* A row that keeps its columns. *)
LEMMA SameRow ==
  ASSUME TypeOK, NEW q \in Rules, rules'[q] = rules[q]
  PROVE  RowKept(q)
BY DEF RowKept, TypeOK

(* The clock does not go back when it is not read. *)
LEMMA SameNow ==
  ASSUME TypeOK, now' = now
  PROVE  now' \in Nat /\ now' >= now
BY BoundsAssumption DEF TypeOK

(* The steps after which e goes on to its next rule. *)
LEMMA PassingSteps ==
  ASSUME TypeOK, StepInv, NEW e \in Evaluators, NEW q \in Rules,
         \/ FetchFails(e) \/ Suppress(e) \/ StayQuiet(e) \/ StoreFails(e) \/ ReadBackFails(e)
         \/ MarkActive(e)
         \/ StampRule(e) /\ eval[e].kind # "alert"
         \/ Recover(e) /\ ~Settings[Current(e)].notify_recovery
  PROVE  StepsOn(q)
<1>1. Held(e) # {}
  BY DEF FetchFails, Suppress, StayQuiet, StoreFails, ReadBackFails, MarkActive, Marked, StampRule,
     Stamped, Recover, RecoverTo, RecoveryDue, Evaluating, StepInv, StepOf, Busy
<1>2. eval' = [eval EXCEPT ![e] = NextRule(e)] /\ now' = now /\ events' = events /\ raced' = raced
  BY DEF FetchFails, Suppress, StayQuiet, StoreFails, ReadBackFails, MarkActive, Marked, StampRule,
     Stamped, Recover, RecoverTo, RecoveryDue
<1>3. /\ \A f \in Evaluators : f # e => eval'[f] = eval[f]
      /\ q = Current(e) => Leaves(e, q)
      /\ q # Current(e) => \A f \in Evaluators : SeesSame(f, q)
  BY <1>1, <1>2, OnePasses
<1>4. rules \in [Rules -> Rows \cup {NoRow}]
  BY DEF TypeOK
<1>5. CASE q # Current(e)
  <2>1. rules'[q] = rules[q]
    BY <1>4, <1>5 DEF FetchFails, Suppress, StayQuiet, StoreFails, ReadBackFails, MarkActive,
       Marked, StampRule, Stamped, Recover, RecoverTo, RecoveryDue
  <2> QED
    BY <1>2, <1>3, <1>5, <2>1, SameRow, SameNow DEF StepsOn, Untouched
<1>6. CASE q = Current(e)
  <2>1. Holds(e, q) /\ rules[q] \in Rows /\ Stale(e) = eval[e].held[q]
        /\ (eval[e].at \in Busy <=> Works(e, q)) /\ Leaves(e, q)
    BY <1>1, <1>3, <1>6, AtCurrent
  <2>2. CASE FetchFails(e) \/ Suppress(e) \/ StoreFails(e)
    <3>1. Works(e, q) => q \in torn'
      BY <1>6, <2>1, <2>2 DEF FetchFails, Suppress, StoreFails, Evaluating, Busy
    <3>2. rules'[q] = rules[q]
      BY <2>2 DEF FetchFails, Suppress, StoreFails
    <3> QED
      BY <1>2, <1>3, <2>1, <3>1, <3>2 DEF StepsOn, Touches, Quit
  <2>3. CASE StayQuiet(e)
    <3>1. ~Works(e, q) /\ rules'[q] = [rules[q] EXCEPT !.state = eval[e].held[q].state]
      BY <1>4, <1>6, <2>1, <2>3 DEF StayQuiet, Evaluating, Busy
    <3> QED
      BY <1>2, <1>3, <2>1, <3>1 DEF StepsOn, Touches, Quieted
  <2>4. CASE MarkActive(e)
    <3>1. eval[e].at = "mark" /\ rules'[q] = [rules[q] EXCEPT !.state = "active"]
      BY <1>4, <1>6, <2>4 DEF MarkActive, Marked
    <3>2. Works(e, q)
      BY <2>1, <3>1 DEF Busy
    <3> QED
      BY <1>2, <1>3, <2>1, <3>1, <3>2 DEF StepsOn, Touches, MarkedRow
  <2>5. CASE StampRule(e) /\ eval[e].kind # "alert"
    <3>1. eval[e].at = "stamp" /\ rules'[q] = [rules[q] EXCEPT !.last = LastEvent(q).at]
      BY <1>4, <1>6, <2>5 DEF StampRule, Stamped
    <3>2. Works(e, q)
      BY <2>1, <3>1 DEF Busy
    <3> QED
      BY <1>2, <1>3, <2>1, <2>5, <3>1, <3>2 DEF StepsOn, Touches, StampedRow
  <2>6. CASE Recover(e) /\ ~Settings[Current(e)].notify_recovery
    <3>1. /\ ~Works(e, q) /\ eval[e].held[q].state = "active"
          /\ rules'[q] = [rules[q] EXCEPT !.state = "recovered"]
      BY <1>4, <1>6, <2>1, <2>6 DEF Recover, RecoverTo, RecoveryDue, Evaluating, Busy
    <3> QED
      BY <1>2, <1>3, <1>6, <2>1, <2>6, <3>1 DEF StepsOn, Touches, Recovered
  <2>7. CASE ReadBackFails(e)
    <3>1. q \in torn'
      BY <1>6, <2>7 DEF ReadBackFails
    <3>2. CASE RecoveryDue(e) /\ rules' = [rules EXCEPT ![Current(e)].state = "recovered"]
      <4>1. ~Works(e, q) /\ eval[e].held[q].state = "active"
            /\ rules'[q] = [rules[q] EXCEPT !.state = "recovered"]
        BY <1>4, <1>6, <2>1, <3>2 DEF RecoveryDue, Evaluating, Busy
      <4> QED
        BY <1>2, <1>3, <2>1, <3>1, <4>1 DEF StepsOn, Touches, Recovered
    <3>3. CASE /\ eval[e].at = "stamp"
               /\ rules' = [rules EXCEPT ![Current(e)].last = LastEvent(Current(e)).at]
      <4>1. Works(e, q) /\ rules'[q] = [rules[q] EXCEPT !.last = LastEvent(q).at]
        BY <1>4, <1>6, <2>1, <3>3 DEF Busy
      <4> QED
        BY <1>2, <1>3, <2>1, <3>1, <3>3, <4>1 DEF StepsOn, Touches, StampedRow
    <3> QED
      BY <2>7, <3>2, <3>3 DEF ReadBackFails
  <2> QED
    BY <2>2, <2>3, <2>4, <2>5, <2>6, <2>7
<1> QED
  BY <1>5, <1>6

(* The steps of a message. *)
LEMMA SendingSteps ==
  ASSUME TypeOK, StepInv, NEW e \in Evaluators, NEW q \in Rules,
         \/ Alert(e) \/ SendEnds(e) \/ RecordEvent(e)
         \/ StampRule(e) /\ eval[e].kind = "alert"
         \/ Recover(e) /\ Settings[Current(e)].notify_recovery
  PROVE  StepsOn(q)
<1>1. Held(e) # {} /\ eval[e] \in Evals
  BY HeldRows DEF Alert, AlertDue, SendEnds, RecordEvent, StampRule, Stamped, Recover, RecoverTo,
     RecoveryDue, Evaluating, StepInv, StepOf, Busy
<1>2. now' = now /\ raced' = raced
  BY DEF Alert, SendEnds, RecordEvent, StampRule, Stamped, Recover, RecoverTo, RecoveryDue
<1>3. PICK v : /\ eval' = [eval EXCEPT ![e] = v] /\ v.held = eval[e].held
               /\ v.at \in Busy
               /\ Alert(e) => v.at = "send" /\ v.kind = "alert"
               /\ SendEnds(e) => v.at = "record" /\ v.kind = eval[e].kind
               /\ RecordEvent(e) => v.at = "stamp" /\ v.kind = eval[e].kind
               /\ StampRule(e) => v.at = "mark" /\ v.kind = eval[e].kind
               /\ Recover(e) => v.at = "send" /\ v.kind = "recovery"
  <2>1. CASE Alert(e)
    <3> DEFINE w == [eval[e] EXCEPT !.at = "send", !.kind = "alert"]
    <3>1. eval' = [eval EXCEPT ![e] = w] /\ w.held = eval[e].held /\ w.at = "send"
          /\ w.kind = "alert" /\ eval[e].at = "run"
      BY <1>1, <2>1 DEF Alert, AlertDue, Evaluating, TypeOK, Evals
    <3>2. ~SendEnds(e) /\ ~RecordEvent(e) /\ ~StampRule(e) /\ ~Recover(e)
      <4>1. ~SendEnds(e) /\ ~RecordEvent(e) /\ ~StampRule(e)
        BY <3>1 DEF SendEnds, RecordEvent, StampRule, Stamped
      <4>2. ~Recover(e)
        BY <2>1 DEF Alert, AlertDue, Recover, RecoverTo, RecoveryDue
      <4> QED
        BY <4>1, <4>2
    <3> HIDE DEF w
    <3> QED
      BY <3>1, <3>2 DEF Busy
  <2>2. CASE SendEnds(e)
    <3>1. PICK delivered \in BOOLEAN :
            eval' = [eval EXCEPT ![e].at = "record", ![e].delivered = delivered]
      BY <2>2 DEF SendEnds
    <3> DEFINE w == [eval[e] EXCEPT !.at = "record", !.delivered = delivered]
    <3>2. eval' = [eval EXCEPT ![e] = w] /\ w.held = eval[e].held /\ w.at = "record"
          /\ w.kind = eval[e].kind
      BY <1>1, <3>1 DEF TypeOK, Evals
    <3>3. ~Alert(e) /\ ~RecordEvent(e) /\ ~StampRule(e) /\ ~Recover(e)
      BY <2>2 DEF SendEnds, Alert, AlertDue, RecordEvent, StampRule, Stamped, Recover, RecoverTo,
         RecoveryDue, Evaluating
    <3> HIDE DEF w
    <3> QED
      BY <3>2, <3>3 DEF Busy
  <2>3. CASE RecordEvent(e)
    <3> DEFINE w == [eval[e] EXCEPT !.at = "stamp"]
    <3>1. eval' = [eval EXCEPT ![e] = w] /\ w.held = eval[e].held /\ w.at = "stamp"
          /\ w.kind = eval[e].kind
      BY <1>1, <2>3 DEF RecordEvent, TypeOK, Evals
    <3>2. ~Alert(e) /\ ~SendEnds(e) /\ ~StampRule(e) /\ ~Recover(e)
      BY <2>3 DEF SendEnds, Alert, AlertDue, RecordEvent, StampRule, Stamped, Recover, RecoverTo,
         RecoveryDue, Evaluating
    <3> HIDE DEF w
    <3> QED
      BY <3>1, <3>2 DEF Busy
  <2>4. CASE StampRule(e) /\ eval[e].kind = "alert"
    <3> DEFINE w == [eval[e] EXCEPT !.at = "mark"]
    <3>1. eval' = [eval EXCEPT ![e] = w] /\ w.held = eval[e].held /\ w.at = "mark"
          /\ w.kind = eval[e].kind
      BY <1>1, <2>4 DEF StampRule, Stamped, TypeOK, Evals
    <3>2. ~Alert(e) /\ ~SendEnds(e) /\ ~RecordEvent(e) /\ ~Recover(e)
      BY <2>4 DEF SendEnds, Alert, AlertDue, RecordEvent, StampRule, Stamped, Recover, RecoverTo,
         RecoveryDue, Evaluating
    <3> HIDE DEF w
    <3> QED
      BY <3>1, <3>2 DEF Busy
  <2>5. CASE Recover(e) /\ Settings[Current(e)].notify_recovery
    <3> DEFINE w == [eval[e] EXCEPT !.at = "send", !.kind = "recovery"]
    <3>1. eval' = [eval EXCEPT ![e] = w] /\ w.held = eval[e].held /\ w.at = "send"
          /\ w.kind = "recovery" /\ eval[e].at = "run"
      BY <1>1, <2>5 DEF Recover, RecoverTo, RecoveryDue, Evaluating, TypeOK, Evals
    <3>2. ~Alert(e) /\ ~SendEnds(e) /\ ~RecordEvent(e) /\ ~StampRule(e)
      <4>1. ~SendEnds(e) /\ ~RecordEvent(e) /\ ~StampRule(e)
        BY <3>1 DEF SendEnds, RecordEvent, StampRule, Stamped
      <4>2. ~Alert(e)
        BY <2>5 DEF Alert, AlertDue, Recover, RecoverTo, RecoveryDue
      <4> QED
        BY <4>1, <4>2
    <3> HIDE DEF w
    <3> QED
      BY <3>1, <3>2 DEF Busy
  <2> QED
    BY <2>1, <2>2, <2>3, <2>4, <2>5
<1>4. /\ \A f \in Evaluators : f # e => eval'[f] = eval[f]
      /\ q = Current(e) => GoesTo(e, q, v.at, v.kind)
      /\ q # Current(e) => \A f \in Evaluators : SeesSame(f, q)
  BY <1>1, <1>3, OneStays
<1>5. rules \in [Rules -> Rows \cup {NoRow}] /\ events \in [Rules -> Seq(Events)]
  BY DEF TypeOK
<1>6. CASE q # Current(e)
  <2>1. rules'[q] = rules[q] /\ events'[q] = events[q]
    BY <1>5, <1>6 DEF Alert, SendEnds, RecordEvent, StampRule, Stamped, Recover, RecoverTo,
       RecoveryDue
  <2> QED
    BY <1>2, <1>4, <1>6, <2>1, SameRow, SameNow DEF StepsOn, Untouched
<1>7. CASE q = Current(e)
  <2>1. Holds(e, q) /\ rules[q] \in Rows /\ Stale(e) = eval[e].held[q]
        /\ (eval[e].at \in Busy <=> Works(e, q)) /\ GoesTo(e, q, v.at, v.kind)
    BY <1>1, <1>4, <1>7, AtCurrent
  <2>2. CASE Alert(e)
    <3>1. ~Works(e, q) /\ rules'[q] = rules[q] /\ events'[q] = events[q]
      BY <2>1, <2>2 DEF Alert, AlertDue, Evaluating, Busy
    <3>2. ~InCooldown(q, eval[e].held[q])
      BY <1>7, <2>1, <2>2 DEF Alert, AlertDue
    <3> QED
      BY <1>2, <1>3, <1>4, <2>1, <2>2, <3>1, <3>2 DEF StepsOn, Touches, Alerted
  <2>3. CASE SendEnds(e)
    <3>1. eval[e].at = "send" /\ rules'[q] = rules[q] /\ events'[q] = events[q]
      BY <2>3 DEF SendEnds
    <3> QED
      BY <1>2, <1>3, <1>4, <2>1, <2>3, <3>1 DEF StepsOn, Touches, Sent, Busy
  <2>4. CASE RecordEvent(e)
    <3> DEFINE ev == [kind |-> eval[e].kind, delivered |-> eval[e].delivered, at |-> now,
                      late |-> ~rules[q].enabled]
    <3>1. eval[e].kind # "none"
      BY <2>4 DEF RecordEvent, StepInv, StepOf, Busy
    <3>2. now \in Nat
      BY BoundsAssumption DEF TypeOK
    <3>3. ev \in Events
      BY <1>1, <2>1, <3>1, <3>2 DEF Events, Evals
    <3>4. events'[q] = Append(events[q], ev) /\ eval[e].at = "record" /\ rules'[q] = rules[q]
      BY <1>5, <1>7, <2>4 DEF RecordEvent
    <3>5. ev.kind = eval[e].kind /\ ev.at = now /\ ev.late = ~rules[q].enabled
      OBVIOUS
    <3> HIDE DEF ev
    <3>6. Recorded(e, q)
      BY <1>3, <2>1, <2>4, <3>3, <3>4, <3>5 DEF Recorded, Busy
    <3> QED
      BY <1>2, <1>4, <2>1, <3>6 DEF StepsOn, Touches
  <2>5. CASE StampRule(e) /\ eval[e].kind = "alert"
    <3>1. eval[e].at = "stamp" /\ rules'[q] = [rules[q] EXCEPT !.last = LastEvent(q).at]
          /\ events'[q] = events[q]
      BY <1>5, <1>7, <2>5 DEF StampRule, Stamped
    <3> QED
      BY <1>2, <1>3, <1>4, <2>1, <2>5, <3>1 DEF StepsOn, Touches, StampedRow, Busy
  <2>6. CASE Recover(e) /\ Settings[Current(e)].notify_recovery
    <3>1. /\ ~Works(e, q) /\ eval[e].held[q].state = "active"
          /\ rules'[q] = [rules[q] EXCEPT !.state = "recovered"] /\ events'[q] = events[q]
      BY <1>5, <1>7, <2>1, <2>6 DEF Recover, RecoverTo, RecoveryDue, Evaluating, Busy
    <3> QED
      BY <1>2, <1>3, <1>4, <1>7, <2>1, <2>6, <3>1 DEF StepsOn, Touches, Recovered
  <2> QED
    BY <2>2, <2>3, <2>4, <2>5, <2>6
<1> QED
  BY <1>6, <1>7

(* The steps by which an evaluation begins, asks, is answered and ends.     *)
LEMMA FetchingSteps ==
  ASSUME TypeOK, StepInv, NEW e \in Evaluators, NEW q \in Rules,
         Begin(e) \/ Fetch(e) \/ FetchReturns(e) \/ End(e)
  PROVE  StepsOn(q)
<1>0. eval[e] \in Evals
  BY HeldRows
<1>1. CASE Fetch(e)
  <2> DEFINE v == [eval[e] EXCEPT !.at = "fetch"]
  <2>1. /\ eval' = [eval EXCEPT ![e] = v] /\ v.held = eval[e].held
        /\ v.at \notin Busy /\ eval[e].at \notin Busy /\ Held(e) # {}
        /\ rules'[q] = rules[q] /\ events'[q] = events[q] /\ now' = now
    BY <1>0, <1>1 DEF Fetch, TypeOK, Evals, Busy
  <2> HIDE DEF v
  <2>2. \A f \in Evaluators : SeesSame(f, q)
    BY <2>1, OneStays
  <2> QED
    BY <2>1, <2>2, SameRow, SameNow DEF StepsOn, Untouched
<1>2. CASE FetchReturns(e)
  <2>1. PICK reading : eval' = [eval EXCEPT ![e].at = "run",
                                            ![e].cache[Settings[Current(e)].source] = reading]
    BY <1>2 DEF FetchReturns
  <2> DEFINE v == [eval[e] EXCEPT !.at = "run",
                                  !.cache[Settings[Current(e)].source] = reading]
  <2>2. /\ eval' = [eval EXCEPT ![e] = v] /\ v.held = eval[e].held
        /\ v.at \notin Busy /\ eval[e].at \notin Busy /\ Held(e) # {}
        /\ rules'[q] = rules[q] /\ events'[q] = events[q] /\ now' = now
    BY <1>0, <1>2, <2>1 DEF FetchReturns, TypeOK, Evals, Busy, StepInv, StepOf
  <2> HIDE DEF v
  <2>3. \A f \in Evaluators : SeesSame(f, q)
    BY <2>2, OneStays
  <2> QED
    BY <2>2, <2>3, SameRow, SameNow DEF StepsOn, Untouched
<1>3. CASE End(e)
  <2>1. /\ eval'[e] = Asleep /\ \A f \in Evaluators : f # e => eval'[f] = eval[f]
        /\ Held(e) = {} /\ rules'[q] = rules[q] /\ events'[q] = events[q] /\ now' = now
    BY <1>3 DEF End, TypeOK
  <2>2. Asleep.at = "idle" /\ Asleep.held[q] = NoRow
    BY DEF Asleep
  <2>3. SeesSame(e, q)
    BY <2>1, <2>2 DEF SeesSame, Works, Busy, Held
  <2>4. \A f \in Evaluators : SeesSame(f, q)
    BY <2>1, <2>3, Others DEF SeesSame
  <2> QED
    BY <2>1, <2>4, SameRow, SameNow DEF StepsOn, Untouched
<1>4. CASE Begin(e)
  <2>1. /\ rules'[q] = rules[q] /\ events'[q] = events[q] /\ now' = now
        /\ raced' = raced \cup {r \in ActiveRules : \E f \in Evaluators : r \in Held(f)}
        /\ \A f \in Evaluators : f # e => eval'[f] = eval[f]
    BY <1>4 DEF Begin, BeginWith, TypeOK
  <2>2. eval'[e].at = "run" /\ eval'[e].held[q] = IF q \in ActiveRules THEN rules[q] ELSE NoRow
    BY <1>0, <1>4 DEF Begin, BeginWith, TypeOK, Evals
  <2>3. ~Works(e, q) /\ ~Works(e, q)' /\ Held(e) = {}
    BY <1>4, <2>2 DEF Begin, BeginWith, Works, Busy, StepInv, StepOf
  <2>4. CASE q \in ActiveRules
    <3>1. rules[q] \in Rows /\ rules[q].enabled
      BY <2>4 DEF ActiveRules, EnabledRules, TypeOK
    <3> QED
      BY <2>1, <2>2, <2>3, <2>4, <3>1 DEF StepsOn, Takes
  <2>5. CASE q \notin ActiveRules
    <3>1. SeesSame(e, q)
      BY <2>2, <2>3, <2>5 DEF SeesSame, Held
    <3>2. \A f \in Evaluators : SeesSame(f, q)
      BY <2>1, <3>1, Others DEF SeesSame
    <3> QED
      BY <2>1, <3>2, SameRow, SameNow DEF StepsOn, Untouched
  <2> QED
    BY <2>4, <2>5
<1> QED
  BY <1>1, <1>2, <1>3, <1>4

(* Every step, as a rule sees it; the two histories only grow. *)
LEMMA EveryStep ==
  ASSUME TypeOK, StepInv, [Next]_vars, NEW q \in Rules
  PROVE  StepsOn(q)
<1>1. ASSUME UNCHANGED <<events, now, eval, raced, torn>>, RowKept(q) PROVE StepsOn(q)
  <2>1. \A f \in Evaluators : SeesSame(f, q)
    BY <1>1, Others DEF SeesSame
  <2> QED
    BY <1>1, <2>1, SameNow DEF StepsOn, Untouched
<1>2. CASE UNCHANGED vars
  BY <1>1, <1>2, SameRow DEF vars
<1>3. CASE \/ \E r \in Rules, enabled \in BOOLEAN : CreateByRequest(r, enabled)
           \/ \E r \in Rules : CreateByTool(r)
           \/ \E S \in SUBSET Rules : CreatePresets(S)
           \/ \E r \in Rules : Disable(r)
  <2>1. UNCHANGED <<events, now, eval, raced, torn>>
    BY <1>3, UserStep
  <2>2. /\ rules' \in [Rules -> Rows \cup {NoRow}]
        /\ rules[q] # NoRow => rules'[q] # NoRow /\ rules'[q].state = rules[q].state
                               /\ rules'[q].last = rules[q].last
                               /\ (~rules[q].enabled => ~rules'[q].enabled)
        /\ rules[q] = NoRow /\ rules'[q] # NoRow
             => rules'[q].state = "inactive" /\ rules'[q].last = Never
    BY <1>3, UserStep
  <2>3. RowKept(q)
    BY <2>2 DEF RowKept
  <2> QED
    BY <1>1, <2>1, <2>3
<1>4. ASSUME NEW e \in Evaluators, Begin(e) \/ Resume(e) \/ Run(e)
      PROVE  StepsOn(q)
  <2>1. CASE Begin(e) \/ Fetch(e) \/ FetchReturns(e) \/ End(e)
    BY <2>1, FetchingSteps
  <2>2. CASE \/ FetchFails(e) \/ Suppress(e) \/ StayQuiet(e) \/ StoreFails(e) \/ ReadBackFails(e)
             \/ MarkActive(e)
             \/ StampRule(e) /\ eval[e].kind # "alert"
             \/ Recover(e) /\ ~Settings[Current(e)].notify_recovery
    BY <2>2, PassingSteps
  <2>3. CASE \/ Alert(e) \/ SendEnds(e) \/ RecordEvent(e)
             \/ StampRule(e) /\ eval[e].kind = "alert"
             \/ Recover(e) /\ Settings[Current(e)].notify_recovery
    BY <2>3, SendingSteps
  <2> QED
    BY <1>4, <2>1, <2>2, <2>3 DEF Resume, Run
<1>5. CASE Restart
  <2>1. /\ \A f \in Evaluators : eval'[f] = Asleep
        /\ rules'[q] = rules[q] /\ events'[q] = events[q] /\ now' = now /\ raced' = raced
    BY <1>5 DEF Restart
  <2>2. Asleep.at = "idle" /\ Asleep.held[q] = NoRow
    BY DEF Asleep
  <2>3. \A f \in Evaluators : Works(f, q) => q \in torn'
    BY <1>5 DEF Restart, Works, Busy
  <2> QED
    BY <2>1, <2>2, <2>3 DEF StepsOn, Dropped, Works, Busy
<1>6. CASE Tick
  <2>1. rules'[q] = rules[q] /\ events'[q] = events[q] /\ now' \in Nat /\ now' >= now
    BY <1>6, BoundsAssumption DEF Tick, TypeOK
  <2>2. \A f \in Evaluators : SeesSame(f, q)
    BY <1>6, Others DEF Tick, SeesSame
  <2> QED
    BY <2>1, <2>2, SameRow DEF StepsOn, Untouched
<1> QED
  BY <1>2, <1>3, <1>4, <1>5, <1>6 DEF Next

(* The two histories only grow. *)
LEMMA HistoriesGrow ==
  [Next]_vars => raced \subseteq raced' /\ torn \subseteq torn'
BY DEF Next, vars, CreateByRequest, CreateByTool, Create, CreatePresets, Disable, Begin, BeginWith,
   Resume, Run, Fetch, FetchReturns, FetchFails, SendEnds, Suppress, Alert, Recover, RecoverTo,
   RecoveryDue,
   StayQuiet, RecordEvent, StampRule, Stamped, MarkActive, Marked, StoreFails, ReadBackFails, End,
   Restart, Tick

-----------------------------------------------------------------------------
(* A rule that did not race: one evaluation at most holds it, what it holds *)
(* is what the row says until it works on the rule, and a recovery is sent  *)
(* for an alert that had none.                                              *)
Alone(q) == \A e, f \in Evaluators : Holds(e, q) /\ Holds(f, q) => e = f

Fresh(q) ==
  \A e \in Evaluators : Holds(e, q) /\ ~Works(e, q) =>
    rules[q].state = eval[e].held[q].state /\ rules[q].last = eval[e].held[q].last

Unanswered(q) == Count(q, "recovery") < Count(q, "alert")

Owed(q) ==
  /\ Count(q, "recovery") <= Count(q, "alert")
  /\ rules[q] # NoRow /\ rules[q].state = "active" => Unanswered(q)
  /\ \A e \in Evaluators : Works(e, q) =>
       /\ eval[e].kind = "recovery" => rules[q].state # "active"
       /\ eval[e].kind = "recovery" /\ eval[e].at \in {"send", "record"} => Unanswered(q)
       /\ eval[e].kind = "alert" /\ eval[e].at \in {"stamp", "mark"} => Unanswered(q)

RuleInv(q) == Alone(q) /\ Fresh(q) /\ Owed(q)

(* What is held exists. *)
LEMMA HeldExists ==
  ASSUME TypeOK, NEW e \in Evaluators, NEW q \in Rules
  PROVE  /\ Holds(e, q) => rules[q] # NoRow /\ rules[q] \in Rows
         /\ Works(e, q) => Holds(e, q)
BY WorkersHold DEF Holds, Held, TypeOK

(* A row that is touched is still a row. *)
LEMMA EveryRow ==
  ASSUME TypeOK, StepInv, NEW e \in Evaluators, NEW q \in Rules, Touches(e, q)
  PROVE  rules'[q] # NoRow
<1>0. rules[q] \in Rows /\ rules[q] # NoRow
  BY NoRowAssumption DEF Touches
<1>1. CASE Quieted(e, q) \/ Recovered(e, q) \/ MarkedRow(e, q)
  <2>1. eval[e].held[q] \in Rows
    BY HeldRows DEF Touches, Holds, Evals
  <2>2. PICK state \in States : rules'[q] = [rules[q] EXCEPT !.state = state]
    BY <1>1, <2>1 DEF Quieted, Recovered, MarkedRow, States, Rows
  <2>3. rules'[q] \in Rows
    BY <1>0, <2>2 DEF Rows
  <2> QED
    BY <2>3, NoRowAssumption
<1>2. CASE StampedRow(e, q)
  <2>1. events[q] # <<>>
    BY <1>2 DEF StampedRow, StepInv, StepOf, Works
  <2>2. LastEvent(q).at \in Int
    BY <2>1, LastOne DEF TypeOK
  <2>3. rules'[q] = [rules[q] EXCEPT !.last = LastEvent(q).at]
    BY <1>2 DEF StampedRow
  <2>4. rules'[q] \in Rows
    BY <1>0, <2>2, <2>3 DEF Rows
  <2> QED
    BY <2>4, NoRowAssumption
<1>3. CASE Quit(e, q) \/ Alerted(e, q) \/ Sent(e, q) \/ Recorded(e, q)
  BY <1>0, <1>3 DEF Quit, Alerted, Sent, Recorded
<1> QED
  BY <1>1, <1>2, <1>3 DEF Touches

(* Nobody but e has to do with the rule it has come to. *)
LEMMA OnlyOne ==
  ASSUME TypeOK, NEW e \in Evaluators, NEW q \in Rules, Alone(q), Touches(e, q)
  PROVE  /\ \A f \in Evaluators : f # e => ~Holds(f, q) /\ ~Works(f, q) /\ ~Holds(f, q)' /\ ~Works(f, q)'
         /\ Alone(q)'
<1>1. \A f \in Evaluators : f # e => ~Holds(f, q) /\ ~Works(f, q)
  BY HeldExists DEF Alone, Touches
<1>2. \A f \in Evaluators : f # e => ~Holds(f, q)' /\ ~Works(f, q)'
  BY <1>1, Others DEF Touches
<1> QED
  BY <1>1, <1>2 DEF Alone

(* What does not touch a rule keeps it. *)
LEMMA UntouchedKeeps ==
  ASSUME TypeOK, NEW q \in Rules, RuleInv(q), Untouched(q)
  PROVE  RuleInv(q)'
<1>1. \A f \in Evaluators : SeesSame(f, q) /\ (Holds(f, q)' <=> Holds(f, q))
  BY DEF Untouched, SeesSame, Holds
<1>2. Alone(q)'
  BY <1>1 DEF RuleInv, Alone
<1>3. \A f \in Evaluators : Holds(f, q) \/ Works(f, q) => rules[q] # NoRow
        /\ rules'[q].state = rules[q].state /\ rules'[q].last = rules[q].last
  BY HeldExists DEF Untouched, RowKept
<1>4. Fresh(q)'
  BY <1>1, <1>3 DEF RuleInv, Fresh, SeesSame
<1>5. Unanswered(q)' <=> Unanswered(q)
  BY CountsSame DEF Untouched, Unanswered
<1>6. Count(q, "recovery")' <= Count(q, "alert")'
  BY CountsSame DEF Untouched, RuleInv, Owed
<1>7. rules'[q] # NoRow /\ rules'[q].state = "active" => Unanswered(q)'
  BY <1>5 DEF Untouched, RowKept, RuleInv, Owed
<1>8. \A f \in Evaluators : Works(f, q)' =>
        /\ eval'[f].kind = "recovery" => rules'[q].state # "active"
        /\ eval'[f].kind = "recovery" /\ eval'[f].at \in {"send", "record"} => Unanswered(q)'
        /\ eval'[f].kind = "alert" /\ eval'[f].at \in {"stamp", "mark"} => Unanswered(q)'
  BY <1>1, <1>3, <1>5 DEF SeesSame, RuleInv, Owed
<1>9. Owed(q)'
  BY <1>6, <1>7, <1>8 DEF Owed
<1> QED
  BY <1>2, <1>4, <1>9 DEF RuleInv

(* The evaluation that has come to a rule keeps what is true of it. *)
LEMMA TouchKeeps ==
  ASSUME TypeOK, TypeOK', StepInv, NEW e \in Evaluators, NEW q \in Rules, RuleInv(q), Touches(e, q)
  PROVE  RuleInv(q)'
<1>1. /\ \A f \in Evaluators : f # e => ~Holds(f, q)' /\ ~Works(f, q)'
      /\ Alone(q)' /\ Holds(e, q) /\ rules[q] \in Rows
  BY OnlyOne DEF RuleInv, Touches
<1>2. Fresh(q)'
  <2>1. ~Holds(e, q)' \/ Works(e, q)'
    BY DEF Touches, Quit, Quieted, Recovered, Alerted, Sent, Recorded, StampedRow, MarkedRow,
       Leaves, GoesTo
  <2> QED
    BY <1>1, <2>1 DEF Fresh
<1>3. Count(q, "recovery") \in Nat /\ Count(q, "alert") \in Nat
  BY Counts
<1>4. ~Works(e, q) => rules[q].state = eval[e].held[q].state
  BY <1>1 DEF RuleInv, Fresh
<1> DEFINE Rest == Works(e, q)' =>
             /\ eval'[e].kind = "recovery" => rules'[q].state # "active"
             /\ eval'[e].kind = "recovery" /\ eval'[e].at \in {"send", "record"} => Unanswered(q)'
             /\ eval'[e].kind = "alert" /\ eval'[e].at \in {"stamp", "mark"} => Unanswered(q)'
           Enough == /\ Count(q, "recovery")' <= Count(q, "alert")'
                     /\ rules'[q].state = "active" => Unanswered(q)'
                     /\ Rest
<1>5. Enough => Owed(q)'
  BY <1>1 DEF Owed
<1>6. ASSUME events'[q] = events[q]
      PROVE  /\ Count(q, "recovery")' <= Count(q, "alert")'
             /\ Unanswered(q)' <=> Unanswered(q)
  BY <1>6, CountsSame DEF RuleInv, Owed, Unanswered
<1>7. rules[q].state = "active" => Unanswered(q)
  BY <1>1, NoRowAssumption DEF RuleInv, Owed
<1> SUFFICES Owed(q)'
  BY <1>1, <1>2 DEF RuleInv
<1>8. CASE Quit(e, q)
  BY <1>6, <1>7, <1>8, <1>5 DEF Quit, Leaves
<1>9. CASE Quieted(e, q)
  <2>1. rules'[q].state = rules[q].state
    BY <1>1, <1>4, <1>9 DEF Quieted, Rows
  <2> QED
    BY <1>5, <1>6, <1>7, <1>9, <2>1 DEF Quieted, Leaves
<1>10. CASE Recovered(e, q)
  <2>1. rules'[q].state = "recovered" /\ Unanswered(q)
    BY <1>1, <1>4, <1>7, <1>10 DEF Recovered, Rows
  <2>2. Rest
    BY <1>6, <1>10, <2>1 DEF Recovered, Leaves, GoesTo
  <2> QED
    BY <1>5, <1>6, <1>10, <2>1, <2>2 DEF Recovered
<1>11. CASE Alerted(e, q)
  BY <1>5, <1>6, <1>7, <1>11 DEF Alerted, GoesTo
<1>12. CASE Sent(e, q)
  <2>1. Rest
    BY <1>6, <1>12 DEF Sent, GoesTo, RuleInv, Owed
  <2> QED
    BY <1>5, <1>6, <1>7, <1>12, <2>1 DEF Sent
<1>13. CASE Recorded(e, q)
  <2>1. PICK v \in Events : v.kind = eval[e].kind /\ events'[q] = Append(events[q], v)
    BY <1>13 DEF Recorded
  <2>2. \A kind : Count(q, kind)' = Count(q, kind) + (IF eval[e].kind = kind THEN 1 ELSE 0)
    BY <2>1, CountsMore
  <2>3. /\ Works(e, q) /\ eval[e].at = "record" /\ rules'[q] = rules[q]
        /\ eval'[e].at = "stamp" /\ eval'[e].kind = eval[e].kind
    BY <1>13 DEF Recorded, GoesTo
  <2>4. eval[e].kind \in {"alert", "recovery"}
    BY <2>3, HeldRows DEF StepInv, StepOf, Busy, Evals
  <2>5. CASE eval[e].kind = "alert"
    <3>1. Count(q, "recovery")' = Count(q, "recovery") /\ Count(q, "alert")' = Count(q, "alert") + 1
      BY <1>3, <2>2, <2>5
    <3>2. Unanswered(q)' /\ Count(q, "recovery")' <= Count(q, "alert")'
      BY <1>3, <3>1 DEF RuleInv, Owed, Unanswered
    <3> QED
      BY <1>5, <2>3, <2>5, <3>2
  <2>6. CASE eval[e].kind = "recovery"
    <3>1. Count(q, "recovery")' = Count(q, "recovery") + 1 /\ Count(q, "alert")' = Count(q, "alert")
      BY <1>3, <2>2, <2>6
    <3>2. Unanswered(q) /\ rules[q].state # "active"
      BY <2>3, <2>6 DEF RuleInv, Owed
    <3>3. Count(q, "recovery")' <= Count(q, "alert")'
      BY <1>3, <3>1, <3>2 DEF Unanswered
    <3> QED
      BY <1>5, <2>3, <2>6, <3>2, <3>3
  <2> QED
    BY <2>4, <2>5, <2>6
<1>14. CASE StampedRow(e, q)
  <2>1. rules'[q].state = rules[q].state
    BY <1>1, <1>14 DEF StampedRow, Rows
  <2>2. Rest
    BY <1>6, <1>14, <2>1 DEF StampedRow, GoesTo, Leaves, RuleInv, Owed
  <2> QED
    BY <1>5, <1>6, <1>7, <1>14, <2>1, <2>2 DEF StampedRow
<1>15. CASE MarkedRow(e, q)
  <2>1. eval[e].kind = "alert"
    BY <1>15 DEF MarkedRow, StepInv, StepOf
  <2>2. Unanswered(q)
    BY <1>15, <2>1 DEF MarkedRow, RuleInv, Owed
  <2> QED
    BY <1>5, <1>6, <1>15, <2>2 DEF MarkedRow, Leaves
<1> QED
  BY <1>8, <1>9, <1>10, <1>11, <1>12, <1>13, <1>14, <1>15 DEF Touches

(* An evaluation that begins takes up a rule nobody holds, or it races.     *)
LEMMA TakeKeeps ==
  ASSUME TypeOK, NEW e \in Evaluators, NEW q \in Rules, RuleInv(q), Takes(e, q), q \notin raced'
  PROVE  /\ RuleInv(q)'
         /\ \A f \in Evaluators : ~Works(f, q) /\ ~Works(f, q)'
<1>1. \A f \in Evaluators : ~Holds(f, q) /\ ~Works(f, q)
  BY HeldExists DEF Takes, Holds, Held
<1>2. \A f \in Evaluators : f # e => ~Holds(f, q)' /\ ~Works(f, q)'
  BY <1>1, Others DEF Takes
<1>3. ~Works(e, q)' /\ eval'[e].held[q] = rules'[q]
  BY DEF Takes
<1>4. Alone(q)' /\ Fresh(q)'
  BY <1>2, <1>3 DEF Alone, Fresh
<1>5. Unanswered(q)' <=> Unanswered(q)
  BY CountsSame DEF Takes, Unanswered
<1>6. Owed(q)'
  BY <1>2, <1>3, <1>5, CountsSame DEF Takes, RuleInv, Owed
<1> QED
  BY <1>1, <1>2, <1>3, <1>4, <1>6 DEF RuleInv

(* The end of the process. *)
LEMMA DropKeeps ==
  ASSUME NEW q \in Rules, RuleInv(q), Dropped(q)
  PROVE  RuleInv(q)'
<1>1. \A f \in Evaluators : ~Holds(f, q)' /\ ~Works(f, q)'
  BY DEF Dropped, Holds
<1>2. Alone(q)' /\ Fresh(q)'
  BY <1>1 DEF Alone, Fresh
<1>3. Unanswered(q)' <=> Unanswered(q)
  BY CountsSame DEF Dropped, Unanswered
<1>4. Owed(q)'
  BY <1>1, <1>3, CountsSame DEF Dropped, RuleInv, Owed
<1> QED
  BY <1>2, <1>4 DEF RuleInv

AlertInv == TypeOK /\ StepInv /\ \A q \in Rules \ raced : RuleInv(q)

(* Nothing has happened to a rule yet. *)
LEMMA InitRules == Init => AlertInv
<1> SUFFICES ASSUME Init PROVE AlertInv
  OBVIOUS
<1>1. TypeOK /\ StepInv
  BY InitTypes
<1>2. ASSUME NEW q \in Rules PROVE RuleInv(q)
  <2>1. \A e \in Evaluators : ~Holds(e, q) /\ ~Works(e, q)
    BY HeldExists, <1>1 DEF Init, Asleep, Holds
  <2>2. events[q] = <<>> /\ rules[q] = NoRow
    BY DEF Init
  <2>3. \A kind : Count(q, kind) = 0
    <3>1. \A kind : {i \in DOMAIN events[q] : events[q][i].kind = kind} = {}
      BY <2>2
    <3> QED
      BY <3>1, FS_EmptySet DEF Count
  <2> QED
    BY <2>1, <2>2, <2>3 DEF RuleInv, Alone, Fresh, Owed
<1> QED
  BY <1>1, <1>2 DEF AlertInv

(* Every step keeps what is true of the rules that did not race. *)
LEMMA NextRules == AlertInv /\ [Next]_vars => AlertInv'
<1> SUFFICES ASSUME AlertInv, [Next]_vars PROVE AlertInv'
  OBVIOUS
<1>1. TypeOK' /\ StepInv'
  BY NextTypes DEF AlertInv
<1>2. ASSUME NEW q \in Rules, q \notin raced' PROVE RuleInv(q)'
  <2>1. RuleInv(q) /\ StepsOn(q)
    BY <1>2, HistoriesGrow, EveryStep DEF AlertInv
  <2> QED
    BY <1>1, <1>2, <2>1, UntouchedKeeps, TouchKeeps, TakeKeeps, DropKeeps DEF AlertInv, StepsOn
<1> QED
  BY <1>1, <1>2 DEF AlertInv

(* A recovery follows an alert of its own, for any rules and evaluations,  *)
(* as long as no two evaluations held the rule at once                     *)
(* (notifications.py:235-243).                                             *)
THEOREM RecoveriesHaveAlerts == Spec => []RecoveriesMatched
<1>1. AlertInv => RecoveriesMatched
  BY DEF AlertInv, RuleInv, Owed, RecoveriesMatched
<1> QED
  BY <1>1, InitRules, NextRules, PTL DEF Spec

-----------------------------------------------------------------------------
(* A rule that did not race and was not torn: its row remembers the last   *)
(* message.                                                                *)
Remembered(q) ==
  events[q] # <<>> /\ LastEvent(q).kind = "alert" /\ Settings[q].notify_recovery
    => rules[q].state = "active" \/ \E e \in Evaluators : Works(e, q)

LastAt(q) == IF events[q] = <<>> THEN Never ELSE LastEvent(q).at

(* The row has the time of the last event, but for the step between them,  *)
(* and an evaluation that is about to change the row knows its kind.       *)
Timed(q) ==
  /\ rules[q] = NoRow => events[q] = <<>>
  /\ rules[q] # NoRow /\ (\A e \in Evaluators : Works(e, q) => eval[e].at # "stamp")
       => rules[q].last = LastAt(q)
  /\ \A e \in Evaluators :
       Works(e, q) /\ eval[e].at \in {"stamp", "mark"} => LastEvent(q).kind = eval[e].kind

MemoryInv(q) == Remembered(q) /\ Timed(q)

(* The event that was appended last. *)
LEMMA Appended ==
  ASSUME TypeOK, NEW q \in Rules, NEW v \in Events, events'[q] = Append(events[q], v)
  PROVE  /\ events'[q] # <<>> /\ LastEvent(q)' = v
         /\ DOMAIN events[q] = 1..Len(events[q]) /\ Len(events[q]) \in Nat
         /\ DOMAIN events'[q] = 1..(Len(events[q]) + 1)
         /\ events'[q][Len(events[q]) + 1] = v
         /\ \A i \in 1..Len(events[q]) : events'[q][i] = events[q][i]
<1>1. events[q] \in Seq(Events)
  BY DEF TypeOK
<1> QED
  BY <1>1 DEF LastEvent

(* The events of a rule a step says nothing of. *)
LEMMA SameEvents ==
  ASSUME NEW q, events'[q] = events[q]
  PROVE  LastEvent(q)' = LastEvent(q) /\ LastAt(q)' = LastAt(q)
BY DEF LastEvent, LastAt

(* A step that does not touch a rule. *)
LEMMA UntouchedRemembers ==
  ASSUME TypeOK, NEW q \in Rules, MemoryInv(q), Untouched(q)
  PROVE  MemoryInv(q)'
<1>1. \A f \in Evaluators : SeesSame(f, q)
  BY DEF Untouched
<1>2. LastEvent(q)' = LastEvent(q) /\ LastAt(q)' = LastAt(q) /\ events'[q] = events[q] /\ RowKept(q)
  BY SameEvents DEF Untouched
<1>3. Remembered(q)'
  <2> SUFFICES ASSUME events[q] # <<>>, LastEvent(q).kind = "alert", Settings[q].notify_recovery
               PROVE  rules'[q].state = "active" \/ \E e \in Evaluators : Works(e, q)'
    BY <1>2 DEF Remembered
  <2>1. rules[q].state = "active" \/ \E e \in Evaluators : Works(e, q)
    BY DEF MemoryInv, Remembered
  <2>2. rules[q] # NoRow
    BY DEF MemoryInv, Timed
  <2>3. rules'[q].state = rules[q].state
    BY <1>2, <2>2 DEF RowKept
  <2> QED
    BY <1>1, <2>1, <2>3 DEF SeesSame
<1>4. Timed(q)'
  <2>1. rules'[q] = NoRow => events'[q] = <<>>
    BY <1>2, NoRowAssumption DEF MemoryInv, Timed, RowKept
  <2>2. ASSUME rules'[q] # NoRow, \A e \in Evaluators : Works(e, q)' => eval'[e].at # "stamp"
        PROVE  rules'[q].last = LastAt(q)'
    <3>1. \A e \in Evaluators : Works(e, q) => eval[e].at # "stamp"
      BY <1>1, <2>2 DEF SeesSame
    <3>2. CASE rules[q] = NoRow
      BY <1>2, <2>2, <3>2 DEF MemoryInv, Timed, RowKept, LastAt
    <3>3. CASE rules[q] # NoRow
      BY <1>2, <3>1, <3>3 DEF MemoryInv, Timed, RowKept
    <3> QED
      BY <3>2, <3>3
  <2>3. \A e \in Evaluators :
          Works(e, q)' /\ eval'[e].at \in {"stamp", "mark"} => LastEvent(q)'.kind = eval'[e].kind
    BY <1>1, <1>2 DEF MemoryInv, Timed, SeesSame
  <2> QED
    BY <2>1, <2>2, <2>3 DEF Timed
<1> QED
  BY <1>3, <1>4 DEF MemoryInv

(* The evaluation that has come to the rule. *)
LEMMA TouchRemembers ==
  ASSUME TypeOK, TypeOK', StepInv, NEW e \in Evaluators, NEW q \in Rules, RuleInv(q),
         MemoryInv(q), Touches(e, q), q \notin torn'
  PROVE  MemoryInv(q)'
<1>1. /\ \A f \in Evaluators : f # e => ~Works(f, q) /\ ~Works(f, q)'
      /\ rules[q] \in Rows /\ rules[q] # NoRow
  BY OnlyOne, NoRowAssumption DEF RuleInv, Touches
<1>2. rules'[q] # NoRow
  BY EveryRow
<1> DEFINE Remembers == events'[q] # <<>> /\ LastEvent(q)'.kind = "alert" /\ Settings[q].notify_recovery
                          => rules'[q].state = "active" \/ Works(e, q)'
           Times == (Works(e, q)' => eval'[e].at # "stamp") => rules'[q].last = LastAt(q)'
           Knows == Works(e, q)' /\ eval'[e].at \in {"stamp", "mark"}
                      => LastEvent(q)'.kind = eval'[e].kind
<1>3. Remembers /\ Times /\ Knows => MemoryInv(q)'
  BY <1>1, <1>2 DEF MemoryInv, Remembered, Timed
<1>4. ~Works(e, q) => rules[q].state = eval[e].held[q].state
  BY DEF RuleInv, Fresh, Touches
<1>5. ~Works(e, q) /\ events[q] # <<>> /\ LastEvent(q).kind = "alert" /\ Settings[q].notify_recovery
        => rules[q].state = "active"
  BY <1>1 DEF MemoryInv, Remembered
<1>6. (Works(e, q) => eval[e].at # "stamp") => rules[q].last = LastAt(q)
  BY <1>1 DEF MemoryInv, Timed
<1>7. Works(e, q) /\ eval[e].at \in {"stamp", "mark"} => LastEvent(q).kind = eval[e].kind
  BY DEF MemoryInv, Timed
<1>8. events'[q] = events[q] => LastEvent(q)' = LastEvent(q) /\ LastAt(q)' = LastAt(q)
  BY SameEvents
<1> SUFFICES Remembers /\ Times /\ Knows
  BY <1>3
<1>9. CASE Quit(e, q) /\ (Works(e, q) => q \in torn')
  BY <1>5, <1>6, <1>8, <1>9 DEF Quit, Leaves
<1>10. CASE Quieted(e, q)
  <2>1. rules'[q].state = rules[q].state /\ rules'[q].last = rules[q].last
    BY <1>1, <1>4, <1>10 DEF Quieted, Rows
  <2> QED
    BY <1>5, <1>6, <1>8, <1>10, <2>1 DEF Quieted, Leaves
<1>11. CASE Recovered(e, q)
  <2>1. rules'[q].last = rules[q].last
    BY <1>1, <1>11 DEF Recovered, Rows
  <2> QED
    BY <1>5, <1>6, <1>8, <1>11, <2>1 DEF Recovered, Leaves, GoesTo
<1>12. CASE Alerted(e, q)
  BY <1>5, <1>6, <1>8, <1>12 DEF Alerted, GoesTo
<1>13. CASE Sent(e, q)
  BY <1>6, <1>8, <1>13 DEF Sent, GoesTo
<1>14. CASE Recorded(e, q)
  <2>1. PICK v \in Events : v.kind = eval[e].kind /\ events'[q] = Append(events[q], v)
    BY <1>14 DEF Recorded
  <2>2. LastEvent(q)' = v
    BY <2>1, Appended
  <2> QED
    BY <1>14, <2>1, <2>2 DEF Recorded, GoesTo
<1>15. CASE StampedRow(e, q)
  <2>1. rules'[q].last = LastEvent(q).at
    BY <1>1, <1>15 DEF StampedRow, Rows
  <2>2. events[q] # <<>>
    BY <1>15 DEF StampedRow, StepInv, StepOf, Works
  <2>3. LastAt(q)' = LastEvent(q).at
    BY <1>8, <1>15, <2>2 DEF StampedRow, LastAt
  <2> QED
    BY <1>7, <1>8, <1>15, <2>1, <2>3 DEF StampedRow, Leaves, GoesTo
<1>16. CASE MarkedRow(e, q)
  <2>1. rules'[q].last = rules[q].last /\ rules'[q].state = "active"
    BY <1>1, <1>16 DEF MarkedRow, Rows
  <2> QED
    BY <1>6, <1>8, <1>16, <2>1 DEF MarkedRow, Leaves
<1> QED
  BY <1>9, <1>10, <1>11, <1>12, <1>13, <1>14, <1>15, <1>16 DEF Touches

(* A rule that nobody works on, before or after. *)
LEMMA IdleRemembers ==
  ASSUME NEW q \in Rules, MemoryInv(q), rules'[q] = rules[q], events'[q] = events[q],
         \A f \in Evaluators : ~Works(f, q) /\ ~Works(f, q)'
  PROVE  MemoryInv(q)'
<1>1. LastEvent(q)' = LastEvent(q) /\ LastAt(q)' = LastAt(q)
  BY SameEvents
<1>2. Remembered(q)'
  BY <1>1 DEF MemoryInv, Remembered
<1>3. Timed(q)'
  BY <1>1 DEF MemoryInv, Timed
<1> QED
  BY <1>2, <1>3 DEF MemoryInv

MemoriesInv == AlertInv /\ \A q \in Rules \ (raced \cup torn) : MemoryInv(q)

(* Nothing to remember yet. *)
LEMMA InitMemories == Init => MemoriesInv
<1> SUFFICES ASSUME Init PROVE MemoriesInv
  OBVIOUS
<1>1. AlertInv
  BY InitRules
<1>2. \A e \in Evaluators, q \in Rules : ~Works(e, q)
  BY <1>1, HeldExists DEF AlertInv, Init, Asleep, Holds
<1>3. \A q \in Rules : events[q] = <<>> /\ rules[q] = NoRow
  BY DEF Init
<1>4. \A q \in Rules : Remembered(q) /\ Timed(q)
  BY <1>2, <1>3 DEF Remembered, Timed
<1> QED
  BY <1>1, <1>4 DEF MemoriesInv, MemoryInv

(* Every step keeps what the rows remember. *)
LEMMA NextMemories == MemoriesInv /\ [Next]_vars => MemoriesInv'
<1> SUFFICES ASSUME MemoriesInv, [Next]_vars PROVE MemoriesInv'
  OBVIOUS
<1>1. AlertInv' /\ TypeOK' /\ TypeOK /\ StepInv
  BY NextRules DEF MemoriesInv, AlertInv
<1>2. ASSUME NEW q \in Rules, q \notin raced', q \notin torn' PROVE MemoryInv(q)'
  <2>1. RuleInv(q) /\ MemoryInv(q) /\ StepsOn(q)
    BY <1>2, HistoriesGrow, EveryStep DEF MemoriesInv, AlertInv
  <2>2. CASE Untouched(q)
    BY <1>1, <2>1, <2>2, UntouchedRemembers
  <2>3. ASSUME NEW e \in Evaluators, Touches(e, q) PROVE MemoryInv(q)'
    BY <1>1, <1>2, <2>1, <2>3, TouchRemembers
  <2>4. ASSUME NEW e \in Evaluators, Takes(e, q) PROVE MemoryInv(q)'
    <3>1. \A f \in Evaluators : ~Works(f, q) /\ ~Works(f, q)'
      BY <1>1, <1>2, <2>1, <2>4, TakeKeeps
    <3> QED
      BY <2>1, <2>4, <3>1, IdleRemembers DEF Takes
  <2>5. CASE Dropped(q)
    BY <1>2, <2>1, <2>5, IdleRemembers DEF Dropped
  <2> QED
    BY <2>1, <2>2, <2>3, <2>4, <2>5 DEF StepsOn
<1> QED
  BY <1>1, <1>2 DEF MemoriesInv

(* A recorded alert is remembered by the row until an evaluation works on  *)
(* its recovery, unless the rule raced or was torn                         *)
(* (notifications.py:216-243).                                             *)
THEOREM AlertsAreRemembered == Spec => []AlertRemembered
<1>1. MemoriesInv => AlertRemembered
  <2> SUFFICES ASSUME MemoriesInv, NEW r \in Rules, r \notin raced, r \notin torn,
                      events[r] # <<>>, LastEvent(r).kind = "alert", Settings[r].notify_recovery
               PROVE  \/ rules[r].state = "active"
                      \/ \E e \in Evaluators : /\ eval[e].at \in {"send", "record", "stamp", "mark"}
                                               /\ Current(e) = r
    BY DEF AlertRemembered
  <2>1. rules[r].state = "active" \/ \E e \in Evaluators : Works(e, r)
    BY DEF MemoriesInv, MemoryInv, Remembered
  <2> QED
    BY <2>1 DEF Works, Busy
<1> QED
  BY <1>1, InitMemories, NextMemories, PTL DEF Spec

-----------------------------------------------------------------------------
(* The times of a rule's events, and the cooldown between its alerts.       *)
Ordered(q) ==
  /\ \A i \in DOMAIN events[q] : events[q][i].at <= now
  /\ \A i, j \in DOMAIN events[q] : i <= j => events[q][i].at <= events[q][j].at

(* Every alert so far is at least a cooldown old. *)
Cooled(q) ==
  \A i \in DOMAIN events[q] :
    events[q][i].kind = "alert" => now - events[q][i].at >= Settings[q].cooldown

Spaced(q) ==
  /\ \A i, j \in DOMAIN events[q] :
       (i < j /\ events[q][i].kind = "alert" /\ events[q][j].kind = "alert")
         => events[q][j].at - events[q][i].at >= Settings[q].cooldown
  /\ \A e \in Evaluators :
       Works(e, q) /\ eval[e].kind = "alert" /\ eval[e].at \in {"send", "record"} => Cooled(q)

(* What a step may do to a rule's events. *)
LEMMA StepEvents ==
  ASSUME TypeOK, NEW q \in Rules, StepsOn(q)
  PROVE  /\ now \in Nat /\ now' \in Nat /\ now' >= now
         /\ \/ events'[q] = events[q]
            \/ \E v \in Events : v.at = now /\ now' = now /\ events'[q] = Append(events[q], v)
<1>1. now \in Nat
  BY BoundsAssumption DEF TypeOK
<1>2. now' \in Nat /\ now' >= now
  BY <1>1 DEF StepsOn, Untouched, Touches, Takes, Dropped
<1>3. \/ events'[q] = events[q]
      \/ \E v \in Events : v.at = now /\ now' = now /\ events'[q] = Append(events[q], v)
  BY DEF StepsOn, Untouched, Touches, Takes, Dropped, Quit, Quieted, Recovered, Alerted, Sent,
     Recorded, StampedRow, MarkedRow
<1> QED
  BY <1>1, <1>2, <1>3

(* The events of a rule have times. *)
LEMMA EventTimes ==
  ASSUME TypeOK, NEW q \in Rules
  PROVE  \A i \in DOMAIN events[q] : events[q][i] \in Events /\ events[q][i].at \in Nat
<1>1. \A i \in DOMAIN events[q] : events[q][i] \in Events
  BY DEF TypeOK
<1> QED
  BY <1>1 DEF Events

(* Times do not run back. *)
LEMMA OrderedKept ==
  ASSUME TypeOK, NEW q \in Rules, Ordered(q), StepsOn(q)
  PROVE  Ordered(q)'
<1>1. /\ now \in Nat /\ now' \in Nat /\ now' >= now
      /\ \/ events'[q] = events[q]
         \/ \E v \in Events : v.at = now /\ now' = now /\ events'[q] = Append(events[q], v)
  BY StepEvents
<1>2. \A i \in DOMAIN events[q] : events[q][i].at \in Nat
  BY EventTimes
<1>3. CASE events'[q] = events[q]
  BY <1>1, <1>2, <1>3 DEF Ordered
<1>4. ASSUME NEW v \in Events, v.at = now, now' = now, events'[q] = Append(events[q], v)
      PROVE  Ordered(q)'
  <2>1. /\ DOMAIN events[q] = 1..Len(events[q]) /\ Len(events[q]) \in Nat
        /\ DOMAIN events'[q] = 1..(Len(events[q]) + 1)
        /\ events'[q][Len(events[q]) + 1] = v
        /\ \A i \in 1..Len(events[q]) : events'[q][i] = events[q][i]
    BY <1>4, Appended
  <2>2. \A i \in DOMAIN events'[q] : events'[q][i].at <= now'
    BY <1>1, <1>4, <2>1 DEF Ordered
  <2>3. ASSUME NEW i \in DOMAIN events'[q], NEW j \in DOMAIN events'[q], i <= j
        PROVE  events'[q][i].at <= events'[q][j].at
    <3>1. CASE j = Len(events[q]) + 1
      BY <1>4, <2>1, <2>2, <3>1
    <3>2. CASE j \in 1..Len(events[q])
      <4>1. i \in 1..Len(events[q])
        BY <2>1, <2>3, <3>2
      <4> QED
        BY <2>1, <2>3, <3>2, <4>1 DEF Ordered
    <3> QED
      BY <2>1, <3>1, <3>2
  <2> QED
    BY <2>2, <2>3 DEF Ordered
<1> QED
  BY <1>1, <1>3, <1>4

(* What is old enough stays old enough. *)
LEMMA CooledStays ==
  ASSUME TypeOK, NEW q \in Rules, events'[q] = events[q], now' \in Nat, now' >= now, Cooled(q)
  PROVE  Cooled(q)'
<1>1. Settings[q].cooldown \in Nat /\ now \in Nat
  BY SettingsAssumption, BoundsAssumption DEF TypeOK
<1>2. \A i \in DOMAIN events[q] : events[q][i].at \in Nat
  BY EventTimes
<1> QED
  BY <1>1, <1>2 DEF Cooled

(* An alert that is not in its cooldown comes late enough after the others. *)
LEMMA CooledDown ==
  ASSUME TypeOK, NEW q \in Rules, Ordered(q), rules[q] \in Rows, rules[q].last = LastAt(q),
         NEW row, row.last = rules[q].last, ~InCooldown(q, row)
  PROVE  Cooled(q)
<1> SUFFICES ASSUME NEW i \in DOMAIN events[q], events[q][i].kind = "alert"
             PROVE  now - events[q][i].at >= Settings[q].cooldown
  BY DEF Cooled
<1>1. Settings[q].cooldown \in Nat /\ now \in Nat
  BY SettingsAssumption, BoundsAssumption DEF TypeOK
<1>2. /\ events[q] # <<>> /\ Len(events[q]) \in DOMAIN events[q] /\ i <= Len(events[q])
  <2>1. events[q] \in Seq(Events)
    BY DEF TypeOK
  <2> QED
    BY <2>1
<1>3. LastEvent(q).at \in Nat /\ events[q][i].at \in Nat /\ events[q][i].at <= LastEvent(q).at
  BY <1>2, EventTimes DEF Ordered, LastEvent
<1>4. row.last = LastEvent(q).at /\ row.last # Never
  BY <1>2, <1>3 DEF LastAt, Never
<1>5. now - row.last >= Settings[q].cooldown
  BY <1>1, <1>3, <1>4 DEF InCooldown
<1> QED
  BY <1>1, <1>3, <1>4, <1>5

(* Alerts stay apart. *)
LEMMA SpacedKept ==
  ASSUME TypeOK, StepInv, NEW q \in Rules, RuleInv(q), MemoryInv(q), Ordered(q), Spaced(q),
         StepsOn(q), q \notin raced', q \notin torn'
  PROVE  Spaced(q)'
<1>1. /\ now \in Nat /\ now' \in Nat /\ now' >= now
  BY StepEvents
<1> DEFINE Sending(f) == Works(f, q)' /\ eval'[f].kind = "alert" /\ eval'[f].at \in {"send", "record"}
<1>2. ASSUME events'[q] = events[q], \A f \in Evaluators : Sending(f) => Cooled(q)
      PROVE  Spaced(q)'
  <2>1. \A f \in Evaluators : Sending(f) => Cooled(q)'
    BY <1>1, <1>2, CooledStays
  <2> QED
    BY <1>2, <2>1 DEF Spaced
<1>3. CASE Untouched(q)
  <2>1. \A f \in Evaluators : Sending(f) => Cooled(q)
    BY <1>3 DEF Untouched, SeesSame, Spaced
  <2> QED
    BY <1>2, <1>3, <2>1 DEF Untouched
<1>4. ASSUME NEW e \in Evaluators, Takes(e, q) PROVE Spaced(q)'
  <2>1. \A f \in Evaluators : ~Works(f, q)'
    BY <1>4, TakeKeeps
  <2> QED
    BY <1>2, <1>4, <2>1 DEF Takes
<1>5. CASE Dropped(q)
  BY <1>2, <1>5 DEF Dropped
<1>6. ASSUME NEW e \in Evaluators, Touches(e, q) PROVE Spaced(q)'
  <2>1. /\ \A f \in Evaluators : f # e => ~Works(f, q) /\ ~Works(f, q)'
        /\ rules[q] \in Rows /\ rules[q] # NoRow /\ Holds(e, q)
    BY <1>6, OnlyOne, NoRowAssumption DEF RuleInv, Touches
  <2>2. CASE \/ Quit(e, q) \/ Quieted(e, q) \/ Recovered(e, q) \/ StampedRow(e, q) \/ MarkedRow(e, q)
    <3>1. ~Sending(e) /\ events'[q] = events[q]
      BY <2>2 DEF Quit, Quieted, Recovered, StampedRow, MarkedRow, Leaves, GoesTo
    <3> QED
      BY <1>2, <2>1, <3>1
  <2>3. CASE Alerted(e, q)
    <3>1. rules[q].last = LastAt(q)
      BY <2>1, <2>3 DEF Alerted, MemoryInv, Timed
    <3>2. rules[q].last = eval[e].held[q].last
      BY <2>1, <2>3 DEF Alerted, RuleInv, Fresh
    <3>3. Cooled(q)
      BY <2>1, <2>3, <3>1, <3>2, CooledDown DEF Alerted
    <3> QED
      BY <1>2, <2>3, <3>3 DEF Alerted
  <2>4. CASE Sent(e, q)
    <3>1. Sending(e) => Cooled(q)
      BY <2>4 DEF Sent, GoesTo, Spaced
    <3> QED
      BY <1>2, <2>1, <2>4, <3>1 DEF Sent
  <2>5. CASE Recorded(e, q)
    <3>1. PICK v \in Events : v.kind = eval[e].kind /\ v.at = now /\ events'[q] = Append(events[q], v)
      BY <2>5 DEF Recorded
    <3>2. /\ DOMAIN events[q] = 1..Len(events[q]) /\ Len(events[q]) \in Nat
          /\ DOMAIN events'[q] = 1..(Len(events[q]) + 1)
          /\ events'[q][Len(events[q]) + 1] = v
          /\ \A i \in 1..Len(events[q]) : events'[q][i] = events[q][i]
      BY <3>1, Appended
    <3>3. v.kind = "alert" => Cooled(q)
      BY <2>5, <3>1 DEF Recorded, Spaced
    <3>4. ASSUME NEW i \in DOMAIN events'[q], NEW j \in DOMAIN events'[q], i < j,
                 events'[q][i].kind = "alert", events'[q][j].kind = "alert"
          PROVE  events'[q][j].at - events'[q][i].at >= Settings[q].cooldown
      <4>1. i \in 1..Len(events[q])
        BY <3>2, <3>4
      <4>2. CASE j = Len(events[q]) + 1
        BY <3>1, <3>2, <3>3, <3>4, <4>1, <4>2 DEF Cooled
      <4>3. CASE j \in 1..Len(events[q])
        BY <3>2, <3>4, <4>1, <4>3 DEF Spaced
      <4> QED
        BY <3>2, <4>2, <4>3
    <3>5. \A f \in Evaluators : ~Sending(f)
      BY <2>1, <2>5 DEF Recorded, GoesTo
    <3> QED
      BY <3>4, <3>5 DEF Spaced
  <2> QED
    BY <1>6, <2>2, <2>3, <2>4, <2>5 DEF Touches
<1> QED
  BY <1>3, <1>4, <1>5, <1>6 DEF StepsOn

SpacedInv ==
  /\ MemoriesInv
  /\ \A q \in Rules : Ordered(q)
  /\ \A q \in Rules \ (raced \cup torn) : Spaced(q)

(* No events, no alerts too close. *)
LEMMA InitSpaced == Init => SpacedInv
<1> SUFFICES ASSUME Init PROVE SpacedInv
  OBVIOUS
<1>1. MemoriesInv
  BY InitMemories
<1>2. \A q \in Rules : DOMAIN events[q] = {}
  BY DEF Init
<1>3. \A e \in Evaluators, q \in Rules : ~Works(e, q)
  BY <1>1, HeldExists DEF MemoriesInv, AlertInv, Init, Asleep, Holds
<1>4. \A q \in Rules : Ordered(q) /\ Spaced(q)
  BY <1>2, <1>3 DEF Ordered, Spaced
<1> QED
  BY <1>1, <1>4 DEF SpacedInv

(* Every step keeps times in order and alerts apart. *)
LEMMA NextSpaced == SpacedInv /\ [Next]_vars => SpacedInv'
<1> SUFFICES ASSUME SpacedInv, [Next]_vars PROVE SpacedInv'
  OBVIOUS
<1>1. MemoriesInv' /\ TypeOK /\ StepInv
  BY NextMemories DEF SpacedInv, MemoriesInv, AlertInv
<1>2. ASSUME NEW q \in Rules PROVE Ordered(q)'
  BY <1>1, EveryStep, OrderedKept DEF SpacedInv
<1>3. ASSUME NEW q \in Rules, q \notin raced', q \notin torn' PROVE Spaced(q)'
  <2>1. /\ RuleInv(q) /\ MemoryInv(q) /\ StepsOn(q) /\ Ordered(q) /\ Spaced(q)
    BY <1>1, <1>3, HistoriesGrow, EveryStep DEF SpacedInv, MemoriesInv, AlertInv
  <2> QED
    BY <1>1, <1>3, <2>1, SpacedKept
<1> QED
  BY <1>1, <1>2, <1>3 DEF SpacedInv

(* Two alerts of a rule are at least its cooldown apart, unless the rule   *)
(* raced or was torn (notifications.py:209-214).                           *)
THEOREM CooldownHolds == Spec => []CooldownKept
<1>1. SpacedInv => CooldownKept
  BY DEF SpacedInv, Spaced, CooldownKept
<1> QED
  BY <1>1, InitSpaced, NextSpaced, PTL DEF Spec

-----------------------------------------------------------------------------
(* Messages after a rule was disabled: each evaluation that held it then   *)
(* still has one to record at most, and nobody takes it up any more.       *)
Pending(q) ==
  {e \in Evaluators : Holds(e, q) /\ ~(Works(e, q) /\ eval[e].at \in {"stamp", "mark"})}

Disabled(q) == rules[q] # NoRow /\ ~rules[q].enabled

LateInv(q) ==
  /\ ~Disabled(q) => Late(q) = 0
  /\ Disabled(q) => Late(q) + Cardinality(Pending(q)) <= Cardinality(Evaluators)

(* Evaluations with a message to record are finitely many. *)
LEMMA PendingFinite ==
  ASSUME NEW q
  PROVE  /\ Pending(q) \subseteq Evaluators /\ IsFiniteSet(Pending(q))
         /\ Cardinality(Pending(q)) \in Nat /\ Cardinality(Evaluators) \in Nat
         /\ Cardinality(Pending(q)) <= Cardinality(Evaluators)
         /\ Pending(q)' \subseteq Evaluators /\ IsFiniteSet(Pending(q)')
         /\ Cardinality(Pending(q)') \in Nat
         /\ Cardinality(Pending(q)') <= Cardinality(Evaluators)
<1>1. Pending(q) \subseteq Evaluators /\ Pending(q)' \subseteq Evaluators /\ IsFiniteSet(Evaluators)
  BY BoundsAssumption DEF Pending
<1> QED
  BY <1>1, FS_Subset, FS_CardinalityType

(* Fewer evaluations still hold the rule, and nothing more was late. *)
LEMMA FewerPending ==
  ASSUME TypeOK, NEW q \in Rules, Late(q) + Cardinality(Pending(q)) <= Cardinality(Evaluators),
         Late(q)' = Late(q), Pending(q)' \subseteq Pending(q)
  PROVE  Late(q)' + Cardinality(Pending(q)') <= Cardinality(Evaluators)
<1>1. Cardinality(Pending(q)') <= Cardinality(Pending(q))
  BY PendingFinite, FS_Subset
<1>2. Late(q) \in Nat
  BY Counts
<1> QED
  BY <1>1, <1>2, PendingFinite

(* Whether anything was late before or not, no more than the evaluations   *)
(* that may still record something.                                        *)
LEMMA NoneLate ==
  ASSUME NEW q \in Rules, Late(q)' = 0
  PROVE  Late(q)' + Cardinality(Pending(q)') <= Cardinality(Evaluators)
BY PendingFinite

(* A step that does not touch the rule, which may be the one that disables *)
(* it.                                                                     *)
LEMMA UntouchedLate ==
  ASSUME TypeOK, NEW q \in Rules, LateInv(q), Untouched(q)
  PROVE  LateInv(q)'
<1>1. Late(q)' = Late(q)
  BY CountsSame DEF Untouched
<1>2. Pending(q)' \subseteq Pending(q)
  BY DEF Untouched, SeesSame, Pending, Holds
<1>3. Disabled(q) => Disabled(q)'
  BY NoRowAssumption DEF Untouched, RowKept, Disabled
<1>4. CASE Disabled(q)
  BY <1>1, <1>2, <1>3, <1>4, FewerPending DEF LateInv
<1>5. CASE ~Disabled(q)
  BY <1>1, <1>5, NoneLate DEF LateInv
<1> QED
  BY <1>4, <1>5

(* The evaluation that has come to the rule. *)
LEMMA TouchLate ==
  ASSUME TypeOK, TypeOK', StepInv, NEW e \in Evaluators, NEW q \in Rules, LateInv(q), Touches(e, q)
  PROVE  LateInv(q)'
<1>1. rules[q] \in Rows /\ rules[q] # NoRow /\ Holds(e, q)
      /\ \A f \in Evaluators : f # e => eval'[f] = eval[f]
  BY NoRowAssumption DEF Touches
<1>2. \A f \in Evaluators : f # e => (f \in Pending(q)' <=> f \in Pending(q))
  BY <1>1, Others DEF Pending
<1>3. rules'[q].enabled = rules[q].enabled
  BY <1>1 DEF Touches, Quit, Quieted, Recovered, Alerted, Sent, Recorded, StampedRow, MarkedRow,
     Rows
<1>4. rules'[q] # NoRow
  BY <1>1, EveryRow
<1>5. Disabled(q)' <=> Disabled(q)
  BY <1>1, <1>3, <1>4 DEF Disabled
<1>6. CASE Recorded(e, q)
  <2>1. PICK v \in Events : v.late = ~rules[q].enabled /\ events'[q] = Append(events[q], v)
    BY <1>6 DEF Recorded
  <2>2. Late(q)' = Late(q) + (IF v.late THEN 1 ELSE 0) /\ Late(q) \in Nat
    BY <2>1, CountsMore, Counts
  <2>3. CASE Disabled(q)
    <3>1. Late(q)' = Late(q) + 1
      BY <2>1, <2>2, <2>3 DEF Disabled
    <3>2. e \in Pending(q) /\ e \notin Pending(q)'
      BY <1>1, <1>6 DEF Recorded, GoesTo, Pending
    <3>3. Pending(q)' \subseteq Pending(q) \ {e}
      BY <1>2, <3>2, PendingFinite
    <3>4. Cardinality(Pending(q) \ {e}) = Cardinality(Pending(q)) - 1 /\ IsFiniteSet(Pending(q) \ {e})
      BY <3>2, PendingFinite, FS_RemoveElement
    <3>5. Cardinality(Pending(q)') <= Cardinality(Pending(q)) - 1
      BY <3>3, <3>4, FS_Subset
    <3>6. Late(q) + Cardinality(Pending(q)) <= Cardinality(Evaluators)
      BY <2>3 DEF LateInv
    <3>7. Late(q)' + Cardinality(Pending(q)') <= Cardinality(Evaluators)
      BY <2>2, <3>1, <3>5, <3>6, PendingFinite
    <3> QED
      BY <1>5, <2>3, <3>7 DEF LateInv
  <2>4. CASE ~Disabled(q)
    <3>1. ~v.late
      BY <1>1, <2>1, <2>4 DEF Disabled
    <3>2. Late(q) = 0
      BY <2>4 DEF LateInv
    <3>3. Late(q)' = 0
      BY <2>2, <3>1, <3>2
    <3> QED
      BY <1>5, <2>4, <3>3 DEF LateInv
  <2> QED
    BY <2>3, <2>4
<1>7. CASE ~Recorded(e, q)
  <2>1. Late(q)' = Late(q)
    BY <1>7, CountsSame DEF Touches, Quit, Quieted, Recovered, Alerted, Sent, StampedRow, MarkedRow
  <2>2. e \in Pending(q)' => e \in Pending(q)
    BY <1>1, <1>7 DEF Touches, Quit, Quieted, Recovered, Alerted, Sent, StampedRow, MarkedRow,
       Leaves, GoesTo, Pending
  <2>3. Pending(q)' \subseteq Pending(q)
    BY <1>2, <2>2, PendingFinite
  <2> QED
    BY <1>5, <2>1, <2>3, FewerPending DEF LateInv
<1> QED
  BY <1>6, <1>7

LateBound == TypeOK /\ StepInv /\ \A q \in Rules : LateInv(q)

(* Nothing was late at the beginning. *)
LEMMA InitLate == Init => LateBound
<1> SUFFICES ASSUME Init PROVE LateBound
  OBVIOUS
<1>1. ASSUME NEW q \in Rules PROVE Late(q) = 0 /\ ~Disabled(q)
  <2>1. {i \in DOMAIN events[q] : events[q][i].late} = {} /\ rules[q] = NoRow
    BY DEF Init
  <2> QED
    BY <2>1, FS_EmptySet DEF Late, Disabled
<1> QED
  BY <1>1, InitTypes DEF LateBound, LateInv

(* Every step keeps the bound. *)
LEMMA NextLate == LateBound /\ [Next]_vars => LateBound'
<1> SUFFICES ASSUME LateBound, [Next]_vars PROVE LateBound'
  OBVIOUS
<1>1. TypeOK' /\ StepInv'
  BY NextTypes DEF LateBound
<1>2. ASSUME NEW q \in Rules PROVE LateInv(q)'
  <2>1. LateInv(q) /\ StepsOn(q)
    BY EveryStep DEF LateBound
  <2>2. ASSUME NEW e \in Evaluators, Takes(e, q) PROVE LateInv(q)'
    <3>1. ~Disabled(q) /\ ~Disabled(q)'
      BY <2>2 DEF Takes, Disabled
    <3> QED
      BY <2>1, <2>2, <3>1, CountsSame DEF LateInv, Takes
  <2>3. CASE Dropped(q)
    <3>1. (Disabled(q)' <=> Disabled(q)) /\ Late(q)' = Late(q)
      BY <2>3, CountsSame DEF Dropped, Disabled
    <3>2. Pending(q)' \subseteq Pending(q)
      BY <2>3 DEF Dropped, Pending, Holds
    <3> QED
      BY <2>1, <3>1, <3>2, FewerPending DEF LateInv, LateBound
  <2> QED
    BY <1>1, <2>1, <2>2, <2>3, UntouchedLate, TouchLate DEF StepsOn, LateBound
<1> QED
  BY <1>1, <1>2 DEF LateBound

(* A disabled rule sends at most one message more per evaluation           *)
(* (main.py:525-529, notifications.py:178).                                *)
THEOREM LateMessagesBounded == Spec => []LateEventsBounded
<1>1. LateBound => LateEventsBounded
  <2> SUFFICES ASSUME LateBound, NEW q \in Rules PROVE Late(q) <= Cardinality(Evaluators)
    BY DEF LateEventsBounded, Late
  <2>1. Late(q) \in Nat
    BY Counts DEF LateBound
  <2> QED
    BY <2>1, PendingFinite DEF LateBound, LateInv
<1> QED
  BY <1>1, InitLate, NextLate, PTL DEF Spec
=============================================================================
