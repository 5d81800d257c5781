--------------------------- MODULE MarketDataProofs ---------------------------
(***************************************************************************)
(* Proofs about MarketData, for any number of calls, failures, attempts,   *)
(* window and retention.  Session, feed and recorder share almost no       *)
(* state: each has an invariant of its own, kept by the steps it can take  *)
(* (SessionStep, FeedStep, GoldStep), and every step of the composition    *)
(* is one of each.                                                         *)
(***************************************************************************)
EXTENDS MarketData, FiniteSetTheorems, FunctionTheorems, TLAPS

-----------------------------------------------------------------------------
(* The session: a login is under way at the holder of the lock only, and   *)
(* while it is, no token is good.                                          *)
SessionInv ==
  /\ token \in {"fresh", "due"}
  /\ lock \in Callers \cup {None}
  /\ at \in [Callers -> Places]
  /\ LoginsNeeded

SessionStep ==
  \/ \E c \in Callers : Ask(c) /\ UNCHANGED <<token, lock>>
  \/ \E c \in Callers : Enter(c) \/ LoginSucceeds(c) \/ LoginFails(c) \/ Leave(c)
  \/ TokenAges
  \/ token' = "fresh" /\ lock' = None /\ at' = [c \in Callers |-> "idle"]
  \/ UNCHANGED session

(* The initial session satisfies its invariant. *)
LEMMA SessionInitInv == SessionInit => SessionInv
  BY DEF SessionInit, SessionInv, LoginsNeeded, Callers, Places

(* Whatever a caller does keeps the session's invariant. *)
LEMMA SessionKept == SessionInv /\ SessionStep => SessionInv'
<1> SUFFICES ASSUME SessionInv, SessionStep PROVE SessionInv'
  OBVIOUS
<1> USE DEF SessionInv, LoginsNeeded
<1>1. CASE \E c \in Callers : Ask(c) /\ UNCHANGED <<token, lock>>
  BY <1>1 DEF Ask, Move, Places
<1>2. ASSUME NEW c \in Callers, Enter(c)
      PROVE  SessionInv'
  BY <1>2, SessionAssumption DEF Enter, Move, Places
<1>3. ASSUME NEW c \in Callers, LoginSucceeds(c)
      PROVE  SessionInv'
  BY <1>3 DEF LoginSucceeds, Move, Places
<1>4. ASSUME NEW c \in Callers, LoginFails(c)
      PROVE  SessionInv'
  BY <1>4 DEF LoginFails, Move, Places
<1>5. ASSUME NEW c \in Callers, Leave(c)
      PROVE  SessionInv'
  BY <1>5 DEF Leave, Move, Places
<1>6. CASE TokenAges
  BY <1>6 DEF TokenAges
<1>7. CASE token' = "fresh" /\ lock' = None /\ at' = [c \in Callers |-> "idle"]
  BY <1>7 DEF Places
<1>8. CASE UNCHANGED session
  BY <1>8 DEF session
<1> QED
  BY <1>1, <1>2, <1>3, <1>4, <1>5, <1>6, <1>7, <1>8 DEF SessionStep

-----------------------------------------------------------------------------
(* The feed: there is a receive loop exactly while connect() has come up,  *)
(* and heartbeats outlive their loops only over connections that broke.    *)
MarkedUp == feed \in {"up", "ended"}

Flags ==
  /\ connected \in BOOLEAN /\ serving \in BOOLEAN
  /\ connected <=> MarkedUp

Spare == IF feed = "ended" \/ (feed = "up" /\ socket # "broken") THEN 1 ELSE 0

Counters ==
  /\ feed \in Phases
  /\ socket \in {"none", "open", "broken", "closed"}
  /\ last_tick \in {"none", "recent", "old"}
  /\ attempt \in 0..Attempts
  /\ loops \in Nat /\ beats \in Nat /\ breaks \in Nat
  /\ feed \in {"down", "up"} => attempt = 0
  /\ loops = IF feed = "up" THEN 1 ELSE 0
  /\ feed = "ended" => socket = "closed"
  /\ feed = "up" /\ socket = "open" => beats >= 1
  /\ beats <= breaks + Spare

FeedInv == Counters /\ Flags

FeedReset ==
  /\ feed' = "down" /\ attempt' = 0 /\ socket' = "none"
  /\ loops' = 0 /\ beats' = 0 /\ breaks' = 0
  /\ connected' = FALSE /\ serving' = FALSE
  /\ last_tick' = "none"

FeedStep ==
  \/ StartFeed \/ Retry \/ GiveUp \/ Dial \/ DialSucceeds \/ SubscribeSucceeds \/ TryFails
  \/ LoopEnds \/ LoopBreaks \/ ServerEnds \/ ConnectionBreaks \/ BeatFails \/ Quote \/ PriceAges
  \/ FeedReset
  \/ UNCHANGED <<connection, last_tick>>

(* The initial feed satisfies its invariant. *)
LEMMA FeedInitInv == FeedInit => FeedInv
<1>1. FeedInit => Counters
  BY FeedAssumption DEF FeedInit, Counters, Phases, Spare
<1>2. FeedInit => Flags
  BY DEF FeedInit, Flags, MarkedUp
<1> QED
  BY <1>1, <1>2 DEF FeedInv

(* Every step of the feed keeps its invariant. *)
LEMMA FeedKept == FeedInv /\ FeedStep => FeedInv'
<1> SUFFICES ASSUME FeedInv, FeedStep PROVE FeedInv'
  OBVIOUS
<1> USE FeedAssumption DEF FeedInv, Counters, Flags, MarkedUp, Spare, Phases
<1>1. CASE StartFeed \/ Retry
  BY <1>1 DEF StartFeed, Retry, Try
<1>2. CASE GiveUp
  BY <1>2 DEF GiveUp
<1>3. CASE Dial \/ DialSucceeds
  BY <1>3 DEF Dial, DialSucceeds
<1>4. CASE SubscribeSucceeds
  <2>1. Counters'
    BY <1>4 DEF SubscribeSucceeds
  <2>2. Flags'
    BY <1>4 DEF SubscribeSucceeds
  <2> QED
    BY <2>1, <2>2
<1>5. CASE TryFails
  BY <1>5 DEF TryFails
<1>6. CASE LoopEnds
  BY <1>6 DEF LoopEnds
<1>7. CASE LoopBreaks
  <2>1. Counters'
    BY <1>7 DEF LoopBreaks, Try
  <2>2. Flags'
    BY <1>7 DEF LoopBreaks, Try
  <2> QED
    BY <2>1, <2>2
<1>8. CASE ServerEnds
  BY <1>8 DEF ServerEnds
<1>9. CASE ConnectionBreaks
  <2>1. Counters'
    BY <1>9 DEF ConnectionBreaks
  <2>2. Flags'
    BY <1>9 DEF ConnectionBreaks
  <2> QED
    BY <2>1, <2>2
<1>10. CASE BeatFails
  BY <1>10 DEF BeatFails
<1>11. CASE Quote \/ PriceAges
  BY <1>11 DEF Quote, PriceAges, connection
<1>12. CASE FeedReset
  <2>1. Counters'
    BY <1>12 DEF FeedReset
  <2>2. Flags'
    BY <1>12 DEF FeedReset
  <2> QED
    BY <2>1, <2>2
<1>13. CASE UNCHANGED <<connection, last_tick>>
  BY <1>13 DEF connection
<1> QED
  BY <1>1, <1>2, <1>3, <1>4, <1>5, <1>6, <1>7, <1>8, <1>9, <1>10, <1>11, <1>12, <1>13
  DEF FeedStep
(* The invariant says what the runs check of the feed. *)
LEMMA FeedInvMeans == FeedInv => FeedTypeOK /\ OneReceiver /\ ConnectedUnlessEnded
<1> SUFFICES ASSUME Counters, Flags PROVE FeedTypeOK /\ OneReceiver /\ ConnectedUnlessEnded
  BY DEF FeedInv
<1>1. FeedTypeOK
  BY DEF Counters, Flags, FeedTypeOK
<1>2. loops <= 1 /\ (loops = 1 <=> feed = "up") /\ (loops = 0 <=> feed # "up")
  BY DEF Counters
<1>3. beats <= 1 + breaks /\ (feed = "up" /\ socket = "open" => beats >= 1)
  BY DEF Counters, Spare
<1>4. OneReceiver
  BY <1>2, <1>3 DEF OneReceiver
<1>5. ConnectedUnlessEnded
  BY <1>2 DEF Counters, Flags, MarkedUp, ConnectedUnlessEnded
<1> QED
  BY <1>1, <1>4, <1>5

-----------------------------------------------------------------------------
(* The recorder.  Candles are of the answer under way; a draft is what     *)
(* merging made of the file, pruned at a time that has come; no final      *)
(* candle is of the minute of the answer under way, or later; no two rows  *)
(* have one key; and what was merged or reported is in the file.           *)
Drafted(n) == draft = {r \in Merged(csv, prices) : Retention = 0 \/ r.time >= n - Retention}

PollInv ==
  /\ poll \in {"sleeping", "fetching"} => prices = {}
  /\ poll # "sleeping" => answer <= minute
  /\ prices \subseteq Candles(answer)
  /\ poll = "reporting" => InFile(Over(prices))
  /\ StatusFollowsData

FileInv ==
  /\ \A r \in csv : r.time <= Horizon
  /\ \A r \in csv : r.form = "snapshot" /\ r.final =>
       r.time < minute /\ (poll # "sleeping" => r.time < answer)
  /\ \A r, s \in csv : Key(r) = Key(s) => r = s
  /\ poll = "replacing" => \E n \in Int : n <= minute /\ Drafted(n)
  /\ poll # "replacing" => draft = {}
  /\ FinalCandlesKept

GoldInv == GoldTypeOK /\ PollInv /\ FileInv

GoldStep ==
  \/ Fetch \/ FetchFails \/ WriteRows \/ Replace \/ WriteFails \/ ReportHealthy \/ ReportFails
  \/ ReportFailure \/ RecorderRestarts \/ MinutePasses
  \/ \E m \in answer..minute : \E candles \in SUBSET Candles(m) : FetchReturns(m, candles)
  \/ UNCHANGED gold

(* The initial file and recorder satisfy their invariant. *)
LEMMA GoldInitInv == GoldInit => GoldInv
<1> SUFFICES ASSUME GoldInit PROVE GoldInv
  OBVIOUS
<1> USE RecorderAssumption DEF GoldInit
<1>1. \A r \in csv : \E k \in OldRows : r = Row("timestamp", k, TRUE)
  OBVIOUS
<1>2. csv \subseteq Rows /\ \A r \in csv : r.time <= Horizon /\ r.form = "timestamp"
  <2> SUFFICES ASSUME NEW k \in OldRows
               PROVE  /\ Row("timestamp", k, TRUE) \in Rows
                      /\ Row("timestamp", k, TRUE).time <= Horizon
                      /\ Row("timestamp", k, TRUE).form = "timestamp"
    OBVIOUS
  <2>1. k \in Nat /\ k <= Horizon
    OBVIOUS
  <2> QED
    BY <2>1 DEF Row, Rows, Forms
<1>3. ASSUME NEW r \in csv, NEW s \in csv, Key(r) = Key(s)
      PROVE  r = s
  <2>1. PICK j \in OldRows : r = Row("timestamp", j, TRUE)
    BY <1>1
  <2>2. PICK k \in OldRows : s = Row("timestamp", k, TRUE)
    BY <1>1
  <2>3. j = k
    BY <1>3, <2>1, <2>2 DEF Key, Row
  <2> QED
    BY <2>1, <2>2, <2>3
<1>4. GoldTypeOK
  <2>1. status \in [state : {"starting", "healthy", "unhealthy"}, about : SUBSET (0..Horizon)]
    BY DEF Status
  <2>2. csv \subseteq Rows /\ draft \subseteq Rows /\ prices \subseteq Rows
    BY <1>2
  <2>3. minute \in 0..Horizon /\ answer \in 0..Horizon /\ brought \subseteq 0..Horizon
    OBVIOUS
  <2>4. poll \in Polling
    BY DEF Polling
  <2> HIDE DEF GoldInit
  <2> QED
    BY <2>1, <2>2, <2>3, <2>4 DEF GoldTypeOK
<1>5. PollInv
  BY DEF PollInv, Status, StatusFollowsData
<1>6. FileInv
  <2>1. poll # "replacing" /\ draft = {} /\ brought = {}
    OBVIOUS
  <2>2. \A r \in csv : r.form # "snapshot" /\ r.time <= Horizon
    BY <1>2
  <2> QED
    BY <1>3, <2>1, <2>2 DEF FileInv, FinalCandlesKept, InFile
<1> QED
  BY <1>4, <1>5, <1>6 DEF GoldInv

(* Candles are rows of the new format, one for each minute. *)
LEMMA CandleRows ==
  ASSUME NEW m \in 0..Horizon, NEW b \in Candles(m)
  PROVE  /\ b \in Rows
         /\ b.form = "snapshot"
         /\ b.time \in 0..m
         /\ b = Row("snapshot", b.time, b.time < m)
         /\ b.final = (b.time < m)
         /\ b.final => b.time < m
<1>1. PICK k \in 0..m : b = Row("snapshot", k, k < m)
  BY DEF Candles
<1>2. k \in Nat /\ (k < m) \in BOOLEAN
  BY RecorderAssumption
<1>3. b \in Rows /\ b.form = "snapshot"
  BY <1>1, <1>2 DEF Row, Rows, Forms
<1>4. b.time = k /\ b.final = (k < m)
  BY <1>1 DEF Row
<1>5. b.final => k < m
  BY <1>4
<1> QED
  BY <1>1, <1>3, <1>4, <1>5

(* The minutes an answer is final about. *)
LEMMA OverMinutes ==
  ASSUME NEW m \in 0..Horizon, NEW candles \in SUBSET Candles(m), NEW k \in Over(candles)
  PROVE  k \in 0..Horizon /\ k < m /\ Row("snapshot", k, TRUE) \in candles
<1>1. PICK b \in candles : b.final /\ b.time = k
  BY DEF Over
<1>2. /\ b.form = "snapshot" /\ b.time \in 0..m /\ b \in Rows
      /\ b = Row("snapshot", b.time, b.time < m) /\ b.time < m
  BY <1>1, CandleRows
<1>3. k < m /\ k \in 0..Horizon
  BY <1>1, <1>2, RecorderAssumption
<1>4. b = Row("snapshot", k, TRUE)
  BY <1>1, <1>2, <1>3
<1> QED
  BY <1>1, <1>3, <1>4

(* The rows of a merge: the answer, and what of the file it does not name. *)
LEMMA MergedRows ==
  ASSUME NEW rows, NEW batch
  PROVE  /\ batch \subseteq Merged(rows, batch)
         /\ \A r \in Merged(rows, batch) : r \in batch \/ r \in rows
         /\ \A r \in rows : (\A b \in batch : Key(b) # Key(r)) => r \in Merged(rows, batch)
  BY DEF Merged

(* The row a merge puts in the place of a row of the file: the candle of   *)
(* the answer for its key, or the row itself.                              *)
LEMMA ReplacementRow ==
  ASSUME NEW rows \in SUBSET Rows, NEW m \in 0..Horizon, NEW candles \in SUBSET Candles(m),
         NEW r \in rows
  PROVE  \E s \in Merged(rows, candles) :
           /\ Key(s) = Key(r)
           /\ s = r \/ (s = Row("snapshot", r.time, r.time < m) /\ r.time <= m)
<1>1. CASE \A b \in candles : Key(b) # Key(r)
  BY <1>1, MergedRows
<1>2. CASE \E b \in candles : Key(b) = Key(r)
  <2>1. PICK b \in candles : Key(b) = Key(r)
    BY <1>2
  <2>2. b.time \in 0..m /\ b = Row("snapshot", b.time, b.time < m)
    BY <2>1, CandleRows
  <2>3. b.time = r.time
    BY <2>1 DEF Key
  <2>4. b \in Merged(rows, candles) /\ r.time <= m
    BY <2>1, <2>2, <2>3, MergedRows, RecorderAssumption
  <2> QED
    BY <2>1, <2>2, <2>3, <2>4
<1> QED
  BY <1>1, <1>2

(* A merge keeps one row for each key. *)
LEMMA MergedKeys ==
  ASSUME NEW rows \in SUBSET Rows, NEW m \in 0..Horizon, NEW candles \in SUBSET Candles(m),
         \A r, s \in rows : Key(r) = Key(s) => r = s
  PROVE  \A r, s \in Merged(rows, candles) : Key(r) = Key(s) => r = s
<1>1. ASSUME NEW r \in candles, NEW s \in candles, Key(r) = Key(s)
      PROVE  r = s
  <2>1. r = Row("snapshot", r.time, r.time < m) /\ s = Row("snapshot", s.time, s.time < m)
    BY CandleRows
  <2>2. r.time = s.time
    BY <1>1 DEF Key
  <2> QED
    BY <2>1, <2>2
<1>2. \A r \in Merged(rows, candles) :
        r \in candles \/ (r \in rows /\ \A b \in candles : Key(b) # Key(r))
  BY DEF Merged
<1> QED
  BY <1>1, <1>2

(* What is in the file stays in it while the file does. *)
LEMMA InFileStays ==
  ASSUME NEW K \in SUBSET (0..Horizon), InFile(K), csv' = csv,
         minute \in Int, minute' \in Int, minute <= minute'
  PROVE  InFile(K)'
<1>1. \A k \in 0..Horizon : Expired(k) => Expired(k)'
  <2>1. Retention \in Int /\ Horizon \in Int
    BY RecorderAssumption
  <2>2. \A k, a, b \in Int : a <= b /\ k < a - Retention => k < b - Retention
    BY <2>1
  <2>3. \A k \in 0..Horizon : k < minute - Retention => k < minute' - Retention
    <3>1. minute \in Int /\ minute' \in Int
      OBVIOUS
    <3>2. minute <= minute'
      OBVIOUS
    <3>3. \A k \in 0..Horizon : k \in Int
      BY <2>1
    <3> QED
      BY <2>2, <3>1, <3>2, <3>3
  <2> QED
    BY <2>3 DEF Expired
<1> QED
  BY <1>1 DEF InFile

(* A step that leaves the file and its draft alone keeps what is said of   *)
(* them, and so does one that throws the draft away.                       *)
LEMMA FileUntouched ==
  ASSUME GoldTypeOK, GoldTypeOK', FileInv, UNCHANGED file, minute <= minute',
         (poll' # "replacing" /\ draft' = {}) \/ UNCHANGED recorder,
         poll' # "sleeping" => \/ answer' >= minute
                               \/ poll # "sleeping" /\ answer' >= answer
  PROVE  FileInv'
<1>1. /\ minute \in Nat /\ minute' \in Nat /\ answer \in Nat /\ answer' \in Nat
      /\ csv \subseteq Rows /\ brought \in SUBSET (0..Horizon)
  BY RecorderAssumption DEF GoldTypeOK
<1>2. csv' = csv /\ brought' = brought
  BY DEF file
<1>3. ASSUME NEW r \in csv, r.form = "snapshot", r.final
      PROVE  r.time < minute' /\ (poll' # "sleeping" => r.time < answer')
  <2>1. r.time \in Nat
    BY <1>1 DEF Rows
  <2> QED
    BY <1>1, <1>3, <2>1 DEF FileInv
<1>4. FinalCandlesKept'
  BY <1>1, <1>2, InFileStays DEF FileInv, FinalCandlesKept
<1>5. /\ poll' = "replacing" => \E n \in Int : n <= minute' /\ Drafted(n)'
      /\ poll' # "replacing" => draft' = {}
  <2>1. CASE poll' # "replacing" /\ draft' = {}
    BY <2>1
  <2>2. CASE UNCHANGED recorder
    BY <1>1, <1>2, <2>2 DEF recorder, Drafted, FileInv
  <2> QED
    BY <2>1, <2>2
<1> QED
  BY <1>2, <1>3, <1>4, <1>5 DEF FileInv

(* A step that leaves file and status alone keeps what the status says. *)
LEMMA StatusUntouched ==
  ASSUME GoldTypeOK, GoldTypeOK', StatusFollowsData, csv' = csv, status' = status,
         minute <= minute'
  PROVE  StatusFollowsData'
<1>1. minute \in Int /\ minute' \in Int /\ status.about \in SUBSET (0..Horizon)
  BY RecorderAssumption DEF GoldTypeOK
<1> QED
  BY <1>1, InFileStays DEF StatusFollowsData

(* The step that writes the draft. *)
LEMMA WriteRowsKept == GoldInv /\ WriteRows => GoldInv'
<1> SUFFICES ASSUME GoldInv, WriteRows PROVE GoldInv'
  OBVIOUS
<1>1. /\ minute \in 0..Horizon /\ answer \in 0..Horizon /\ csv \subseteq Rows
      /\ prices \in SUBSET Candles(answer)
  BY RecorderAssumption DEF GoldInv, GoldTypeOK, PollInv
<1>2. Merged(csv, prices) \subseteq Rows
  BY <1>1, CandleRows, MergedRows
<1>3. draft' = {r \in Merged(csv, prices) : Retention = 0 \/ r.time >= minute - Retention}
  <2>1. \A r \in Merged(csv, prices) : r.time \in Nat
    BY <1>2 DEF Rows
  <2>2. \A r \in Merged(csv, prices) :
          ~Expired(r.time) <=> (Retention = 0 \/ r.time >= minute - Retention)
    BY <1>1, <2>1, RecorderAssumption DEF Expired
  <2> QED
    BY <2>2 DEF WriteRows, Retained
<1>4. UNCHANGED <<minute, csv, brought, status, answer, prices>> /\ poll' = "replacing"
  BY DEF WriteRows, file
<1>5. GoldTypeOK'
  BY <1>2, <1>3, <1>4 DEF GoldInv, GoldTypeOK, Polling
<1>6. PollInv'
  <2>1. StatusFollowsData'
    BY <1>1, <1>4, <1>5, StatusUntouched, RecorderAssumption DEF GoldInv, PollInv
  <2> QED
    BY <1>4, <2>1 DEF WriteRows, GoldInv, PollInv, Candles
<1>7. FileInv'
  <2>1. \E n \in Int : n <= minute' /\ Drafted(n)'
    BY <1>1, <1>3, <1>4, RecorderAssumption DEF Drafted, Merged, Key
  <2>2. FinalCandlesKept'
    BY <1>4 DEF GoldInv, FileInv, FinalCandlesKept, InFile, Expired
  <2> QED
    BY <1>4, <2>1, <2>2 DEF WriteRows, GoldInv, FileInv
<1> QED
  BY <1>5, <1>6, <1>7 DEF GoldInv

(* What of the draft a replacement keeps. *)
LEMMA ReplacedRows ==
  ASSUME GoldInv, Replace
  PROVE  /\ csv' \subseteq Merged(csv, prices)
         /\ \A r \in Merged(csv, prices) : r.time \in Int /\ ~Expired(r.time) => r \in csv'
<1>1. PICK n \in Int : n <= minute /\ csv' = {r \in Merged(csv, prices) :
                                               Retention = 0 \/ r.time >= n - Retention}
  BY DEF Replace, GoldInv, FileInv, Drafted
<1>2. minute \in Int /\ Retention \in Nat
  BY RecorderAssumption DEF GoldInv, GoldTypeOK
<1> QED
  BY <1>1, <1>2 DEF Expired

(* The row of the same key that a merge leaves. *)
LEMMA RowReplaced ==
  ASSUME GoldInv, Replace, NEW r \in csv, ~Expired(r.time)
  PROVE  \E s \in csv' : Key(s) = Key(r) /\ (s = r \/ (~r.final /\ s.final))
<1>1. /\ answer \in 0..Horizon /\ csv \in SUBSET Rows /\ prices \in SUBSET Candles(answer)
      /\ poll = "replacing"
  BY DEF GoldInv, GoldTypeOK, PollInv, Replace
<1>2. PICK s \in Merged(csv, prices) :
        /\ Key(s) = Key(r)
        /\ s = r \/ (s = Row("snapshot", r.time, r.time < answer) /\ r.time <= answer)
  BY <1>1, ReplacementRow
<1>3. s.time = r.time /\ s.form = r.form /\ r \in Rows /\ r.time \in Nat
  BY <1>1, <1>2 DEF Key, Rows
<1>4. s \in csv'
  BY <1>2, <1>3, ReplacedRows
<1>5. s = r \/ (~r.final /\ s.final)
  <2>1. CASE s # r
    <3>1. s = Row("snapshot", r.time, r.time < answer) /\ r.time <= answer
      BY <1>2, <2>1
    <3>2. s.form = "snapshot" /\ s.final = (r.time < answer) /\ r.final \in BOOLEAN
      BY <1>3, <3>1 DEF Row, Rows
    <3>3. r = Row("snapshot", r.time, r.final)
      BY <1>3, <3>2 DEF Row, Rows
    <3>4. r.final => r.time < answer
      BY <1>1, <1>3, <3>2 DEF GoldInv, FileInv
    <3>5. ~r.final
      <4>1. SUFFICES ASSUME r.final PROVE FALSE
        OBVIOUS
      <4>2. r.final = (r.time < answer)
        BY <3>2, <3>4, <4>1
      <4> QED
        BY <2>1, <3>1, <3>3, <4>2
    <3>6. s.final
      <4>1. SUFFICES ASSUME ~(r.time < answer) PROVE FALSE
        BY <3>2
      <4>2. r.final = (r.time < answer)
        BY <3>2, <3>5, <4>1
      <4> QED
        BY <2>1, <3>1, <3>3, <4>2
    <3> QED
      BY <3>5, <3>6
  <2> QED
    BY <2>1
<1> QED
  BY <1>2, <1>4, <1>5

(* What is in the file stays in it when it is replaced: an answer says of a *)
(* minute that is over what was said before.                                *)
LEMMA InFileReplaced ==
  ASSUME GoldInv, Replace, NEW K \in SUBSET (0..Horizon), InFile(K)
  PROVE  InFile(K)'
<1> SUFFICES ASSUME NEW k \in K, ~Expired(k)
             PROVE  Row("snapshot", k, TRUE) \in csv'
  BY DEF InFile, Replace, Expired
<1> DEFINE r == Row("snapshot", k, TRUE)
<1>1. r \in csv
  BY DEF InFile
<1>2. r.time = k /\ r.final
  BY DEF Row
<1> HIDE DEF r
<1>3. PICK s \in csv' : s = r \/ (~r.final /\ s.final)
  BY <1>1, <1>2, RowReplaced
<1>4. r \in csv'
  BY <1>2, <1>3
<1> QED
  BY <1>4 DEF r

(* The step that replaces the file. *)
LEMMA ReplaceKept == GoldInv /\ Replace => GoldInv'
<1> SUFFICES ASSUME GoldInv, Replace PROVE GoldInv'
  OBVIOUS
<1>1. /\ minute \in 0..Horizon /\ answer \in 0..Horizon /\ answer <= minute
      /\ csv \in SUBSET Rows /\ prices \in SUBSET Candles(answer)
      /\ brought \in SUBSET (0..Horizon) /\ Horizon \in Nat
      /\ status.about \in SUBSET (0..Horizon)
  BY RecorderAssumption DEF GoldInv, GoldTypeOK, PollInv, Replace
<1>2. /\ UNCHANGED <<minute, status, answer, prices>> /\ poll = "replacing" /\ poll' = "reporting"
      /\ draft' = {} /\ brought' = {k \in brought \cup Over(prices) : ~Expired(k)}
  BY DEF Replace
<1>3. \A r \in csv' : r \in prices \/ r \in csv
  BY ReplacedRows, MergedRows
<1>4. ASSUME NEW r \in csv'
      PROVE  /\ r \in Rows /\ r.time <= Horizon
             /\ r.form = "snapshot" /\ r.final => r.time < answer
  <2>1. CASE r \in prices
    <3>1. r \in Rows /\ r.time \in 0..answer /\ (r.final => r.time < answer)
      BY <1>1, <2>1, CandleRows
    <3> QED
      BY <1>1, <3>1
  <2>2. CASE r \in csv
    BY <1>1, <1>2, <2>2 DEF GoldInv, FileInv
  <2> QED
    BY <1>3, <2>1, <2>2
<1>5. InFile(Over(prices))'
  <2> SUFFICES ASSUME NEW k \in Over(prices), ~Expired(k)
               PROVE  Row("snapshot", k, TRUE) \in csv'
    BY <1>2 DEF InFile, Expired, Over
  <2>1. k \in 0..Horizon /\ Row("snapshot", k, TRUE) \in prices
    BY <1>1, OverMinutes
  <2>2. Row("snapshot", k, TRUE).time = k
    BY DEF Row
  <2>3. prices \subseteq Merged(csv, prices) /\ k \in Int
    BY <2>1, MergedRows, RecorderAssumption
  <2> QED
    BY <2>1, <2>2, <2>3, ReplacedRows
<1>6. brought' \subseteq 0..Horizon
  BY <1>1, <1>2, OverMinutes
<1>7. GoldTypeOK'
  BY <1>1, <1>2, <1>4, <1>6 DEF GoldInv, GoldTypeOK, Polling
<1>8. PollInv'
  <2>1. StatusFollowsData'
    <3> SUFFICES ASSUME status.state = "healthy" PROVE InFile(status.about)'
      BY <1>2 DEF StatusFollowsData
    <3>1. InFile(status.about)
      BY DEF GoldInv, PollInv, StatusFollowsData
    <3> DEFINE K == status.about
    <3>2. InFile(K) /\ K \in SUBSET (0..Horizon)
      BY <1>1, <3>1
    <3> HIDE DEF K
    <3>3. \A k \in K : Expired(k)' \/ Row("snapshot", k, TRUE) \in csv'
      <4>1. ASSUME NEW L \in SUBSET (0..Horizon), InFile(L)
            PROVE  \A k \in L : Expired(k)' \/ Row("snapshot", k, TRUE) \in csv'
        BY <4>1, InFileReplaced DEF InFile
      <4> QED
        BY <3>2, <4>1
    <3> QED
      BY <1>2, <3>3 DEF K, InFile
  <2> QED
    BY <1>1, <1>2, <1>5, <2>1 DEF PollInv, Candles
<1>9. FinalCandlesKept'
  <2>1. \A k \in brought : Expired(k)' \/ Row("snapshot", k, TRUE) \in csv'
    <3>1. ASSUME NEW L \in SUBSET (0..Horizon), InFile(L)
          PROVE  \A k \in L : Expired(k)' \/ Row("snapshot", k, TRUE) \in csv'
      BY <3>1, InFileReplaced DEF InFile
    <3> QED
      BY <1>1, <3>1 DEF GoldInv, FileInv, FinalCandlesKept
  <2>2. \A k \in Over(prices) : Expired(k)' \/ Row("snapshot", k, TRUE) \in csv'
    BY <1>2, <1>5 DEF InFile, Over
  <2> QED
    BY <1>2, <2>1, <2>2 DEF FinalCandlesKept, InFile
<1>10. \A r, s \in csv' : Key(r) = Key(s) => r = s
  BY <1>1, MergedKeys, ReplacedRows DEF GoldInv, FileInv
<1>11. FileInv'
  <2>1. \A r \in csv' : r.form = "snapshot" /\ r.final => r.time < minute /\ r.time < answer
    <3> SUFFICES ASSUME NEW r \in csv', r.form = "snapshot", r.final
                 PROVE  r.time < minute /\ r.time < answer
      OBVIOUS
    <3>1. r.time \in Nat /\ r.time < answer
      BY <1>4 DEF Rows
    <3> QED
      BY <1>1, <3>1
  <2> QED
    BY <1>2, <1>4, <1>9, <1>10, <2>1 DEF FileInv
<1> QED
  BY <1>7, <1>8, <1>11 DEF GoldInv

(* Every step of the recorder keeps its invariant. *)
LEMMA GoldKept == GoldInv /\ GoldStep => GoldInv'
<1> SUFFICES ASSUME GoldInv, GoldStep PROVE GoldInv'
  OBVIOUS
<1>0. /\ GoldTypeOK /\ PollInv /\ FileInv
      /\ minute \in Nat /\ answer \in Nat /\ Horizon \in Nat
  BY RecorderAssumption DEF GoldInv, GoldTypeOK
<1>1. CASE Fetch
  <2>1. /\ UNCHANGED <<minute, file, status, prices, draft>> /\ csv' = csv
        /\ poll = "sleeping" /\ poll' = "fetching" /\ answer' = minute
    BY <1>1 DEF Fetch, file
  <2>2. GoldTypeOK'
    BY <1>0, <2>1 DEF GoldTypeOK, Polling, file
  <2>3. FileInv'
    BY <1>0, <2>1, <2>2, FileUntouched DEF FileInv
  <2>4. StatusFollowsData'
    BY <1>0, <2>1, <2>2, StatusUntouched DEF PollInv
  <2>5. PollInv'
    BY <1>0, <2>1, <2>4 DEF PollInv
  <2> QED
    BY <2>2, <2>3, <2>5 DEF GoldInv
<1>2. ASSUME NEW m \in answer..minute, NEW candles \in SUBSET Candles(m), FetchReturns(m, candles)
      PROVE  GoldInv'
  <2>1. m \in 0..Horizon /\ m <= minute /\ answer <= m
    BY <1>0 DEF GoldTypeOK
  <2>2. /\ UNCHANGED <<minute, file, status, draft>> /\ csv' = csv
        /\ poll = "fetching" /\ poll' = "merging" /\ answer' = m /\ prices' = candles
    BY <1>2 DEF FetchReturns, file
  <2>3. candles \subseteq Rows
    BY <2>1, CandleRows
  <2>4. GoldTypeOK'
    BY <1>0, <2>1, <2>2, <2>3 DEF GoldTypeOK, Polling, file
  <2>5. FileInv'
    BY <1>0, <2>1, <2>2, <2>4, FileUntouched DEF FileInv
  <2>6. StatusFollowsData'
    BY <1>0, <2>2, <2>4, StatusUntouched DEF PollInv
  <2>7. PollInv'
    BY <2>1, <2>2, <2>6 DEF PollInv, Candles
  <2> QED
    BY <2>4, <2>5, <2>7 DEF GoldInv
<1>3. CASE FetchFails \/ WriteFails \/ ReportFails
  <2>1. /\ UNCHANGED <<minute, file, status, answer, prices>> /\ csv' = csv /\ poll # "sleeping"
        /\ poll' = "failing" /\ (draft' = {} \/ (draft' = draft /\ poll # "replacing"))
    BY <1>3 DEF FetchFails, WriteFails, ReportFails, file
  <2>2. draft' = {}
    BY <1>0, <2>1 DEF FileInv
  <2>3. GoldTypeOK'
    BY <1>0, <2>1, <2>2 DEF GoldTypeOK, Polling, file
  <2>4. FileInv'
    BY <1>0, <2>1, <2>2, <2>3, FileUntouched
  <2>5. StatusFollowsData'
    BY <1>0, <2>1, <2>3, StatusUntouched DEF PollInv
  <2>6. PollInv'
    BY <1>0, <2>1, <2>5 DEF PollInv, Candles
  <2> QED
    BY <2>3, <2>4, <2>6 DEF GoldInv
<1>4. CASE WriteRows \/ Replace
  BY <1>4, WriteRowsKept, ReplaceKept
<1>5. CASE ReportHealthy \/ ReportFailure \/ RecorderRestarts
  <2>1. /\ UNCHANGED <<minute, file>> /\ csv' = csv /\ poll' = "sleeping"
        /\ answer' = 0 /\ prices' = {} /\ draft' = {}
    BY <1>0, <1>5 DEF ReportHealthy, ReportFailure, RecorderRestarts, FileInv, file
  <2>2. /\ status' \in [state : {"starting", "healthy", "unhealthy"}, about : SUBSET (0..Horizon)]
        /\ StatusFollowsData'
    <3>1. CASE ReportHealthy
      <4>1. Over(prices) \subseteq 0..Horizon
        BY <1>0, OverMinutes DEF PollInv, GoldTypeOK
      <4>2. InFile(Over(prices))
        BY <1>0, <3>1 DEF ReportHealthy, PollInv
      <4>3. status'.about = Over(prices) /\ status' = Status("healthy", Over(prices))
        BY <3>1 DEF ReportHealthy, Status
      <4>4. \A k \in status'.about : Expired(k)' \/ Row("snapshot", k, TRUE) \in csv'
        BY <2>1, <4>2, <4>3 DEF InFile, Expired
      <4>5. StatusFollowsData'
        BY <4>4 DEF StatusFollowsData, InFile
      <4> QED
        BY <4>1, <4>3, <4>5 DEF Status
    <3>2. CASE ReportFailure
      BY <3>2 DEF ReportFailure, Status, StatusFollowsData
    <3>3. CASE RecorderRestarts
      <4>1. status' = status
        BY <3>3 DEF RecorderRestarts
      <4> QED
        BY <1>0, <2>1, <4>1 DEF PollInv, GoldTypeOK, StatusFollowsData, InFile, Expired
    <3> QED
      BY <1>5, <3>1, <3>2, <3>3
  <2>3. GoldTypeOK'
    BY <1>0, <2>1, <2>2 DEF GoldTypeOK, Polling, file
  <2>4. FileInv'
    BY <1>0, <2>1, <2>3, FileUntouched
  <2>5. PollInv'
    BY <2>1, <2>2 DEF PollInv
  <2> QED
    BY <2>3, <2>4, <2>5 DEF GoldInv
<1>6. CASE MinutePasses
  <2>1. /\ UNCHANGED <<file, status, recorder>> /\ csv' = csv
        /\ minute' \in 0..Horizon /\ minute <= minute'
        /\ UNCHANGED <<poll, answer, prices, draft>>
    BY <1>0, <1>6 DEF MinutePasses, file, recorder
  <2>2. GoldTypeOK'
    BY <1>0, <2>1 DEF GoldTypeOK, file
  <2>3. FileInv'
    BY <1>0, <2>1, <2>2, FileUntouched
  <2>4. StatusFollowsData'
    BY <1>0, <2>1, <2>2, StatusUntouched DEF PollInv
  <2>5. poll' = "reporting" => InFile(Over(prices))'
    <3>1. Over(prices) \in SUBSET (0..Horizon)
      BY <1>0, OverMinutes DEF PollInv, GoldTypeOK
    <3>2. Over(prices)' = Over(prices)
      BY <2>1 DEF Over
    <3>3. \A k \in Over(prices) : Expired(k) => Expired(k)'
      BY <1>0, <2>1, <3>1, RecorderAssumption DEF Expired
    <3> QED
      BY <1>0, <2>1, <3>2, <3>3 DEF PollInv, InFile
  <2>6. PollInv'
    <3>1. minute' \in Nat /\ (poll' # "sleeping" => answer' <= minute')
      BY <1>0, <2>1 DEF PollInv
    <3> QED
      BY <1>0, <2>1, <2>4, <2>5, <3>1 DEF PollInv, Candles
  <2> QED
    BY <2>2, <2>3, <2>6 DEF GoldInv
<1>7. CASE UNCHANGED gold
  <2>1. UNCHANGED <<minute, csv, brought, status, poll, answer, prices, draft>>
    BY <1>7 DEF gold, file, recorder
  <2>2. GoldTypeOK'
    BY <1>0, <2>1 DEF GoldTypeOK
  <2>3. FileInv'
    BY <1>0, <1>7, <2>1, <2>2, FileUntouched DEF gold, FileInv
  <2>4. StatusFollowsData'
    BY <1>0, <2>1, <2>2, StatusUntouched DEF PollInv
  <2>5. Candles(answer)' = Candles(answer) /\ Over(prices)' = Over(prices)
    BY <2>1 DEF Candles, Over
  <2>6. InFile(Over(prices))' <=> InFile(Over(prices))
    BY <2>1, <2>5 DEF InFile, Expired
  <2>7. PollInv'
    BY <1>0, <2>1, <2>4, <2>5, <2>6 DEF PollInv
  <2> QED
    BY <2>2, <2>3, <2>7 DEF GoldInv
<1> QED
  BY <1>1, <1>2, <1>3, <1>4, <1>5, <1>6, <1>7 DEF GoldStep

(* The invariant says what the runs check of file and status. *)
LEMMA GoldInvMeans == GoldInv => FinalCandlesKept /\ StatusFollowsData
  BY DEF GoldInv, FileInv, PollInv

-----------------------------------------------------------------------------
(* The composition: a step of it is a step of each component. *)
CallerOK == caller \in Calls \cup {None}

MishapOK == mishaps \in 0..MaxMishaps

Inv == SessionInv /\ FeedInv /\ GoldInv /\ CallerOK /\ MishapOK

(* The initial state satisfies the invariants of all three. *)
LEMMA InitInv == Init => Inv
  BY SessionInitInv, FeedInitInv, GoldInitInv, SessionAssumption
  DEF Init, Inv, SessionInit, CallerOK, MishapOK

(* A poll, and what ends one. *)
LEMMA PollSteps ==
  ASSUME NEW c \in Calls, PollStarts(c) \/ PollReturns(c) \/ PollFails(c)
  PROVE  SessionStep /\ FeedStep /\ GoldStep /\ (CallerOK => CallerOK')
         /\ (Mishap \/ UNCHANGED mishaps)
<1>1. c \in Callers
  BY DEF Callers
<1>2. SessionStep
  BY <1>1 DEF PollStarts, PollReturns, PollFails, SessionStep
<1>3. FeedStep
  BY DEF PollStarts, PollReturns, PollFails, FeedStep, connection
<1>4. GoldStep
  BY DEF PollStarts, PollReturns, PollFails, GoldStep
<1>5. CallerOK => CallerOK'
  BY DEF PollStarts, PollReturns, PollFails, CallerOK
<1>6. Mishap \/ UNCHANGED mishaps
  BY DEF PollStarts, PollReturns, PollFails
<1> QED
  BY <1>2, <1>3, <1>4, <1>5, <1>6

(* The steps of the feed, of the recorder, of time and of the failures. *)
LEMMA OtherSteps ==
  ASSUME \/ PollTimesOut \/ TraderRestarts \/ RecorderStep \/ RecorderFails \/ RecorderEnds
         \/ \E c \in Callers : CallerSteps(c)
         \/ FeedConnects \/ FeedMoves \/ TimePasses \/ UNCHANGED vars
  PROVE  SessionStep /\ FeedStep /\ GoldStep /\ (CallerOK => CallerOK')
         /\ (Mishap \/ UNCHANGED mishaps)
<1>1. CASE PollTimesOut \/ RecorderFails \/ RecorderEnds \/ RecorderStep
  BY <1>1 DEF PollTimesOut, RecorderFails, RecorderEnds, RecorderStep,
              SessionStep, FeedStep, GoldStep, CallerOK
<1>2. CASE TraderRestarts
  BY <1>2 DEF TraderRestarts, SessionStep, FeedStep, FeedReset, GoldStep, CallerOK
<1>3. CASE \E c \in Callers : CallerSteps(c)
  BY <1>3 DEF CallerSteps, SessionStep, FeedStep, GoldStep, CallerOK
<1>4. CASE FeedConnects
  <2>1. FeedStep /\ GoldStep /\ UNCHANGED caller
    BY <1>4 DEF FeedConnects, FeedStep, GoldStep
  <2>2. Feed \in Callers
    BY DEF Callers
  <2>3. SessionStep /\ UNCHANGED mishaps
    BY <1>4, <2>2 DEF FeedConnects, SessionStep, StartFeed, Retry, Try, GiveUp, Dial, DialSucceeds,
           SubscribeSucceeds, TryFails, LoopEnds, LoopBreaks
  <2> QED
    BY <2>1, <2>3 DEF CallerOK
<1>5. CASE FeedMoves
  <2>1. FeedStep /\ GoldStep /\ UNCHANGED caller
    BY <1>5 DEF FeedMoves, FeedStep, GoldStep
  <2>2. UNCHANGED session /\ (Mishap \/ UNCHANGED mishaps)
    BY <1>5 DEF FeedMoves, ServerEnds, ConnectionBreaks, BeatFails, Quote, PriceAges
  <2> QED
    BY <2>1, <2>2 DEF SessionStep, CallerOK
<1>6. CASE TimePasses
  BY <1>6 DEF TimePasses, SessionStep, FeedStep, GoldStep, CallerOK
<1>7. CASE UNCHANGED vars
  BY <1>7 DEF vars, SessionStep, FeedStep, GoldStep, CallerOK, session, gold
<1> QED
  BY <1>1, <1>2, <1>3, <1>4, <1>5, <1>6, <1>7

(* Every step of the composition keeps them. *)
LEMMA NextInv == Inv /\ [Next]_vars => Inv'
<1> SUFFICES ASSUME Inv, [Next]_vars PROVE Inv'
  OBVIOUS
<1>1. SessionStep /\ FeedStep /\ GoldStep /\ (CallerOK => CallerOK')
      /\ (Mishap \/ UNCHANGED mishaps)
  BY PollSteps, OtherSteps DEF Next
<1>2. SessionInv' /\ FeedInv' /\ GoldInv' /\ CallerOK'
  BY <1>1, SessionKept, FeedKept, GoldKept DEF Inv
<1>3. MishapOK'
  BY <1>1, SessionAssumption DEF Inv, MishapOK, Mishap
<1> QED
  BY <1>2, <1>3 DEF Inv

(* Session, feed and recorder keep their invariants in every behaviour. *)
LEMMA SpecInv == Spec => []Inv
  BY InitInv, NextInv, PTL DEF Spec

-----------------------------------------------------------------------------
(* The state keeps its types, whatever is called, fails or is started again. *)
THEOREM TypesKept == Spec => []TypeOK
<1>1. Inv => TypeOK
  BY FeedInvMeans DEF Inv, SessionInv, GoldInv, CallerOK, MishapOK, TypeOK, SessionTypeOK
<1> QED
  BY <1>1, SpecInv, PTL

(* However many calls find the token due at once, one logs in, the others  *)
(* wait and see its token (SessionManager.ensure_valid).                   *)
THEOREM OneLogin == Spec => []LoginsNeeded
<1>1. Inv => LoginsNeeded
  BY DEF Inv, SessionInv
<1> QED
  BY <1>1, SpecInv, PTL

(* Whatever number of connections is lost, one loop receives, an open      *)
(* stream has a heartbeat, and heartbeats do not pile up beyond the losses *)
(* (BrokerWebSocket._connect, _receive_loop, _heartbeat).                  *)
THEOREM OneReceiverAlways == Spec => []OneReceiver
<1>1. Inv => OneReceiver
  BY FeedInvMeans DEF Inv
<1> QED
  BY <1>1, SpecInv, PTL

(* websocket_connected is wrong only after the server has ended the stream *)
(* in order (mark_websocket_connected, mark_websocket_disconnected).       *)
THEOREM StatusWrongOnlyAfterEnd == Spec => []ConnectedUnlessEnded
<1>1. Inv => ConnectedUnlessEnded
  BY FeedInvMeans DEF Inv
<1> QED
  BY <1>1, SpecInv, PTL

(* For any window and retention, and whatever the answers hold or lack, a  *)
(* minute whose last candle was merged is in the file until it expires     *)
(* (normalize_candle, merge_candles).                                      *)
THEOREM GapsExplained == Spec => []FinalCandlesKept
<1>1. Inv => FinalCandlesKept
  BY GoldInvMeans DEF Inv
<1> QED
  BY <1>1, SpecInv, PTL

(* A healthy status is never ahead of the file (record_forever).            *)
THEOREM StatusAfterData == Spec => []StatusFollowsData
<1>1. Inv => StatusFollowsData
  BY GoldInvMeans DEF Inv
<1> QED
  BY <1>1, SpecInv, PTL

-----------------------------------------------------------------------------
(* Rows whose keys are among those of others, each key once, are no more.   *)
LEMMA KeysAmongSmaller ==
  ASSUME NEW A, NEW B, IsFiniteSet(B),
         \A r, s \in A : Key(r) = Key(s) => r = s,
         \A r \in A : \E s \in B : Key(s) = Key(r)
  PROVE  Cardinality(A) <= Cardinality(B)
<1> DEFINE f == [r \in A |-> CHOOSE s \in B : Key(s) = Key(r)]
<1>1. \A r \in A : f[r] \in B /\ Key(f[r]) = Key(r)
  OBVIOUS
<1>2. f \in [A -> B]
  BY <1>1
<1> HIDE DEF f
<1>3. \A r, s \in A : f[r] = f[s] => r = s
  BY <1>1
<1>4. f \in Injection(A, B)
  BY <1>2, <1>3, Fun_IsInj
<1> QED
  BY <1>4, FS_Injection

(* The file has finitely many rows. *)
LEMMA FiniteRows == GoldInv => IsFiniteSet(csv)
<1> SUFFICES ASSUME GoldInv PROVE IsFiniteSet(csv)
  OBVIOUS
<1>1. IsFiniteSet(Forms \X (0..Horizon))
  <2>1. IsFiniteSet({"snapshot"}) /\ IsFiniteSet({"timestamp"})
    BY FS_Singleton
  <2>2. IsFiniteSet(Forms)
    <3>1. Forms = {"snapshot"} \cup {"timestamp"}
      BY DEF Forms
    <3> QED
      BY <2>1, <3>1, FS_Union
  <2>3. IsFiniteSet(0..Horizon)
    BY FS_Interval, RecorderAssumption
  <2> QED
    BY <2>2, <2>3, FS_Product
<1> DEFINE f == [r \in csv |-> Key(r)]
<1>2. f \in Injection(csv, Forms \X (0..Horizon))
  <2>1. \A r \in csv : Key(r) \in Forms \X (0..Horizon)
    <3> SUFFICES ASSUME NEW r \in csv PROVE r.form \in Forms /\ r.time \in 0..Horizon
      BY DEF Key
    <3>1. r \in Rows /\ r.time <= Horizon
      BY DEF GoldInv, GoldTypeOK, FileInv
    <3> QED
      BY <3>1, RecorderAssumption DEF Rows
  <2>2. \A r, s \in csv : f[r] = f[s] => r = s
    BY DEF GoldInv, FileInv
  <2>3. f \in [csv -> Forms \X (0..Horizon)]
    BY <2>1
  <2> HIDE DEF f
  <2> QED
    BY <2>2, <2>3, Fun_IsInj
<1> QED
  BY <1>1, <1>2, FS_Injection

(* The rows before r among those a request asks for from start. *)
Ahead(rows, start, r) == {q \in Filtered(rows, start, Horizon) : Before(q, r)}

(* Rows of one key are before the same rows. *)
LEMMA BeforeByKey ==
  ASSUME NEW q, NEW r, NEW s, NEW t, Key(q) = Key(s), Key(r) = Key(t)
  PROVE  Before(q, r) <=> Before(s, t)
<1>1. q.form = s.form /\ q.time = s.time /\ r.form = t.form /\ r.time = t.time
  BY DEF Key
<1> QED
  BY <1>1 DEF Before

(* No fewer rows are ahead of a row after a merge than before it: each one *)
(* has a row of its key there.                                             *)
LEMMA AheadKept ==
  ASSUME GoldInv, Replace, NEW r, NEW s, Key(s) = Key(r), NEW start \in Nat, ~Expired(start)
  PROVE  /\ IsFiniteSet(Ahead(csv, start, r)) /\ IsFiniteSet(Ahead(csv', start, s))
         /\ Cardinality(Ahead(csv, start, r)) <= Cardinality(Ahead(csv', start, s))
<1> DEFINE A == Ahead(csv, start, r)
           B == Ahead(csv', start, s)
<1>0. GoldInv' /\ minute \in Int
  BY ReplaceKept, RecorderAssumption DEF GoldInv, GoldTypeOK
<1>1. csv \subseteq Rows /\ csv' \subseteq Rows /\ \A q \in csv' : q.time <= Horizon
  BY <1>0 DEF GoldInv, GoldTypeOK, FileInv
<1>2. /\ \A q \in A : q \in csv /\ start <= q.time /\ q.time <= Horizon /\ Before(q, r)
      /\ \A q \in csv' : start <= q.time /\ Before(q, s) => q \in B
  BY <1>1 DEF Ahead, Filtered
<1>3. IsFiniteSet(A) /\ IsFiniteSet(B)
  <2>1. A \in SUBSET csv /\ B \in SUBSET csv'
    BY DEF Ahead, Filtered
  <2>2. IsFiniteSet(csv) /\ IsFiniteSet(csv')
    <3>1. GoldInv => IsFiniteSet(csv)
      BY FiniteRows
    <3>2. (GoldInv => IsFiniteSet(csv))'
      BY FiniteRows, PTL
    <3> QED
      BY <1>0, <3>1, <3>2
  <2> QED
    BY <2>1, <2>2, FS_Subset
<1> HIDE DEF A, B
<1>4. \A p, q \in A : Key(p) = Key(q) => p = q
  BY <1>2 DEF GoldInv, FileInv
<1>5. ASSUME NEW q \in A
      PROVE  \E p \in B : Key(p) = Key(q)
  <2>1. q \in csv /\ start <= q.time /\ Before(q, r) /\ q.time \in Nat
    BY <1>1, <1>2, <1>5 DEF Rows
  <2>2. ~Expired(q.time)
    BY <1>0, <2>1, RecorderAssumption DEF Expired
  <2>3. PICK p \in csv' : Key(p) = Key(q)
    BY <2>1, <2>2, RowReplaced
  <2>4. p.time = q.time /\ Before(p, s)
    <3>1. p.time = q.time
      BY <2>3 DEF Key
    <3> QED
      BY <2>1, <2>3, <3>1, BeforeByKey
  <2> QED
    BY <1>2, <2>1, <2>3, <2>4
<1>6. Cardinality(A) <= Cardinality(B)
  BY <1>3, <1>4, <1>5, KeysAmongSmaller
<1> QED
  BY <1>3, <1>6 DEF A, B

(* A row among the first n of a request. *)
LEMMA InPage ==
  ASSUME NEW rows, NEW start, NEW n \in Int, NEW r, IsFiniteSet(Ahead(rows, start, r))
  PROVE  r \in Page(Filtered(rows, start, Horizon), 0, n)
           <=> /\ r \in Filtered(rows, start, Horizon)
               /\ Cardinality(Ahead(rows, start, r)) < n
<1>1. Cardinality(Ahead(rows, start, r)) \in Nat
  BY FS_CardinalityType
<1>2. r \in Page(Filtered(rows, start, Horizon), 0, n)
           <=> /\ r \in Filtered(rows, start, Horizon)
               /\ 0 <= Cardinality(Ahead(rows, start, r))
               /\ Cardinality(Ahead(rows, start, r)) < 0 + n
  BY DEF Page, Ahead
<1> QED
  BY <1>1, <1>2

(* Replacing the file does what RowsStay says of it. *)
LEMMA ReplaceStays ==
  ASSUME GoldInv, Replace, NEW r \in csv, ~Expired(r.time)'
  PROVE  \E s \in csv' :
           /\ Key(s) = Key(r)
           /\ s = r \/ (~r.final /\ s.final)
           /\ \A start \in 0..r.time, n \in 0..Cardinality(csv) :
                ~Expired(start)' /\ s \in Page(Filtered(csv', start, Horizon), 0, n)
                  => r \in Page(Filtered(csv, start, Horizon), 0, n)
<1>1. \A k : Expired(k)' <=> Expired(k)
  BY DEF Replace, Expired
<1>2. PICK s \in csv' : Key(s) = Key(r) /\ (s = r \/ (~r.final /\ s.final))
  BY <1>1, RowReplaced
<1>3. r \in Rows /\ r.time \in Nat /\ r.time <= Horizon /\ Cardinality(csv) \in Nat
  BY FiniteRows, FS_CardinalityType DEF GoldInv, GoldTypeOK, FileInv, Rows
<1>4. ASSUME NEW start \in 0..r.time, NEW n \in 0..Cardinality(csv), ~Expired(start)',
             s \in Page(Filtered(csv', start, Horizon), 0, n)
      PROVE  r \in Page(Filtered(csv, start, Horizon), 0, n)
  <2>1. start \in Nat /\ ~Expired(start) /\ n \in Int /\ start <= r.time
    BY <1>1, <1>3, <1>4
  <2>2. /\ IsFiniteSet(Ahead(csv, start, r)) /\ IsFiniteSet(Ahead(csv', start, s))
        /\ Cardinality(Ahead(csv, start, r)) <= Cardinality(Ahead(csv', start, s))
    BY <1>2, <2>1, AheadKept
  <2>3. Cardinality(Ahead(csv', start, s)) < n
    BY <1>4, <2>1, <2>2, InPage
  <2>4. Cardinality(Ahead(csv, start, r)) < n
    BY <2>1, <2>2, <2>3, FS_CardinalityType
  <2>5. r \in Filtered(csv, start, Horizon)
    BY <1>3, <2>1 DEF Filtered
  <2> QED
    BY <2>1, <2>2, <2>4, <2>5, InPage
<1> QED
  BY <1>2, <1>4

(* Only the replacement touches the file. *)
LEMMA OnlyReplaced == GoldStep => Replace \/ csv' = csv
  BY DEF GoldStep, Fetch, FetchReturns, FetchFails, WriteRows, WriteFails, ReportHealthy,
         ReportFails, ReportFailure, RecorderRestarts, MinutePasses, gold, file

(* For any window, retention, answers and file of the old format, a         *)
(* reader's rows stay until they expire: they keep their values unless they *)
(* were of a running minute, and never move to an earlier place in the      *)
(* pages of a request (merge_candles, filter_candle_rows, os.replace).      *)
THEOREM ReadersRowsStay == Spec => RowsStay
<1>1. Inv /\ [Next]_vars =>
        [\A r \in csv : ~Expired(r.time)' =>
           \E s \in csv' :
             /\ Key(s) = Key(r)
             /\ s = r \/ (~r.final /\ s.final)
             /\ \A start \in 0..r.time, n \in 0..Cardinality(csv) :
                  ~Expired(start)' /\ s \in Page(Filtered(csv', start, Horizon), 0, n)
                    => r \in Page(Filtered(csv, start, Horizon), 0, n)]_csv
  <2> SUFFICES ASSUME Inv, [Next]_vars, csv' # csv, NEW r \in csv, ~Expired(r.time)'
               PROVE  \E s \in csv' :
             /\ Key(s) = Key(r)
             /\ s = r \/ (~r.final /\ s.final)
             /\ \A start \in 0..r.time, n \in 0..Cardinality(csv) :
                  ~Expired(start)' /\ s \in Page(Filtered(csv', start, Horizon), 0, n)
                    => r \in Page(Filtered(csv, start, Horizon), 0, n)
    OBVIOUS
  <2>1. GoldStep
    BY PollSteps, OtherSteps DEF Next
  <2>2. Replace
    BY <2>1, OnlyReplaced
  <2> QED
    BY <2>2, ReplaceStays DEF Inv
<1> QED
  BY <1>1, SpecInv, PTL DEF RowsStay, Spec
=============================================================================
