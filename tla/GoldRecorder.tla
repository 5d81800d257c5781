----------------------------- MODULE GoldRecorder -----------------------------
(***************************************************************************)
(* The gold candle recorder: a process that polls the broker's last minute *)
(* candles through Capital Trader and merges them into one CSV file, which *)
(* Capital Trader's routes read at any time (gold_candle_store.py).  It is *)
(* the only writer.  Its container starts it again whenever it ends.       *)
(*                                                                         *)
(* A minute's candle changes until the minute is over.  A row is named by  *)
(* its snapshot time, or by its timestamp when it comes from a file in the *)
(* old format, which had no snapshot times.                                *)
(***************************************************************************)
EXTENDS Integers, FiniteSets

CONSTANTS
  Window,      \* GOLD_MAX_POINTS: candles of an answer
  Retention,   \* GOLD_RETENTION_DAYS in minutes, 0 to keep everything
  OldRows,     \* minutes in a file of the old format, before the first poll
  Horizon      \* last minute of the clock (bound)

ASSUME RecorderAssumption ==
  /\ Window \in Nat \ {0}
  /\ Retention \in Nat
  /\ Horizon \in Nat
  /\ OldRows \subseteq 0..Horizon

VARIABLES
  minute,   \* the clock
  csv,      \* the rows of the file
  status,   \* the status file
  poll,     \* where the recorder is
  answer,   \* the minute it asked at, then the one the broker answered at,
            \* whose candle is not over; 0 while sleeping
  prices,   \* the candles of the answer that normalize_candle accepts
  draft,    \* the rows of the temporary file
  brought   \* history: minutes whose last candle was merged into the file,
            \* those past the retention forgotten

recorder == <<poll, answer, prices, draft>>
file     == <<csv, brought>>
gold     == <<minute, file, status, recorder>>

Forms == {"snapshot", "timestamp"}
Row(form, k, final) == [form |-> form, time |-> k, final |-> final]
Rows == [form : Forms, time : Nat, final : BOOLEAN]

Key(row) == <<row.form, row.time>>

(* "about" is history: the minutes whose last candle the reported answer   *)
(* brought.                                                                *)
Status(state, minutes) == [state |-> state, about |-> minutes]

Polling == {"sleeping", "fetching", "merging", "replacing", "reporting", "failing"}

(* The file of the old format is from before the first poll. *)
GoldInit ==
  /\ minute \in 0..Horizon /\ \A k \in OldRows : k <= minute
  /\ csv = {Row("timestamp", k, TRUE) : k \in OldRows}
  /\ status = Status("starting", {})
  /\ poll = "sleeping" /\ answer = 0 /\ prices = {} /\ draft = {}
  /\ brought = {}

(* What an answer of minute m may hold, a candle for each minute; only the *)
(* running minute's is not final.                                          *)
Candles(m) == {Row("snapshot", k, k < m) : k \in 0..m}

(* The minutes whose last candle is among these. *)
Over(candles) == {b.time : b \in {c \in candles : c.final}}

(* Mutant: a row that is there is not replaced. *)
MergedMissing(rows, batch) ==
  rows \cup {b \in batch : \A r \in rows : Key(b) # Key(r)}

(* Mutant: a candle replaces every row of its minute. *)
MergedByTime(rows, batch) ==
  batch \cup {r \in rows : \A b \in batch : b.time # r.time}

(* merge_candles: candles replace the rows of their keys, then rows older  *)
(* than the retention are pruned.                                          *)
Merged(rows, batch) ==
  batch \cup {r \in rows : \A b \in batch : Key(b) # Key(r)}

Expired(k) == Retention > 0 /\ k < minute - Retention

Retained(rows) == {r \in rows : ~Expired(r.time)}

(* What the routes make of the file.  Its rows are sorted by time, a row of *)
(* the old format before the one that came later; a request asks for a      *)
(* range of times and for a page of the rows within it.                     *)
Before(r, s) ==
  \/ r.time < s.time
  \/ r.time = s.time /\ r.form = "timestamp" /\ s.form = "snapshot"

Filtered(rows, start, end) == {r \in rows : start <= r.time /\ r.time <= end}

Page(rows, offset, limit) ==
  {r \in rows : LET place == Cardinality({s \in rows : Before(s, r)})
                IN offset <= place /\ place < offset + limit}

-----------------------------------------------------------------------------
Fetch ==
  /\ poll = "sleeping"
  /\ poll' = "fetching"
  /\ answer' = minute
  /\ UNCHANGED <<minute, file, status, prices, draft>>

(* A 200 answer.  Any candle may be lacking: the broker has none for a     *)
(* minute without trading, normalize_candle drops one that is incomplete,  *)
(* and an answer without a list of prices counts as an empty one.          *)
FetchReturns(m, candles) ==
  /\ poll = "fetching"
  /\ m \in answer..minute
  /\ candles \subseteq Candles(m) /\ Cardinality(candles) <= Window
  /\ poll' = "merging"
  /\ answer' = m
  /\ prices' = candles
  /\ UNCHANGED <<minute, file, status, draft>>

(* Mutant: a request without an answer is waited for. *)
FetchHangs ==
  /\ poll = "fetching"
  /\ UNCHANGED <<minute, file, status, recorder>>

(* No connection, an error status, a timeout, or a body that is no object.  *)
FetchFails ==
  /\ poll = "fetching"
  /\ poll' = "failing"
  /\ UNCHANGED <<minute, file, status, answer, prices, draft>>

(* The file is loaded, merged, and written under a temporary name. *)
WriteRows ==
  /\ poll = "merging"
  /\ draft' = Retained(Merged(csv, prices))
  /\ poll' = "replacing"
  /\ UNCHANGED <<minute, file, status, answer, prices>>

(* os.replace: readers see the old file or the new one. *)
Replace ==
  /\ poll = "replacing"
  /\ csv' = draft
  /\ draft' = {}
  /\ brought' = {k \in brought \cup Over(prices) : ~Expired(k)}
  /\ poll' = "reporting"
  /\ UNCHANGED <<minute, status, answer, prices>>

(* Mutant: a file that cannot be written is reported as if it were. *)
WriteFailsUnseen ==
  /\ poll \in {"merging", "replacing"}
  /\ draft' = {}
  /\ poll' = "reporting"
  /\ UNCHANGED <<minute, file, status, answer, prices>>

(* Merging, writing or replacing raises: the temporary file is removed. *)
WriteFails ==
  /\ poll \in {"merging", "replacing"}
  /\ draft' = {}
  /\ poll' = "failing"
  /\ UNCHANGED <<minute, file, status, answer, prices>>

ReportHealthy ==
  /\ poll = "reporting"
  /\ status' = Status("healthy", Over(prices))
  /\ poll' = "sleeping"
  /\ answer' = 0 /\ prices' = {}
  /\ UNCHANGED <<minute, file, draft>>

(* The status cannot be written: the failure is what is reported next. *)
ReportFails ==
  /\ poll = "reporting"
  /\ poll' = "failing"
  /\ UNCHANGED <<minute, file, status, answer, prices, draft>>

ReportFailure ==
  /\ poll = "failing"
  /\ status' = Status("unhealthy", {})
  /\ poll' = "sleeping"
  /\ answer' = 0 /\ prices' = {}
  /\ UNCHANGED <<minute, file, draft>>

(* The process dies anywhere, or because even the failure cannot be        *)
(* reported, and is started again.  Files stay as they are.                *)
RecorderRestarts ==
  /\ poll # "sleeping"
  /\ poll' = "sleeping"
  /\ draft' = {}
  /\ answer' = 0 /\ prices' = {}
  /\ UNCHANGED <<minute, file, status>>

MinutePasses ==
  /\ minute < Horizon
  /\ minute' = minute + 1
  /\ UNCHANGED <<file, status, recorder>>

-----------------------------------------------------------------------------
GoldTypeOK ==
  /\ minute \in 0..Horizon
  /\ csv \subseteq Rows /\ draft \subseteq Rows /\ prices \subseteq Rows
  /\ status \in [state : {"starting", "healthy", "unhealthy"}, about : SUBSET (0..Horizon)]
  /\ poll \in Polling
  /\ answer \in 0..Horizon
  /\ brought \subseteq 0..Horizon

(* The file has the last values of these minutes, but for the expired ones. *)
InFile(minutes) ==
  \A k \in minutes : Expired(k) \/ Row("snapshot", k, TRUE) \in csv

(* Once the last candle of a minute was merged, it is in the file, whatever *)
(* later answers hold or lack and however merging and pruning go on: a gap  *)
(* is of a minute no merged answer brought, or of one past the retention.   *)
FinalCandlesKept == InFile(brought)

(* A healthy status is written after the data it is about: who reads it and *)
(* then the file finds what that answer said of minutes that were over,     *)
(* wherever the recorder was stopped and whatever was merged since.         *)
StatusFollowsData == status.state = "healthy" => InFile(status.about)

(* What a reader of the file has seen stays: a row goes away only when it   *)
(* expires and changes only from a running minute to its final values.      *)
(* A candle that was lacking may come in ahead of it, but a row never moves *)
(* to an earlier place among the rows of a request: who has read the first  *)
(* n of them may get a row again on the next page, and skips none that was  *)
(* there, if the request's start has not expired.                           *)
RowsStay ==
  [][\A r \in csv : ~Expired(r.time)' =>
       \E s \in csv' :
         /\ Key(s) = Key(r)
         /\ s = r \/ (~r.final /\ s.final)
         /\ \A start \in 0..r.time, n \in 0..Cardinality(csv) :
              ~Expired(start)' /\ s \in Page(Filtered(csv', start, Horizon), 0, n)
                => r \in Page(Filtered(csv, start, Horizon), 0, n)]_csv
=============================================================================
