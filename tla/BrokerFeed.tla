------------------------------ MODULE BrokerFeed ------------------------------
(***************************************************************************)
(* The price stream of Capital Trader: BrokerWebSocket with its receive    *)
(* loop and its heartbeats, and what RuntimeStatus and HealthService say   *)
(* of the stream.  PricePipeline has the queue between the receive loop    *)
(* and the streamer; here a quote that is received is published at once.   *)
(*                                                                         *)
(* connect() is called by the startup and by a receive loop that lost its  *)
(* connection, so at most one coroutine is inside it: Feed.                *)
(***************************************************************************)
EXTENDS BrokerSession

CONSTANTS
  Attempts      \* length of BACKOFF

ASSUME FeedAssumption == Attempts \in Nat \ {0}

VARIABLES
  feed,       \* where connect() is, or what has come of it
  attempt,    \* tries this call of connect() has begun
  socket,     \* the connection self.ws refers to
  loops,      \* receive loops that run over the socket
  beats,      \* heartbeat tasks
  breaks,     \* history: connections that broke
  connected,  \* runtime_status.websocket_connected
  serving,    \* the startup is over and the streamer runs
  last_tick   \* age of the last price tick: "none", "recent", "old"

connection == <<feed, attempt, socket, loops, beats, breaks, connected, serving>>

Phases == {"down", "login", "dialling", "subscribing", "backoff", "up", "ended", "stopped"}

FeedInit ==
  /\ feed = "down" /\ attempt = 0 /\ socket = "none"
  /\ loops = 0 /\ beats = 0 /\ breaks = 0
  /\ connected = FALSE /\ serving = FALSE
  /\ last_tick = "none"

(* One try of connect(): ensure_valid first. *)
Try ==
  /\ Ask(Feed)
  /\ feed' = "login"
  /\ attempt' = attempt + 1
  /\ UNCHANGED <<token, lock>>

StartFeed ==
  /\ feed = "down"
  /\ Try
  /\ UNCHANGED <<socket, loops, beats, breaks, connected, serving, last_tick, mishaps>>

(* Mutant: one attempt more than there are delays.                          *)
RetryOnceMore ==
  /\ feed = "backoff" /\ attempt <= Attempts
  /\ Try
  /\ UNCHANGED <<socket, loops, beats, breaks, connected, serving, last_tick, mishaps>>

Retry ==
  /\ feed = "backoff" /\ attempt < Attempts
  /\ Try
  /\ UNCHANGED <<socket, loops, beats, breaks, connected, serving, last_tick, mishaps>>

(* The last delay is over: connect() raises, and its task ends. *)
GiveUp ==
  /\ feed = "backoff" /\ attempt = Attempts
  /\ feed' = "stopped"
  /\ UNCHANGED <<attempt, socket, loops, beats, breaks, connected, serving, last_tick,
                 session, mishaps>>

Dial ==
  /\ feed = "login" /\ at[Feed] = "inside"
  /\ Leave(Feed)
  /\ feed' = "dialling"
  /\ UNCHANGED <<attempt, socket, loops, beats, breaks, connected, serving, last_tick, mishaps>>

DialSucceeds ==
  /\ feed = "dialling"
  /\ socket' = "open"
  /\ feed' = "subscribing"
  /\ UNCHANGED <<attempt, loops, beats, breaks, connected, serving, last_tick, session, mishaps>>

(* The subscriptions are sent.  The new connection gets a heartbeat and a  *)
(* receive loop, and the call returns; at startup the streamer begins.     *)
SubscribeSucceeds ==
  /\ feed = "subscribing" /\ socket = "open"
  /\ feed' = "up"
  /\ attempt' = 0
  /\ connected' = TRUE
  /\ beats' = beats + 1
  /\ loops' = loops + 1
  /\ serving' = TRUE
  /\ UNCHANGED <<socket, breaks, last_tick, session, mishaps>>

(* One try failed: login refused, no connection, or lost while subscribing. *)
(* Attempts bounds these failures.                                          *)
TryFails ==
  /\ \/ /\ feed = "login" /\ LoginFails(Feed)
        /\ UNCHANGED socket
     \/ /\ feed = "dialling"
        /\ UNCHANGED <<socket, session>>
     \/ /\ feed = "subscribing"
        /\ socket' = "broken"
        /\ UNCHANGED session
  /\ feed' = "backoff"
  /\ UNCHANGED <<attempt, loops, beats, breaks, connected, serving, last_tick, mishaps>>

-----------------------------------------------------------------------------
(* The server ends the connection in order, or the connection breaks. *)
ServerEnds ==
  /\ feed = "up" /\ socket = "open"
  /\ socket' = "closed"
  /\ UNCHANGED <<feed, attempt, loops, beats, breaks, connected, serving, last_tick,
                 session, mishaps>>

ConnectionBreaks ==
  /\ feed = "up" /\ socket = "open"
  /\ Mishap
  /\ breaks' = breaks + 1
  /\ socket' = "broken"
  /\ UNCHANGED <<feed, attempt, loops, beats, connected, serving, last_tick, session>>

(* The loop over a connection that was ended in order is over: nothing is  *)
(* marked and nobody connects again.                                       *)
LoopEnds ==
  /\ feed = "up" /\ socket = "closed"
  /\ feed' = "ended"
  /\ loops' = loops - 1
  /\ UNCHANGED <<attempt, socket, beats, breaks, connected, serving, last_tick, session, mishaps>>

(* Mutant: the old loop goes on reading self.ws after it has reconnected. *)
LoopBreaksAndStays ==
  /\ feed = "up" /\ socket = "broken"
  /\ Try
  /\ connected' = FALSE
  /\ UNCHANGED <<loops, socket, beats, breaks, serving, last_tick, mishaps>>

(* Mutant: the status is not marked. *)
LoopBreaksUnmarked ==
  /\ feed = "up" /\ socket = "broken"
  /\ Try
  /\ loops' = loops - 1
  /\ UNCHANGED <<connected, socket, beats, breaks, serving, last_tick, mishaps>>

(* The loop over a broken connection ends with an exception; the status is *)
(* marked, and the same task connects again.                               *)
LoopBreaks ==
  /\ feed = "up" /\ socket = "broken"
  /\ Try
  /\ connected' = FALSE
  /\ loops' = loops - 1
  /\ UNCHANGED <<socket, beats, breaks, serving, last_tick, mishaps>>

(* A heartbeat wakes up, cannot send, and ends.  One that wakes up after   *)
(* the reconnect finds the new connection and goes on with it.             *)
BeatFails ==
  /\ beats > 0 /\ socket \in {"broken", "closed"}
  /\ beats' = beats - 1
  /\ UNCHANGED <<feed, attempt, socket, loops, breaks, connected, serving, last_tick,
                 session, mishaps>>

-----------------------------------------------------------------------------
(* A quote is received and published by the streamer. *)
Quote ==
  /\ loops > 0 /\ socket = "open" /\ serving
  /\ last_tick' = "recent"
  /\ UNCHANGED <<connection, session, mishaps>>

PriceAges ==
  /\ last_tick = "recent"
  /\ last_tick' = "old"
  /\ UNCHANGED <<connection, session, mishaps>>

(* Mutant: only a stream that never had a price is degraded. *)
PriceStatusOnce == IF last_tick = "none" THEN "degraded" ELSE "healthy"

(* HealthService: the websocket's part, the prices' part, and the report   *)
(* when every other part is healthy.                                       *)
WebsocketStatus == IF connected THEN "healthy" ELSE "degraded"
PriceStatus     == IF last_tick = "recent" THEN "healthy" ELSE "degraded"

DeepHealth ==
  IF "degraded" \in {WebsocketStatus, PriceStatus}
  THEN "degraded" ELSE "healthy"

-----------------------------------------------------------------------------
FeedTypeOK ==
  /\ feed \in Phases
  /\ attempt \in 0..Attempts
  /\ socket \in {"none", "open", "broken", "closed"}
  /\ loops \in Nat /\ beats \in Nat /\ breaks \in Nat
  /\ connected \in BOOLEAN /\ serving \in BOOLEAN
  /\ last_tick \in {"none", "recent", "old"}

(* No two receive loops fill the queue, an open stream that is read has a  *)
(* heartbeat, and heartbeats add up by one for each broken connection.     *)
OneReceiver ==
  /\ loops <= 1
  /\ loops = 1 /\ socket = "open" => beats >= 1
  /\ beats <= 1 + breaks

(* The status says connected without anybody reading the stream only after *)
(* the server ended it in order; it never says disconnected of a stream    *)
(* that is read.                                                           *)
ConnectedUnlessEnded ==
  /\ connected /\ loops = 0 => feed = "ended" /\ socket = "closed"
  /\ loops = 1 => connected

(* Liveness: when nobody reads the stream any more, the health report says *)
(* so after a while, even where the websocket's own part does not.         *)
DeadFeedNoticed == loops = 0 ~> (loops > 0 \/ DeepHealth # "healthy")
=============================================================================
