------------------------------ MODULE MarketData ------------------------------
(***************************************************************************)
(* The two ways by which market data comes from Capital.com: the price     *)
(* stream and the polls of the gold candle recorder.  Both need the one    *)
(* session of Capital Trader, and log in under its lock.                   *)
(*                                                                         *)
(* A poll is a REST call of a route of Capital Trader.  The recorder may   *)
(* give up waiting for it; the route goes on, and its answer is dropped.   *)
(***************************************************************************)
EXTENDS BrokerFeed, GoldRecorder

VARIABLES
  caller   \* the REST call the recorder waits for, or None

vars == <<session, mishaps, connection, last_tick, gold, caller>>

Init == SessionInit /\ FeedInit /\ GoldInit /\ caller = None

-----------------------------------------------------------------------------
(* The recorder polls: a route opens a BrokerClient. *)
PollStarts(c) ==
  /\ Fetch
  /\ Ask(c)
  /\ caller' = c
  /\ UNCHANGED <<token, lock, mishaps, connection, last_tick>>

(* The candles arrive, or the recorder no longer waits for them. *)
PollReturns(c) ==
  /\ Leave(c)
  /\ IF caller = c
     THEN /\ \E m \in answer..minute : \E candles \in SUBSET Candles(m) : FetchReturns(m, candles)
          /\ caller' = None
     ELSE UNCHANGED <<gold, caller>>
  /\ UNCHANGED <<mishaps, connection, last_tick>>

(* The login or the REST call fails, and the route answers with status 500. *)
PollFails(c) ==
  /\ LoginFails(c) \/ Leave(c)
  /\ Mishap
  /\ IF caller = c
     THEN FetchFails /\ caller' = None
     ELSE UNCHANGED <<gold, caller>>
  /\ UNCHANGED <<connection, last_tick>>

(* The recorder gives up waiting. *)
PollTimesOut ==
  /\ FetchFails
  /\ Mishap
  /\ caller' = None
  /\ UNCHANGED <<session, connection, last_tick>>

RecorderStep ==
  /\ WriteRows \/ Replace \/ ReportHealthy \/ ReportFailure
  /\ UNCHANGED <<session, mishaps, connection, last_tick, caller>>

RecorderFails ==
  /\ WriteFails \/ ReportFails
  /\ Mishap
  /\ UNCHANGED <<session, connection, last_tick, caller>>

RecorderEnds ==
  /\ RecorderRestarts
  /\ Mishap
  /\ caller' = None
  /\ UNCHANGED <<session, connection, last_tick>>

(* Capital Trader ends and is started again, up to its first login. *)
TraderRestarts ==
  /\ Mishap
  /\ token' = "fresh"
  /\ lock' = None
  /\ at' = [c \in Callers |-> "idle"]
  /\ feed' = "down" /\ attempt' = 0 /\ socket' = "none"
  /\ loops' = 0 /\ beats' = 0 /\ breaks' = 0
  /\ connected' = FALSE /\ serving' = FALSE
  /\ last_tick' = "none"
  /\ IF caller = None THEN UNCHANGED gold ELSE FetchFails
  /\ caller' = None

(* What the session's lock and its holder do. *)
CallerSteps(c) ==
  /\ Enter(c) \/ LoginSucceeds(c)
  /\ UNCHANGED <<mishaps, connection, last_tick, gold, caller>>

FeedConnects ==
  /\ StartFeed \/ Retry \/ GiveUp \/ Dial \/ DialSucceeds \/ SubscribeSucceeds \/ TryFails
       \/ LoopEnds \/ LoopBreaks
  /\ UNCHANGED <<gold, caller>>

FeedMoves ==
  /\ ServerEnds \/ ConnectionBreaks \/ BeatFails \/ Quote \/ PriceAges
  /\ UNCHANGED <<gold, caller>>

TimePasses ==
  \/ /\ TokenAges
     /\ UNCHANGED <<mishaps, connection, last_tick, gold, caller>>
  \/ /\ MinutePasses
     /\ UNCHANGED <<session, mishaps, connection, last_tick, caller>>

Next ==
  \/ \E c \in Calls : PollStarts(c) \/ PollReturns(c) \/ PollFails(c)
  \/ PollTimesOut \/ TraderRestarts \/ RecorderStep \/ RecorderFails \/ RecorderEnds
  \/ \E c \in Callers : CallerSteps(c)
  \/ FeedConnects \/ FeedMoves \/ TimePasses

Spec == Init /\ [][Next]_vars

(* Capital.com answers or refuses, the event loop runs what is ready, the  *)
(* recorder goes on, and time passes: a price grows old once nothing more  *)
(* is received.                                                            *)
Fairness ==
  /\ \A c \in Callers : WF_vars(CallerSteps(c))
  /\ \A c \in Calls : WF_vars(PollReturns(c))
  /\ WF_vars(\E c \in Calls : PollStarts(c))
  /\ WF_vars(RecorderStep)
  /\ WF_vars(FeedConnects)
  /\ WF_vars(loops = 0 /\ PriceAges /\ UNCHANGED <<gold, caller>>)

FairSpec == Spec /\ Fairness

-----------------------------------------------------------------------------
(* Types of the state of session, feed, recorder and their composition.     *)
TypeOK ==
  /\ SessionTypeOK
  /\ FeedTypeOK
  /\ GoldTypeOK
  /\ caller \in Calls \cup {None}

(* Liveness: the candle of a minute that is over comes into the file,      *)
(* whatever failed on the way, if from some time on the answers hold it,   *)
(* unless it has been pruned.                                              *)
EveryMinuteRecorded ==
  \A k \in 0..(Horizon - 1) :
    <>[](poll = "merging" /\ answer > k => Row("snapshot", k, TRUE) \in prices)
      => (minute > k ~> (Expired(k) \/ Row("snapshot", k, TRUE) \in csv))
=============================================================================
