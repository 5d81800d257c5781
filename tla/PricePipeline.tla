---------------------------- MODULE PricePipeline ----------------------------
(***************************************************************************)
(* From a broker message to candles and signals in Capital Trader, for one *)
(* epic: price_queue, MarketStreamer, EventBus, CandleService with one     *)
(* aggregator per timeframe, the candles table, SignalDetector and the     *)
(* bridge that appends signals to a Redis stream.                          *)
(*                                                                         *)
(* EventBus starts a task per subscriber and event.  All tasks share one   *)
(* event loop, which starts them in the order they were created; a task    *)
(* runs until it awaits something that is not ready.  The locks of the bus *)
(* and of the queue are never held across such an await, so only a         *)
(* database call or a Redis call suspends a handler.                       *)
(***************************************************************************)
EXTENDS Integers, Sequences, FiniteSets

CONSTANTS
  Frames,       \* number of timeframes; a handler feeds frame 1 first
  Interval,     \* length of a candle of each timeframe
  Prices,       \* mid prices of quotes; 0 is a quote without bid and ofr
  NotQuote,     \* a message that is not a quote, or one that cannot be read
  Threshold,    \* change that makes a signal, in percent
  QueueLimit,   \* maxlen of price_queue
  MaxMessages,  \* messages the broker sends (bound)
  Horizon,      \* last instant of the clock (bound)
  MaxMishaps    \* restarts, failed writes and failed Redis calls (bound)

Frame == 1..Frames

ASSUME FrameAssumption ==
  /\ Frames \in Nat \ {0}
  /\ Interval \in [Frame -> Nat \ {0}]

ASSUME PipelineAssumption ==
  /\ Prices \subseteq Nat
  /\ NotQuote \notin Prices
  /\ Threshold \in Nat \ {0}
  /\ QueueLimit \in Nat \ {0}
  /\ MaxMessages \in Nat
  /\ Horizon \in Nat
  /\ MaxMishaps \in Nat

VARIABLES
  queue,        \* price_queue: messages and their number of arrival
  arrived,      \* messages put into the queue so far
  dropped,      \* history: numbers of the messages a full queue dropped
  ticks,        \* history: the PriceUpdated events, over all lives of the process
  handler,      \* CandleService._on_price_updated: the task of each event
  candles,      \* history: the candles begun by each timeframe's aggregator
  late,         \* history: events a later one overtook, by timeframe
  detected,     \* events SignalDetector has dealt with
  last_price,   \* SignalDetector._last_price
  last_signal,  \* SignalDetector._last_signal
  signals,      \* history: the SignalDetected events
  bridge,       \* the XADD of each signal
  stream,       \* the Redis stream: signals in the order Redis took them
  overtaken,    \* history: signals that Redis took after a later one
  life,         \* history: starts of the process
  now,          \* the clock
  mishaps       \* how much of the bound is used up

intake   == <<queue, arrived, dropped>>
building == <<ticks, handler, candles, late>>
sensing  == <<detected, last_price, last_signal, signals>>
bridging == <<bridge, stream, overtaken>>
vars == <<intake, building, sensing, bridging, life, now, mishaps>>

NoPrice == -1

Mishap == mishaps < MaxMishaps /\ mishaps' = mishaps + 1

-----------------------------------------------------------------------------
(* The queue.  A full one forgets its oldest message.                      *)
(* Mutant: a full queue forgets its newest message instead.                *)
PutPopsNewest(body) ==
  LET full == Len(queue) >= QueueLimit
      kept == IF full THEN SubSeq(queue, 1, Len(queue) - 1) ELSE queue
  IN
  /\ queue' = Append(kept, [number |-> arrived + 1, body |-> body])
  /\ dropped' = IF full THEN dropped \cup {queue[Len(queue)].number} ELSE dropped
  /\ arrived' = arrived + 1

Put(body) ==
  LET full == Len(queue) >= QueueLimit
      kept == IF full THEN Tail(queue) ELSE queue
  IN
  /\ queue' = Append(kept, [number |-> arrived + 1, body |-> body])
  /\ dropped' = IF full THEN dropped \cup {Head(queue).number} ELSE dropped
  /\ arrived' = arrived + 1

Receive(body) ==
  /\ arrived < MaxMessages
  /\ Put(body)
  /\ UNCHANGED <<building, sensing, bridging, life, now, mishaps>>

(* PriceUpdated, with the fields its subscribers use. *)
PriceUpdated(price) == [price |-> price, time |-> now]

(* Mutant: what is not a quote is published like one. *)
StreamAll ==
  /\ queue # <<>>
  /\ queue' = Tail(queue)
  /\ ticks' = Append(ticks, PriceUpdated(Head(queue).body))
  /\ handler' = Append(handler, [at |-> "ready", frame |-> 1, candle |-> 0])
  /\ UNCHANGED <<arrived, dropped, candles, late, sensing, bridging, life, now, mishaps>>

(* The streamer takes the oldest message.  A quote becomes an event stamped *)
(* with the clock, and a task of every subscriber.                          *)
Stream ==
  /\ queue # <<>>
  /\ queue' = Tail(queue)
  /\ LET body == Head(queue).body IN
     IF body = NotQuote
     THEN UNCHANGED <<ticks, handler>>
     ELSE /\ ticks' = Append(ticks, PriceUpdated(body))
          /\ handler' = Append(handler, [at |-> "ready", frame |-> 1, candle |-> 0])
  /\ UNCHANGED <<arrived, dropped, candles, late, sensing, bridging, life, now, mishaps>>

-----------------------------------------------------------------------------
(* The aggregators.  The last candle of a frame is the aggregator's own    *)
(* while its fate is "open".                                               *)
Bucket(n, i) == ticks[i].time - (ticks[i].time % Interval[n])

NewCandle(n, i) == [time |-> Bucket(n, i), ticks |-> <<i>>, fate |-> "open"]

Current(n, cs) == cs[n][Len(cs[n])]
HasCurrent(n, cs) == cs[n] # <<>> /\ Current(n, cs).fate = "open"

(* Mutant: a candle is closed one interval late. *)
RollsOverLate(n, i, cs) ==
  HasCurrent(n, cs) /\ Bucket(n, i) > Current(n, cs).time + Interval[n]

(* Mutant: a late event turns the aggregator back. *)
RollsBack(n, i, cs) == HasCurrent(n, cs) /\ Bucket(n, i) # Current(n, cs).time

RollsOver(n, i, cs) == HasCurrent(n, cs) /\ Bucket(n, i) > Current(n, cs).time

(* Mutant: the event that closes a candle is added to it as well. *)
OnTickTwice(n, i, cs) ==
  CASE ~HasCurrent(n, cs)  -> Append(cs[n], NewCandle(n, i))
    [] RollsOver(n, i, cs) -> Append([cs[n] EXCEPT ![Len(cs[n])] =
                                        [@ EXCEPT !.fate = "writing", !.ticks = Append(@, i)]],
                                     NewCandle(n, i))
    [] OTHER -> [cs[n] EXCEPT ![Len(cs[n])].ticks = Append(@, i)]

(* on_tick: begin the first candle, close the current one and begin the    *)
(* next, or add to the current one.                                        *)
OnTick(n, i, cs) ==
  CASE ~HasCurrent(n, cs)  -> Append(cs[n], NewCandle(n, i))
    [] RollsOver(n, i, cs) -> Append([cs[n] EXCEPT ![Len(cs[n])].fate = "writing"],
                                     NewCandle(n, i))
    [] OTHER -> [cs[n] EXCEPT ![Len(cs[n])].ticks = Append(@, i)]

(* The frame at which a handler that goes on with frame n has to write a   *)
(* closed candle and is suspended; Frames + 1 if there is none.            *)
Stop(n, i, cs) ==
  LET closing == {m \in n..Frames : RollsOver(m, i, cs)}
  IN IF closing = {} THEN Frames + 1 ELSE CHOOSE m \in closing : \A k \in closing : m <= k

(* Handlers of earlier events that have frame n before them. *)
Behind(n, i) ==
  {j \in 1..(i - 1) : handler[j].at = "writing" /\ handler[j].frame < n}

(* The handler of event i feeds the frames from n on, up to the first one  *)
(* that closes a candle, or to the end.                                    *)
FeedFrom(n, i, cs) ==
  LET stop == Stop(n, i, cs)
      fed  == n..(IF stop > Frames THEN Frames ELSE stop)
  IN
  /\ candles' = [m \in Frame |-> IF m \in fed THEN OnTick(m, i, cs) ELSE cs[m]]
  /\ late' = [m \in Frame |-> IF m \in fed THEN late[m] \cup Behind(m, i) ELSE late[m]]
  /\ handler' = [handler EXCEPT ![i] =
                   IF stop > Frames
                   THEN [at |-> "done", frame |-> Frames, candle |-> 0]
                   ELSE [at |-> "writing", frame |-> stop, candle |-> Len(cs[stop])]]

(* Tasks start in the order of their creation: the detector's task of an   *)
(* event, its candle task, then those of the next event.                   *)
AllStarted(i) == \A j \in 1..(i - 1) : handler[j].at # "ready"

StartHandler(i) ==
  /\ handler[i].at = "ready"
  /\ AllStarted(i)
  /\ detected >= i
  /\ FeedFrom(1, i, candles)
  /\ UNCHANGED <<intake, ticks, sensing, bridging, life, now, mishaps>>

Writing(i) == handler[i].at = "writing"
Written(i) == candles[handler[i].frame][handler[i].candle].fate
Settled(i, fate) == [candles EXCEPT ![handler[i].frame][handler[i].candle].fate = fate]

(* The database stores the row of a closed candle. *)
StoreCandle(i) ==
  /\ Writing(i) /\ Written(i) = "writing"
  /\ candles' = Settled(i, "stored")
  /\ UNCHANGED <<intake, ticks, handler, late, sensing, bridging, life, now, mishaps>>

(* The answer of the database arrives: CandleClosed is published, and the  *)
(* handler goes on with the next frame.                                    *)
PersistReturns(i) ==
  /\ Writing(i) /\ Written(i) = "stored"
  /\ FeedFrom(handler[i].frame + 1, i, Settled(i, "announced"))
  /\ UNCHANGED <<intake, ticks, sensing, bridging, life, now, mishaps>>

(* The database call raises, before or after the row was stored.  The error *)
(* is logged and the handler goes on.                                       *)
PersistFails(i) ==
  /\ Writing(i)
  /\ Mishap
  /\ FeedFrom(handler[i].frame + 1, i,
              IF Written(i) = "stored" THEN candles ELSE Settled(i, "lost"))
  /\ UNCHANGED <<intake, ticks, sensing, bridging, life, now>>

-----------------------------------------------------------------------------
(* SignalDetector: no await suspends it, so events are handled in order.    *)
Abs(x) == IF x < 0 THEN -x ELSE x
Direction(from, to) == IF to > from THEN "BUY" ELSE "SELL"

Significant(from, to) == Abs(to - from) * 100 >= Threshold * from

(* Mutant: a direction may be repeated. *)
FiresAgain(price) ==
  /\ last_price \notin {NoPrice, 0}
  /\ Significant(last_price, price)

Fires(price) ==
  /\ last_price \notin {NoPrice, 0}
  /\ Significant(last_price, price)
  /\ last_signal # Direction(last_price, price)

(* SignalDetected, and the run of the process it comes from. *)
SignalDetected(direction) == [direction |-> direction, life |-> life]

(* Mutant: the last price is replaced by a significant one only. *)
DetectFromLastSignal ==
  /\ detected < Len(ticks)
  /\ AllStarted(detected + 1)
  /\ detected' = detected + 1
  /\ LET price == ticks[detected + 1].price IN
     /\ last_price' = IF last_price = NoPrice \/ Fires(price) THEN price ELSE last_price
     /\ IF Fires(price)
        THEN /\ last_signal' = Direction(last_price, price)
             /\ signals' = Append(signals, SignalDetected(Direction(last_price, price)))
             /\ bridge' = Append(bridge, "sending")
        ELSE UNCHANGED <<last_signal, signals, bridge>>
  /\ UNCHANGED <<intake, building, stream, overtaken, life, now, mishaps>>

(* The change against a last price of zero is a division by zero: the task *)
(* ends with the exception, before the last price is replaced.             *)
Detect ==
  /\ detected < Len(ticks)
  /\ AllStarted(detected + 1)
  /\ detected' = detected + 1
  /\ LET price == ticks[detected + 1].price IN
     /\ last_price' = IF last_price = 0 THEN 0 ELSE price
     /\ IF Fires(price)
        THEN /\ last_signal' = Direction(last_price, price)
             /\ signals' = Append(signals, SignalDetected(Direction(last_price, price)))
             /\ bridge' = Append(bridge, "sending")
        ELSE UNCHANGED <<last_signal, signals, bridge>>
  /\ UNCHANGED <<intake, building, stream, overtaken, life, now, mishaps>>

(* Redis takes the XADD of a signal; whether its answer arrives or not, the *)
(* bridge does nothing more about it.                                       *)
RedisAppends(s) ==
  /\ bridge[s] = "sending"
  /\ bridge' = [bridge EXCEPT ![s] = "done"]
  /\ stream' = Append(stream, s)
  /\ overtaken' = overtaken \cup {r \in 1..(s - 1) : bridge[r] = "sending"}
  /\ UNCHANGED <<intake, building, sensing, life, now, mishaps>>

(* The call raises before Redis took it; it is logged, not tried again. *)
BridgeFails(s) ==
  /\ bridge[s] = "sending"
  /\ Mishap
  /\ bridge' = [bridge EXCEPT ![s] = "failed"]
  /\ UNCHANGED <<intake, building, sensing, stream, overtaken, life, now>>

-----------------------------------------------------------------------------
(* The process ends and starts again: rows and the Redis stream remain.     *)
Restart ==
  /\ Mishap
  /\ life' = life + 1
  /\ queue' = <<>>
  /\ handler' = [i \in 1..Len(handler) |->
                   IF handler[i].at = "done" THEN handler[i] ELSE [handler[i] EXCEPT !.at = "cut"]]
  /\ candles' = [n \in Frame |-> [k \in 1..Len(candles[n]) |->
                   IF candles[n][k].fate \in {"open", "writing"}
                   THEN [candles[n][k] EXCEPT !.fate = "cut"] ELSE candles[n][k]]]
  /\ detected' = Len(ticks)
  /\ last_price' = NoPrice
  /\ last_signal' = "none"
  /\ bridge' = [s \in 1..Len(bridge) |->
                  IF bridge[s] = "done" THEN "done" ELSE "failed"]
  /\ UNCHANGED <<arrived, dropped, ticks, late, signals, stream, overtaken, now>>

Elapse ==
  /\ now < Horizon
  /\ now' = now + 1
  /\ UNCHANGED <<intake, building, sensing, bridging, life, mishaps>>

Init ==
  /\ queue = <<>> /\ arrived = 0 /\ dropped = {}
  /\ ticks = <<>> /\ handler = <<>>
  /\ candles = [n \in Frame |-> <<>>]
  /\ late = [n \in Frame |-> {}]
  /\ detected = 0 /\ last_price = NoPrice /\ last_signal = "none" /\ signals = <<>>
  /\ bridge = <<>> /\ stream = <<>> /\ overtaken = {}
  /\ life = 1 /\ now = 0 /\ mishaps = 0

HandlerStep(i) ==
  StartHandler(i) \/ StoreCandle(i) \/ PersistReturns(i) \/ PersistFails(i)

BridgeStep(s) == RedisAppends(s) \/ BridgeFails(s)

Next ==
  \/ \E body \in Prices \cup {NotQuote} : Receive(body)
  \/ Stream \/ Detect
  \/ \E i \in 1..Len(ticks) : HandlerStep(i)
  \/ \E s \in 1..Len(signals) : BridgeStep(s)
  \/ Restart \/ Elapse

Spec == Init /\ [][Next]_vars

-----------------------------------------------------------------------------
Fates == {"open", "writing", "stored", "announced", "lost", "cut"}

(* Types of the pipeline's state. *)
TypeOK ==
  /\ queue \in Seq([number : Nat, body : Prices \cup {NotQuote}])
  /\ arrived \in Nat
  /\ dropped \subseteq Nat
  /\ ticks \in Seq([price : Prices, time : Nat])
  /\ handler \in Seq([at : {"ready", "writing", "done", "cut"}, frame : Frame, candle : Nat])
  /\ candles \in [Frame -> Seq([time : Nat, ticks : Seq(Nat), fate : Fates])]
  /\ late \in [Frame -> SUBSET Nat]
  /\ detected \in Nat
  /\ last_price \in Prices \cup {NoPrice}
  /\ last_signal \in {"none", "BUY", "SELL"}
  /\ signals \in Seq([direction : {"BUY", "SELL"}, life : Nat])
  /\ bridge \in Seq({"sending", "done", "failed"})
  /\ stream \in Seq(Nat)
  /\ overtaken \subseteq Nat
  /\ life \in Nat /\ now \in Nat /\ mishaps \in Nat

(* A full queue drops only messages that at least QueueLimit newer ones    *)
(* have followed: the newest are never lost to it (drop_oldest).           *)
NewestKept ==
  /\ Len(queue) <= QueueLimit
  /\ \A d \in dropped : d + QueueLimit <= arrived

(* A candle holds events of its own bucket, in the order they were          *)
(* published, unless the handler of the event was waiting for the database  *)
(* while a later event's handler passed it; that never happens to the first *)
(* timeframe, which a handler feeds before it awaits anything.              *)
OnlyLateMisplaced ==
  /\ late[1] = {}
  /\ \A n \in Frame : \A k \in 1..Len(candles[n]) :
       LET c == candles[n][k] IN
       \A p \in 1..Len(c.ticks) :
         \/ c.ticks[p] \in late[n]
         \/ /\ Bucket(n, c.ticks[p]) = c.time
            /\ \A q \in 1..(p - 1) : c.ticks[q] < c.ticks[p]

Places(n, i) ==
  UNION {{<<k, p>> : p \in {q \in DOMAIN candles[n][k].ticks : candles[n][k].ticks[q] = i}} :
         k \in DOMAIN candles[n]}

(* No event is counted in two candles of a timeframe, and once its handler *)
(* is done it is counted in one of each, whatever overtook it meanwhile.   *)
CountedOnce ==
  \A n \in Frame, i \in 1..Len(ticks) :
    /\ Cardinality(Places(n, i)) <= 1
    /\ handler[i].at = "done" => Places(n, i) # {}

(* The table has no two rows for one timeframe and time, although it has no *)
(* such key: not after late events, lost answers or restarts.               *)
RowsUnique ==
  \A n \in Frame : \A j, k \in 1..Len(candles[n]) :
    /\ j # k
    /\ candles[n][j].fate \in {"stored", "announced"}
    /\ candles[n][k].fate \in {"stored", "announced"}
    => candles[n][j].time # candles[n][k].time

(* The detector compares with the last quote it was given, unless a quote  *)
(* without prices has left it at zero: then it never recovers.             *)
BlindOnlyAtZero ==
  last_price \notin {NoPrice, 0} => last_price = ticks[detected].price

(* Two neighbours of the Redis stream have different directions, unless     *)
(* Redis took one of them late, a signal between them failed on its way, or *)
(* the process was started again in between.                                *)
StreamAlternates ==
  \A p \in 1..(Len(stream) - 1) :
    LET a == stream[p]
        b == stream[p + 1]
    IN signals[a].direction = signals[b].direction =>
         \/ a \in overtaken \/ b \in overtaken
         \/ signals[a].life # signals[b].life
         \/ \E s \in a..b : bridge[s] = "failed" \/ s \in overtaken
=============================================================================
