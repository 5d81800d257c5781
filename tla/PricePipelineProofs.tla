------------------------- MODULE PricePipelineProofs -------------------------
(***************************************************************************)
(* Proofs about PricePipeline, for any timeframes, prices, bounds and any   *)
(* number of events: the types, and each promise of the queue, the candles, *)
(* the detector and the stream.                                             *)
(*                                                                          *)
(* Seen from the candles a step is one of four: nothing is fed (Quiet), an  *)
(* event arrives (Arrives), the handler of one event feeds some timeframes  *)
(* (Feeds), or the process ends (Ends).                                     *)
(***************************************************************************)
EXTENDS PricePipeline, FiniteSetTheorems, WellFoundedInduction, TLAPS

ClosedFates == {"writing", "stored", "announced", "lost"}
Candle == [time : Nat, ticks : Seq(Nat), fate : Fates]
Tick == [price : Prices, time : Nat]
Handler == [at : {"ready", "writing", "done", "cut"}, frame : Frame, candle : Nat]

Event == 1..Len(ticks)

(* Handler i still has to feed frame n; it has fed it.                      *)
Pending(i, n) ==
  handler[i].at = "ready" \/ (handler[i].at = "writing" /\ handler[i].frame < n)

Passed(i, n) ==
  handler[i].at = "done" \/ (handler[i].at = "writing" /\ handler[i].frame >= n)

(* Lengths that belong together, and what a waiting handler waits for.      *)
Sizes ==
  /\ Len(handler) = Len(ticks)
  /\ detected <= Len(ticks)
  /\ Len(bridge) = Len(signals)

HandlerInv ==
  \A i \in Event : handler[i].at = "writing" =>
    /\ handler[i].candle \in 1..Len(candles[handler[i].frame])
    /\ candles[handler[i].frame][handler[i].candle].fate \in ClosedFates

IInv == TypeOK /\ Sizes /\ HandlerInv

-----------------------------------------------------------------------------
(* Arithmetic of buckets.                                                  *)

(* A number is its bucket and what is left over. *)
LEMMA Floors ==
  ASSUME NEW d \in Nat \ {0}, NEW x \in Nat
  PROVE  /\ x - (x % d) \in Nat /\ x - (x % d) <= x
         /\ x % d \in Nat /\ x % d < d
         /\ x \div d \in Nat /\ x = d * (x \div d) + (x % d)
<1>1. x % d \in 0..(d - 1)
  OBVIOUS
<1>2. x \div d \in Nat
  OBVIOUS
<1>3. x = d * (x \div d) + (x % d)
  OBVIOUS
<1>4. x % d <= x
  OBVIOUS
<1> QED
  BY <1>1, <1>2, <1>3, <1>4

(* A later time has no earlier bucket. *)
LEMMA FloorGrows ==
  ASSUME NEW d \in Nat \ {0}, NEW x \in Nat, NEW y \in Nat, x <= y
  PROVE  x - (x % d) <= y - (y % d)
<1> DEFINE a == x \div d
           b == y \div d
           r == x % d
           t == y % d
<1>1. a \in Nat /\ r \in Nat /\ r < d /\ x = d * a + r
  BY Floors
<1>2. b \in Nat /\ t \in Nat /\ t < d /\ y = d * b + t
  BY Floors
<1> HIDE DEF a, b, r, t
<1>3. a <= b
  <2> SUFFICES ASSUME b + 1 <= a PROVE FALSE
    BY <1>1, <1>2
  <2>1. d * (b + 1) <= d * a
    BY <1>1, <1>2
  <2>2. d * (b + 1) = d * b + d
    BY <1>2
  <2> QED
    BY <1>1, <1>2, <2>1, <2>2
<1>4. d * a <= d * b
  BY <1>1, <1>2, <1>3
<1>5. x - r = d * a /\ y - t = d * b
  BY <1>1, <1>2
<1> QED
  BY <1>4, <1>5 DEF r, t

(* A nonempty set of numbers has a first one. *)
LEMMA FirstOf ==
  ASSUME NEW S \in SUBSET Nat, S # {}
  PROVE  \E s \in S : \A t \in S : s <= t
<1>1. PICK s \in S : \A t \in S : ~ (<<t, s>> \in OpToRel(<, Nat))
  BY NatLessThanWellFounded, WFMin
<1>2. ASSUME NEW t \in S PROVE s <= t
  <2>1. ~ (t < s)
    BY <1>1 DEF OpToRel
  <2> QED
    BY <2>1
<1> QED
  BY <1>2

(* The bucket of an event is a number that its time bounds. *)
LEMMA Buckets ==
  ASSUME TypeOK, NEW n \in Frame, NEW i \in Event
  PROVE  /\ ticks[i] \in Tick /\ Interval[n] \in Nat \ {0}
         /\ Bucket(n, i) \in Nat /\ Bucket(n, i) <= ticks[i].time
<1>t. ticks \in Seq(Tick)
  BY DEF TypeOK, Tick
<1>1. ticks[i] \in Tick /\ Interval[n] \in Nat \ {0}
  BY <1>t, FrameAssumption DEF Event
<1>2. ticks[i].time \in Nat
  BY <1>1 DEF Tick
<1> QED
  BY <1>1, <1>2, Floors DEF Bucket

(* A later event has no earlier bucket. *)
LEMMA BucketGrows ==
  ASSUME TypeOK, NEW n \in Frame, NEW i \in Event, NEW j \in Event, ticks[i].time <= ticks[j].time
  PROVE  Bucket(n, i) <= Bucket(n, j)
<1>1. ticks[i] \in Tick /\ ticks[j] \in Tick /\ Interval[n] \in Nat \ {0}
  BY Buckets
<1>2. ticks[i].time \in Nat /\ ticks[j].time \in Nat
  BY <1>1 DEF Tick
<1> QED
  BY <1>1, <1>2, FloorGrows DEF Bucket

-----------------------------------------------------------------------------
(* What a step does to the candles of a timeframe: s before, t after.       *)

(* The same candles, some of them further on their way to the table. *)
Alike(s, t) ==
  /\ Len(t) = Len(s)
  /\ \A k \in 1..Len(s) :
       /\ t[k].time = s[k].time /\ t[k].ticks = s[k].ticks
       /\ (t[k].fate \in ClosedFates) <=> (s[k].fate \in ClosedFates)
       /\ (t[k].fate = "open") <=> (s[k].fate = "open")

Open(s) == s # <<>> /\ s[Len(s)].fate = "open"

Begins(n, i, s, t) ==
  /\ ~Open(s)
  /\ Len(t) = Len(s) + 1
  /\ \A k \in 1..Len(s) : t[k] = s[k]
  /\ t[Len(s) + 1] = NewCandle(n, i)

Rolls(n, i, s, t) ==
  /\ Open(s) /\ Bucket(n, i) > s[Len(s)].time
  /\ Len(t) = Len(s) + 1
  /\ \A k \in 1..(Len(s) - 1) : t[k] = s[k]
  /\ t[Len(s)] = [s[Len(s)] EXCEPT !.fate = "writing"]
  /\ t[Len(s) + 1] = NewCandle(n, i)

Adds(n, i, s, t) ==
  /\ Open(s) /\ ~(Bucket(n, i) > s[Len(s)].time)
  /\ Len(t) = Len(s)
  /\ \A k \in 1..(Len(s) - 1) : t[k] = s[k]
  /\ t[Len(s)] = [s[Len(s)] EXCEPT !.ticks = Append(@, i)]

Takes(n, i, s, t) == Begins(n, i, s, t) \/ Rolls(n, i, s, t) \/ Adds(n, i, s, t)

Quiet ==
  /\ UNCHANGED <<ticks, handler, late>>
  /\ now' \in Nat /\ now <= now'
  /\ \A n \in Frame : Alike(candles[n], candles'[n])

Arrives ==
  /\ \E price \in Prices : ticks' = Append(ticks, [price |-> price, time |-> now])
  /\ handler' = Append(handler, [at |-> "ready", frame |-> 1, candle |-> 0])
  /\ UNCHANGED <<candles, late, now>>

Feeds(i) ==
  /\ handler[i].at \in {"ready", "writing"}
  /\ handler[i].at = "ready" => AllStarted(i)
  /\ Len(handler') = Len(handler)
  /\ \A j \in Event \ {i} : handler'[j] = handler[j]
  /\ handler'[i].at \in {"writing", "done"}
  /\ \A n \in Frame :
       \/ /\ Pending(i, n)' <=> Pending(i, n)
          /\ Passed(i, n)' <=> Passed(i, n)
          /\ Alike(candles[n], candles'[n])
          /\ late'[n] = late[n]
       \/ /\ Pending(i, n) /\ Passed(i, n)' /\ ~Pending(i, n)'
          /\ Takes(n, i, candles[n], candles'[n])
          /\ late'[n] = late[n] \cup Behind(n, i)
  /\ UNCHANGED <<ticks, now>>

(* The process ends: waiting handlers and unsettled candles are cut.        *)
Ends ==
  /\ UNCHANGED <<ticks, late, now>>
  /\ Len(handler') = Len(handler)
  /\ \A i \in Event : IF handler[i].at = "done" THEN handler'[i] = handler[i]
                                                ELSE handler'[i].at = "cut"
  /\ \A n \in Frame :
       /\ Len(candles'[n]) = Len(candles[n])
       /\ \A k \in 1..Len(candles[n]) :
            /\ candles'[n][k].time = candles[n][k].time
            /\ candles'[n][k].ticks = candles[n][k].ticks
            /\ candles'[n][k].fate = IF candles[n][k].fate \in {"open", "writing"}
                                     THEN "cut" ELSE candles[n][k].fate

(* Nothing is unlike itself. *)
LEMMA AlikeSelf ==
  ASSUME NEW s
  PROVE  Alike(s, s)
BY DEF Alike

(* on_tick begins a candle, closes one and begins the next, or adds to one. *)
LEMMA TickTaken ==
  ASSUME TypeOK, NEW n \in Frame, NEW i \in Event, NEW cs \in [Frame -> Seq(Candle)]
  PROVE  OnTick(n, i, cs) \in Seq(Candle) /\ Takes(n, i, cs[n], OnTick(n, i, cs))
<1> DEFINE s == cs[n]
           new == NewCandle(n, i)
           t == OnTick(n, i, cs)
<1>1. s \in Seq(Candle) /\ Len(s) \in Nat
  OBVIOUS
<1>2. new \in Candle
  <2>1. i \in Nat /\ <<i>> \in Seq(Nat)
    BY DEF Event
  <2> QED
    BY <2>1, Buckets DEF NewCandle, Candle, Fates
<1>3. Open(s) => s[Len(s)] \in Candle /\ Len(s) \in 1..Len(s)
  BY <1>1 DEF Open
<1>4. HasCurrent(n, cs) <=> Open(s)
  BY DEF HasCurrent, Current, Open
<1>5. RollsOver(n, i, cs) <=> Open(s) /\ Bucket(n, i) > s[Len(s)].time
  BY <1>4 DEF RollsOver, Current
<1>6. CASE ~Open(s)
  <2>1. t = Append(s, new)
    BY <1>4, <1>5, <1>6 DEF OnTick
  <2> HIDE DEF t, new, s
  <2>2. t \in Seq(Candle) /\ Len(t) = Len(s) + 1 /\ t[Len(s) + 1] = new
        /\ \A k \in 1..Len(s) : t[k] = s[k]
    BY <1>1, <1>2, <2>1
  <2>3. Begins(n, i, s, t)
    BY <1>6, <2>2 DEF Begins, new
  <2> QED
    BY <2>2, <2>3 DEF Takes, s, t
<1>7. CASE Open(s) /\ Bucket(n, i) > s[Len(s)].time
  <2> DEFINE c == [s[Len(s)] EXCEPT !.fate = "writing"]
             u == [s EXCEPT ![Len(s)] = c]
  <2>1. t = Append(u, new)
    BY <1>4, <1>5, <1>7 DEF OnTick
  <2>2. c \in Candle
    BY <1>3, <1>7 DEF Candle, Fates
  <2> HIDE DEF t, new, s, c
  <2>3. u \in Seq(Candle) /\ Len(u) = Len(s) /\ u[Len(s)] = c
        /\ \A k \in 1..(Len(s) - 1) : u[k] = s[k]
    BY <1>1, <1>3, <1>7, <2>2
  <2> HIDE DEF u
  <2>4. t \in Seq(Candle) /\ Len(t) = Len(s) + 1 /\ t[Len(s) + 1] = new
        /\ \A k \in 1..Len(s) : t[k] = u[k]
    BY <1>1, <1>2, <2>1, <2>3
  <2>5. t[Len(s)] = c /\ \A k \in 1..(Len(s) - 1) : t[k] = s[k]
    BY <1>1, <1>3, <1>7, <2>3, <2>4
  <2>6. Rolls(n, i, s, t)
    BY <1>7, <2>4, <2>5 DEF Rolls, new, c
  <2> QED
    BY <2>4, <2>6 DEF Takes, s, t
<1>8. CASE Open(s) /\ ~(Bucket(n, i) > s[Len(s)].time)
  <2> DEFINE c == [s[Len(s)] EXCEPT !.ticks = Append(@, i)]
  <2>1. t = [s EXCEPT ![Len(s)] = c]
    BY <1>4, <1>5, <1>8 DEF OnTick
  <2>2. c \in Candle
    <3>1. Append(s[Len(s)].ticks, i) \in Seq(Nat)
      BY <1>3, <1>8 DEF Candle, Event
    <3> QED
      BY <1>3, <1>8, <3>1 DEF Candle
  <2> HIDE DEF t, s, c
  <2>3. t \in Seq(Candle) /\ Len(t) = Len(s) /\ t[Len(s)] = c
        /\ \A k \in 1..(Len(s) - 1) : t[k] = s[k]
    BY <1>1, <1>3, <1>8, <2>1, <2>2
  <2>4. Adds(n, i, s, t)
    BY <1>8, <2>3 DEF Adds, c
  <2> QED
    BY <2>3, <2>4 DEF Takes, s, t
<1> QED
  BY <1>6, <1>7, <1>8

(* The types the steps below need, one by one. *)
LEMMA Typed ==
  ASSUME IInv
  PROVE  /\ candles \in [Frame -> Seq(Candle)] /\ late \in [Frame -> SUBSET Nat]
         /\ ticks \in Seq(Tick) /\ handler \in Seq(Handler)
         /\ Len(ticks) \in Nat /\ Len(handler) = Len(ticks) /\ now \in Nat
         /\ \A i \in Event : /\ i \in Nat /\ handler[i] \in Handler
                             /\ handler[i].frame \in Frame
                             /\ handler[i].at \in {"ready", "writing", "done", "cut"}
         /\ \A n \in Frame : n \in Nat /\ n <= Frames /\ candles[n] \in Seq(Candle)
<1>1. candles \in [Frame -> Seq(Candle)]
  BY DEF IInv, TypeOK, Candle
<1>2. ticks \in Seq(Tick) /\ now \in Nat /\ late \in [Frame -> SUBSET Nat]
  BY DEF IInv, TypeOK, Tick
<1>3. handler \in Seq(Handler)
  BY DEF IInv, TypeOK, Handler
<1>4. Len(handler) = Len(ticks) /\ Len(ticks) \in Nat
  BY <1>2 DEF IInv, Sizes
<1>5. \A i \in Event : i \in Nat /\ handler[i] \in Handler
  BY <1>3, <1>4 DEF Event
<1>6. \A i \in Event : handler[i].frame \in Frame
                       /\ handler[i].at \in {"ready", "writing", "done", "cut"}
  BY <1>5 DEF Handler
<1>7. \A n \in Frame : n \in Nat /\ n <= Frames
  BY FrameAssumption DEF Frame
<1> QED
  BY <1>1, <1>2, <1>3, <1>4, <1>5, <1>6, <1>7

(* A closed candle stays closed, but for the end of the process. *)
LEMMA StaysClosed ==
  ASSUME TypeOK, NEW n \in Frame, NEW i \in Event,
         NEW s \in Seq(Candle), NEW t \in Seq(Candle), Alike(s, t) \/ Takes(n, i, s, t)
  PROVE  \A k \in 1..Len(s) : s[k].fate \in ClosedFates =>
           k \in 1..Len(t) /\ t[k].fate \in ClosedFates
<1>1. Len(s) \in Nat /\ Len(t) \in Nat
  OBVIOUS
<1>2. Open(s) => s[Len(s)].fate \notin ClosedFates
  BY DEF Open, ClosedFates
<1>3. CASE Alike(s, t)
  BY <1>1, <1>3 DEF Alike
<1>4. CASE Begins(n, i, s, t)
  BY <1>1, <1>4 DEF Begins
<1>5. CASE Rolls(n, i, s, t)
  BY <1>1, <1>2, <1>5 DEF Rolls
<1>6. CASE Adds(n, i, s, t)
  BY <1>1, <1>2, <1>6 DEF Adds
<1> QED
  BY <1>3, <1>4, <1>5, <1>6 DEF Takes

(* A handler is suspended at the first frame whose candle it closes. *)
LEMMA Stopping ==
  ASSUME NEW f \in 1..(Frames + 1), NEW i, NEW cs
  PROVE  /\ Stop(f, i, cs) \in f..(Frames + 1)
         /\ Stop(f, i, cs) <= Frames => RollsOver(Stop(f, i, cs), i, cs)
<1> DEFINE closing == {m \in f..Frames : RollsOver(m, i, cs)}
           first == CHOOSE m \in closing : \A k \in closing : m <= k
<1>1. Frames \in Nat /\ f \in Nat
  BY FrameAssumption
<1>2. CASE closing = {}
  <2>1. Stop(f, i, cs) = Frames + 1
    BY <1>2 DEF Stop
  <2> QED
    BY <1>1, <2>1
<1>3. CASE closing # {}
  <2>1. closing \in SUBSET Nat
    BY <1>1
  <2>2. \E m \in closing : \A k \in closing : m <= k
    <3> HIDE DEF closing
    <3> QED
      BY <1>3, <2>1, FirstOf
  <2>3. first \in closing
    <3> HIDE DEF closing
    <3> QED
      BY <2>2
  <2>4. Stop(f, i, cs) = first
    BY <1>3 DEF Stop
  <2> HIDE DEF first
  <2>5. first \in f..Frames /\ RollsOver(first, i, cs)
    BY <2>3
  <2> QED
    BY <1>1, <2>4, <2>5
<1> QED
  BY <1>2, <1>3

(* The answer of the database about a candle leaves the candles alike. *)
LEMMA Settling ==
  ASSUME IInv, NEW i \in Event, Writing(i), NEW fate \in ClosedFates
  PROVE  /\ Settled(i, fate) \in [Frame -> Seq(Candle)]
         /\ \A n \in Frame : /\ Alike(candles[n], Settled(i, fate)[n])
                             /\ n # handler[i].frame => Settled(i, fate)[n] = candles[n]
<1> DEFINE f == handler[i].frame
           k == handler[i].candle
           s == candles[f]
           c == [s[k] EXCEPT !.fate = fate]
           u == [s EXCEPT ![k] = c]
<1>1. candles \in [Frame -> Seq(Candle)]
  BY Typed
<1>2. f \in Frame
  BY Typed
<1>3. k \in 1..Len(s) /\ s[k].fate \in ClosedFates
  BY DEF IInv, HandlerInv, Writing
<1>4. Settled(i, fate) = [candles EXCEPT ![f] = u]
  BY DEF Settled
<1> HIDE DEF f, k
<1>5. s \in Seq(Candle) /\ s[k] \in Candle
  BY <1>1, <1>2, <1>3
<1>6. c \in Candle /\ c.fate = fate /\ c.time = s[k].time /\ c.ticks = s[k].ticks
  BY <1>5 DEF Candle, ClosedFates, Fates
<1> HIDE DEF c, s
<1>7. u \in Seq(Candle) /\ Len(u) = Len(s) /\ u[k] = c /\ \A j \in 1..Len(s) : j # k => u[j] = s[j]
  BY <1>3, <1>5, <1>6
<1> HIDE DEF u
<1>8. Alike(s, u)
  BY <1>3, <1>6, <1>7 DEF Alike, ClosedFates
<1>9. Settled(i, fate) \in [Frame -> Seq(Candle)] /\ Settled(i, fate)[f] = u
      /\ \A n \in Frame : n # f => Settled(i, fate)[n] = candles[n]
  BY <1>1, <1>2, <1>4, <1>7
<1>10. ASSUME NEW n \in Frame PROVE Alike(candles[n], Settled(i, fate)[n])
  <2>1. CASE n = f
    BY <1>8, <1>9, <2>1 DEF s
  <2>2. CASE n # f
    BY <1>9, <2>2, AlikeSelf
  <2> QED
    BY <2>1, <2>2
<1> QED
  BY <1>9, <1>10 DEF f

(* Frames as numbers: those from the first of a run on. *)
LEMMA FrameRange ==
  ASSUME NEW f \in 1..(Frames + 1), NEW m \in Frame, NEW stop \in f..(Frames + 1)
  PROVE  /\ m \in f..(IF stop > Frames THEN Frames ELSE stop) <=> m >= f /\ m <= stop
         /\ stop <= Frames => stop \in Frame
BY FrameAssumption DEF Frame

(* FeedFrom feeds the frames from f up to where it stops and no other, and *)
(* leaves the handler's candle closed.                                     *)
LEMMA Feeding ==
  ASSUME IInv, NEW i \in Event, NEW f \in 1..(Frames + 1), NEW cs \in [Frame -> Seq(Candle)],
         handler[i].at \in {"ready", "writing"}, handler[i].at = "ready" => AllStarted(i),
         \A m \in Frame : Pending(i, m) <=> m >= f,
         \A m \in Frame : Alike(candles[m], cs[m]) /\ (m >= f => cs[m] = candles[m]),
         FeedFrom(f, i, cs), UNCHANGED <<ticks, now>>
  PROVE  /\ Feeds(i) /\ HandlerInv'
         /\ candles' \in [Frame -> Seq(Candle)] /\ late' \in [Frame -> SUBSET Nat]
         /\ handler' \in Seq(Handler) /\ Len(handler') = Len(ticks')
<1> DEFINE stop == Stop(f, i, cs)
           fed == f..(IF stop > Frames THEN Frames ELSE stop)
           h == IF stop > Frames
                THEN [at |-> "done", frame |-> Frames, candle |-> 0]
                ELSE [at |-> "writing", frame |-> stop, candle |-> Len(cs[stop])]
<1>t. TypeOK /\ Frames \in Nat \ {0} /\ Frames \in Frame
  BY FrameAssumption DEF IInv, Frame
<1>1. stop \in f..(Frames + 1) /\ (stop <= Frames => RollsOver(stop, i, cs))
  BY Stopping
<1>2. /\ candles' = [m \in Frame |-> IF m \in fed THEN OnTick(m, i, cs) ELSE cs[m]]
      /\ late' = [m \in Frame |-> IF m \in fed THEN late[m] \cup Behind(m, i) ELSE late[m]]
      /\ handler' = [handler EXCEPT ![i] = h]
  BY DEF FeedFrom
<1>3. \A m \in Frame : m \in fed <=> m >= f /\ m <= stop
  <2> HIDE DEF stop
  <2> QED
    BY <1>1, FrameRange
<1> HIDE DEF fed
<1>4. stop <= Frames => stop \in Frame
  <2> HIDE DEF stop
  <2> QED
    BY <1>1, <1>t DEF Frame
<1> HIDE DEF stop
<1>5. h \in Handler /\ h.at \in {"writing", "done"}
  <2>1. stop <= Frames => Len(cs[stop]) \in Nat
    BY <1>4
  <2> QED
    BY <1>t, <1>1, <1>4, <2>1 DEF Handler
<1>6. /\ handler' \in Seq(Handler) /\ Len(handler') = Len(handler)
      /\ handler'[i] = h /\ \A j \in Event \ {i} : handler'[j] = handler[j]
  <2> HIDE DEF h
  <2>1. handler \in Seq(Handler) /\ Len(handler) = Len(ticks)
    BY Typed
  <2> QED
    BY <1>2, <1>5, <2>1 DEF Event
<1>7. \A m \in Frame :
        /\ m \in fed => /\ candles'[m] \in Seq(Candle)
                        /\ Takes(m, i, candles[m], candles'[m])
                        /\ late'[m] = late[m] \cup Behind(m, i)
        /\ m \notin fed => candles'[m] = cs[m] /\ late'[m] = late[m]
  BY <1>t, <1>2, <1>3, TickTaken
<1>8. candles' \in [Frame -> Seq(Candle)]
  <2>1. \A m \in Frame : candles'[m] \in Seq(Candle)
    BY <1>7
  <2>2. candles' = [m \in Frame |-> candles'[m]]
    BY <1>2
  <2> QED
    BY <2>1, <2>2
<1>9. late' \in [Frame -> SUBSET Nat]
  <2>1. \A m \in Frame : late[m] \in SUBSET Nat /\ Behind(m, i) \in SUBSET Nat
    BY Typed DEF Behind
  <2> QED
    BY <1>2, <2>1
<1>10. \A m \in Frame : /\ Pending(i, m)' <=> m > stop
                        /\ Passed(i, m)' <=> m <= stop
  <2>1. \A m \in Frame : m \in Nat /\ m <= Frames
    BY Typed
  <2>2. CASE stop > Frames
    BY <1>6, <1>t, <1>1, <2>1, <2>2 DEF Pending, Passed
  <2>3. CASE ~(stop > Frames)
    <3>1. h = [at |-> "writing", frame |-> stop, candle |-> Len(cs[stop])]
      BY <2>3
    <3> HIDE DEF h
    <3>2. handler'[i].at = "writing" /\ handler'[i].frame = stop
      BY <1>6, <3>1
    <3> QED
      BY <1>1, <1>t, <2>1, <3>2 DEF Pending, Passed
  <2> QED
    BY <2>2, <2>3
<1>11. \A m \in Frame : Passed(i, m) <=> ~Pending(i, m)
  <2>1. /\ handler[i].at \in {"ready", "writing", "done"} /\ handler[i].frame \in Nat
        /\ \A m \in Frame : m \in Nat
    BY Typed
  <2> QED
    BY <2>1 DEF Pending, Passed
<1>12. Feeds(i)
  <2>1. ASSUME NEW n \in Frame
        PROVE  \/ /\ Pending(i, n)' <=> Pending(i, n)
                  /\ Passed(i, n)' <=> Passed(i, n)
                  /\ Alike(candles[n], candles'[n])
                  /\ late'[n] = late[n]
               \/ /\ Pending(i, n) /\ Passed(i, n)' /\ ~Pending(i, n)'
                  /\ Takes(n, i, candles[n], candles'[n])
                  /\ late'[n] = late[n] \cup Behind(n, i)
    <3>1. n \in Nat /\ f \in Nat /\ stop \in Nat /\ stop >= f
      BY <1>1, <1>t, Typed
    <3>2. CASE n \in fed
      BY <1>3, <1>7, <1>10, <3>1, <3>2
    <3>3. CASE n \notin fed
      BY <1>3, <1>7, <1>10, <1>11, <3>1, <3>3
    <3> QED
      BY <3>2, <3>3
  <2> HIDE DEF h
  <2> QED
    BY <1>5, <1>6, <2>1 DEF Feeds
<1>13. HandlerInv'
  <2> SUFFICES ASSUME NEW j \in Event, handler'[j].at = "writing"
               PROVE  /\ handler'[j].candle \in 1..Len(candles'[handler'[j].frame])
                      /\ candles'[handler'[j].frame][handler'[j].candle].fate \in ClosedFates
    BY DEF HandlerInv, Event
  <2>1. CASE j # i
    <3> DEFINE m == handler[j].frame
               k == handler[j].candle
    <3>1. handler'[j] = handler[j] /\ m \in Frame
      BY <1>6, <2>1, Typed
    <3>2. k \in 1..Len(candles[m]) /\ candles[m][k].fate \in ClosedFates
      BY <3>1 DEF IInv, HandlerInv
    <3> HIDE DEF m, k
    <3>3. candles[m] \in Seq(Candle) /\ candles'[m] \in Seq(Candle)
      BY <1>8, <3>1, Typed
    <3>4. Alike(candles[m], candles'[m]) \/ Takes(m, i, candles[m], candles'[m])
      BY <1>7, <3>1
    <3>5. k \in 1..Len(candles'[m]) /\ candles'[m][k].fate \in ClosedFates
      BY <1>t, <3>1, <3>2, <3>3, <3>4, StaysClosed
    <3> QED
      BY <3>1, <3>5 DEF m, k
  <2>2. CASE j = i
    <3>1. ~(stop > Frames) /\ h = [at |-> "writing", frame |-> stop, candle |-> Len(cs[stop])]
      BY <1>6, <2>2
    <3>2. stop <= Frames /\ stop \in Frame /\ RollsOver(stop, i, cs)
      BY <1>1, <1>4, <1>t, <3>1
    <3> HIDE DEF h
    <3>3. handler'[i].frame = stop /\ handler'[i].candle = Len(cs[stop])
      BY <1>6, <3>1
    <3>4. stop \in fed /\ cs[stop] = candles[stop] /\ cs[stop] \in Seq(Candle)
      BY <1>1, <1>3, <3>2, <1>t
    <3>5. Takes(stop, i, cs[stop], candles'[stop]) /\ candles'[stop] \in Seq(Candle)
      BY <1>7, <3>2, <3>4
    <3>6. Open(cs[stop]) /\ Bucket(stop, i) > cs[stop][Len(cs[stop])].time
      BY <3>2 DEF RollsOver, HasCurrent, Current, Open
    <3>7. Rolls(stop, i, cs[stop], candles'[stop])
      BY <3>5, <3>6 DEF Takes, Begins, Adds
    <3>8. Len(cs[stop]) \in 1..Len(candles'[stop]) /\ cs[stop][Len(cs[stop])] \in Candle
      BY <3>4, <3>5, <3>6, <3>7 DEF Rolls, Open
    <3>9. candles'[stop][Len(cs[stop])].fate = "writing"
      BY <3>7, <3>8 DEF Rolls, Candle
    <3> QED
      BY <2>2, <3>3, <3>8, <3>9 DEF ClosedFates
  <2> QED
    BY <2>1, <2>2
<1> QED
  BY <1>6, <1>8, <1>9, <1>12, <1>13, Typed

-----------------------------------------------------------------------------
(* The steps.                                                              *)

IntakeOK ==
  /\ queue \in Seq([number : Nat, body : Prices \cup {NotQuote}])
  /\ arrived \in Nat /\ dropped \in SUBSET Nat

BuildingOK ==
  /\ ticks \in Seq(Tick) /\ handler \in Seq(Handler)
  /\ candles \in [Frame -> Seq(Candle)] /\ late \in [Frame -> SUBSET Nat]

SensingOK ==
  /\ detected \in Nat /\ last_price \in Prices \cup {NoPrice}
  /\ last_signal \in {"none", "BUY", "SELL"}
  /\ signals \in Seq([direction : {"BUY", "SELL"}, life : Nat])

BridgingOK ==
  bridge \in Seq({"sending", "done", "failed"}) /\ stream \in Seq(Nat) /\ overtaken \in SUBSET Nat

RestOK == life \in Nat /\ now \in Nat /\ mishaps \in Nat

(* The type invariant, part by part. *)
LEMMA TypeParts ==
  /\ TypeOK <=> IntakeOK /\ BuildingOK /\ SensingOK /\ BridgingOK /\ RestOK
  /\ TypeOK' <=> IntakeOK' /\ BuildingOK' /\ SensingOK' /\ BridgingOK' /\ RestOK'
BY DEF TypeOK, IntakeOK, BuildingOK, SensingOK, BridgingOK, RestOK, Tick, Handler, Candle

(* A part that a step leaves alone keeps its type. *)
LEMMA PartsKept ==
  ASSUME TypeOK
  PROVE  /\ UNCHANGED intake => IntakeOK'
         /\ UNCHANGED building => BuildingOK'
         /\ UNCHANGED sensing => SensingOK'
         /\ UNCHANGED bridging => BridgingOK'
<1>1. UNCHANGED intake => IntakeOK'
  BY TypeParts DEF intake, IntakeOK
<1>2. UNCHANGED building => BuildingOK'
  BY TypeParts DEF building, BuildingOK
<1>3. UNCHANGED sensing => SensingOK'
  BY TypeParts DEF sensing, SensingOK
<1>4. UNCHANGED bridging => BridgingOK'
  BY TypeParts DEF bridging, BridgingOK
<1> QED
  BY <1>1, <1>2, <1>3, <1>4

(* A step that leaves the candles alone is quiet. *)
LEMMA QuietSteps ==
  ASSUME IInv, UNCHANGED building, now' \in Nat, now <= now'
  PROVE  Quiet /\ HandlerInv'
<1>1. Quiet
  BY AlikeSelf DEF Quiet, building
<1>2. HandlerInv'
  BY DEF IInv, HandlerInv, building, Event
<1> QED
  BY <1>1, <1>2

(* Every step of a handler feeds frames, or stores a closed candle. *)
LEMMA HandlerSteps ==
  ASSUME IInv, NEW i \in Event, HandlerStep(i)
  PROVE  IInv' /\ (Quiet \/ Feeds(i))
<1>t. TypeOK /\ Frames \in Nat \ {0} /\ now \in Nat /\ mishaps \in Nat /\ MaxMishaps \in Nat
  BY FrameAssumption, PipelineAssumption, TypeParts DEF IInv, RestOK
<1>u. UNCHANGED <<intake, ticks, sensing, bridging, life, now>> /\ mishaps' \in Nat
  BY <1>t DEF HandlerStep, StartHandler, StoreCandle, PersistReturns, PersistFails, Mishap
<1>1. (Quiet \/ Feeds(i)) /\ HandlerInv' /\ candles' \in [Frame -> Seq(Candle)]
      /\ late' \in [Frame -> SUBSET Nat] /\ handler' \in Seq(Handler) /\ Len(handler') = Len(ticks')
  <2>1. CASE StartHandler(i)
    <3>1. \A m \in Frame : Pending(i, m) <=> m >= 1
      BY <2>1, Typed DEF StartHandler, Pending, Frame
    <3>2. \A m \in Frame : Alike(candles[m], candles[m])
      BY AlikeSelf
    <3>3. 1 \in 1..(Frames + 1) /\ candles \in [Frame -> Seq(Candle)]
      BY <1>t, Typed
    <3>4. FeedFrom(1, i, candles) /\ handler[i].at = "ready" /\ AllStarted(i)
      BY <2>1 DEF StartHandler
    <3> QED
      BY <1>u, <3>1, <3>2, <3>3, <3>4, Feeding
  <2>2. CASE StoreCandle(i)
    <3>1. candles' = Settled(i, "stored") /\ UNCHANGED <<ticks, handler, late, now>>
      BY <2>2 DEF StoreCandle
    <3>2. Writing(i) /\ "stored" \in ClosedFates
      BY <2>2 DEF StoreCandle, ClosedFates
    <3>3. /\ candles' \in [Frame -> Seq(Candle)]
          /\ \A n \in Frame : Alike(candles[n], candles'[n])
      BY <3>1, <3>2, Settling
    <3>4. Quiet
      BY <1>t, <3>1, <3>3 DEF Quiet
    <3>5. HandlerInv'
      <4>1. Event' = Event
        BY <3>1 DEF Event
      <4>2. ASSUME NEW j \in Event, handler[j].at = "writing"
            PROVE  /\ handler[j].candle \in 1..Len(candles'[handler[j].frame])
                   /\ candles'[handler[j].frame][handler[j].candle].fate \in ClosedFates
        <5>1. handler[j].frame \in Frame
          BY Typed
        <5>2. /\ handler[j].candle \in 1..Len(candles[handler[j].frame])
              /\ candles[handler[j].frame][handler[j].candle].fate \in ClosedFates
          BY <4>2 DEF IInv, HandlerInv
        <5>3. Alike(candles[handler[j].frame], candles'[handler[j].frame])
          BY <3>3, <5>1
        <5> QED
          BY <5>2, <5>3 DEF Alike
      <4> QED
        BY <3>1, <4>1, <4>2 DEF HandlerInv
    <3> QED
      BY <3>1, <3>3, <3>4, <3>5, Typed
  <2> DEFINE f == handler[i].frame + 1
  <2>3. ASSUME Writing(i)
        PROVE  /\ \A m \in Frame : Pending(i, m) <=> m >= f
               /\ f \in 1..(Frames + 1)
               /\ \A m \in Frame : m >= f => m # handler[i].frame
               /\ handler[i].at = "writing"
    <3>1. handler[i].frame \in Frame /\ handler[i].at = "writing"
      BY <2>3, Typed DEF Writing
    <3>2. handler[i].frame \in Nat /\ handler[i].frame <= Frames
      BY <3>1, Typed
    <3>3. \A m \in Frame : m \in Nat
      BY Typed
    <3> QED
      BY <1>t, <3>1, <3>2, <3>3 DEF Pending
  <2>4. ASSUME NEW cs \in [Frame -> Seq(Candle)], Writing(i), FeedFrom(f, i, cs),
               \A n \in Frame : /\ Alike(candles[n], cs[n])
                                /\ n # handler[i].frame => cs[n] = candles[n]
        PROVE  Feeds(i) /\ HandlerInv' /\ candles' \in [Frame -> Seq(Candle)]
               /\ late' \in [Frame -> SUBSET Nat] /\ handler' \in Seq(Handler)
               /\ Len(handler') = Len(ticks')
    <3> HIDE DEF f
    <3> QED
      BY <1>u, <2>3, <2>4, Feeding
  <2>5. CASE PersistReturns(i)
    <3>1. Writing(i) /\ FeedFrom(f, i, Settled(i, "announced")) /\ "announced" \in ClosedFates
      BY <2>5 DEF PersistReturns, ClosedFates
    <3> HIDE DEF f
    <3> QED
      BY <2>4, <3>1, Settling
  <2>6. CASE PersistFails(i)
    <3> DEFINE cs == IF Written(i) = "stored" THEN candles ELSE Settled(i, "lost")
    <3>1. Writing(i) /\ FeedFrom(f, i, cs) /\ "lost" \in ClosedFates
      BY <2>6 DEF PersistFails, ClosedFates
    <3>2. cs \in [Frame -> Seq(Candle)]
          /\ \A n \in Frame : /\ Alike(candles[n], cs[n])
                              /\ n # handler[i].frame => cs[n] = candles[n]
      BY <3>1, Settling, AlikeSelf, Typed
    <3> HIDE DEF f, cs
    <3> QED
      BY <2>4, <3>1, <3>2
  <2> QED
    BY <2>1, <2>2, <2>5, <2>6 DEF HandlerStep
<1>2. BuildingOK'
  BY <1>1, <1>u, Typed DEF BuildingOK
<1>3. RestOK' /\ IntakeOK' /\ SensingOK' /\ BridgingOK'
  BY <1>t, <1>u, PartsKept, TypeParts DEF RestOK
<1>4. Sizes'
  BY <1>1, <1>u DEF IInv, Sizes, sensing, bridging
<1> QED
  BY <1>1, <1>2, <1>3, <1>4, TypeParts DEF IInv

(* A message joins the queue; a full one loses its head. *)
LEMMA PutTyped ==
  ASSUME IntakeOK, NEW body \in Prices \cup {NotQuote}, Put(body)
  PROVE  /\ IntakeOK'
         /\ \A d \in dropped' : d \in dropped \/ (Len(queue) >= QueueLimit /\ d = Head(queue).number)
         /\ LET kept == IF Len(queue) >= QueueLimit THEN Tail(queue) ELSE queue
            IN queue' = Append(kept, [number |-> arrived + 1, body |-> body])
         /\ arrived' = arrived + 1
<1> DEFINE M == [number : Nat, body : Prices \cup {NotQuote}]
           kept == IF Len(queue) >= QueueLimit THEN Tail(queue) ELSE queue
           m == [number |-> arrived + 1, body |-> body]
<1>1. queue \in Seq(M) /\ arrived \in Nat /\ dropped \in SUBSET Nat
  BY DEF IntakeOK
<1>2. m \in M /\ arrived' = arrived + 1 /\ queue' = Append(kept, m)
      /\ dropped' = IF Len(queue) >= QueueLimit THEN dropped \cup {Head(queue).number} ELSE dropped
  BY <1>1 DEF Put
<1>3. Len(queue) >= QueueLimit => queue # <<>> /\ Head(queue) \in M
  <2> HIDE DEF M
  <2> QED
    BY <1>1, PipelineAssumption
<1>4. kept \in Seq(M)
  <2> HIDE DEF M
  <2> QED
    BY <1>1, <1>3
<1>5. queue' \in Seq(M)
  <2> HIDE DEF M, m, kept
  <2> QED
    BY <1>2, <1>4
<1>6. dropped' \in SUBSET Nat
  <2>1. Head(queue) \in M => Head(queue).number \in Nat
    OBVIOUS
  <2> HIDE DEF M
  <2> QED
    BY <1>1, <1>2, <1>3, <2>1
<1>7. \A d \in dropped' : d \in dropped \/ (Len(queue) >= QueueLimit /\ d = Head(queue).number)
  BY <1>2
<1> HIDE DEF kept
<1> QED
  BY <1>1, <1>2, <1>5, <1>6, <1>7 DEF IntakeOK, kept

(* A message from the broker feeds no candle. *)
LEMMA ReceiveSteps ==
  ASSUME IInv, NEW body \in Prices \cup {NotQuote}, Receive(body)
  PROVE  IInv' /\ Quiet
<1>1. TypeOK /\ Put(body) /\ UNCHANGED <<building, sensing, bridging, life, now, mishaps>>
  BY DEF Receive, IInv
<1>2. IntakeOK'
  BY <1>1, PutTyped, TypeParts
<1>3. RestOK' /\ BuildingOK' /\ SensingOK' /\ BridgingOK'
  BY <1>1, PartsKept, TypeParts DEF RestOK
<1>4. Quiet /\ HandlerInv'
  BY <1>1, QuietSteps, Typed
<1>5. Sizes'
  BY <1>1 DEF IInv, Sizes, building, sensing, bridging
<1> QED
  BY <1>2, <1>3, <1>4, <1>5, TypeParts DEF IInv

(* The streamer passes a quote on, or does nothing but take the message. *)
LEMMA StreamSteps ==
  ASSUME IInv, Stream
  PROVE  IInv' /\ (Quiet \/ Arrives)
<1> DEFINE M == [number : Nat, body : Prices \cup {NotQuote}]
           body == Head(queue).body
           e == [price |-> body, time |-> now]
           h == [at |-> "ready", frame |-> 1, candle |-> 0]
<1>1. TypeOK /\ queue # <<>> /\ queue \in Seq(M) /\ queue' = Tail(queue)
      /\ UNCHANGED <<arrived, dropped, candles, late, sensing, bridging, life, now, mishaps>>
  BY TypeParts DEF Stream, IInv, IntakeOK
<1>2. Head(queue) \in M /\ queue' \in Seq(M)
  <2> HIDE DEF M
  <2> QED
    BY <1>1
<1>3. body \in Prices \cup {NotQuote}
  BY <1>2
<1>4. IntakeOK'
  BY <1>1, <1>2, TypeParts DEF IntakeOK
<1>5. SensingOK' /\ BridgingOK' /\ RestOK'
  BY <1>1, PartsKept, TypeParts DEF RestOK
<1>6. CASE body = NotQuote
  <2>1. UNCHANGED building
    BY <1>1, <1>6 DEF Stream, building
  <2>2. Quiet /\ HandlerInv' /\ BuildingOK'
    BY <1>1, <2>1, QuietSteps, PartsKept, Typed
  <2>3. Sizes'
    BY <1>1, <2>1 DEF IInv, Sizes, building, sensing, bridging
  <2> QED
    BY <1>4, <1>5, <2>2, <2>3, TypeParts DEF IInv
<1>7. CASE body # NotQuote
  <2>1. ticks' = Append(ticks, e) /\ handler' = Append(handler, h) /\ body \in Prices
    BY <1>3, <1>7 DEF Stream, PriceUpdated
  <2>2. e \in Tick /\ h \in Handler
    BY <2>1, Typed, FrameAssumption DEF Tick, Handler, Frame
  <2>3. ticks \in Seq(Tick) /\ handler \in Seq(Handler) /\ Len(handler) = Len(ticks)
    BY Typed
  <2>4. Arrives
    BY <1>1, <2>1 DEF Arrives
  <2> HIDE DEF body, e
  <2>5. h.at = "ready"
    OBVIOUS
  <2> HIDE DEF h
  <2>6. /\ ticks' \in Seq(Tick) /\ handler' \in Seq(Handler)
        /\ Len(ticks') = Len(ticks) + 1 /\ Len(handler') = Len(ticks')
        /\ \A i \in 1..Len(ticks') :
             (i \in 1..Len(ticks) /\ handler'[i] = handler[i]) \/ handler'[i] = h
    BY <2>1, <2>2, <2>3
  <2>7. BuildingOK'
    BY <1>1, <2>6, Typed DEF BuildingOK
  <2>8. HandlerInv'
    BY <1>1, <2>5, <2>6 DEF IInv, HandlerInv, Event
  <2>9. Sizes'
    <3>1. detected <= Len(ticks) /\ detected \in Nat /\ Len(ticks) \in Nat
      BY <1>1, Typed, TypeParts DEF IInv, Sizes, SensingOK
    <3> QED
      BY <1>1, <2>6, <3>1 DEF IInv, Sizes, sensing, bridging
  <2> QED
    BY <1>4, <1>5, <2>4, <2>7, <2>8, <2>9, TypeParts DEF IInv
<1> QED
  BY <1>6, <1>7

(* The detector reads the next event, and sends a signal about it or none. *)
LEMMA DetectSteps ==
  ASSUME IInv, Detect
  PROVE  IInv' /\ Quiet
<1> DEFINE price == ticks[detected + 1].price
           d == Direction(last_price, price)
           e == SignalDetected(d)
           S == [direction : {"BUY", "SELL"}, life : Nat]
<1>1. TypeOK /\ detected \in Nat /\ detected < Len(ticks) /\ detected' = detected + 1
      /\ UNCHANGED <<intake, building, stream, overtaken, life, now, mishaps>>
      /\ last_price' = IF last_price = 0 THEN 0 ELSE price
  BY TypeParts DEF Detect, IInv, SensingOK
<1>2. price \in Prices
  <2>1. detected + 1 \in Event
    BY <1>1, Typed DEF Event
  <2>2. ticks[detected + 1] \in Tick
    BY <2>1, Typed DEF Event
  <2> QED
    BY <2>2 DEF Tick
<1>3. e \in S
  BY <1>1, TypeParts DEF SignalDetected, Direction, RestOK
<1>4. last_price' \in Prices \cup {NoPrice}
  BY <1>1, <1>2, TypeParts DEF SensingOK
<1>5. signals \in Seq(S) /\ bridge \in Seq({"sending", "done", "failed"})
      /\ last_signal \in {"none", "BUY", "SELL"} /\ Len(bridge) = Len(signals)
  BY <1>1, TypeParts DEF SensingOK, BridgingOK, IInv, Sizes
<1>6. \/ last_signal' = d /\ signals' = Append(signals, e) /\ bridge' = Append(bridge, "sending")
      \/ UNCHANGED <<last_signal, signals, bridge>>
  BY DEF Detect
<1>7. d \in {"BUY", "SELL"}
  BY DEF Direction
<1> HIDE DEF e, S, d, price
<1>8. signals' \in Seq(S) /\ bridge' \in Seq({"sending", "done", "failed"})
      /\ last_signal' \in {"none", "BUY", "SELL"} /\ Len(bridge') = Len(signals')
  <2> DEFINE B == {"sending", "done", "failed"}
  <2>1. "sending" \in B /\ bridge \in Seq(B)
    BY <1>5
  <2>2. last_signal' \in {"none", "BUY", "SELL"}
    BY <1>5, <1>6, <1>7
  <2> HIDE DEF B
  <2>3. CASE signals' = Append(signals, e) /\ bridge' = Append(bridge, "sending")
    <3>1. signals' \in Seq(S) /\ Len(signals') = Len(signals) + 1
      BY <1>3, <1>5, <2>3
    <3>2. bridge' \in Seq(B) /\ Len(bridge') = Len(bridge) + 1
      BY <2>1, <2>3
    <3> QED
      BY <1>5, <2>2, <3>1, <3>2 DEF B
  <2> QED
    BY <1>5, <1>6, <2>2, <2>3 DEF B
<1>9. SensingOK' /\ BridgingOK'
  <2>1. stream \in Seq(Nat) /\ overtaken \in SUBSET Nat
    BY <1>1, TypeParts DEF BridgingOK
  <2> QED
    BY <1>1, <1>4, <1>8, <2>1 DEF SensingOK, BridgingOK, S
<1>10. IntakeOK' /\ BuildingOK' /\ RestOK'
  BY <1>1, PartsKept, TypeParts DEF RestOK
<1>11. Quiet /\ HandlerInv'
  BY <1>1, QuietSteps, Typed
<1>12. Sizes'
  <2>1. Len(ticks) \in Nat /\ Len(handler) = Len(ticks) /\ ticks' = ticks /\ handler' = handler
    BY <1>1, Typed DEF building
  <2> QED
    BY <1>1, <1>8, <2>1 DEF Sizes
<1> QED
  BY <1>9, <1>10, <1>11, <1>12, TypeParts DEF IInv

(* The bridge feeds no candle. *)
LEMMA BridgeSteps ==
  ASSUME IInv, NEW s \in 1..Len(signals), BridgeStep(s)
  PROVE  IInv' /\ Quiet
<1>1. TypeOK /\ UNCHANGED <<intake, building, sensing, life, now>> /\ mishaps' \in Nat
  BY PipelineAssumption, TypeParts
     DEF BridgeStep, RedisAppends, BridgeFails, Mishap, IInv, RestOK
<1>2. bridge \in Seq({"sending", "done", "failed"}) /\ Len(bridge) = Len(signals)
      /\ stream \in Seq(Nat) /\ overtaken \in SUBSET Nat /\ s \in Nat /\ Len(signals) \in Nat
  BY <1>1, TypeParts DEF IInv, Sizes, BridgingOK, SensingOK
<1>3. \/ bridge' = [bridge EXCEPT ![s] = "done"]
      \/ bridge' = [bridge EXCEPT ![s] = "failed"]
  BY DEF BridgeStep, RedisAppends, BridgeFails
<1>4. bridge' \in Seq({"sending", "done", "failed"}) /\ Len(bridge') = Len(bridge)
  BY <1>2, <1>3
<1>5. \/ stream' = Append(stream, s)
         /\ overtaken' = overtaken \cup {r \in 1..(s - 1) : bridge[r] = "sending"}
      \/ UNCHANGED <<stream, overtaken>>
  BY DEF BridgeStep, RedisAppends, BridgeFails
<1>6. stream' \in Seq(Nat) /\ overtaken' \in SUBSET Nat
  <2>1. {r \in 1..(s - 1) : bridge[r] = "sending"} \in SUBSET Nat
    BY <1>2
  <2>2. Append(stream, s) \in Seq(Nat)
    BY <1>2
  <2> QED
    BY <1>2, <1>5, <2>1, <2>2
<1>7. BridgingOK'
  BY <1>4, <1>6 DEF BridgingOK
<1>8. IntakeOK' /\ BuildingOK' /\ SensingOK' /\ RestOK'
  BY <1>1, PartsKept, TypeParts DEF RestOK
<1>9. Quiet /\ HandlerInv'
  BY <1>1, QuietSteps, Typed
<1>10. Sizes'
  BY <1>1, <1>2, <1>4 DEF IInv, Sizes, building, sensing
<1> QED
  BY <1>7, <1>8, <1>9, <1>10, TypeParts DEF IInv

(* The clock feeds no candle. *)
LEMMA ElapseSteps ==
  ASSUME IInv, Elapse \/ UNCHANGED vars
  PROVE  IInv' /\ Quiet
<1>1. TypeOK /\ now \in Nat /\ UNCHANGED <<intake, building, sensing, bridging, life, mishaps>>
      /\ (now' = now \/ now' = now + 1)
  BY TypeParts DEF Elapse, vars, IInv, RestOK
<1>2. IntakeOK' /\ BuildingOK' /\ SensingOK' /\ BridgingOK' /\ RestOK'
  BY <1>1, PartsKept, TypeParts DEF RestOK
<1>3. Quiet /\ HandlerInv'
  BY <1>1, QuietSteps
<1>4. Sizes'
  BY <1>1 DEF IInv, Sizes, building, sensing, bridging
<1> QED
  BY <1>2, <1>3, <1>4, TypeParts DEF IInv

(* The process ends: what is not settled is cut. *)
LEMMA RestartSteps ==
  ASSUME IInv, Restart
  PROVE  IInv' /\ Ends
<1> DEFINE Cut(c) == IF c.fate \in {"open", "writing"} THEN [c EXCEPT !.fate = "cut"] ELSE c
           Left(h) == IF h.at = "done" THEN h ELSE [h EXCEPT !.at = "cut"]
           M == [number : Nat, body : Prices \cup {NotQuote}]
           S == [direction : {"BUY", "SELL"}, life : Nat]
<1>1. TypeOK /\ life \in Nat /\ mishaps \in Nat /\ now \in Nat
  BY TypeParts DEF IInv, RestOK
<1>2. /\ queue' = <<>>
      /\ handler' = [i \in 1..Len(handler) |-> Left(handler[i])]
      /\ candles' = [n \in Frame |-> [k \in 1..Len(candles[n]) |-> Cut(candles[n][k])]]
      /\ bridge' = [s \in 1..Len(bridge) |-> IF bridge[s] = "done" THEN "done" ELSE "failed"]
      /\ detected' = Len(ticks) /\ last_price' = NoPrice /\ last_signal' = "none"
      /\ life' = life + 1 /\ mishaps' = mishaps + 1
      /\ UNCHANGED <<arrived, dropped, ticks, late, signals, stream, overtaken, now>>
  BY DEF Restart, Mishap
<1>3. \A c \in Candle : Cut(c) \in Candle /\ Cut(c).time = c.time /\ Cut(c).ticks = c.ticks
        /\ Cut(c).fate = IF c.fate \in {"open", "writing"} THEN "cut" ELSE c.fate
  BY DEF Candle, Fates
<1>4. \A h \in Handler : Left(h) \in Handler
        /\ (IF h.at = "done" THEN Left(h) = h ELSE Left(h).at = "cut")
  BY DEF Handler
<1> HIDE DEF Cut, Left
<1>5. ASSUME NEW n \in Frame
      PROVE  /\ candles'[n] \in Seq(Candle) /\ Len(candles'[n]) = Len(candles[n])
             /\ \A k \in 1..Len(candles[n]) :
                  candles[n][k] \in Candle /\ candles'[n][k] = Cut(candles[n][k])
  <2> DEFINE s == candles[n]
             u == [k \in 1..Len(s) |-> Cut(s[k])]
  <2>1. s \in Seq(Candle) /\ Len(s) \in Nat
    BY Typed
  <2>2. candles'[n] = u
    BY <1>2
  <2>3. \A k \in 1..Len(s) : s[k] \in Candle /\ Cut(s[k]) \in Candle
    BY <1>3, <2>1
  <2> HIDE DEF s
  <2>4. u \in Seq(Candle) /\ Len(u) = Len(s) /\ \A k \in 1..Len(s) : u[k] = Cut(s[k])
    BY <2>1, <2>3
  <2> QED
    BY <2>2, <2>3, <2>4 DEF s
<1>6. candles' \in [Frame -> Seq(Candle)]
  <2>1. candles' = [n \in Frame |-> candles'[n]]
    BY <1>2
  <2> QED
    BY <1>5, <2>1
<1>7. handler' \in Seq(Handler) /\ Len(handler') = Len(handler)
      /\ \A i \in Event : handler'[i] = Left(handler[i])
  <2>1. Len(handler) \in Nat /\ Len(handler) = Len(ticks)
        /\ \A i \in 1..Len(handler) : Left(handler[i]) \in Handler
    BY <1>4, Typed DEF Event
  <2> QED
    BY <1>2, <2>1 DEF Event
<1>8. bridge' \in Seq({"sending", "done", "failed"}) /\ Len(bridge') = Len(bridge)
  <2>1. Len(bridge) \in Nat
    BY <1>1, TypeParts DEF BridgingOK
  <2> QED
    BY <1>2, <2>1
<1>9. Ends
  <2>1. ASSUME NEW n \in Frame, NEW k \in 1..Len(candles[n])
        PROVE  /\ candles'[n][k].time = candles[n][k].time
               /\ candles'[n][k].ticks = candles[n][k].ticks
               /\ candles'[n][k].fate = IF candles[n][k].fate \in {"open", "writing"}
                                        THEN "cut" ELSE candles[n][k].fate
    BY <1>3, <1>5
  <2>2. \A i \in Event : IF handler[i].at = "done" THEN handler'[i] = handler[i]
                                                   ELSE handler'[i].at = "cut"
    BY <1>4, <1>7, Typed
  <2> QED
    BY <1>2, <1>5, <1>7, <2>1, <2>2 DEF Ends
<1>10. HandlerInv'
  <2>1. \A i \in Event : handler'[i].at # "writing"
    BY <1>9 DEF Ends
  <2> QED
    BY <1>2, <2>1 DEF HandlerInv, Event
<1>11. IntakeOK'
  <2>1. <<>> \in Seq([number : Nat, body : Prices \cup {NotQuote}])
    OBVIOUS
  <2> QED
    BY <1>1, <1>2, <2>1, TypeParts DEF IntakeOK
<1>12. BuildingOK'
  BY <1>2, <1>6, <1>7, Typed DEF BuildingOK
<1>13. SensingOK'
  <2>1. signals' \in Seq(S)
    BY <1>1, <1>2, TypeParts DEF SensingOK
  <2> QED
    BY <1>2, <2>1, Typed DEF SensingOK
<1>14. BridgingOK' /\ RestOK'
  BY <1>1, <1>2, <1>8, TypeParts DEF BridgingOK, RestOK
<1>15. Sizes'
  BY <1>2, <1>7, <1>8, Typed DEF IInv, Sizes
<1> QED
  BY <1>9, <1>10, <1>11, <1>12, <1>13, <1>14, <1>15, TypeParts DEF IInv

(* The first state has the types and no handler. *)
LEMMA InitIInv ==
  ASSUME Init
  PROVE  IInv
<1>1. TypeOK
  <2>1. \A S : <<>> \in Seq(S)
    OBVIOUS
  <2>2. IntakeOK
    BY <2>1 DEF Init, IntakeOK
  <2>3. SensingOK
    BY <2>1 DEF Init, SensingOK
  <2>4. BridgingOK /\ RestOK
    BY <2>1 DEF Init, BridgingOK, RestOK
  <2>5. BuildingOK
    BY <2>1 DEF Init, BuildingOK
  <2> QED
    BY <2>2, <2>3, <2>4, <2>5, TypeParts
<1>2. Sizes /\ HandlerInv
  BY DEF Init, Sizes, HandlerInv, Event
<1> QED
  BY <1>1, <1>2 DEF IInv

(* Every step keeps the types, and is one of the four. *)
LEMMA Steps ==
  ASSUME IInv, [Next]_vars
  PROVE  IInv' /\ (Quiet \/ Arrives \/ Ends \/ \E i \in Event : Feeds(i))
<1>1. CASE \E body \in Prices \cup {NotQuote} : Receive(body)
  BY <1>1, ReceiveSteps
<1>2. CASE Stream
  BY <1>2, StreamSteps
<1>3. CASE Detect
  BY <1>3, DetectSteps
<1>4. CASE \E i \in 1..Len(ticks) : HandlerStep(i)
  BY <1>4, HandlerSteps DEF Event
<1>5. CASE \E s \in 1..Len(signals) : BridgeStep(s)
  BY <1>5, BridgeSteps
<1>6. CASE Restart
  BY <1>6, RestartSteps
<1>7. CASE Elapse \/ UNCHANGED vars
  BY <1>7, ElapseSteps
<1> QED
  BY <1>1, <1>2, <1>3, <1>4, <1>5, <1>6, <1>7 DEF Next

(* The strengthened invariant holds in every state. *)
LEMMA Invariance == Spec => []IInv
<1>1. IInv /\ [Next]_vars => IInv'
  BY Steps
<1> QED
  BY <1>1, InitIInv, PTL DEF Spec

(* The types of the price pipeline, for any timeframes, prices and bounds.  *)
THEOREM TypesKept == Spec => []TypeOK
<1>1. IInv => TypeOK
  BY DEF IInv
<1> QED
  BY <1>1, Invariance, PTL

-----------------------------------------------------------------------------
(* The queue numbers its messages without a gap, up to the last arrival.    *)
QueueInv ==
  /\ Len(queue) <= QueueLimit
  /\ \A k \in 1..Len(queue) : queue[k].number = arrived - Len(queue) + k
  /\ \A d \in dropped : d + QueueLimit <= arrived

(* What a step does to the queue. *)
LEMMA QueueSteps ==
  ASSUME [Next]_vars
  PROVE  \/ \E body \in Prices \cup {NotQuote} : Put(body)
         \/ queue # <<>> /\ queue' = Tail(queue) /\ UNCHANGED <<arrived, dropped>>
         \/ queue' = <<>> /\ UNCHANGED <<arrived, dropped>>
         \/ UNCHANGED <<queue, arrived, dropped>>
BY DEF Next, vars, intake, Receive, Stream, Detect, HandlerStep, StartHandler, StoreCandle,
       PersistReturns, PersistFails, BridgeStep, RedisAppends, BridgeFails, Restart, Elapse

(* Every step keeps the promise of the queue. *)
LEMMA QueueKept ==
  ASSUME IInv, QueueInv, [Next]_vars
  PROVE  QueueInv'
<1> DEFINE M == [number : Nat, body : Prices \cup {NotQuote}]
<1>1. queue \in Seq(M) /\ Len(queue) \in Nat /\ arrived \in Nat /\ QueueLimit \in Nat \ {0}
      /\ dropped \in SUBSET Nat
  BY TypeParts, PipelineAssumption DEF IInv, IntakeOK
<1> HIDE DEF M
<1>2. ASSUME NEW body \in Prices \cup {NotQuote}, Put(body) PROVE QueueInv'
  <2> DEFINE full == Len(queue) >= QueueLimit
             kept == IF full THEN Tail(queue) ELSE queue
             m == [number |-> arrived + 1, body |-> body]
  <2>1. /\ \A d \in dropped' : d \in dropped \/ (full /\ d = Head(queue).number)
        /\ queue' = Append(kept, m) /\ arrived' = arrived + 1
    BY <1>2, PutTyped, TypeParts DEF IInv
  <2>2. full => Len(queue) = QueueLimit /\ queue # <<>> /\ Head(queue) = queue[1]
    BY <1>1 DEF QueueInv
  <2>3. full => Head(queue).number + QueueLimit <= arrived'
    BY <1>1, <2>1, <2>2 DEF QueueInv
  <2>4. /\ Len(kept) \in Nat /\ Len(kept) < QueueLimit
        /\ \A k \in 1..Len(kept) : kept[k].number = arrived - Len(kept) + k
    <3>1. CASE full
      <4>1. Len(kept) = Len(queue) - 1 /\ \A k \in 1..Len(kept) : kept[k] = queue[k + 1]
        BY <1>1, <2>2, <3>1
      <4> QED
        BY <1>1, <2>2, <3>1, <4>1 DEF QueueInv
    <3>2. CASE ~full
      BY <1>1, <3>2 DEF QueueInv
    <3> QED
      BY <3>1, <3>2
  <2>5. m.number = arrived + 1
    OBVIOUS
  <2>6. kept \in Seq(M)
    BY <1>1, <2>2
  <2> HIDE DEF kept, m
  <2>7. /\ Len(queue') = Len(kept) + 1 /\ queue'[Len(kept) + 1] = m
        /\ \A k \in 1..Len(kept) : queue'[k] = kept[k]
    <3>1. Append(kept, m)[Len(kept) + 1] = m /\ Len(Append(kept, m)) = Len(kept) + 1
      BY <2>6
    <3> QED
      BY <2>1, <2>6, <3>1
  <2>t. arrived' = arrived + 1 /\ arrived' \in Nat
    BY <1>1, <2>1
  <2>8. ASSUME NEW k \in 1..Len(queue')
        PROVE  queue'[k].number = arrived' - Len(queue') + k
    <3>1. CASE k = Len(kept) + 1
      BY <1>1, <2>t, <2>4, <2>5, <2>7, <3>1
    <3>2. CASE k \in 1..Len(kept)
      <4>1. queue'[k].number = arrived - Len(kept) + k
        BY <2>4, <2>7, <3>2
      <4> QED
        BY <1>1, <2>t, <2>4, <2>7, <3>2, <4>1
    <3> QED
      BY <2>4, <2>7, <3>1, <3>2
  <2>9. ASSUME NEW d \in dropped' PROVE d + QueueLimit <= arrived'
    <3>1. CASE d \in dropped
      BY <1>1, <2>t, <3>1 DEF QueueInv
    <3>2. CASE full /\ d = Head(queue).number
      BY <2>3, <3>2
    <3> QED
      BY <2>1, <3>1, <3>2
  <2> QED
    BY <1>1, <2>4, <2>7, <2>8, <2>9 DEF QueueInv
<1>3. CASE queue # <<>> /\ queue' = Tail(queue) /\ UNCHANGED <<arrived, dropped>>
  <2>1. Len(queue') = Len(queue) - 1 /\ \A k \in 1..Len(queue') : queue'[k] = queue[k + 1]
    BY <1>1, <1>3
  <2> QED
    BY <1>1, <1>3, <2>1 DEF QueueInv
<1>4. CASE queue' = <<>> /\ UNCHANGED <<arrived, dropped>>
  BY <1>1, <1>4 DEF QueueInv
<1>5. CASE UNCHANGED <<queue, arrived, dropped>>
  BY <1>5 DEF QueueInv
<1> QED
  BY <1>2, <1>3, <1>4, <1>5, QueueSteps

(* A full queue never loses one of its newest messages (queue_manager.py,  *)
(* drop_oldest), for any limit and number of messages.                     *)
THEOREM QueueKeepsNewest == Spec => []NewestKept
<1>1. Init => QueueInv
  BY PipelineAssumption DEF Init, QueueInv
<1>2. IInv /\ QueueInv /\ [Next]_vars => QueueInv'
  BY QueueKept
<1>3. QueueInv => NewestKept
  BY DEF QueueInv, NewestKept
<1> QED
  BY <1>1, <1>2, <1>3, Invariance, PTL DEF Spec

-----------------------------------------------------------------------------
(* The detector has read an event before it has a last price.               *)
SensedInv ==
  /\ last_price # NoPrice => detected > 0
  /\ BlindOnlyAtZero

(* What a step does to the detector. *)
LEMMA SensingSteps ==
  ASSUME [Next]_vars
  PROVE  \/ Detect
         \/ last_price' = NoPrice
         \/ /\ UNCHANGED <<detected, last_price>>
            /\ ticks' = ticks \/ ticks' = Append(ticks, PriceUpdated(Head(queue).body))
BY DEF Next, vars, building, sensing, Receive, Stream, HandlerStep, StartHandler, StoreCandle,
       PersistReturns, PersistFails, BridgeStep, RedisAppends, BridgeFails, Restart, Elapse

(* Every step keeps the promise of the detector. *)
LEMMA SensedKept ==
  ASSUME IInv, SensedInv, [Next]_vars
  PROVE  SensedInv'
<1>1. ticks \in Seq(Tick) /\ Len(ticks) \in Nat /\ detected \in Nat /\ detected <= Len(ticks)
  BY Typed, TypeParts DEF IInv, Sizes, SensingOK
<1>2. CASE Detect
  <2>1. detected' = detected + 1 /\ ticks' = ticks
        /\ last_price' = IF last_price = 0 THEN 0 ELSE ticks[detected + 1].price
    BY <1>2 DEF Detect, building
  <2> QED
    BY <1>1, <2>1 DEF SensedInv, BlindOnlyAtZero
<1>3. CASE last_price' = NoPrice
  BY <1>3 DEF SensedInv, BlindOnlyAtZero
<1>4. CASE /\ UNCHANGED <<detected, last_price>>
           /\ ticks' = ticks \/ ticks' = Append(ticks, PriceUpdated(Head(queue).body))
  <2> DEFINE e == PriceUpdated(Head(queue).body)
  <2>1. \A i \in 1..Len(ticks) : Append(ticks, e)[i] = ticks[i]
    <3> HIDE DEF e
    <3> QED
      BY <1>1
  <2>2. \A i \in 1..Len(ticks) : ticks'[i] = ticks[i]
    BY <1>4, <2>1
  <2> QED
    BY <1>1, <1>4, <2>2 DEF SensedInv, BlindOnlyAtZero
<1> QED
  BY <1>2, <1>3, <1>4, SensingSteps

(* Signals are computed from the last quote, unless it was without prices  *)
(* (signal_detector.py), for any prices and threshold.                     *)
THEOREM ComparesWithLast == Spec => []BlindOnlyAtZero
<1>1. Init => SensedInv
  BY DEF Init, SensedInv, BlindOnlyAtZero
<1>2. IInv /\ SensedInv /\ [Next]_vars => SensedInv'
  BY SensedKept
<1>3. SensedInv => BlindOnlyAtZero
  BY DEF SensedInv
<1> QED
  BY <1>1, <1>2, <1>3, Invariance, PTL DEF Spec

-----------------------------------------------------------------------------
(* Signals alternate within a run of the process, and the stream has them  *)
(* in their order, but for those a later one overtook.                     *)
Alternating ==
  /\ \A s \in 1..Len(signals) :
       /\ signals[s].life <= life
       /\ s = Len(signals) /\ signals[s].life = life => last_signal = signals[s].direction
  /\ \A r, s \in 1..Len(signals) : r <= s => signals[r].life <= signals[s].life
  /\ \A r, s \in 1..Len(signals) :
       s = r + 1 /\ signals[r].life = signals[s].life => signals[r].direction # signals[s].direction

Delivered ==
  /\ \A p \in 1..Len(stream) : stream[p] \in 1..Len(signals) /\ bridge[stream[p]] = "done"
  /\ \A s \in 1..Len(signals) : bridge[s] = "done" => \E p \in 1..Len(stream) : stream[p] = s
  /\ \A p, q \in 1..Len(stream) : p < q => stream[p] # stream[q]

Overtaking ==
  /\ \A r, s \in 1..Len(signals) :
       r < s /\ bridge[s] = "done" /\ bridge[r] = "sending" => r \in overtaken
  /\ \A p, q \in 1..Len(stream) : p < q /\ stream[p] > stream[q] => stream[q] \in overtaken

StreamInv == Alternating /\ Delivered /\ Overtaking

Signal == [direction : {"BUY", "SELL"}, life : Nat]

(* What a step does to signals and stream. *)
Signals(d) ==
  /\ signals' = Append(signals, SignalDetected(d)) /\ bridge' = Append(bridge, "sending")
  /\ last_signal # d /\ last_signal' = d
  /\ UNCHANGED <<stream, overtaken, life>>

GivesUp(s) ==
  /\ bridge[s] = "sending" /\ bridge' = [bridge EXCEPT ![s] = "failed"]
  /\ UNCHANGED <<signals, last_signal, stream, overtaken, life>>

Forgets ==
  /\ bridge' = [s \in 1..Len(bridge) |-> IF bridge[s] = "done" THEN "done" ELSE "failed"]
  /\ life' = life + 1
  /\ UNCHANGED <<signals, stream, overtaken>>

(* What a step does to signals, bridge and stream. *)
LEMMA SignalSteps ==
  ASSUME [Next]_vars
  PROVE  \/ \E d \in {"BUY", "SELL"} : Signals(d)
         \/ \E s \in 1..Len(signals) : RedisAppends(s) \/ GivesUp(s)
         \/ Forgets
         \/ UNCHANGED <<signals, last_signal, bridge, stream, overtaken, life>>
<1>1. CASE Detect
  BY <1>1 DEF Detect, Fires, Direction, Signals
<1>2. CASE \E s \in 1..Len(signals) : BridgeStep(s)
  BY <1>2 DEF BridgeStep, BridgeFails, GivesUp, sensing
<1>3. CASE Restart
  BY <1>3 DEF Restart, Forgets
<1>4. CASE UNCHANGED <<sensing, bridging, life>>
  BY <1>4 DEF sensing, bridging
<1>5. CASE UNCHANGED vars
  BY <1>4, <1>5 DEF vars
<1>6. CASE (\E i \in 1..Len(ticks) : HandlerStep(i)) \/ Stream \/ Elapse
           \/ \E body \in Prices \cup {NotQuote} : Receive(body)
  BY <1>4, <1>6 DEF HandlerStep, StartHandler, StoreCandle, PersistReturns, PersistFails,
     Stream, Elapse, Receive
<1> QED
  BY <1>1, <1>2, <1>3, <1>5, <1>6 DEF Next

(* The types of signals, bridge and stream, one by one. *)
LEMMA StreamTyped ==
  ASSUME IInv
  PROVE  /\ signals \in Seq(Signal) /\ Len(signals) \in Nat /\ Len(bridge) = Len(signals)
         /\ bridge \in Seq({"sending", "done", "failed"})
         /\ stream \in Seq(Nat) /\ Len(stream) \in Nat /\ life \in Nat
         /\ \A s \in 1..Len(signals) : signals[s].life \in Nat
                                       /\ bridge[s] \in {"sending", "done", "failed"}
         /\ \A p \in 1..Len(stream) : stream[p] \in Nat
<1>1. signals \in Seq(Signal) /\ bridge \in Seq({"sending", "done", "failed"})
      /\ stream \in Seq(Nat) /\ life \in Nat /\ Len(bridge) = Len(signals)
  BY TypeParts DEF IInv, Sizes, SensingOK, BridgingOK, RestOK, Signal
<1>2. \A s \in 1..Len(signals) : signals[s] \in Signal
  BY <1>1
<1>3. \A s \in 1..Len(signals) : signals[s].life \in Nat
  BY <1>2 DEF Signal
<1>4. \A s \in 1..Len(signals) : bridge[s] \in {"sending", "done", "failed"}
  BY <1>1
<1> QED
  BY <1>1, <1>3, <1>4

(* A new signal keeps the promises of the stream. *)
LEMMA SignalKept ==
  ASSUME IInv, StreamInv, NEW d \in {"BUY", "SELL"}, Signals(d)
  PROVE  StreamInv'
<1> DEFINE e == SignalDetected(d)
           L == Len(signals)
<1>1. /\ signals' = Append(signals, e) /\ bridge' = Append(bridge, "sending")
      /\ last_signal # d /\ last_signal' = d /\ UNCHANGED <<stream, overtaken, life>>
  BY DEF Signals
<1>2. e \in Signal /\ e.life = life /\ e.direction = d
  BY StreamTyped DEF SignalDetected, Signal
<1> HIDE DEF e
<1>3. /\ Len(signals') = L + 1 /\ signals'[L + 1] = e
      /\ \A s \in 1..L : signals'[s] = signals[s]
  BY <1>1, <1>2, StreamTyped
<1>4. bridge'[L + 1] = "sending" /\ \A s \in 1..L : bridge'[s] = bridge[s]
  BY <1>1, StreamTyped
<1>t. /\ L \in Nat /\ life \in Nat /\ \A s \in 1..L : signals[s].life \in Nat
      /\ \A s \in 1..(L + 1) : s \in 1..L \/ s = L + 1
  BY StreamTyped
<1> HIDE DEF L
<1>5. Alternating'
  <2>1. \A s \in 1..L : signals[s].life <= life
        /\ (s = L /\ signals[s].life = life => last_signal = signals[s].direction)
    BY DEF StreamInv, Alternating, L
  <2>2. \A s \in 1..(L + 1) : signals'[s].life \in Nat /\ signals'[s].life <= life
    BY <1>2, <1>3, <1>t, <2>1
  <2>3. \A r, s \in 1..(L + 1) : r <= s => signals'[r].life <= signals'[s].life
    <3> TAKE r, s \in 1..(L + 1)
    <3>1. CASE s = L + 1
      BY <1>2, <1>3, <2>2, <3>1
    <3>2. CASE s \in 1..L /\ r \in 1..L
      BY <1>3, <3>2 DEF StreamInv, Alternating, L
    <3> QED
      BY <1>t, <3>1, <3>2
  <2>4. \A r, s \in 1..(L + 1) : s = r + 1 /\ signals'[r].life = signals'[s].life
                                 => signals'[r].direction # signals'[s].direction
    <3> TAKE r, s \in 1..(L + 1)
    <3>1. CASE s = L + 1
      BY <1>1, <1>2, <1>3, <1>t, <2>1, <3>1
    <3>2. CASE s \in 1..L /\ r \in 1..L
      BY <1>3, <3>2 DEF StreamInv, Alternating, L
    <3> QED
      BY <1>t, <3>1, <3>2
  <2>5. \A s \in 1..(L + 1) : s = L + 1 => last_signal' = signals'[s].direction
    BY <1>1, <1>2, <1>3
  <2>6. \A s \in 1..Len(signals') :
          /\ signals'[s].life <= life'
          /\ s = Len(signals') /\ signals'[s].life = life' => last_signal' = signals'[s].direction
    BY <1>1, <1>3, <2>2, <2>5
  <2>7. Len(signals') = L + 1
    BY <1>3
  <2> QED
    BY <2>3, <2>4, <2>6, <2>7 DEF Alternating
<1>6. Delivered'
  <2>1. \A p \in 1..Len(stream) : stream[p] \in 1..L /\ bridge[stream[p]] = "done"
    BY DEF StreamInv, Delivered, L
  <2>2. \A p \in 1..Len(stream) : stream[p] \in 1..(L + 1) /\ bridge'[stream[p]] = "done"
    BY <1>4, <1>t, <2>1
  <2>3. \A s \in 1..(L + 1) : bridge'[s] = "done" => \E p \in 1..Len(stream) : stream[p] = s
    BY <1>4, <1>t DEF StreamInv, Delivered, L
  <2> QED
    BY <1>1, <1>3, <2>2, <2>3 DEF StreamInv, Delivered
<1>7. Overtaking'
  <2>1. \A r, s \in 1..(L + 1) :
          r < s /\ bridge'[s] = "done" /\ bridge'[r] = "sending" => r \in overtaken
    BY <1>4, <1>t DEF StreamInv, Overtaking, L
  <2> QED
    BY <1>1, <1>3, <2>1 DEF StreamInv, Overtaking
<1> QED
  BY <1>5, <1>6, <1>7 DEF StreamInv

(* So does a signal that Redis takes. *)
LEMMA AppendKept ==
  ASSUME IInv, StreamInv, NEW s \in 1..Len(signals), RedisAppends(s)
  PROVE  StreamInv'
<1> DEFINE N == Len(stream)
<1>1. /\ bridge[s] = "sending" /\ bridge' = [bridge EXCEPT ![s] = "done"]
      /\ stream' = Append(stream, s)
      /\ overtaken' = overtaken \cup {r \in 1..(s - 1) : bridge[r] = "sending"}
      /\ UNCHANGED <<signals, last_signal, life>>
  BY DEF RedisAppends, sensing
<1>2. bridge'[s] = "done" /\ \A r \in 1..Len(signals) : r # s => bridge'[r] = bridge[r]
  BY <1>1, StreamTyped
<1>3. /\ N \in Nat /\ Len(stream') = N + 1 /\ stream'[N + 1] = s
      /\ \A p \in 1..N : stream'[p] = stream[p] /\ stream[p] \in Nat
      /\ \A p \in 1..(N + 1) : p \in 1..N \/ p = N + 1
  BY <1>1, StreamTyped
<1>t. s \in Nat /\ Len(signals) \in Nat /\ overtaken \subseteq overtaken'
  BY <1>1, StreamTyped
<1>4. \A p \in 1..N : stream[p] \in 1..Len(signals) /\ bridge[stream[p]] = "done" /\ stream[p] # s
  BY <1>1 DEF StreamInv, Delivered
<1>5. Alternating'
  BY <1>1 DEF StreamInv, Alternating
<1> HIDE DEF N
<1>6. Delivered'
  <2>1. \A p \in 1..(N + 1) : stream'[p] \in 1..Len(signals) /\ bridge'[stream'[p]] = "done"
    BY <1>2, <1>3, <1>4
  <2>2. ASSUME NEW r \in 1..Len(signals), bridge'[r] = "done"
        PROVE  \E p \in 1..(N + 1) : stream'[p] = r
    <3>1. CASE r = s
      BY <1>3, <3>1
    <3>2. CASE r # s
      <4>1. PICK p \in 1..N : stream[p] = r
        BY <1>2, <2>2, <3>2 DEF StreamInv, Delivered, N
      <4> QED
        BY <1>3, <4>1
    <3> QED
      BY <3>1, <3>2
  <2>3. \A p, q \in 1..(N + 1) : p < q => stream'[p] # stream'[q]
    <3> TAKE p, q \in 1..(N + 1)
    <3>1. CASE q = N + 1
      BY <1>3, <1>4, <3>1
    <3>2. CASE p \in 1..N /\ q \in 1..N
      BY <1>3, <3>2 DEF StreamInv, Delivered, N
    <3> QED
      BY <1>3, <3>1, <3>2
  <2> QED
    BY <1>1, <1>3, <2>1, <2>2, <2>3 DEF Delivered
<1>7. Overtaking'
  <2>1. ASSUME NEW r \in 1..Len(signals), NEW u \in 1..Len(signals),
               r < u, bridge'[u] = "done", bridge'[r] = "sending"
        PROVE  r \in overtaken'
    <3>1. r # s /\ bridge[r] = "sending"
      BY <1>2, <2>1
    <3>2. CASE u = s
      BY <1>1, <2>1, <3>1, <3>2
    <3>3. CASE u # s
      BY <1>2, <1>t, <2>1, <3>1, <3>3 DEF StreamInv, Overtaking
    <3> QED
      BY <3>2, <3>3
  <2>2. ASSUME NEW p \in 1..(N + 1), NEW q \in 1..(N + 1), p < q, stream'[p] > stream'[q]
        PROVE  stream'[q] \in overtaken'
    <3>1. CASE q = N + 1
      <4>1. p \in 1..N /\ stream'[p] = stream[p] /\ stream[p] > s
        BY <1>3, <2>2, <3>1
      <4>2. stream[p] \in 1..Len(signals) /\ bridge[stream[p]] = "done"
        BY <1>4, <4>1
      <4>3. s \in overtaken
        BY <1>1, <1>t, <4>1, <4>2 DEF StreamInv, Overtaking
      <4> QED
        BY <1>3, <1>t, <3>1, <4>3
    <3>2. CASE p \in 1..N /\ q \in 1..N
      BY <1>3, <1>t, <2>2, <3>2 DEF StreamInv, Overtaking, N
    <3> QED
      BY <1>3, <2>2, <3>1, <3>2
  <2> QED
    BY <1>1, <1>3, <2>1, <2>2 DEF Overtaking
<1> QED
  BY <1>5, <1>6, <1>7 DEF StreamInv

(* Every step keeps the promises of the stream. *)
LEMMA StreamKept ==
  ASSUME IInv, StreamInv, [Next]_vars
  PROVE  StreamInv'
<1>1. ASSUME NEW s \in 1..Len(signals), GivesUp(s) PROVE StreamInv'
  <2>1. /\ bridge[s] = "sending" /\ bridge'[s] = "failed"
        /\ \A r \in 1..Len(signals) : r # s => bridge'[r] = bridge[r]
        /\ UNCHANGED <<signals, last_signal, stream, overtaken, life>>
    BY <1>1, StreamTyped DEF GivesUp
  <2>2. \A r \in 1..Len(signals) : /\ bridge'[r] = "done" <=> bridge[r] = "done"
                                   /\ bridge'[r] = "sending" => bridge[r] = "sending"
    BY <2>1
  <2>3. Alternating'
    BY <2>1 DEF StreamInv, Alternating
  <2>4. Delivered'
    BY <2>1, <2>2 DEF StreamInv, Delivered
  <2>5. Overtaking'
    BY <2>1, <2>2 DEF StreamInv, Overtaking
  <2> QED
    BY <2>3, <2>4, <2>5 DEF StreamInv
<1>2. CASE Forgets
  <2>1. /\ UNCHANGED <<signals, stream, overtaken>> /\ life' = life + 1
        /\ \A r \in 1..Len(signals) : bridge'[r] = IF bridge[r] = "done" THEN "done" ELSE "failed"
    BY <1>2, StreamTyped DEF Forgets
  <2>2. \A r \in 1..Len(signals) : signals[r].life < life'
    BY <2>1, StreamTyped DEF StreamInv, Alternating
  <2>3. Alternating'
    BY <2>1, <2>2, StreamTyped DEF StreamInv, Alternating
  <2>4. Delivered'
    BY <2>1 DEF StreamInv, Delivered
  <2>5. Overtaking'
    BY <2>1 DEF StreamInv, Overtaking
  <2> QED
    BY <2>3, <2>4, <2>5 DEF StreamInv
<1>3. CASE UNCHANGED <<signals, last_signal, bridge, stream, overtaken, life>>
  BY <1>3 DEF StreamInv, Alternating, Delivered, Overtaking
<1> QED
  BY <1>1, <1>2, <1>3, SignalKept, AppendKept, SignalSteps

(* Neighbours of equal direction have a reason between them: the next signal *)
(* after the first of them has the other direction.                          *)
LEMMA NeighboursAlternate ==
  ASSUME IInv, StreamInv
  PROVE  StreamAlternates
<1> SUFFICES ASSUME NEW p \in 1..(Len(stream) - 1),
                    signals[stream[p]].direction = signals[stream[p + 1]].direction
             PROVE  \/ stream[p] \in overtaken \/ stream[p + 1] \in overtaken
                    \/ signals[stream[p]].life # signals[stream[p + 1]].life
                    \/ \E s \in stream[p]..stream[p + 1] : bridge[s] = "failed" \/ s \in overtaken
  BY DEF StreamAlternates
<1> DEFINE a == stream[p]
           b == stream[p + 1]
<1>1. /\ p \in 1..Len(stream) /\ p + 1 \in 1..Len(stream) /\ Len(stream) \in Nat
      /\ a \in 1..Len(signals) /\ b \in 1..Len(signals) /\ Len(signals) \in Nat
      /\ bridge[b] = "done" /\ a # b
  <2>1. Len(stream) \in Nat /\ Len(signals) \in Nat
    BY StreamTyped
  <2>2. p \in 1..Len(stream) /\ p + 1 \in 1..Len(stream) /\ p < p + 1
    BY <2>1
  <2>3. \A r \in 1..Len(stream) : stream[r] \in 1..Len(signals) /\ bridge[stream[r]] = "done"
    BY DEF StreamInv, Delivered
  <2>4. \A r, s \in 1..Len(stream) : r < s => stream[r] # stream[s]
    BY DEF StreamInv, Delivered
  <2> QED
    BY <2>1, <2>2, <2>3, <2>4
<1>2. a > b => b \in overtaken
  BY <1>1 DEF StreamInv, Overtaking
<1>3. ASSUME a < b, signals[a].life = signals[b].life, a \notin overtaken
      PROVE  \E s \in a..b : bridge[s] = "failed" \/ s \in overtaken
  <2> DEFINE s == a + 1
  <2> HIDE DEF a, b
  <2>1. s \in 1..Len(signals) /\ s \in a..b /\ a <= s /\ s <= b
    BY <1>1, <1>3
  <2>2. signals[s].life = signals[a].life
    <3>1. signals[a].life <= signals[s].life /\ signals[s].life <= signals[b].life
      BY <1>1, <2>1 DEF StreamInv, Alternating
    <3>2. signals[a].life \in Nat /\ signals[s].life \in Nat
      BY <1>1, <2>1, StreamTyped
    <3> QED
      BY <1>3, <3>1, <3>2
  <2>3. signals[a].direction # signals[s].direction
    BY <1>1, <2>1, <2>2 DEF StreamInv, Alternating
  <2>4. s # b
    BY <2>3 DEF a, b
  <2>5. s < b
    BY <1>1, <1>3, <2>1, <2>4
  <2>6. CASE bridge[s] = "sending"
    <3>1. s \in overtaken
      BY <1>1, <2>1, <2>5, <2>6 DEF StreamInv, Overtaking
    <3> QED
      BY <2>1, <3>1
  <2>7. CASE bridge[s] = "done"
    <3>1. PICK q \in 1..Len(stream) : stream[q] = s
      BY <2>1, <2>7 DEF StreamInv, Delivered
    <3>2. q # p /\ q # p + 1
      BY <1>1, <1>3, <2>4, <3>1 DEF a, b
    <3>3. CASE q < p
      <4>1. stream[q] > stream[p]
        BY <1>1, <3>1 DEF a
      <4>2. stream[p] \in overtaken
        BY <1>1, <3>3, <4>1 DEF StreamInv, Overtaking
      <4> QED
        BY <1>3, <4>2 DEF a
    <3>4. CASE q > p + 1
      <4>1. stream[p + 1] > stream[q]
        BY <1>1, <2>1, <2>5, <3>1 DEF b
      <4>2. stream[q] \in overtaken
        BY <1>1, <3>4, <4>1 DEF StreamInv, Overtaking
      <4> QED
        BY <2>1, <3>1, <4>2
    <3> QED
      BY <1>1, <3>2, <3>3, <3>4
  <2>8. CASE bridge[s] = "failed"
    BY <2>1, <2>8
  <2> QED
    BY <2>1, <2>6, <2>7, <2>8, StreamTyped
<1>4. a > b \/ a < b
  BY <1>1
<1> QED
  BY <1>2, <1>3, <1>4

(* Neighbours of the Redis stream alternate, unless one was overtaken, one *)
(* between them failed or the process started anew (signal_detector.py and *)
(* the bridge), for any number of signals.                                 *)
THEOREM StreamInOrder == Spec => []StreamAlternates
<1>1. Init => StreamInv
  BY DEF Init, StreamInv, Alternating, Delivered, Overtaking
<1>2. IInv /\ StreamInv /\ [Next]_vars => StreamInv'
  BY StreamKept
<1>3. IInv /\ StreamInv => StreamAlternates
  BY NeighboursAlternate
<1> QED
  BY <1>1, <1>2, <1>3, Invariance, PTL DEF Spec

-----------------------------------------------------------------------------
(* Events are in the order of the clock, and handlers start in this order.  *)
TimeInv ==
  /\ \A i \in Event : ticks[i].time <= now
  /\ \A i, j \in Event : i <= j => ticks[i].time <= ticks[j].time
  /\ \A i, j \in Event :
       j < i /\ handler[i].at \in {"writing", "done"} => handler[j].at # "ready"

(* Event i is the p-th of candle k of frame n. *)
At(n, k, p, i) ==
  k \in 1..Len(candles[n]) /\ p \in 1..Len(candles[n][k].ticks) /\ candles[n][k].ticks[p] = i

TimeOf(n, k) == candles[n][k].time
IsOpen(n, k) == k \in 1..Len(candles[n]) /\ candles[n][k].fate = "open"
IsClosed(n, k) == k \in 1..Len(candles[n]) /\ candles[n][k].fate \in ClosedFates
LastOpen(n) == IsOpen(n, Len(candles[n]))

(* What is in the candles of frame n was fed to it, and the first event of *)
(* a candle gave it its time.                                              *)
TickInv(n) ==
  /\ \A k \in 1..Len(candles[n]) : \E i : At(n, k, 1, i)
  /\ \A k, p, i : At(n, k, p, i) =>
       /\ i \in Event /\ ~Pending(i, n)
       /\ IsOpen(n, k) => Passed(i, n)
       /\ p = 1 => TimeOf(n, k) = Bucket(n, i)

(* A step keeps the places of all events, or puts event i in one more.      *)
SamePlaces(n) ==
  /\ Len(candles'[n]) = Len(candles[n])
  /\ \A k, p, i : At(n, k, p, i)' <=> At(n, k, p, i)
  /\ \A k \in 1..Len(candles[n]) : TimeOf(n, k)' = TimeOf(n, k)
  /\ \A k : (IsOpen(n, k)' => IsOpen(n, k)) /\ (IsClosed(n, k)' => IsClosed(n, k))

NewPlace(n, i, k0, p0) ==
  /\ \A k, p, j : At(n, k, p, j)' <=> (At(n, k, p, j) \/ (k = k0 /\ p = p0 /\ j = i))
  /\ \A p, j : At(n, k0, p, j) => p < p0
  /\ \A k \in 1..Len(candles[n]) : TimeOf(n, k)' = TimeOf(n, k)
  /\ \A k : k # k0 /\ IsOpen(n, k)' => IsOpen(n, k)
  /\ IsOpen(n, k0)' /\ k0 = Len(candles'[n])
  /\ \/ /\ IsOpen(n, k0) /\ k0 = Len(candles[n]) /\ ~(Bucket(n, i) > TimeOf(n, k0))
        /\ \A k : IsClosed(n, k)' => IsClosed(n, k)
     \/ /\ p0 = 1 /\ k0 = Len(candles[n]) + 1 /\ TimeOf(n, k0)' = Bucket(n, i)
        /\ IsOpen(n, Len(candles[n])) => Bucket(n, i) > TimeOf(n, Len(candles[n]))
        /\ \A k : IsClosed(n, k)' => \/ IsClosed(n, k)
                                     \/ k = Len(candles[n]) /\ IsOpen(n, Len(candles[n]))

(* A new event changes nothing about the others. *)
LEMMA ArrivesView ==
  ASSUME IInv, Arrives
  PROVE  /\ Len(ticks') = Len(ticks) + 1 /\ Event' = Event \cup {Len(ticks) + 1}
         /\ \A i \in Event :
              /\ ticks'[i] = ticks[i] /\ handler'[i] = handler[i]
              /\ \A n \in Frame : /\ Pending(i, n)' <=> Pending(i, n)
                                  /\ Passed(i, n)' <=> Passed(i, n)
                                  /\ Bucket(n, i)' = Bucket(n, i)
         /\ ticks'[Len(ticks) + 1].time = now
         /\ handler'[Len(ticks) + 1].at = "ready"
         /\ UNCHANGED <<candles, late, now>>
<1> DEFINE L == Len(ticks)
           h == [at |-> "ready", frame |-> 1, candle |-> 0]
<1>1. PICK price \in Prices : ticks' = Append(ticks, [price |-> price, time |-> now])
  BY DEF Arrives
<1> DEFINE e == [price |-> price, time |-> now]
<1>2. handler' = Append(handler, h) /\ UNCHANGED <<candles, late, now>>
  BY DEF Arrives
<1>3. e.time = now /\ h.at = "ready"
  OBVIOUS
<1>4. ticks' = Append(ticks, e)
  BY <1>1
<1> HIDE DEF e, h
<1>5. /\ Len(ticks') = L + 1 /\ ticks'[L + 1] = e /\ L \in Nat
      /\ \A i \in 1..L : ticks'[i] = ticks[i]
  BY <1>4, Typed
<1>6. handler'[L + 1] = h /\ \A i \in 1..L : handler'[i] = handler[i]
  BY <1>2, Typed
<1>7. Event' = Event \cup {L + 1}
  BY <1>5 DEF Event
<1> QED
  BY <1>2, <1>3, <1>5, <1>6, <1>7 DEF Event, Pending, Passed, Bucket

(* A handler's step changes nothing about the other events. *)
LEMMA FeedsView ==
  ASSUME IInv, NEW i \in Event, Feeds(i)
  PROVE  /\ Event' = Event /\ UNCHANGED <<ticks, now>>
         /\ \A j \in Event \ {i} : \A n \in Frame : /\ Pending(j, n)' <=> Pending(j, n)
                                                    /\ Passed(j, n)' <=> Passed(j, n)
         /\ \A n \in Frame : \A j \in Event : Bucket(n, j)' = Bucket(n, j)
         /\ \A j \in Event \ {i} : handler'[j] = handler[j]
BY DEF Feeds, Event, Pending, Passed, Bucket

(* No event is both fed to a frame and still to be fed. *)
LEMMA NotBoth ==
  ASSUME IInv, NEW i \in Event, NEW n \in Frame
  PROVE  ~(Pending(i, n) /\ Passed(i, n))
BY Typed DEF Pending, Passed

(* A step that leaves the candles of a frame alike keeps all places. *)
LEMMA PlacesKept ==
  ASSUME NEW n \in Frame, candles[n] \in Seq(Candle), Alike(candles[n], candles'[n])
  PROVE  SamePlaces(n) /\ (LastOpen(n) => LastOpen(n)')
<1>1. Len(candles'[n]) = Len(candles[n]) /\ \A k \in 1..Len(candles[n]) :
        /\ candles'[n][k].time = candles[n][k].time
        /\ candles'[n][k].ticks = candles[n][k].ticks
        /\ (candles'[n][k].fate \in ClosedFates) <=> (candles[n][k].fate \in ClosedFates)
        /\ (candles'[n][k].fate = "open") <=> (candles[n][k].fate = "open")
  BY DEF Alike
<1>2. \A k, p, i : At(n, k, p, i)' <=> At(n, k, p, i)
  BY <1>1 DEF At
<1>3. \A k \in 1..Len(candles[n]) : TimeOf(n, k)' = TimeOf(n, k)
  BY <1>1 DEF TimeOf
<1>4. \A k : (IsOpen(n, k)' => IsOpen(n, k)) /\ (IsClosed(n, k)' => IsClosed(n, k))
  BY <1>1 DEF IsOpen, IsClosed
<1>5. LastOpen(n) => LastOpen(n)'
  BY <1>1 DEF LastOpen, IsOpen
<1> QED
  BY <1>1, <1>2, <1>3, <1>4, <1>5 DEF SamePlaces

(* A handler that feeds a frame puts its event in one place more. *)
LEMMA PlaceMore ==
  ASSUME TypeOK, NEW n \in Frame, NEW i \in Event,
         candles[n] \in Seq(Candle), candles'[n] \in Seq(Candle),
         Takes(n, i, candles[n], candles'[n])
  PROVE  \E k0, p0 : k0 \in Nat /\ p0 \in Nat /\ NewPlace(n, i, k0, p0)
<1> DEFINE s == candles[n]
           t == candles'[n]
           new == NewCandle(n, i)
<1>0. PICK L : L = Len(s)
  OBVIOUS
<1>1. L = Len(s) /\ L \in Nat /\ Len(t) \in Nat /\ (\A k \in 1..L : s[k] \in Candle) /\ s \in Seq(Candle)
  BY <1>0
<1>2. new.fate = "open" /\ Len(new.ticks) = 1 /\ new.ticks[1] = i
  BY DEF NewCandle
<1>3. new.time = Bucket(n, i)
  BY DEF NewCandle
<1>c. "open" \notin ClosedFates
  BY DEF ClosedFates
<1>d. /\ \A k, p, j : At(n, k, p, j) <=> k \in 1..L /\ p \in 1..Len(s[k].ticks) /\ s[k].ticks[p] = j
      /\ \A k, p, j : At(n, k, p, j)' <=> k \in 1..Len(t) /\ p \in 1..Len(t[k].ticks) /\ t[k].ticks[p] = j
  BY <1>0 DEF At
<1>e. \A k : TimeOf(n, k) = s[k].time /\ TimeOf(n, k)' = t[k].time
  BY DEF TimeOf
<1>f. \A k : /\ IsOpen(n, k) <=> k \in 1..L /\ s[k].fate = "open"
             /\ IsOpen(n, k)' <=> k \in 1..Len(t) /\ t[k].fate = "open"
  BY <1>0 DEF IsOpen
<1>g. \A k : /\ IsClosed(n, k) <=> k \in 1..L /\ s[k].fate \in ClosedFates
             /\ IsClosed(n, k)' <=> k \in 1..Len(t) /\ t[k].fate \in ClosedFates
  BY <1>0 DEF IsClosed
<1>4. CASE Begins(n, i, s, t) \/ Rolls(n, i, s, t)
  <2>1. /\ Len(t) = L + 1 /\ t[L + 1] = new
        /\ \A k \in 1..L : t[k].time = s[k].time /\ t[k].ticks = s[k].ticks
                           /\ (t[k].fate = s[k].fate \/ (k = L /\ s[L].fate = "open" /\ t[k].fate # "open"))
        /\ L \in 1..L /\ s[L].fate = "open" => Bucket(n, i) > s[L].time
    <3>1. CASE Begins(n, i, s, t)
      BY <1>1, <3>1 DEF Begins, Open
    <3>2. CASE Rolls(n, i, s, t)
      <4>1. L \in 1..L /\ t[L] = [s[L] EXCEPT !.fate = "writing"] /\ s[L] \in Candle
        BY <1>1, <3>2 DEF Rolls, Open
      <4>2. t[L].time = s[L].time /\ t[L].ticks = s[L].ticks /\ t[L].fate = "writing"
        BY <4>1 DEF Candle
      <4>3. /\ Len(t) = L + 1 /\ t[L + 1] = new /\ s[L].fate = "open" /\ Bucket(n, i) > s[L].time
            /\ \A k \in 1..(L - 1) : t[k] = s[k]
        BY <1>0, <3>2 DEF Rolls, Open
      <4>4. \A k \in 1..L : k = L \/ k \in 1..(L - 1)
        BY <1>1
      <4> HIDE DEF s, t, new
      <4> QED
        BY <4>1, <4>2, <4>3, <4>4
    <3> QED
      BY <1>4, <3>1, <3>2
  <2> HIDE DEF s, t, new
  <2>2. ASSUME NEW k, NEW p, NEW j
        PROVE  At(n, k, p, j)' <=> (At(n, k, p, j) \/ (k = L + 1 /\ p = 1 /\ j = i))
    <3>1. CASE k = L + 1
      <4>1. t[k].ticks[1] = i /\ Len(t[k].ticks) = 1 /\ k \in 1..Len(t) /\ k \notin 1..L
        BY <1>1, <1>2, <2>1, <3>1
      <4> QED
        BY <1>d, <3>1, <4>1
    <3>2. CASE k # L + 1
      <4>1. k \in 1..Len(t) <=> k \in 1..L
        BY <1>1, <2>1, <3>2
      <4>2. k \in 1..L => t[k].ticks = s[k].ticks
        BY <2>1
      <4> QED
        BY <1>d, <3>2, <4>1, <4>2
    <3> QED
      BY <3>1, <3>2
  <2>3. \A p, j : ~At(n, L + 1, p, j)
    BY <1>1, <1>d
  <2>4. (\A k \in 1..L : TimeOf(n, k)' = TimeOf(n, k)) /\ TimeOf(n, L + 1)' = Bucket(n, i)
    BY <1>1, <1>3, <1>e, <2>1
  <2>r. \A k : k \in 1..Len(t) => k \in 1..L \/ k = L + 1
    BY <1>1, <2>1
  <2>5. (\A k : k # L + 1 /\ IsOpen(n, k)' => IsOpen(n, k)) /\ IsOpen(n, L + 1)'
    <3>1. L + 1 \in 1..Len(t)
      BY <1>1, <2>1
    <3> QED
      BY <1>2, <1>f, <2>1, <2>r, <3>1
  <2>6. \A k : IsClosed(n, k)' => \/ IsClosed(n, k)
                                  \/ k = L /\ IsOpen(n, L)
    BY <1>2, <1>c, <1>f, <1>g, <2>1, <2>r
  <2>7. IsOpen(n, L) => Bucket(n, i) > TimeOf(n, L)
    BY <1>e, <1>f, <2>1
  <2>8. NewPlace(n, i, L + 1, 1)
    BY <1>0, <2>1, <2>2, <2>3, <2>4, <2>5, <2>6, <2>7 DEF NewPlace, s, t
  <2> QED
    BY <1>1, <2>8
<1>5. CASE Adds(n, i, s, t)
  <2> DEFINE u == s[L].ticks
  <2>1. Len(t) = L /\ L \in 1..L /\ s[L].fate = "open" /\ s[L] \in Candle
        /\ ~(Bucket(n, i) > s[L].time)
        /\ \A k \in 1..(L - 1) : t[k] = s[k]
    BY <1>1, <1>5 DEF Adds, Open
  <2>2. t[L].time = s[L].time /\ t[L].ticks = Append(u, i) /\ t[L].fate = "open"
        /\ u \in Seq(Nat)
    BY <1>5, <2>1 DEF Adds, Candle
  <2> HIDE DEF s, t, new
  <2>p. PICK P : P = Len(u) + 1
    OBVIOUS
  <2>3. P = Len(u) + 1 /\ P \in Nat /\ Len(t[L].ticks) = P /\ t[L].ticks[P] = i /\ Len(u) \in Nat
        /\ \A p \in 1..Len(u) : t[L].ticks[p] = u[p]
    <3> HIDE DEF u
    <3> QED
      BY <2>2, <2>p
  <2>4. \A k \in 1..L : t[k].time = s[k].time /\ t[k].fate = s[k].fate
                        /\ (k # L => t[k].ticks = s[k].ticks)
    BY <1>1, <2>1, <2>2
  <2>5. ASSUME NEW k, NEW p, NEW j
        PROVE  At(n, k, p, j)' <=> (At(n, k, p, j) \/ (k = L /\ p = P /\ j = i))
    <3>1. CASE k = L
      <4>1. p \in 1..P <=> p \in 1..Len(u) \/ p = P
        BY <2>3
      <4>2. p \in 1..Len(u) => p # P
        BY <2>3
      <4>3. At(n, k, p, j) <=> p \in 1..Len(u) /\ u[p] = j
        BY <1>d, <2>1, <3>1
      <4>4. At(n, k, p, j)' <=> p \in 1..P /\ t[L].ticks[p] = j
        BY <1>d, <2>1, <2>3, <3>1
      <4> HIDE DEF u
      <4> QED
        BY <2>3, <3>1, <4>1, <4>2, <4>3, <4>4
    <3>2. CASE k # L
      BY <1>d, <2>1, <2>4, <3>2
    <3> QED
      BY <3>1, <3>2
  <2>6. \A p, j : At(n, L, p, j) => p < P
    BY <1>d, <2>3
  <2>7. \A k \in 1..L : TimeOf(n, k)' = TimeOf(n, k)
    BY <1>e, <2>4
  <2>8. (\A k : k # L /\ IsOpen(n, k)' => IsOpen(n, k)) /\ IsOpen(n, L)' /\ IsOpen(n, L)
        /\ \A k : IsClosed(n, k)' => IsClosed(n, k)
    BY <1>f, <1>g, <2>1, <2>2, <2>4
  <2>9. ~(Bucket(n, i) > TimeOf(n, L))
    BY <1>e, <2>1
  <2>10. NewPlace(n, i, L, P)
    BY <1>0, <2>1, <2>5, <2>6, <2>7, <2>8, <2>9 DEF NewPlace, s, t
  <2> QED
    BY <1>1, <2>3, <2>10
<1> QED
  BY <1>4, <1>5 DEF Takes

(* Every step keeps the order of events and handlers. *)
LEMMA TimeKept ==
  ASSUME IInv, TimeInv, Quiet \/ Arrives \/ Ends \/ \E i \in Event : Feeds(i)
  PROVE  TimeInv'
<1>t. Len(ticks) \in Nat /\ now \in Nat /\ \A i \in Event : i \in Nat /\ ticks[i].time \in Nat
  <2>1. \A i \in Event : ticks[i] \in Tick
    BY Typed DEF Event
  <2> QED
    BY <2>1, Typed DEF Tick
<1>1. CASE Quiet
  BY <1>1, <1>t DEF TimeInv, Quiet, Event
<1>2. CASE Ends
  <2>1. UNCHANGED <<ticks, now>> /\ Event' = Event
        /\ \A i \in Event : /\ handler'[i].at = "done" => handler[i].at = "done"
                            /\ handler'[i].at \in {"done", "cut"}
    BY <1>2 DEF Ends, Event
  <2> QED
    BY <2>1 DEF TimeInv
<1>3. ASSUME NEW i \in Event, Feeds(i) PROVE TimeInv'
  <2>1. Event' = Event /\ UNCHANGED <<ticks, now>> /\ handler'[i].at \in {"writing", "done"}
        /\ \A j \in Event \ {i} : handler'[j] = handler[j]
        /\ handler[i].at \in {"ready", "writing"} /\ (handler[i].at = "ready" => AllStarted(i))
    BY <1>3, FeedsView DEF Feeds
  <2>2. ASSUME NEW j \in Event, NEW k \in Event, j < k, handler'[k].at \in {"writing", "done"}
        PROVE  handler'[j].at # "ready"
    <3>1. CASE j = i
      BY <2>1, <3>1
    <3>2. CASE j # i /\ k # i
      BY <2>1, <2>2, <3>2 DEF TimeInv
    <3>3. CASE j # i /\ k = i /\ handler[i].at = "ready"
      <4>1. j \in 1..(i - 1)
        BY <1>t, <2>2, <3>3 DEF Event
      <4> QED
        BY <2>1, <3>3, <4>1 DEF AllStarted
    <3>4. CASE j # i /\ k = i /\ handler[i].at = "writing"
      BY <2>1, <2>2, <3>4 DEF TimeInv
    <3> QED
      BY <2>1, <3>1, <3>2, <3>3, <3>4
  <2> QED
    BY <2>1, <2>2 DEF TimeInv
<1>4. CASE Arrives
  <2> DEFINE L == Len(ticks)
  <2>1. /\ Event' = Event \cup {L + 1} /\ now' = now
        /\ \A i \in Event : ticks'[i] = ticks[i] /\ handler'[i] = handler[i] /\ i < L + 1
        /\ ticks'[L + 1].time = now /\ handler'[L + 1].at = "ready" /\ L + 1 \in Nat
    BY <1>4, <1>t, ArrivesView DEF Event
  <2> HIDE DEF L
  <2>2. \A i \in Event' : ticks'[i].time <= now'
    BY <1>t, <2>1 DEF TimeInv
  <2>3. ASSUME NEW i \in Event', NEW j \in Event', i <= j
        PROVE  ticks'[i].time <= ticks'[j].time
    <3>1. CASE j = L + 1
      BY <2>1, <2>2, <3>1
    <3>2. CASE j \in Event /\ i \in Event
      BY <2>1, <2>3, <3>2 DEF TimeInv
    <3>3. CASE j \in Event /\ i = L + 1
      BY <1>t, <2>1, <2>3, <3>3
    <3> QED
      BY <2>1, <3>1, <3>2, <3>3
  <2>4. ASSUME NEW i \in Event', NEW j \in Event', j < i, handler'[i].at \in {"writing", "done"}
        PROVE  handler'[j].at # "ready"
    <3>1. i \in Event
      BY <2>1, <2>4
    <3>2. j \in Event
      BY <1>t, <2>1, <2>4, <3>1
    <3> QED
      BY <2>1, <2>4, <3>1, <3>2 DEF TimeInv
  <2> QED
    BY <2>2, <2>3, <2>4 DEF TimeInv
<1> QED
  BY <1>1, <1>2, <1>3, <1>4

(* What a step does to the places of one frame. *)
LEMMA FrameSteps ==
  ASSUME IInv, IInv', NEW n \in Frame
  PROVE  /\ Quiet => SamePlaces(n) /\ (LastOpen(n) => LastOpen(n)')
         /\ Ends => SamePlaces(n) /\ \A k : ~IsOpen(n, k)'
         /\ \A i \in Event : Feeds(i) =>
              \/ /\ SamePlaces(n) /\ (LastOpen(n) => LastOpen(n)') /\ late'[n] = late[n]
                 /\ \A j \in Event : /\ Pending(j, n)' <=> Pending(j, n)
                                     /\ Passed(j, n)' <=> Passed(j, n)
              \/ /\ Pending(i, n) /\ Passed(i, n)' /\ ~Pending(i, n)'
                 /\ late'[n] = late[n] \cup Behind(n, i)
                 /\ \E k0, p0 : k0 \in Nat /\ p0 \in Nat /\ NewPlace(n, i, k0, p0)
<1>1. TypeOK /\ candles[n] \in Seq(Candle) /\ candles'[n] \in Seq(Candle)
  BY Typed, TypeParts DEF IInv, BuildingOK
<1>2. Quiet => SamePlaces(n) /\ (LastOpen(n) => LastOpen(n)')
  BY <1>1, PlacesKept DEF Quiet
<1>3. ASSUME Ends PROVE SamePlaces(n) /\ \A k : ~IsOpen(n, k)'
  <2>1. /\ Len(candles'[n]) = Len(candles[n])
        /\ \A k \in 1..Len(candles[n]) :
             /\ candles'[n][k].time = candles[n][k].time
             /\ candles'[n][k].ticks = candles[n][k].ticks
             /\ candles'[n][k].fate = IF candles[n][k].fate \in {"open", "writing"}
                                      THEN "cut" ELSE candles[n][k].fate
    BY <1>3 DEF Ends
  <2>2. \A k, p, i : At(n, k, p, i)' <=> At(n, k, p, i)
    BY <2>1 DEF At
  <2>3. \A k \in 1..Len(candles[n]) : TimeOf(n, k)' = TimeOf(n, k)
    BY <2>1 DEF TimeOf
  <2>4. \A k : ~IsOpen(n, k)' /\ (IsClosed(n, k)' => IsClosed(n, k))
    BY <2>1 DEF IsOpen, IsClosed, ClosedFates
  <2> QED
    BY <2>1, <2>2, <2>3, <2>4 DEF SamePlaces
<1>4. ASSUME NEW i \in Event, Feeds(i)
      PROVE  \/ /\ SamePlaces(n) /\ (LastOpen(n) => LastOpen(n)') /\ late'[n] = late[n]
                /\ \A j \in Event : /\ Pending(j, n)' <=> Pending(j, n)
                                    /\ Passed(j, n)' <=> Passed(j, n)
             \/ /\ Pending(i, n) /\ Passed(i, n)' /\ ~Pending(i, n)'
                /\ late'[n] = late[n] \cup Behind(n, i)
                /\ \E k0, p0 : k0 \in Nat /\ p0 \in Nat /\ NewPlace(n, i, k0, p0)
  <2>1. \A j \in Event \ {i} : /\ Pending(j, n)' <=> Pending(j, n)
                               /\ Passed(j, n)' <=> Passed(j, n)
    BY <1>4, FeedsView
  <2>2. CASE /\ Pending(i, n)' <=> Pending(i, n)
             /\ Passed(i, n)' <=> Passed(i, n)
             /\ Alike(candles[n], candles'[n])
             /\ late'[n] = late[n]
    BY <1>1, <2>1, <2>2, PlacesKept
  <2>3. CASE /\ Pending(i, n) /\ Passed(i, n)' /\ ~Pending(i, n)'
             /\ Takes(n, i, candles[n], candles'[n])
             /\ late'[n] = late[n] \cup Behind(n, i)
    BY <1>1, <2>3, PlaceMore
  <2> QED
    BY <1>4, <2>2, <2>3 DEF Feeds
<1> QED
  BY <1>2, <1>3, <1>4

(* Every step keeps what is known of the fed events. *)
LEMMA TickKept ==
  ASSUME IInv, IInv', NEW n \in Frame, TickInv(n),
         Quiet \/ Arrives \/ Ends \/ \E i \in Event : Feeds(i)
  PROVE  TickInv(n)'
<1>1. ASSUME SamePlaces(n),
             \A i \in Event : /\ i \in Event' /\ Bucket(n, i)' = Bucket(n, i)
                              /\ ~Pending(i, n) => ~Pending(i, n)'
                              /\ (Passed(i, n) => Passed(i, n)') \/ \A k : ~IsOpen(n, k)'
      PROVE  TickInv(n)'
  <2>1. \A k \in 1..Len(candles'[n]) : \E i : At(n, k, 1, i)'
    BY <1>1 DEF TickInv, SamePlaces
  <2>2. ASSUME NEW k, NEW p, NEW i, At(n, k, p, i)'
        PROVE  /\ i \in Event' /\ ~Pending(i, n)'
               /\ IsOpen(n, k)' => Passed(i, n)'
               /\ p = 1 => TimeOf(n, k)' = Bucket(n, i)'
    <3>0. At(n, k, p, i)
      BY <1>1, <2>2 DEF SamePlaces
    <3>1. At(n, k, p, i) /\ k \in 1..Len(candles[n])
      BY <3>0 DEF At
    <3>2. /\ i \in Event /\ ~Pending(i, n)
          /\ IsOpen(n, k) => Passed(i, n)
          /\ p = 1 => TimeOf(n, k) = Bucket(n, i)
      BY <3>1 DEF TickInv
    <3>3. (IsOpen(n, k)' => IsOpen(n, k)) /\ TimeOf(n, k)' = TimeOf(n, k)
      BY <1>1, <3>1 DEF SamePlaces
    <3> QED
      BY <1>1, <3>2, <3>3
  <2> QED
    BY <2>1, <2>2 DEF TickInv
<1>2. CASE Quiet
  <2>1. \A i \in Event : /\ i \in Event' /\ Bucket(n, i)' = Bucket(n, i)
                         /\ Pending(i, n)' <=> Pending(i, n)
                         /\ Passed(i, n)' <=> Passed(i, n)
    BY <1>2 DEF Quiet, Event, Pending, Passed, Bucket
  <2> QED
    BY <1>1, <1>2, <2>1, FrameSteps
<1>3. CASE Ends
  <2>1. \A i \in Event : /\ i \in Event' /\ Bucket(n, i)' = Bucket(n, i) /\ ~Pending(i, n)'
    BY <1>3 DEF Ends, Event, Pending, Bucket
  <2> QED
    BY <1>1, <1>3, <2>1, FrameSteps
<1>4. CASE Arrives
  <2>1. candles' = candles /\ \A i \in Event :
          /\ i \in Event' /\ Bucket(n, i)' = Bucket(n, i)
          /\ Pending(i, n)' <=> Pending(i, n)
          /\ Passed(i, n)' <=> Passed(i, n)
    BY <1>4, ArrivesView
  <2>2. SamePlaces(n)
    BY <2>1 DEF SamePlaces, At, TimeOf, IsOpen, IsClosed
  <2> QED
    BY <1>1, <2>1, <2>2
<1>5. ASSUME NEW i \in Event, Feeds(i) PROVE TickInv(n)'
  <2>1. Event' = Event /\ (\A j \in Event : Bucket(n, j)' = Bucket(n, j))
        /\ \A j \in Event \ {i} : /\ Pending(j, n)' <=> Pending(j, n)
                                  /\ Passed(j, n)' <=> Passed(j, n)
    BY <1>5, FeedsView
  <2>2. CASE SamePlaces(n) /\ \A j \in Event : /\ Pending(j, n)' <=> Pending(j, n)
                                               /\ Passed(j, n)' <=> Passed(j, n)
    BY <1>1, <2>1, <2>2
  <2>3. ASSUME NEW k0, NEW p0, p0 \in Nat, NewPlace(n, i, k0, p0),
               Pending(i, n), Passed(i, n)', ~Pending(i, n)'
        PROVE  TickInv(n)'
    <3>1. ASSUME NEW k \in 1..Len(candles'[n]) PROVE \E j : At(n, k, 1, j)'
      <4>1. CASE k \in 1..Len(candles[n])
        BY <2>3, <4>1 DEF TickInv, NewPlace
      <4>2. CASE k \notin 1..Len(candles[n])
        <5>1. Len(candles[n]) \in Nat
          BY Typed
        <5>2. k = k0 /\ p0 = 1
          BY <2>3, <4>2, <5>1 DEF NewPlace
        <5> QED
          BY <2>3, <5>2 DEF NewPlace
      <4> QED
        BY <4>1, <4>2
    <3>2. ASSUME NEW k, NEW p, NEW j, At(n, k, p, j)
          PROVE  /\ j \in Event' /\ ~Pending(j, n)'
                 /\ IsOpen(n, k)' => Passed(j, n)'
                 /\ p = 1 => TimeOf(n, k)' = Bucket(n, j)'
      <4>1. j \in Event \ {i} /\ ~Pending(j, n) /\ (IsOpen(n, k) => Passed(j, n))
            /\ (p = 1 => TimeOf(n, k) = Bucket(n, j)) /\ k \in 1..Len(candles[n])
        BY <2>3, <3>2 DEF TickInv, At
      <4>2. IsOpen(n, k)' => IsOpen(n, k)
        <5>1. CASE k = k0
          <6>1. Len(candles[n]) \in Nat
            BY Typed
          <6> QED
            BY <2>3, <4>1, <5>1, <6>1 DEF NewPlace
        <5>2. CASE k # k0
          BY <2>3, <5>2 DEF NewPlace
        <5> QED
          BY <5>1, <5>2
      <4>3. TimeOf(n, k)' = TimeOf(n, k)
        BY <2>3, <4>1 DEF NewPlace
      <4> QED
        BY <2>1, <4>1, <4>2, <4>3
    <3>3. /\ i \in Event'
          /\ p0 = 1 => TimeOf(n, k0)' = Bucket(n, i)'
      <4>1. IsOpen(n, k0) => p0 # 1
        <5>1. IsOpen(n, k0) => \E j : At(n, k0, 1, j)
          BY DEF TickInv, IsOpen
        <5> QED
          BY <2>3, <5>1 DEF NewPlace
      <4> QED
        BY <2>1, <2>3, <4>1 DEF NewPlace
    <3>4. ASSUME NEW k, NEW p, NEW j, At(n, k, p, j)'
          PROVE  /\ j \in Event' /\ ~Pending(j, n)'
                 /\ IsOpen(n, k)' => Passed(j, n)'
                 /\ p = 1 => TimeOf(n, k)' = Bucket(n, j)'
      <4>1. At(n, k, p, j) \/ (k = k0 /\ p = p0 /\ j = i)
        BY <2>3, <3>4 DEF NewPlace
      <4> QED
        BY <2>3, <3>2, <3>3, <4>1
    <3> QED
      BY <3>1, <3>4 DEF TickInv
  <2> QED
    BY <1>5, <2>2, <2>3, FrameSteps
<1> QED
  BY <1>2, <1>3, <1>4, <1>5


(* Closed candles are in the order of their times, and no event that is    *)
(* still to be fed can begin a candle of a time that is closed already.    *)
ThisBucket(n) == now - (now % Interval[n])

RowInv(n) ==
  /\ \A j, k : /\ j \in 1..(k - 1) /\ IsClosed(n, j)
               /\ IsOpen(n, k) \/ IsClosed(n, k)
               => TimeOf(n, j) < TimeOf(n, k)
  /\ \A j : IsClosed(n, j) => TimeOf(n, j) < ThisBucket(n)
  /\ ~LastOpen(n) =>
       \A i \in Event : Pending(i, n) => \A j : IsClosed(n, j) => TimeOf(n, j) < Bucket(n, i)

(* Times of candles and the bucket of the clock are numbers. *)
LEMMA TimesTyped ==
  ASSUME IInv, NEW n \in Frame
  PROVE  /\ Len(candles[n]) \in Nat
         /\ \A k \in 1..Len(candles[n]) : TimeOf(n, k) \in Nat
         /\ \A k : IsOpen(n, k) \/ IsClosed(n, k) => k \in 1..Len(candles[n])
         /\ \A k : ~(IsOpen(n, k) /\ IsClosed(n, k))
         /\ ThisBucket(n) \in Nat /\ Interval[n] \in Nat \ {0}
         /\ TypeOK /\ \A i \in Event : Bucket(n, i) \in Nat
<1>1. candles[n] \in Seq(Candle) /\ Len(candles[n]) \in Nat
  BY Typed
<1>2. \A k \in 1..Len(candles[n]) : TimeOf(n, k) \in Nat
  <2>1. \A k \in 1..Len(candles[n]) : candles[n][k] \in Candle
    BY <1>1
  <2> QED
    BY <2>1 DEF TimeOf, Candle
<1>3. \A k : IsOpen(n, k) \/ IsClosed(n, k) => k \in 1..Len(candles[n])
  BY DEF IsOpen, IsClosed
<1>4. \A k : ~(IsOpen(n, k) /\ IsClosed(n, k))
  BY DEF IsOpen, IsClosed, ClosedFates
<1>5. Interval[n] \in Nat \ {0}
  BY FrameAssumption
<1>6. ThisBucket(n) \in Nat
  BY <1>5, Typed, Floors DEF ThisBucket
<1>7. TypeOK
  BY DEF IInv
<1> QED
  BY <1>1, <1>2, <1>3, <1>4, <1>5, <1>6, <1>7, Buckets

(* No event is of a later bucket than the clock, which never goes back. *)
LEMMA BucketOfNow ==
  ASSUME IInv, TimeInv, NEW n \in Frame, now' \in Nat, now <= now'
  PROVE  /\ \A i \in Event : Bucket(n, i) <= ThisBucket(n)
         /\ ThisBucket(n)' \in Nat /\ ThisBucket(n) <= ThisBucket(n)'
<1>1. now \in Nat /\ Interval[n] \in Nat \ {0}
  BY Typed, TimesTyped
<1>2. ASSUME NEW i \in Event PROVE Bucket(n, i) <= ThisBucket(n)
  <2>1. ticks[i] \in Tick /\ ticks[i].time <= now
    BY Typed DEF Event, TimeInv
  <2>2. ticks[i].time \in Nat
    BY <2>1 DEF Tick
  <2> QED
    BY <1>1, <2>1, <2>2, FloorGrows DEF Bucket, ThisBucket
<1>3. ThisBucket(n) <= ThisBucket(n)'
  BY <1>1, FloorGrows DEF ThisBucket
<1>4. ThisBucket(n)' \in Nat
  BY <1>1, Floors DEF ThisBucket
<1> QED
  BY <1>2, <1>3, <1>4

(* Every step keeps the order of closed candles. *)
LEMMA RowKept ==
  ASSUME IInv, IInv', TimeInv, NEW n \in Frame, RowInv(n),
         Quiet \/ Arrives \/ Ends \/ \E i \in Event : Feeds(i)
  PROVE  RowInv(n)'
<1>1. ASSUME SamePlaces(n), now' \in Nat, now <= now',
             ~LastOpen(n)' => \A i \in Event' : Pending(i, n)' =>
               \/ i \in Event /\ Pending(i, n) /\ ~LastOpen(n) /\ Bucket(n, i)' = Bucket(n, i)
               \/ ThisBucket(n) <= Bucket(n, i)' /\ Bucket(n, i)' \in Nat
      PROVE  RowInv(n)'
  <2>1. \A k : /\ IsOpen(n, k)' => IsOpen(n, k)
               /\ IsClosed(n, k)' => IsClosed(n, k)
               /\ IsOpen(n, k)' \/ IsClosed(n, k)' => TimeOf(n, k)' = TimeOf(n, k) /\ TimeOf(n, k) \in Nat
    BY <1>1, TimesTyped DEF SamePlaces
  <2>2. \A j : IsClosed(n, j)' => TimeOf(n, j)' < ThisBucket(n) /\ ThisBucket(n) <= ThisBucket(n)'
                                  /\ ThisBucket(n) \in Nat /\ ThisBucket(n)' \in Nat
                                  /\ TimeOf(n, j)' \in Nat
    BY <1>1, <2>1, BucketOfNow, TimesTyped DEF RowInv
  <2>3. ASSUME NEW j, NEW k, j \in 1..(k - 1), IsClosed(n, j)', IsOpen(n, k)' \/ IsClosed(n, k)'
        PROVE  TimeOf(n, j)' < TimeOf(n, k)'
    BY <2>1, <2>3 DEF RowInv
  <2>4. ASSUME ~LastOpen(n)', NEW i \in Event', Pending(i, n)', NEW j, IsClosed(n, j)'
        PROVE  TimeOf(n, j)' < Bucket(n, i)'
    <3>1. CASE i \in Event /\ Pending(i, n) /\ ~LastOpen(n) /\ Bucket(n, i)' = Bucket(n, i)
      BY <2>1, <2>4, <3>1 DEF RowInv
    <3>2. CASE ThisBucket(n) <= Bucket(n, i)' /\ Bucket(n, i)' \in Nat
      BY <2>2, <2>4, <3>2
    <3> QED
      BY <1>1, <2>4, <3>1, <3>2
  <2>5. \A j : IsClosed(n, j)' => TimeOf(n, j)' < ThisBucket(n)'
    BY <2>2
  <2> QED
    BY <2>3, <2>4, <2>5 DEF RowInv
<1>2. CASE Quiet
  <2>1. \A i \in Event' : /\ i \in Event /\ Bucket(n, i)' = Bucket(n, i)
                          /\ Pending(i, n)' => Pending(i, n)
    BY <1>2 DEF Quiet, Event, Pending, Bucket
  <2>2. now' \in Nat /\ now <= now'
    BY <1>2 DEF Quiet
  <2> QED
    BY <1>1, <1>2, <2>1, <2>2, FrameSteps
<1>3. CASE Ends
  <2>1. \A i \in Event' : ~Pending(i, n)'
    BY <1>3 DEF Ends, Event, Pending
  <2>2. now' \in Nat /\ now <= now'
    BY <1>3, Typed DEF Ends
  <2> QED
    BY <1>1, <1>3, <2>1, <2>2, FrameSteps
<1>4. CASE Arrives
  <2>0. PICK L : L = Len(ticks)
    OBVIOUS
  <2>1. /\ Event' = Event \cup {L + 1} /\ UNCHANGED <<candles, now>> /\ ticks'[L + 1].time = now
        /\ \A i \in Event : Bucket(n, i)' = Bucket(n, i) /\ (Pending(i, n)' => Pending(i, n))
    BY <1>4, <2>0, ArrivesView
  <2>2. SamePlaces(n) /\ (LastOpen(n)' <=> LastOpen(n))
    BY <2>1 DEF SamePlaces, At, TimeOf, IsOpen, IsClosed, LastOpen
  <2>3. now' \in Nat /\ now <= now'
    BY <2>1, Typed
  <2>4. Bucket(n, L + 1)' = ThisBucket(n)
    BY <2>1 DEF Bucket, ThisBucket
  <2>5. ThisBucket(n) <= Bucket(n, L + 1)' /\ Bucket(n, L + 1)' \in Nat
    BY <2>4, TimesTyped
  <2> QED
    BY <1>1, <2>1, <2>2, <2>3, <2>5
<1>5. ASSUME NEW i \in Event, Feeds(i) PROVE RowInv(n)'
  <2>1. Event' = Event /\ (\A j \in Event : Bucket(n, j)' = Bucket(n, j)) /\ now' = now
    BY <1>5, FeedsView
  <2>n. now' \in Nat /\ now <= now'
    BY <2>1, Typed
  <2>2. CASE SamePlaces(n) /\ (LastOpen(n) => LastOpen(n)')
             /\ \A j \in Event : Pending(j, n)' <=> Pending(j, n)
    BY <1>1, <2>1, <2>2, <2>n
  <2>3. ASSUME NEW k0 \in Nat, NEW p0, NewPlace(n, i, k0, p0), Pending(i, n)
        PROVE  RowInv(n)'
    <3>0. PICK L : L = Len(candles[n])
      OBVIOUS
    <3>1. L \in Nat /\ (LastOpen(n) <=> IsOpen(n, L)) /\ ThisBucket(n)' = ThisBucket(n)
          /\ Bucket(n, i) \in Nat /\ ThisBucket(n) \in Nat
      BY <2>1, <3>0, TimesTyped DEF LastOpen, ThisBucket
    <3>2. \A k \in 1..L : TimeOf(n, k)' = TimeOf(n, k) /\ TimeOf(n, k) \in Nat
      BY <2>3, <3>0, TimesTyped DEF NewPlace
    <3>3. LastOpen(n)'
      BY <2>3 DEF NewPlace, LastOpen
    <3>4. Bucket(n, i) <= ThisBucket(n)
      BY <2>n, BucketOfNow
    <3>5. CASE /\ IsOpen(n, k0) /\ k0 = L
               /\ \A k : IsClosed(n, k)' => IsClosed(n, k)
      <4>1. \A k : IsOpen(n, k)' => IsOpen(n, k)
        BY <2>3, <3>5 DEF NewPlace
      <4>2. \A k : IsOpen(n, k) \/ IsClosed(n, k) => k \in 1..L
        BY <3>0, TimesTyped
      <4>3. ASSUME NEW j, NEW k, j \in 1..(k - 1), IsClosed(n, j)', IsOpen(n, k)' \/ IsClosed(n, k)'
            PROVE  TimeOf(n, j)' < TimeOf(n, k)'
        BY <3>2, <3>5, <4>1, <4>2, <4>3 DEF RowInv
      <4>4. \A j : IsClosed(n, j)' => TimeOf(n, j)' < ThisBucket(n)'
        BY <3>1, <3>2, <3>5, <4>2 DEF RowInv
      <4> QED
        BY <3>3, <4>3, <4>4 DEF RowInv
    <3>6. CASE /\ k0 = L + 1 /\ TimeOf(n, k0)' = Bucket(n, i)
               /\ IsOpen(n, L) => Bucket(n, i) > TimeOf(n, L)
               /\ \A k : IsClosed(n, k)' => \/ IsClosed(n, k)
                                            \/ k = L /\ IsOpen(n, L)
      <4>1. \A k : IsOpen(n, k)' => IsOpen(n, k) \/ k = L + 1
        BY <2>3, <3>6 DEF NewPlace
      <4>2. \A k : IsOpen(n, k) \/ IsClosed(n, k) => k \in 1..L
        BY <3>0, TimesTyped
      <4>3. \A j : IsClosed(n, j)' => j \in 1..L /\ TimeOf(n, j)' = TimeOf(n, j)
                                      /\ TimeOf(n, j) < Bucket(n, i)
        <5>1. ASSUME NEW j, IsClosed(n, j), IsOpen(n, L)
              PROVE  TimeOf(n, j) < Bucket(n, i)
          <6>1. j # L
            BY <5>1, TimesTyped
          <6>2. j \in 1..L /\ j \in 1..(L - 1) /\ L \in 1..L
            BY <3>1, <4>2, <5>1, <6>1
          <6>3. TimeOf(n, j) < TimeOf(n, L)
            BY <5>1, <6>2 DEF RowInv
          <6> QED
            BY <3>1, <3>2, <3>6, <5>1, <6>2, <6>3
        <5>2. ASSUME NEW j, IsClosed(n, j), ~IsOpen(n, L)
              PROVE  TimeOf(n, j) < Bucket(n, i)
          BY <2>3, <3>1, <5>2 DEF RowInv
        <5>3. IsOpen(n, L) => TimeOf(n, L) < Bucket(n, i)
          BY <3>1, <3>2, <3>6, <4>2
        <5> QED
          BY <3>2, <3>6, <4>2, <5>1, <5>2, <5>3
      <4>4. ASSUME NEW j, NEW k, j \in 1..(k - 1), IsClosed(n, j)', IsOpen(n, k)' \/ IsClosed(n, k)'
            PROVE  TimeOf(n, j)' < TimeOf(n, k)'
        <5>1. CASE k = L + 1
          BY <3>6, <4>3, <4>4, <5>1
        <5>2. CASE k # L + 1
          <6>1. (IsOpen(n, k) \/ IsClosed(n, k)) /\ k \in 1..L /\ j \in 1..L
            BY <3>6, <4>1, <4>2, <4>3, <4>4, <5>2
          <6>2. IsClosed(n, j)
            BY <3>1, <3>6, <4>4, <6>1
          <6>3. TimeOf(n, j) < TimeOf(n, k)
            BY <4>4, <6>1, <6>2 DEF RowInv
          <6> QED
            BY <3>2, <6>1, <6>3
        <5> QED
          BY <5>1, <5>2
      <4>5. \A j : IsClosed(n, j)' => TimeOf(n, j)' < ThisBucket(n)'
        BY <3>1, <3>2, <3>4, <4>3
      <4> QED
        BY <3>3, <4>4, <4>5 DEF RowInv
    <3> QED
      BY <2>3, <3>0, <3>5, <3>6 DEF NewPlace
  <2> QED
    BY <1>5, <2>2, <2>3, FrameSteps
<1> QED
  BY <1>2, <1>3, <1>4, <1>5

(* No two rows of a timeframe have one time, for any timeframes and prices. *)
LEMMA RowsDiffer ==
  ASSUME IInv, \A n \in Frame : RowInv(n)
  PROVE  RowsUnique
<1> SUFFICES ASSUME NEW n \in Frame, NEW j \in 1..Len(candles[n]), NEW k \in 1..Len(candles[n]),
                    j # k,
                    candles[n][j].fate \in {"stored", "announced"},
                    candles[n][k].fate \in {"stored", "announced"}
             PROVE  candles[n][j].time # candles[n][k].time
  BY DEF RowsUnique
<1>1. IsClosed(n, j) /\ IsClosed(n, k)
  BY DEF IsClosed, ClosedFates
<1>2. TimeOf(n, j) \in Nat /\ TimeOf(n, k) \in Nat /\ Len(candles[n]) \in Nat
  BY TimesTyped
<1>3. j \in 1..(k - 1) \/ k \in 1..(j - 1)
  BY <1>2
<1>4. TimeOf(n, j) < TimeOf(n, k) \/ TimeOf(n, k) < TimeOf(n, j)
  BY <1>1, <1>3 DEF RowInv
<1> QED
  BY <1>2, <1>4 DEF TimeOf


-----------------------------------------------------------------------------
(* An event has at most one place in a frame, and one once it was fed.      *)
CountInv(n) ==
  /\ \A k, p, l, q, i : At(n, k, p, i) /\ At(n, l, q, i) => k = l /\ p = q
  /\ \A i \in Event : Passed(i, n) => \E k, p : At(n, k, p, i)

(* Every step keeps the places apart. *)
LEMMA CountKept ==
  ASSUME IInv, IInv', NEW n \in Frame, TickInv(n), CountInv(n),
         Quiet \/ Arrives \/ Ends \/ \E i \in Event : Feeds(i)
  PROVE  CountInv(n)'
<1>1. ASSUME SamePlaces(n),
             \A i \in Event' : Passed(i, n)' => i \in Event /\ Passed(i, n)
      PROVE  CountInv(n)'
  <2>1. \A k, p, i : At(n, k, p, i)' <=> At(n, k, p, i)
    BY <1>1 DEF SamePlaces
  <2>2. \A k, p, l, q, i : At(n, k, p, i)' /\ At(n, l, q, i)' => k = l /\ p = q
    BY <2>1 DEF CountInv
  <2>3. \A i \in Event' : Passed(i, n)' => \E k, p : At(n, k, p, i)'
    BY <1>1, <2>1 DEF CountInv
  <2> QED
    BY <2>2, <2>3 DEF CountInv
<1>2. CASE Quiet
  <2>1. \A i \in Event' : i \in Event /\ (Passed(i, n)' => Passed(i, n))
    BY <1>2 DEF Quiet, Event, Passed
  <2> QED
    BY <1>1, <1>2, <2>1, FrameSteps
<1>3. CASE Ends
  <2>1. \A i \in Event' : i \in Event /\ (Passed(i, n)' => Passed(i, n))
    BY <1>3 DEF Ends, Event, Passed
  <2> QED
    BY <1>1, <1>3, <2>1, FrameSteps
<1>4. CASE Arrives
  <2>1. /\ Event' = Event \cup {Len(ticks) + 1} /\ candles' = candles
        /\ handler'[Len(ticks) + 1].at = "ready"
        /\ \A i \in Event : Passed(i, n)' => Passed(i, n)
    BY <1>4, ArrivesView
  <2>2. SamePlaces(n)
    BY <2>1 DEF SamePlaces, At, TimeOf, IsOpen, IsClosed
  <2>3. \A i \in Event' : Passed(i, n)' => i \in Event
    BY <2>1 DEF Passed
  <2> QED
    BY <1>1, <2>1, <2>2, <2>3
<1>5. ASSUME NEW i \in Event, Feeds(i) PROVE CountInv(n)'
  <2>1. Event' = Event
        /\ \A j \in Event \ {i} : Passed(j, n)' <=> Passed(j, n)
    BY <1>5, FeedsView
  <2>2. CASE SamePlaces(n) /\ \A j \in Event : Passed(j, n)' <=> Passed(j, n)
    BY <1>1, <2>1, <2>2
  <2>3. ASSUME NEW k0 \in Nat, NEW p0 \in Nat, NewPlace(n, i, k0, p0), Pending(i, n)
        PROVE  CountInv(n)'
    <3>1. \A k, p, j : At(n, k, p, j)' <=> (At(n, k, p, j) \/ (k = k0 /\ p = p0 /\ j = i))
      BY <2>3 DEF NewPlace
    <3>2. \A k, p : ~At(n, k, p, i)
      BY <2>3 DEF TickInv
    <3>3. ASSUME NEW k, NEW p, NEW l, NEW q, NEW j, At(n, k, p, j)', At(n, l, q, j)'
          PROVE  k = l /\ p = q
      BY <3>1, <3>2, <3>3 DEF CountInv
    <3>4. ASSUME NEW j \in Event', Passed(j, n)' PROVE \E k, p : At(n, k, p, j)'
      <4>1. CASE j = i
        BY <3>1, <4>1
      <4>2. CASE j # i
        <5>1. PICK k, p : At(n, k, p, j)
          BY <2>1, <3>4, <4>2 DEF CountInv
        <5> QED
          BY <3>1, <5>1
      <4> QED
        BY <4>1, <4>2
    <3> QED
      BY <3>3, <3>4 DEF CountInv
  <2> QED
    BY <1>5, <2>2, <2>3, FrameSteps
<1> QED
  BY <1>2, <1>3, <1>4, <1>5

(* The places of the model are those of At. *)
LEMMA EventsCounted ==
  ASSUME IInv, \A n \in Frame : CountInv(n)
  PROVE  CountedOnce
<1> SUFFICES ASSUME NEW n \in Frame, NEW i \in Event
             PROVE  /\ Cardinality(Places(n, i)) <= 1
                    /\ handler[i].at = "done" => Places(n, i) # {}
  BY DEF CountedOnce, Event
<1>1. DOMAIN candles[n] = 1..Len(candles[n])
      /\ \A k \in 1..Len(candles[n]) : DOMAIN candles[n][k].ticks = 1..Len(candles[n][k].ticks)
  <2>1. candles[n] \in Seq(Candle)
    BY Typed
  <2>2. \A k \in 1..Len(candles[n]) : candles[n][k] \in Candle
    BY <2>1
  <2>3. \A k \in 1..Len(candles[n]) : candles[n][k].ticks \in Seq(Nat)
    BY <2>2 DEF Candle
  <2> QED
    BY <2>1, <2>3
<1>2. \A x : x \in Places(n, i) <=> \E k, p : x = <<k, p>> /\ At(n, k, p, i)
  BY <1>1 DEF Places, At
<1>3. Cardinality(Places(n, i)) <= 1
  <2>1. CASE Places(n, i) = {}
    BY <2>1, FS_EmptySet
  <2>2. CASE Places(n, i) # {}
    <3>1. PICK x : x \in Places(n, i)
      BY <2>2
    <3>2. PICK k, p : x = <<k, p>> /\ At(n, k, p, i)
      BY <1>2, <3>1
    <3>3. ASSUME NEW y \in Places(n, i) PROVE y = x
      <4>1. PICK l, q : y = <<l, q>> /\ At(n, l, q, i)
        BY <1>2
      <4>2. k = l /\ p = q
        BY <3>2, <4>1 DEF CountInv
      <4> QED
        BY <3>2, <4>1, <4>2
    <3>4. Places(n, i) = {x}
      BY <3>1, <3>3
    <3> QED
      BY <3>4, FS_Singleton
  <2> QED
    BY <2>1, <2>2
<1>4. handler[i].at = "done" => Places(n, i) # {}
  <2>1. handler[i].at = "done" => \E k, p : At(n, k, p, i)
    BY DEF CountInv, Passed
  <2> QED
    BY <1>2, <2>1
<1> QED
  BY <1>3, <1>4


-----------------------------------------------------------------------------
(* Who was overtaken is known; everybody else is in the candle of his      *)
(* bucket, behind the events before him.                                   *)
OrderInv(n) ==
  /\ \A e, f \in Event : e < f /\ Passed(f, n) /\ Pending(e, n) => e \in late[n]
  /\ \A k, p, i : At(n, k, p, i) => i \in late[n] \/ Bucket(n, i) = TimeOf(n, k)
  /\ \A k, p, q, i, j :
       At(n, k, p, i) /\ At(n, k, q, j) /\ q \in 1..(p - 1) =>
         i \in late[n] \/ j < i
  /\ n = 1 => late[n] = {}

(* When a handler feeds a frame, those it passes are in Behind.             *)
LEMMA PassedOnes ==
  ASSUME IInv, TimeInv, NEW n \in Frame, NEW f \in Event, Feeds(f),
         NEW e \in Event, e < f, Pending(e, n)
  PROVE  e \in Behind(n, f)
<1>1. e \in Nat /\ f \in Nat
  BY Typed
<1>2. handler[e].at # "ready"
  <2>1. CASE handler[f].at = "ready"
    <3>1. AllStarted(f) /\ e \in 1..(f - 1)
      BY <1>1, <2>1 DEF Feeds, Event
    <3> QED
      BY <3>1 DEF AllStarted
  <2>2. CASE handler[f].at = "writing"
    BY <2>2 DEF TimeInv
  <2> QED
    BY <2>1, <2>2 DEF Feeds
<1>3. handler[e].at = "writing" /\ handler[e].frame < n /\ e \in 1..(f - 1)
  BY <1>1, <1>2 DEF Pending, Event
<1> QED
  BY <1>3 DEF Behind

(* A handler that passes others for the first frame does not exist. *)
LEMMA NoneBehindFirst ==
  ASSUME IInv, NEW i \in Event
  PROVE  Behind(1, i) = {}
<1>1. \A j \in Event : handler[j].frame \in Nat /\ handler[j].frame >= 1
  BY Typed, FrameAssumption DEF Frame
<1>2. 1..(i - 1) \subseteq Event
  BY Typed DEF Event
<1> QED
  BY <1>1, <1>2 DEF Behind

(* What is put into an open candle behind its first event: it is of its    *)
(* time, and later than all it follows, or it is late already.             *)
LEMMA AddedInOrder ==
  ASSUME IInv, TimeInv, NEW n \in Frame, TickInv(n), OrderInv(n),
         NEW i \in Event, Pending(i, n), NEW k, IsOpen(n, k), ~(Bucket(n, i) > TimeOf(n, k))
  PROVE  /\ i \in late[n] \/ Bucket(n, i) = TimeOf(n, k)
         /\ \A p, j : At(n, k, p, j) => i \in late[n] \/ j < i
<1>1. ASSUME NEW p, NEW j, At(n, k, p, j) PROVE j \in Event /\ (i \in late[n] \/ j < i)
  <2>1. j \in Event /\ Passed(j, n)
    BY <1>1 DEF TickInv
  <2>2. j # i
    BY <2>1, NotBoth
  <2>3. i \in Nat /\ j \in Nat
    BY <2>1, Typed
  <2>4. i < j => i \in late[n]
    BY <2>1 DEF OrderInv
  <2> QED
    BY <2>1, <2>2, <2>3, <2>4
<1>2. k \in 1..Len(candles[n])
  BY DEF IsOpen
<1>3. PICK f : At(n, k, 1, f)
  BY <1>2 DEF TickInv
<1>4. TimeOf(n, k) = Bucket(n, f) /\ f \in Event
  BY <1>3 DEF TickInv
<1>5. f < i => Bucket(n, f) <= Bucket(n, i)
  <2>1. f \in Nat /\ i \in Nat
    BY <1>4, Typed
  <2>2. f < i => ticks[f].time <= ticks[i].time
    BY <1>4, <2>1 DEF TimeInv
  <2>3. TypeOK
    BY DEF IInv
  <2> QED
    BY <1>4, <2>2, <2>3, BucketGrows
<1>6. Bucket(n, f) \in Nat /\ Bucket(n, i) \in Nat
  BY <1>4, TimesTyped
<1>7. i \in late[n] \/ Bucket(n, i) = TimeOf(n, k)
  BY <1>1, <1>3, <1>4, <1>5, <1>6
<1> QED
  BY <1>1, <1>7

(* Every step keeps the order within candles. *)
LEMMA OrderKept ==
  ASSUME IInv, IInv', TimeInv, NEW n \in Frame, TickInv(n), OrderInv(n),
         Quiet \/ Arrives \/ Ends \/ \E i \in Event : Feeds(i)
  PROVE  OrderInv(n)'
<1>1. ASSUME SamePlaces(n), late'[n] = late[n],
             \A i \in Event : Bucket(n, i)' = Bucket(n, i),
             \A i \in Event' : Passed(i, n)' => i \in Event /\ Passed(i, n),
             \A e, f \in Event' : e < f /\ f \in Event /\ Pending(e, n)' => e \in Event /\ Pending(e, n)
      PROVE  OrderInv(n)'
  <2>1. \A k, p, i : At(n, k, p, i)' <=> At(n, k, p, i)
    BY <1>1 DEF SamePlaces
  <2>2. \A e, f \in Event' : e < f /\ Passed(f, n)' /\ Pending(e, n)' => e \in late'[n]
    BY <1>1 DEF OrderInv
  <2>3. ASSUME NEW k, NEW p, NEW i, At(n, k, p, i)'
        PROVE  i \in late'[n] \/ Bucket(n, i)' = TimeOf(n, k)'
    <3>1. At(n, k, p, i)
      BY <2>1, <2>3
    <3>2. i \in Event /\ (i \in late[n] \/ Bucket(n, i) = TimeOf(n, k))
      BY <3>1 DEF TickInv, OrderInv
    <3>3. k \in 1..Len(candles[n])
      BY <3>1 DEF At
    <3>4. TimeOf(n, k)' = TimeOf(n, k)
      BY <1>1, <3>3 DEF SamePlaces
    <3> QED
      BY <1>1, <3>2, <3>4
  <2>4. \A k, p, q, i, j :
          At(n, k, p, i)' /\ At(n, k, q, j)' /\ q \in 1..(p - 1) =>
            i \in late'[n] \/ j < i
    BY <1>1, <2>1 DEF OrderInv
  <2>5. n = 1 => late'[n] = {}
    BY <1>1 DEF OrderInv
  <2> QED
    BY <2>2, <2>3, <2>4, <2>5 DEF OrderInv
<1>2. CASE Quiet
  <2>1. late'[n] = late[n] /\ Event' = Event
        /\ \A i \in Event : /\ Bucket(n, i)' = Bucket(n, i)
                            /\ Passed(i, n)' <=> Passed(i, n)
                            /\ Pending(i, n)' <=> Pending(i, n)
    BY <1>2 DEF Quiet, Event, Pending, Passed, Bucket
  <2> QED
    BY <1>1, <1>2, <2>1, FrameSteps
<1>3. CASE Ends
  <2>1. late'[n] = late[n] /\ Event' = Event
        /\ \A i \in Event : /\ Bucket(n, i)' = Bucket(n, i)
                            /\ Passed(i, n)' => Passed(i, n)
                            /\ ~Pending(i, n)'
    BY <1>3 DEF Ends, Event, Pending, Passed, Bucket
  <2> QED
    BY <1>1, <1>3, <2>1, FrameSteps
<1>4. CASE Arrives
  <2>1. /\ Event' = Event \cup {Len(ticks) + 1} /\ candles' = candles /\ late' = late
        /\ handler'[Len(ticks) + 1].at = "ready"
        /\ \A i \in Event : /\ Bucket(n, i)' = Bucket(n, i)
                            /\ Passed(i, n)' <=> Passed(i, n)
                            /\ Pending(i, n)' <=> Pending(i, n)
    BY <1>4, ArrivesView
  <2>2. SamePlaces(n)
    BY <2>1 DEF SamePlaces, At, TimeOf, IsOpen, IsClosed
  <2>3. \A i \in Event' : Passed(i, n)' => i \in Event /\ Passed(i, n)
    BY <2>1 DEF Passed
  <2>4. \A e, f \in Event' : e < f /\ f \in Event /\ Pending(e, n)' => e \in Event /\ Pending(e, n)
    <3>1. \A f \in Event : ~(Len(ticks) + 1 < f)
      BY Typed DEF Event
    <3> QED
      BY <2>1, <3>1
  <2> QED
    BY <1>1, <2>1, <2>2, <2>3, <2>4
<1>5. ASSUME NEW i \in Event, Feeds(i) PROVE OrderInv(n)'
  <2>1. Event' = Event /\ (\A j \in Event : Bucket(n, j)' = Bucket(n, j))
        /\ \A j \in Event \ {i} : /\ Passed(j, n)' <=> Passed(j, n)
                                  /\ Pending(j, n)' <=> Pending(j, n)
    BY <1>5, FeedsView
  <2>2. CASE SamePlaces(n) /\ late'[n] = late[n]
             /\ \A j \in Event : /\ Passed(j, n)' <=> Passed(j, n)
                                 /\ Pending(j, n)' <=> Pending(j, n)
    BY <1>1, <2>1, <2>2
  <2>3. ASSUME NEW k0 \in Nat, NEW p0 \in Nat, NewPlace(n, i, k0, p0),
               Pending(i, n), ~Pending(i, n)', late'[n] = late[n] \cup Behind(n, i)
        PROVE  OrderInv(n)'
    <3>1. \A k, p, j : At(n, k, p, j)' <=> (At(n, k, p, j) \/ (k = k0 /\ p = p0 /\ j = i))
      BY <2>3 DEF NewPlace
    <3>2. ASSUME NEW k, NEW p, NEW j, At(n, k, p, j)
          PROVE  /\ j \in Event /\ TimeOf(n, k)' = TimeOf(n, k)
                 /\ j \in late'[n] \/ Bucket(n, j)' = TimeOf(n, k)'
      <4>1. j \in Event /\ (j \in late[n] \/ Bucket(n, j) = TimeOf(n, k))
        BY <3>2 DEF TickInv, OrderInv
      <4>2. k \in 1..Len(candles[n])
        BY <3>2 DEF At
      <4>3. TimeOf(n, k)' = TimeOf(n, k)
        BY <2>3, <4>2 DEF NewPlace
      <4> QED
        BY <2>1, <2>3, <4>1, <4>3
    <3>3. /\ i \in late[n] \/ Bucket(n, i) = TimeOf(n, k0)'
          /\ \A p, j : At(n, k0, p, j) => i \in late[n] \/ j < i
      <4>1. CASE IsOpen(n, k0) /\ k0 = Len(candles[n]) /\ ~(Bucket(n, i) > TimeOf(n, k0))
        <5>1. k0 \in 1..Len(candles[n])
          BY <4>1 DEF IsOpen
        <5>2. TimeOf(n, k0)' = TimeOf(n, k0)
          BY <2>3, <5>1 DEF NewPlace
        <5> QED
          BY <2>3, <4>1, <5>2, AddedInOrder
      <4>2. CASE p0 = 1 /\ k0 = Len(candles[n]) + 1 /\ TimeOf(n, k0)' = Bucket(n, i)
        <5>1. \A p, j : ~At(n, k0, p, j)
          BY <4>2, TimesTyped DEF At
        <5> QED
          BY <4>2, <5>1
      <4> QED
        BY <2>3, <4>1, <4>2 DEF NewPlace
    <3>4. ASSUME NEW e \in Event', NEW f \in Event', e < f, Passed(f, n)', Pending(e, n)'
          PROVE  e \in late'[n]
      <4>1. e # i /\ e \in Event /\ f \in Event /\ Pending(e, n)
        BY <2>1, <2>3, <3>4
      <4>2. CASE f = i
        BY <1>5, <2>3, <3>4, <4>1, <4>2, PassedOnes
      <4>3. CASE f # i
        BY <2>1, <2>3, <3>4, <4>1, <4>3 DEF OrderInv
      <4> QED
        BY <4>2, <4>3
    <3>5. ASSUME NEW k, NEW p, NEW j, At(n, k, p, j)'
          PROVE  j \in late'[n] \/ Bucket(n, j)' = TimeOf(n, k)'
      <4>1. CASE At(n, k, p, j)
        BY <3>2, <4>1
      <4>2. CASE k = k0 /\ j = i
        BY <2>1, <2>3, <3>3, <4>2
      <4> QED
        BY <3>1, <3>5, <4>1, <4>2
    <3>6. ASSUME NEW k, NEW p, NEW q, NEW j, NEW l,
                 At(n, k, p, j)', At(n, k, q, l)', q \in 1..(p - 1)
          PROVE  j \in late'[n] \/ l < j
      <4>1. CASE At(n, k, p, j) /\ At(n, k, q, l)
        <5>1. j \in late[n] \/ l < j
          BY <3>6, <4>1 DEF OrderInv
        <5> QED
          BY <2>3, <5>1
      <4>2. CASE k = k0 /\ p = p0 /\ j = i /\ At(n, k, q, l)
        <5>1. i \in late[n] \/ l < i
          BY <3>3, <4>2
        <5> QED
          BY <2>3, <4>2, <5>1
      <4>3. CASE k = k0 /\ q = p0 /\ l = i
        <5>1. p # p0
          BY <2>3, <3>6, <4>3
        <5>2. At(n, k0, p, j)
          BY <3>1, <3>6, <4>3, <5>1
        <5>3. p < p0 /\ p \in Nat
          BY <2>3, <5>2 DEF NewPlace, At
        <5> QED
          BY <2>3, <3>6, <4>3, <5>3
      <4> QED
        BY <3>1, <3>6, <4>1, <4>2, <4>3
    <3>7. n = 1 => late'[n] = {}
      BY <2>3, NoneBehindFirst DEF OrderInv
    <3> QED
      BY <3>4, <3>5, <3>6, <3>7 DEF OrderInv
  <2> QED
    BY <1>5, <2>2, <2>3, FrameSteps
<1> QED
  BY <1>2, <1>3, <1>4, <1>5

(* The candles' promise about the order of events, from the places of At.   *)
LEMMA EventsInOrder ==
  ASSUME IInv, \A n \in Frame : OrderInv(n)
  PROVE  OnlyLateMisplaced
<1>1. 1 \in Frame
  BY FrameAssumption DEF Frame
<1>2. late[1] = {}
  BY <1>1 DEF OrderInv
<1>3. ASSUME NEW n \in Frame, NEW k \in 1..Len(candles[n]), NEW p \in 1..Len(candles[n][k].ticks)
      PROVE  \/ candles[n][k].ticks[p] \in late[n]
             \/ /\ Bucket(n, candles[n][k].ticks[p]) = candles[n][k].time
                /\ \A q \in 1..(p - 1) : candles[n][k].ticks[q] < candles[n][k].ticks[p]
  <2>0. PICK M : M = Len(candles[n][k].ticks)
    OBVIOUS
  <2>1. M \in Nat
    <3>1. candles[n] \in Seq(Candle)
      BY Typed
    <3>2. candles[n][k] \in Candle
      BY <3>1
    <3>3. candles[n][k].ticks \in Seq(Nat)
      BY <3>2 DEF Candle
    <3> QED
      BY <2>0, <3>3
  <2>2. At(n, k, p, candles[n][k].ticks[p])
    BY DEF At
  <2>3. ASSUME NEW q \in 1..(p - 1)
        PROVE  At(n, k, q, candles[n][k].ticks[q])
    BY <2>0, <2>1 DEF At
  <2> QED
    BY <2>2, <2>3 DEF OrderInv, TimeOf
<1> QED
  BY <1>2, <1>3 DEF OnlyLateMisplaced

-----------------------------------------------------------------------------
(* All of it together. *)
CandleInv ==
  /\ TimeInv
  /\ \A n \in Frame : TickInv(n) /\ RowInv(n) /\ CountInv(n) /\ OrderInv(n)

(* The candles' invariant holds in every state. *)
LEMMA CandleInvariance == Spec => []CandleInv
<1>1. Init => CandleInv
  <2> SUFFICES ASSUME Init PROVE CandleInv
    OBVIOUS
  <2>1. Event = {} /\ \A n \in Frame : candles[n] = <<>> /\ late[n] = {} /\ 1..Len(candles[n]) = {}
    BY DEF Init, Event
  <2>2. TimeInv
    BY <2>1 DEF TimeInv
  <2>3. ASSUME NEW n \in Frame PROVE TickInv(n) /\ RowInv(n) /\ CountInv(n) /\ OrderInv(n)
    <3>1. \A k, p, i : ~At(n, k, p, i) /\ ~IsOpen(n, k) /\ ~IsClosed(n, k)
      BY <2>1 DEF At, IsOpen, IsClosed
    <3> QED
      BY <2>1, <3>1 DEF TickInv, RowInv, CountInv, OrderInv
  <2> QED
    BY <2>2, <2>3 DEF CandleInv
<1>2. IInv /\ CandleInv /\ [Next]_vars => CandleInv'
  <2> SUFFICES ASSUME IInv, CandleInv, [Next]_vars PROVE CandleInv'
    OBVIOUS
  <2>1. IInv' /\ (Quiet \/ Arrives \/ Ends \/ \E i \in Event : Feeds(i))
    BY Steps
  <2>2. TimeInv'
    BY <2>1, TimeKept DEF CandleInv
  <2>3. \A n \in Frame : TickInv(n)'
    BY <2>1, TickKept DEF CandleInv
  <2>4. \A n \in Frame : RowInv(n)'
    BY <2>1, RowKept DEF CandleInv
  <2>5. \A n \in Frame : CountInv(n)'
    BY <2>1, CountKept DEF CandleInv
  <2>6. \A n \in Frame : OrderInv(n)'
    BY <2>1, OrderKept DEF CandleInv
  <2> QED
    BY <2>2, <2>3, <2>4, <2>5, <2>6 DEF CandleInv
<1> QED
  BY <1>1, <1>2, Invariance, PTL DEF Spec

(* The candles table never has two rows for one timeframe and time           *)
(* (candle_service.py, candle_aggregator.py), for any timeframes and quotes. *)
THEOREM OneRowPerTime == Spec => []RowsUnique
<1>1. IInv /\ CandleInv => RowsUnique
  BY RowsDiffer DEF CandleInv
<1> QED
  BY <1>1, Invariance, CandleInvariance, PTL

(* Every event is counted at most once in a timeframe, and once when its   *)
(* handler is done (candle_service.py), for any timeframes and quotes.     *)
THEOREM EventsCountedOnce == Spec => []CountedOnce
<1>1. IInv /\ CandleInv => CountedOnce
  BY EventsCounted DEF CandleInv
<1> QED
  BY <1>1, Invariance, CandleInvariance, PTL

(* Only an event that a later one overtook is in a candle of another time or *)
(* behind a later event (candle_service.py), for any timeframes and quotes.  *)
THEOREM MisplacedWereLate == Spec => []OnlyLateMisplaced
<1>1. IInv /\ CandleInv => OnlyLateMisplaced
  BY EventsInOrder DEF CandleInv
<1> QED
  BY <1>1, Invariance, CandleInvariance, PTL
=============================================================================
