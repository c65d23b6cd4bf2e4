---------------------------- MODULE TickFeedProofs --------------------------
(***************************************************************************)
(* Ticks, live bars and seeds, for any length of an hour, any staleness up *)
(* to an hour, any number of ticks on the wire in any order, any restarts  *)
(* of the trader and backfills whenever they are run.                      *)
(*                                                                         *)
(* The builder goes by exchange times: the filter lets sequence numbers    *)
(* only rise, the venue numbers its ticks in the order of their times      *)
(* (InOrder), so the hour under way is never one gone by (HourUnderWay).   *)
(* The seeds go by the machine's clock: they are of hours that were over   *)
(* when the trader started (Sourced), and a tick it accepts is at most     *)
(* max_staleness old; so the first live bar is of a later hour than every  *)
(* seed, or of the last one if that was only just over (FreshFollows).     *)
(* GapComing says of the hour under way what GapsFlagged will say of its   *)
(* bar.                                                                    *)
(***************************************************************************)
EXTENDS TickFeed, FiniteSetTheorems, SequenceTheorems, TLAPS

Bars    == [hour : Int, last : Int, complete : BOOLEAN, live : BOOLEAN]
Accs    == [hour : Int, last : Int, complete : BOOLEAN]
Candles == {"none", "part", "whole"}

FeedTypeOK ==
  /\ clock \in Nat /\ seq \in Nat
  /\ acc \in Accs /\ hist \in Seq(Bars)
  /\ candle \in [Hours -> Candles]
  /\ job \in [now : Int, at : {"idle", "funding", "candles"}]
  /\ started \in Int /\ started <= clock

\* The venue numbers its ticks in the order of their times; the last one accepted
\* is one of them.
Sent(t) == t.ts \in Nat /\ t.seq \in Nat /\ t.ts <= clock /\ t.seq <= seq

Known == wire \cup ({previous} \ {NoTick})

InOrder == \A a \in Known : Sent(a) /\ \A b \in Known : a.seq < b.seq => a.ts <= b.ts

Settled == \A h \in Hours : candle[h] # "none" => candle[h] = "whole"

JobTimed == job # NoJob => job.now \in Nat /\ job.now <= clock

\* Seeds are of stored candles of hours over at the start, live bars of their own ticks.
Sourced ==
  \A i \in DOMAIN hist :
    /\ hist[i].live => acc # NoAcc /\ HourOf(hist[i].last) = hist[i].hour
    /\ ~hist[i].live => /\ hist[i].hour \in Hours /\ candle[hist[i].hour] = "whole"
                        /\ Ended(hist[i].hour, started)

\* The hour under way is that of the last tick accepted.
HourUnderWay ==
  /\ acc = NoAcc <=> previous = NoTick
  /\ acc # NoAcc => acc.last = previous.ts /\ acc.hour = HourOf(previous.ts)
  /\ ~up => acc = NoAcc /\ hist = <<>>

GapComing ==
  acc # NoAcc /\ Len(hist) > 0 /\ hist[Len(hist)].live /\ acc.hour > hist[Len(hist)].hour + 1
    => ~acc.complete

FeedInv ==
  /\ FeedTypeOK /\ InOrder /\ Settled /\ JobTimed
  /\ Sourced /\ HourUnderWay /\ GapComing /\ HoursAscend /\ GapsFlagged

-----------------------------------------------------------------------------
(* Hours.                                                                   *)

LEMMA Sizes ==
  /\ HourLen \in Nat /\ HourLen > 0 /\ MaxStale \in Nat /\ MaxStale <= HourLen
  /\ MaxClock \in Nat /\ Wanted \in Nat
BY FeedAssumption

LEMMA Scaled ==
  ASSUME NEW k \in Nat, NEW a \in Int, NEW b \in Int
  PROVE  (a + 1) * k = a * k + k /\ (a <= b => a * k <= b * k)
OBVIOUS

LEMMA HourOfFacts ==
  ASSUME NEW t \in Nat
  PROVE  /\ HourOf(t) \in Nat
         /\ \A h \in Int : h < HourOf(t) <=> (h + 1) * HourLen <= t
<1> DEFINE q == HourOf(t)
<1>1. q \in Nat /\ q * HourLen <= t /\ t < q * HourLen + HourLen
  BY Sizes DEF HourOf
<1> HIDE DEF q
<1>2. ASSUME NEW h \in Int, q <= h PROVE t < (h + 1) * HourLen
  <2>1. q * HourLen <= h * HourLen /\ (h + 1) * HourLen = h * HourLen + HourLen
    BY <1>1, <1>2, Sizes, Scaled
  <2>2. q * HourLen \in Int /\ h * HourLen \in Int
    BY <1>1, Sizes
  <2> QED
    BY <1>1, <2>1, <2>2, Sizes
<1>3. ASSUME NEW h \in Int, h < q PROVE (h + 1) * HourLen <= t
  <2>1. h + 1 <= q /\ h + 1 \in Int
    BY <1>1, <1>3
  <2>2. (h + 1) * HourLen <= q * HourLen
    BY <1>1, <2>1, Sizes, Scaled
  <2>3. q * HourLen \in Int /\ (h + 1) * HourLen \in Int
    BY <1>1, Sizes
  <2> QED
    BY <1>1, <2>2, <2>3
<1>4. ASSUME NEW h \in Int PROVE h < q <=> (h + 1) * HourLen <= t
  <2>1. (h + 1) * HourLen \in Int
    BY Sizes
  <2> QED
    BY <1>1, <1>2, <1>3, <2>1
<1> QED
  BY <1>1, <1>4 DEF q

LEMMA HourOfMonotone ==
  ASSUME NEW t \in Nat, NEW u \in Nat, t <= u PROVE HourOf(t) <= HourOf(u)
<1> DEFINE q == HourOf(u)
           p == HourOf(t)
<1>1. p \in Nat /\ (q < p <=> (q + 1) * HourLen <= t)
  BY HourOfFacts
<1>2. q \in Nat /\ ~(q < q) /\ ~((q + 1) * HourLen <= u)
  BY HourOfFacts
<1>3. (q + 1) * HourLen \in Int
  BY <1>2, Sizes
<1> HIDE DEF q, p
<1>4. p <= q
  BY <1>1, <1>2, <1>3
<1> QED
  BY <1>4 DEF p, q

LEMMA HoursFacts == Hours \subseteq Nat /\ IsFiniteSet(Hours)
<1>1. HourOf(MaxClock) \in Nat
  BY HourOfFacts, Sizes
<1>2. IsFiniteSet(0..HourOf(MaxClock))
  BY <1>1, FS_Interval
<1> QED
  BY <1>1, <1>2 DEF Hours

\* A tick fresh enough to be accepted is of no hour that was over at the start, or of one
\* that was only just over.
LEMMA FreshFollows ==
  ASSUME NEW h \in Nat, NEW t \in Nat, NEW n \in Nat, NEW s \in Int, n - t <= MaxStale, s <= n, Ended(h, s)
  PROVE  h < HourOf(t) \/ (h = HourOf(t) /\ s - (h + 1) * HourLen < MaxStale)
<1> DEFINE e == (h + 1) * HourLen
           b == h * HourLen
           q == HourOf(t)
<1>1. /\ e \in Int /\ b \in Int /\ e = b + HourLen /\ q \in Nat
      /\ h < q <=> e <= t
      /\ h - 1 < q <=> (h - 1 + 1) * HourLen <= t
  BY HourOfFacts, Sizes, Scaled
<1>2. (h - 1 + 1) * HourLen = b
  BY Sizes
<1>3. e <= s
  BY DEF Ended
<1> HIDE DEF e, b, q
<1>4. b <= t
  BY <1>1, <1>3, Sizes
<1>5. h <= q
  BY <1>1, <1>2, <1>4
<1>6. ~(h < q) => s - e < MaxStale
  BY <1>1, <1>3, Sizes
<1> QED
  BY <1>1, <1>5, <1>6 DEF e, q

-----------------------------------------------------------------------------
(* Steps that leave the trader alone.                                       *)

LEMMA NoAccFacts == NoAcc.hour = -1 /\ NoAcc \in Accs
BY DEF NoAcc, Accs

LEMMA OrderShrinks ==
  ASSUME FeedInv, Known' \subseteq Known, clock' \in Nat, seq' \in Nat, clock <= clock', seq <= seq'
  PROVE  InOrder'
<1>1. ASSUME NEW t, Sent(t) PROVE Sent(t)'
  <2>1. clock \in Nat /\ seq \in Nat /\ t.ts \in Nat /\ t.seq \in Nat /\ t.ts <= clock /\ t.seq <= seq
    BY <1>1 DEF FeedInv, FeedTypeOK, Sent
  <2>2. t.ts <= clock' /\ t.seq <= seq'
    BY <2>1
  <2> QED
    BY <2>1, <2>2 DEF Sent
<1> QED
  BY <1>1 DEF FeedInv, InOrder

LEMMA TraderFrame ==
  ASSUME FeedInv, UNCHANGED <<up, previous, acc, hist, started>>, FeedTypeOK', InOrder', Settled', JobTimed',
         \A h \in Hours : candle[h] = "whole" => candle'[h] = "whole"
  PROVE  FeedInv'
<1>1. Sourced'
  BY DEF FeedInv, Sourced, Ended
<1>2. HourUnderWay' /\ GapComing' /\ GapsFlagged'
  BY DEF FeedInv, HourUnderWay, GapComing, GapsFlagged
<1>3. HoursAscend'
  BY DEF FeedInv, HoursAscend, Before, JustOver, Closed
<1> QED
  BY <1>1, <1>2, <1>3 DEF FeedInv

LEMMA LoseKeeps == ASSUME FeedInv, NEW t \in wire, Lose(t) PROVE FeedInv'
<1>1. UNCHANGED <<clock, seq, up, previous, acc, hist, started, candle, job>> /\ wire' = wire \ {t}
  BY DEF Lose, trader, store
<1>2. FeedTypeOK' /\ Settled' /\ JobTimed'
  BY <1>1 DEF FeedInv, FeedTypeOK, Settled, JobTimed
<1>3. clock' \in Nat /\ seq' \in Nat /\ clock <= clock' /\ seq <= seq'
  BY <1>1 DEF FeedInv, FeedTypeOK
<1>4. Known' \subseteq Known
  BY <1>1 DEF Known
<1>5. InOrder'
  BY <1>3, <1>4, OrderShrinks
<1> QED
  BY <1>1, <1>2, <1>5, TraderFrame

LEMMA EmitKeeps == ASSUME FeedInv, NEW mark \in Marks, Emit(mark) PROVE FeedInv'
<1> DEFINE t == [ts |-> clock, seq |-> seq + 1, mark |-> mark]
<1>1. UNCHANGED <<clock, up, previous, acc, hist, started, candle, job>> /\ wire' = wire \cup {t} /\ seq' = seq + 1
  BY DEF Emit, trader, store
<1>2. clock \in Nat /\ seq \in Nat /\ t.ts = clock /\ t.seq = seq + 1
  BY DEF FeedInv, FeedTypeOK
<1>3. FeedTypeOK' /\ Settled' /\ JobTimed'
  BY <1>1, <1>2 DEF FeedInv, FeedTypeOK, Settled, JobTimed
<1> HIDE DEF t
<1>4. Known' = Known \cup {t}
  BY <1>1 DEF Known
<1>5. \A a \in Known : a.ts \in Nat /\ a.seq \in Nat /\ a.ts <= clock /\ a.seq <= seq
  BY DEF FeedInv, InOrder, Sent
<1>6. \A a \in Known' : a.ts \in Nat /\ a.seq \in Nat /\ a.ts <= clock /\ a.seq <= seq + 1
  BY <1>2, <1>4, <1>5
<1>7. \A a, b \in Known' : a.seq < b.seq => a.ts <= b.ts
  <2> SUFFICES ASSUME NEW a \in Known', NEW b \in Known', a.seq < b.seq PROVE a.ts <= b.ts
    OBVIOUS
  <2>1. CASE b = t
    BY <1>2, <1>6, <2>1
  <2>2. CASE b # t
    <3>1. b \in Known /\ b.seq \in Nat /\ b.seq <= seq
      BY <1>4, <1>5, <2>2
    <3>2. a # t
      BY <1>2, <3>1
    <3>3. a \in Known
      BY <1>4, <3>2
    <3> QED
      BY <3>1, <3>3 DEF FeedInv, InOrder
  <2> QED
    BY <2>1, <2>2
<1>8. InOrder'
  BY <1>1, <1>6, <1>7 DEF InOrder, Sent
<1> QED
  BY <1>1, <1>3, <1>8, TraderFrame

LEMMA PassKeeps == ASSUME FeedInv, Pass PROVE FeedInv'
<1>1. UNCHANGED <<seq, wire, up, previous, acc, hist, started, candle, job>> /\ clock' = clock + 1
  BY DEF Pass, trader, store
<1>2. clock \in Nat /\ seq \in Nat /\ clock' \in Nat /\ seq' \in Nat /\ clock <= clock' /\ seq <= seq'
  BY <1>1 DEF FeedInv, FeedTypeOK
<1>3. FeedTypeOK'
  BY <1>1, <1>2 DEF FeedInv, FeedTypeOK
<1>4. Settled'
  BY <1>1 DEF FeedInv, Settled
<1>5. JobTimed'
  BY <1>1, <1>2 DEF FeedInv, JobTimed
<1>6. Known' = Known
  BY <1>1 DEF Known
<1>7. InOrder'
  BY <1>2, <1>6, OrderShrinks
<1> QED
  BY <1>1, <1>3, <1>4, <1>5, <1>7, TraderFrame

\* A step of the backfill that stores no candle.
LEMMA JobFrame ==
  ASSUME FeedInv, UNCHANGED <<clock, seq, wire, up, previous, acc, hist, started, candle>>, JobTimed',
         job' \in [now : Int, at : {"idle", "funding", "candles"}]
  PROVE  FeedInv'
<1>1. FeedTypeOK' /\ Settled'
  BY DEF FeedInv, FeedTypeOK, Settled
<1>2. InOrder'
  BY DEF FeedInv, InOrder, Sent, Known
<1> QED
  BY <1>1, <1>2, TraderFrame

LEMMA JobStartsKeeps == ASSUME FeedInv, JobStarts PROVE FeedInv'
<1>1. UNCHANGED <<clock, seq, wire, up, previous, acc, hist, started, candle>>
      /\ job' = [now |-> clock, at |-> "funding"] /\ clock \in Nat
  BY DEF FeedInv, FeedTypeOK, JobStarts, trader
<1>2. job' \in [now : Int, at : {"idle", "funding", "candles"}] /\ job'.now = clock
  BY <1>1
<1>3. JobTimed'
  BY <1>1, <1>2 DEF JobTimed
<1> QED
  BY <1>1, <1>2, <1>3, JobFrame

LEMMA NoJobFacts ==
  NoJob \in [now : Int, at : {"idle", "funding", "candles"}] /\ NoJob.at = "idle" /\ NoJob.now = -1
BY DEF NoJob

LEMMA StoreFundingKeeps == ASSUME FeedInv, StoreFunding PROVE FeedInv'
<1>1. UNCHANGED <<clock, seq, wire, up, previous, acc, hist, started, candle>> /\ job.at = "funding"
      /\ job' = [job EXCEPT !.at = "candles"]
  BY DEF StoreFunding, trader
<1>2. job' \in [now : Int, at : {"idle", "funding", "candles"}] /\ job'.now = job.now /\ job # NoJob
  BY <1>1, NoJobFacts DEF FeedInv, FeedTypeOK
<1>3. JobTimed'
  BY <1>1, <1>2 DEF FeedInv, JobTimed
<1> QED
  BY <1>1, <1>2, <1>3, JobFrame

LEMMA JobFailsKeeps == ASSUME FeedInv, JobFails PROVE FeedInv'
<1>1. UNCHANGED <<clock, seq, wire, up, previous, acc, hist, started, candle>> /\ job' = NoJob
  BY DEF JobFails, trader
<1>2. JobTimed'
  BY <1>1 DEF JobTimed, NoJob
<1> QED
  BY <1>1, <1>2, NoJobFacts, JobFrame

LEMMA StoreCandlesKeeps == ASSUME FeedInv, StoreCandles PROVE FeedInv'
<1>1. UNCHANGED <<clock, seq, wire, up, previous, acc, hist, started>> /\ job' = NoJob /\ job.at = "candles"
  BY DEF StoreCandles, trader
<1>2. job # NoJob /\ job.now \in Nat /\ job.now <= clock /\ clock \in Nat
  BY <1>1, NoJobFacts DEF FeedInv, FeedTypeOK, JobTimed
<1>3. candle' = [h \in Hours |->
       IF candle[h] = "none" /\ h * HourLen <= clock /\ Keeps(h)
         THEN IF Ended(h, clock) THEN "whole" ELSE "part"
         ELSE candle[h]]
  BY DEF StoreCandles
<1>4. ASSUME NEW h \in Hours, Keeps(h) PROVE Ended(h, clock)
  <2>1. (h + 1) * HourLen \in Int
    BY HoursFacts, Sizes
  <2> QED
    BY <1>2, <1>4, <2>1 DEF Keeps, Ended
<1>5. candle \in [Hours -> Candles]
  BY DEF FeedInv, FeedTypeOK
<1>6. ASSUME NEW h \in Hours
      PROVE  /\ candle'[h] \in Candles
             /\ candle[h] = "whole" => candle'[h] = "whole"
             /\ candle'[h] # "none" => candle'[h] = "whole"
  <2>1. candle'[h] = IF candle[h] = "none" /\ h * HourLen <= clock /\ Keeps(h)
                       THEN IF Ended(h, clock) THEN "whole" ELSE "part"
                       ELSE candle[h]
    BY <1>3
  <2>2. candle[h] # "none" => candle[h] = "whole"
    BY DEF FeedInv, Settled
  <2>3. candle[h] \in Candles
    BY <1>5
  <2> QED
    BY <1>4, <2>1, <2>2, <2>3 DEF Candles
<1>7. candle' \in [Hours -> Candles]
  BY <1>3, <1>6
<1>8. FeedTypeOK'
  BY <1>1, <1>7, NoJobFacts DEF FeedInv, FeedTypeOK
<1>9. Settled'
  BY <1>1, <1>6 DEF Settled
<1>10. JobTimed'
  BY <1>1 DEF JobTimed, NoJob
<1>11. InOrder'
  BY <1>1 DEF FeedInv, InOrder, Sent, Known
<1> QED
  BY <1>1, <1>6, <1>8, <1>9, <1>10, <1>11, TraderFrame

-----------------------------------------------------------------------------
(* The trader starts, stops and receives.                                   *)

LEMMA StopKeeps == ASSUME FeedInv, Stop PROVE FeedInv'
<1>1. UNCHANGED <<clock, seq, wire, candle, job>> /\ up' = FALSE /\ previous' = NoTick /\ acc' = NoAcc
      /\ hist' = <<>> /\ started' = -1
  BY DEF Stop, store
<1>2. clock' \in Nat /\ seq' \in Nat /\ clock <= clock' /\ seq <= seq'
  BY <1>1 DEF FeedInv, FeedTypeOK
<1>3. <<>> \in Seq(Bars) /\ Len(<<>>) = 0 /\ DOMAIN <<>> = {}
  OBVIOUS
<1>4. FeedTypeOK'
  BY <1>1, <1>3, NoAccFacts DEF FeedInv, FeedTypeOK
<1>5. Settled' /\ JobTimed'
  BY <1>1 DEF FeedInv, Settled, JobTimed
<1>6. Known' \subseteq Known
  BY <1>1 DEF Known
<1>7. InOrder'
  BY <1>2, <1>6, OrderShrinks
<1>8. Sourced' /\ HourUnderWay' /\ GapComing' /\ HoursAscend'
  BY <1>1, <1>3 DEF Sourced, HourUnderWay, GapComing, HoursAscend
<1>9. GapsFlagged'
  BY <1>1, <1>3 DEF GapsFlagged
<1> QED
  BY <1>4, <1>5, <1>7, <1>8, <1>9 DEF FeedInv

LEMMA StartUpKeeps == ASSUME FeedInv, StartUp PROVE FeedInv'
<1>1. UNCHANGED <<clock, seq, wire, candle, job, previous, acc>> /\ ~up /\ started' = clock
  BY DEF StartUp, store
<1>2. acc = NoAcc /\ previous = NoTick
  BY <1>1 DEF FeedInv, HourUnderWay
<1>3. PICK order \in Ascending(Seeds) : hist' = [i \in DOMAIN order |-> SeedBar(order[i])]
  BY DEF StartUp
<1> DEFINE n == Cardinality(Seeds)
<1>4. Seeds \subseteq Hours /\ \A h \in Seeds : candle[h] # "none" /\ h < HourOf(clock)
  BY DEF Seeds, Window, CompleteBar
<1>c. clock \in Nat /\ clock \in Int
  BY DEF FeedInv, FeedTypeOK
<1>5. n \in Nat
  BY <1>4, HoursFacts, FS_Subset, FS_CardinalityType
<1>6. order \in [1..n -> Seeds] /\ \A i, j \in 1..n : i < j => order[i] < order[j]
  BY <1>3 DEF Ascending
<1> HIDE DEF n
<1>7. hist' = [i \in 1..n |-> SeedBar(order[i])]
  BY <1>3, <1>6
<1>8. ASSUME NEW i \in 1..n
      PROVE  /\ hist'[i] \in Bars /\ hist'[i].hour = order[i] /\ ~hist'[i].live
             /\ hist'[i].hour \in Hours /\ candle[hist'[i].hour] = "whole" /\ Ended(hist'[i].hour, clock)
  <2>1. order[i] \in Hours /\ candle[order[i]] # "none" /\ order[i] < HourOf(clock)
    BY <1>4, <1>6
  <2>2. \A h \in Hours : h \in Int
    BY HoursFacts
  <2>3. hist'[i] = SeedBar(order[i])
    BY <1>7
  <2>4. candle[order[i]] = "whole"
    BY <2>1 DEF FeedInv, Settled
  <2>5. Ended(order[i], clock)
    BY <1>c, <2>1, <2>2, HourOfFacts DEF Ended
  <2> QED
    BY <2>1, <2>2, <2>3, <2>4, <2>5 DEF SeedBar, Bars
<1>9. hist' \in Seq(Bars) /\ DOMAIN hist' = 1..n /\ Len(hist') = n
  BY <1>5, <1>7, <1>8
<1>10. FeedTypeOK'
  BY <1>1, <1>9, <1>c DEF FeedInv, FeedTypeOK
<1>11. Settled' /\ JobTimed' /\ InOrder'
  BY <1>1 DEF FeedInv, Settled, JobTimed, InOrder, Sent, Known
<1>12. Sourced'
  BY <1>1, <1>8, <1>9 DEF Sourced, Ended
<1>13. HourUnderWay' /\ GapComing'
  BY <1>1, <1>2 DEF HourUnderWay, GapComing, StartUp
<1>14. HoursAscend'
  BY <1>1, <1>2, <1>6, <1>8, <1>9 DEF HoursAscend, Before
<1>15. GapsFlagged'
  <2> SUFFICES ASSUME NEW i \in 2..n PROVE ~hist'[i - 1].live
    BY <1>9 DEF GapsFlagged
  <2>1. i - 1 \in 1..n
    BY <1>5
  <2> QED
    BY <1>8, <2>1
<1> QED
  BY <1>10, <1>11, <1>12, <1>13, <1>14, <1>15 DEF FeedInv

\* What a tick that passes the filter is to the trader.
LEMMA AcceptedFacts ==
  ASSUME FeedInv, NEW t \in wire, ~Rejected(t)
  PROVE  /\ t.ts \in Nat /\ t # NoTick /\ HourOf(t.ts) \in Nat
         /\ acc # NoAcc => acc.hour <= HourOf(t.ts)
         /\ acc = NoAcc => \A i \in DOMAIN hist :
              hist[i].hour < HourOf(t.ts) \/ (hist[i].hour = HourOf(t.ts) /\ JustOver(hist[i].hour))
<1>1. t \in Known /\ Sent(t) /\ clock \in Nat
  BY DEF Known, FeedInv, InOrder, FeedTypeOK
<1>2. t.ts \in Nat /\ t.seq \in Nat /\ t # NoTick /\ HourOf(t.ts) \in Nat
  BY <1>1, HourOfFacts DEF Sent, NoTick
<1>3. ~(clock - t.ts > MaxStale) /\ ~OutOfOrder(t)
  BY DEF Rejected, Stale
<1>4. ASSUME acc # NoAcc PROVE acc.hour <= HourOf(t.ts)
  <2>1. previous # NoTick /\ acc.hour = HourOf(previous.ts)
    BY <1>4 DEF FeedInv, HourUnderWay
  <2>2. previous \in Known /\ previous.ts \in Nat /\ previous.seq \in Nat
    BY <2>1 DEF Known, FeedInv, InOrder, Sent
  <2>3. previous.seq < t.seq
    BY <1>2, <1>3, <2>1, <2>2 DEF OutOfOrder
  <2>4. previous.ts <= t.ts
    BY <1>1, <2>2, <2>3 DEF FeedInv, InOrder
  <2> QED
    BY <1>2, <2>1, <2>2, <2>4, HourOfMonotone
<1>5. ASSUME acc = NoAcc, NEW i \in DOMAIN hist
      PROVE  hist[i].hour < HourOf(t.ts) \/ (hist[i].hour = HourOf(t.ts) /\ JustOver(hist[i].hour))
  <2>1. hist[i].hour \in Nat /\ Ended(hist[i].hour, started)
    BY <1>5, HoursFacts DEF FeedInv, Sourced
  <2>2. started \in Int /\ started <= clock
    BY DEF FeedInv, FeedTypeOK
  <2>3. clock - t.ts <= MaxStale
    BY <1>1, <1>2, <1>3, Sizes
  <2> QED
    BY <1>1, <1>2, <2>1, <2>2, <2>3, FreshFollows DEF JustOver
<1> QED
  BY <1>2, <1>4, <1>5

\* The parts of the invariant that the tick itself moves.
LEMMA ReceiveFrame ==
  ASSUME FeedInv, NEW t \in wire, ~Rejected(t), up, UNCHANGED <<clock, seq, up, started, candle, job>>,
         wire' = wire \ {t}, previous' = t,
         acc' \in Accs, hist' \in Seq(Bars), acc' # NoAcc, acc'.last = t.ts, acc'.hour = HourOf(t.ts),
         Sourced', GapComing', HoursAscend', GapsFlagged'
  PROVE  FeedInv'
<1>1. t # NoTick
  BY AcceptedFacts
<1>2. Known' \subseteq Known
  BY DEF Known
<1>3. clock' \in Nat /\ seq' \in Nat /\ clock <= clock' /\ seq <= seq'
  BY DEF FeedInv, FeedTypeOK
<1>4. InOrder'
  BY <1>2, <1>3, OrderShrinks
<1>5. FeedTypeOK' /\ Settled' /\ JobTimed'
  BY DEF FeedInv, FeedTypeOK, Settled, JobTimed
<1>6. HourUnderWay'
  BY <1>1 DEF HourUnderWay
<1> QED
  BY <1>4, <1>5, <1>6 DEF FeedInv

\* The first tick after a start: the seeds are of hours gone by, the tick of a later one or
\* of the last of them.
LEMMA FirstTickKeeps ==
  ASSUME FeedInv, NEW t \in wire, ~Rejected(t), up, UNCHANGED <<clock, seq, up, started, candle, job>>,
         wire' = wire \ {t}, previous' = t, Empty, acc' = Opened(t, TRUE), hist' = hist
  PROVE  FeedInv'
<1>1. acc = NoAcc /\ t.ts \in Nat /\ HourOf(t.ts) \in Nat
      /\ \A i \in DOMAIN hist :
           hist[i].hour < HourOf(t.ts) \/ (hist[i].hour = HourOf(t.ts) /\ JustOver(hist[i].hour))
  BY AcceptedFacts DEF Empty
<1>2. acc' \in Accs /\ acc'.last = t.ts /\ acc'.hour = HourOf(t.ts) /\ acc' # NoAcc
  BY <1>1, NoAccFacts DEF Opened, Accs
<1>3. hist \in Seq(Bars) /\ \A i \in DOMAIN hist : ~hist[i].live
  BY <1>1 DEF FeedInv, FeedTypeOK, Sourced
<1>4. Sourced' /\ GapsFlagged'
  BY <1>1, <1>2, <1>3 DEF FeedInv, Sourced, Ended, GapsFlagged
<1>6. HoursAscend'
  <2>1. Closed'.hour = HourOf(t.ts) /\ Closed'.live
    BY <1>2 DEF Closed
  <2>2. \A h : JustOver(h)' <=> JustOver(h)
    BY DEF JustOver
  <2>3. \A i \in DOMAIN hist : Before(hist[i], Closed)'
    BY <1>1, <1>3, <2>1, <2>2 DEF Before
  <2>4. \A i, j \in DOMAIN hist : i < j => Before(hist[i], hist[j])'
    BY <2>2 DEF FeedInv, HoursAscend, Before
  <2> QED
    BY <2>3, <2>4 DEF HoursAscend
<1>5. GapComing'
  <2>1. Len(hist) > 0 => Len(hist) \in DOMAIN hist
    BY <1>3
  <2> QED
    BY <1>3, <2>1 DEF GapComing
<1> QED
  BY <1>2, <1>3, <1>4, <1>5, <1>6, ReceiveFrame

\* A tick of the hour under way: none is of an earlier hour, for it would be of a
\* lower number.
LEMMA SameHourKeeps ==
  ASSUME FeedInv, NEW t \in wire, ~Rejected(t), up, UNCHANGED <<clock, seq, up, started, candle, job>>,
         wire' = wire \ {t}, previous' = t, ~Empty, HourOf(t.ts) <= acc.hour,
         acc' = [acc EXCEPT !.last = t.ts], hist' = hist
  PROVE  FeedInv'
<1>1. acc # NoAcc /\ acc \in Accs /\ t.ts \in Nat /\ HourOf(t.ts) \in Nat /\ acc.hour <= HourOf(t.ts)
  BY AcceptedFacts DEF Empty, FeedInv, FeedTypeOK
<1>2. acc.hour = HourOf(t.ts)
  <2>1. acc.hour \in Int
    BY <1>1 DEF Accs
  <2> QED
    BY <1>1, <2>1
<1>3. acc' \in Accs /\ acc'.last = t.ts /\ acc'.hour = acc.hour /\ acc'.complete = acc.complete
  BY <1>1 DEF Accs
<1>4. acc' # NoAcc
  <2>1. HourOf(t.ts) # -1
    BY <1>1
  <2>2. acc'.hour # NoAcc.hour
    BY <1>2, <1>3, <2>1, NoAccFacts
  <2> QED
    BY <2>2, Zenon
<1>5. hist \in Seq(Bars)
  BY DEF FeedInv, FeedTypeOK
<1>6. Sourced' /\ GapsFlagged'
  BY <1>1, <1>3, <1>4 DEF FeedInv, Sourced, Ended, GapsFlagged
<1>8. HoursAscend'
  <2>1. Closed'.hour = Closed.hour /\ Closed'.live = Closed.live
    BY <1>3 DEF Closed
  <2> QED
    BY <1>1, <1>4, <2>1 DEF FeedInv, HoursAscend, Before, JustOver
<1>7. GapComing'
  BY <1>1, <1>3 DEF FeedInv, GapComing
<1> QED
  BY <1>2, <1>3, <1>4, <1>5, <1>6, <1>7, <1>8, ReceiveFrame

\* A tick of a later hour closes the bar under way.
LEMMA NewHourKeeps ==
  ASSUME FeedInv, NEW t \in wire, ~Rejected(t), up, UNCHANGED <<clock, seq, up, started, candle, job>>,
         wire' = wire \ {t}, previous' = t, ~Empty, HourOf(t.ts) > acc.hour,
         hist' = Append(hist, Closed), acc' = Opened(t, Follows(t))
  PROVE  FeedInv'
<1> DEFINE n == Len(hist)
           b == Closed
           h == HourOf(t.ts)
<1>1. acc # NoAcc /\ acc \in Accs /\ hist \in Seq(Bars) /\ t.ts \in Nat /\ h \in Nat
  BY AcceptedFacts DEF Empty, FeedInv, FeedTypeOK
<1>2. acc.last = previous.ts /\ acc.hour = HourOf(acc.last) /\ acc.hour \in Int
  BY <1>1 DEF FeedInv, HourUnderWay, Accs
<1>3. b \in Bars /\ b.hour = acc.hour /\ b.last = acc.last /\ b.complete = acc.complete /\ b.live = TRUE
  BY <1>1 DEF Closed, Accs, Bars
<1>4. Follows(t) \in BOOLEAN /\ (Follows(t) <=> h = acc.hour + 1)
  BY DEF Follows
<1>5. acc' \in Accs /\ acc'.last = t.ts /\ acc'.hour = h /\ acc'.complete = Follows(t)
  BY <1>1, <1>4 DEF Opened, Accs
<1>6. acc' # NoAcc
  BY <1>1, <1>5, NoAccFacts
<1> HIDE DEF b, h
<1>7. /\ n \in Nat /\ hist' \in Seq(Bars) /\ Len(hist') = n + 1
      /\ DOMAIN hist = 1..n /\ DOMAIN hist' = 1..(n + 1)
      /\ hist'[n + 1] = b /\ \A i \in 1..n : hist'[i] = hist[i]
  BY <1>1, <1>3, AppendProperties DEF b
<1> HIDE DEF n
<1>8. \A i \in 1..n : /\ hist[i] \in Bars /\ hist[i].hour \in Int /\ hist[i].hour <= acc.hour
                     /\ Before(hist[i], b)
  <2>1. \A i \in 1..n : hist[i] \in Bars
    BY <1>1, <1>7
  <2>2. \A i \in 1..n : Before(hist[i], b)
    BY <1>1, <1>7 DEF FeedInv, HoursAscend, b
  <2>3. \A i \in 1..n : hist[i].hour \in Int
    BY <2>1 DEF Bars
  <2>4. \A i \in 1..n : hist[i].hour <= acc.hour
    BY <1>2, <1>3, <2>2, <2>3 DEF Before
  <2> QED
    BY <2>1, <2>2, <2>3, <2>4
<1>9. Sourced'
  <2> SUFFICES ASSUME NEW i \in 1..(n + 1)
               PROVE  /\ hist'[i].live => HourOf(hist'[i].last) = hist'[i].hour
                      /\ ~hist'[i].live => /\ hist'[i].hour \in Hours /\ candle[hist'[i].hour] = "whole"
                                           /\ Ended(hist'[i].hour, started)
    BY <1>6, <1>7 DEF Sourced, Ended
  <2>1. CASE i = n + 1
    BY <1>2, <1>3, <1>7, <2>1
  <2>2. CASE i # n + 1
    <3>1. i \in 1..n
      BY <1>7, <2>2
    <3> QED
      BY <1>7, <3>1 DEF FeedInv, Sourced
  <2> QED
    BY <2>1, <2>2
<1>10. HoursAscend'
  <2>1. \A x, y : Before(x, y)' <=> Before(x, y)
    BY DEF Before, JustOver
  <2>2. ASSUME NEW i \in 1..(n + 1), NEW j \in 1..(n + 1), i < j PROVE Before(hist'[i], hist'[j])
    <3>1. i \in 1..n
      BY <1>7, <2>2
    <3>2. CASE j = n + 1
      BY <1>7, <1>8, <3>1, <3>2
    <3>3. CASE j # n + 1
      <4>1. j \in 1..n
        BY <1>7, <3>3
      <4> QED
        BY <1>7, <2>2, <3>1, <4>1 DEF FeedInv, HoursAscend
    <3> QED
      BY <3>2, <3>3
  <2>3. ASSUME NEW i \in 1..(n + 1) PROVE hist'[i].hour < Closed'.hour
    <3>1. acc.hour < h /\ Closed'.hour = h
      BY <1>1, <1>2, <1>5 DEF h, Closed
    <3>2. CASE i = n + 1
      BY <1>3, <1>7, <3>1, <3>2
    <3>3. CASE i # n + 1
      <4>1. i \in 1..n
        BY <1>7, <3>3
      <4> QED
        BY <1>1, <1>2, <1>7, <1>8, <3>1, <4>1
    <3> QED
      BY <3>2, <3>3
  <2>4. \A i, j \in 1..(n + 1) : i < j => Before(hist[i], hist[j])'
    BY <2>1, <2>2 DEF Before, JustOver
  <2>5. \A i \in 1..(n + 1) : Before(hist[i], Closed)'
    BY <2>3 DEF Before
  <2> QED
    BY <1>7, <2>4, <2>5 DEF HoursAscend
<1>11. GapComing'
  BY <1>1, <1>2, <1>3, <1>4, <1>5, <1>7 DEF GapComing
<1>12. GapsFlagged'
  <2> SUFFICES ASSUME NEW i \in 2..(n + 1), hist'[i - 1].live, hist'[i].hour > hist'[i - 1].hour + 1
               PROVE  ~hist'[i].complete
    BY <1>7 DEF GapsFlagged
  <2>1. CASE i = n + 1
    <3>1. n \in 1..n /\ hist'[i - 1] = hist[n] /\ hist'[i] = b /\ n > 0
      BY <1>7, <2>1
    <3>2. hist[n].live /\ acc.hour > hist[n].hour + 1
      BY <1>3, <3>1
    <3> QED
      BY <1>1, <1>3, <3>1, <3>2 DEF FeedInv, GapComing, n
  <2>2. CASE i # n + 1
    <3>1. i \in 2..n /\ i \in 1..n /\ i - 1 \in 1..n
      BY <1>7, <2>2
    <3>2. hist'[i] = hist[i] /\ hist'[i - 1] = hist[i - 1]
      BY <1>7, <3>1
    <3> QED
      BY <3>1, <3>2 DEF FeedInv, GapsFlagged, n
  <2> QED
    BY <2>1, <2>2
<1> QED
  BY <1>5, <1>6, <1>7, <1>9, <1>10, <1>11, <1>12, ReceiveFrame DEF h

LEMMA ReceiveKeeps == ASSUME FeedInv, NEW t \in wire, Receive(t) PROVE FeedInv'
<1>1. up /\ wire' = wire \ {t} /\ UNCHANGED <<clock, seq, up, started, candle, job>>
  BY DEF Receive, store
<1>2. CASE Rejected(t)
  <2>1. UNCHANGED <<previous, acc, hist>>
    BY <1>2 DEF Receive
  <2>2. FeedTypeOK' /\ Settled' /\ JobTimed'
    BY <1>1, <2>1 DEF FeedInv, FeedTypeOK, Settled, JobTimed
  <2>3. clock' \in Nat /\ seq' \in Nat /\ clock <= clock' /\ seq <= seq'
    BY <1>1 DEF FeedInv, FeedTypeOK
  <2>4. Known' \subseteq Known
    BY <1>1, <2>1 DEF Known
  <2>5. InOrder'
    BY <2>3, <2>4, OrderShrinks
  <2> QED
    BY <1>1, <2>1, <2>2, <2>5, TraderFrame
<1>3. CASE ~Rejected(t)
  <2>1. previous' = t /\ OnTick(t)
    BY <1>3 DEF Receive
  <2> QED
    BY <1>1, <1>3, <2>1, FirstTickKeeps, NewHourKeeps, SameHourKeeps DEF OnTick
<1> QED
  BY <1>2, <1>3

LEMMA FeedInit == ASSUME Init PROVE FeedInv
<1>1. clock = 0 /\ seq = 0 /\ wire = {} /\ previous = NoTick /\ acc = NoAcc /\ hist = <<>>
      /\ started = -1 /\ candle = [h \in Hours |-> "none"] /\ job = NoJob /\ up = FALSE
  BY DEF Init
<1>2. <<>> \in Seq(Bars) /\ Len(<<>>) = 0 /\ DOMAIN <<>> = {}
  OBVIOUS
<1>3. FeedTypeOK
  BY <1>1, <1>2, NoAccFacts, NoJobFacts DEF FeedTypeOK, Candles
<1>4. InOrder /\ Settled /\ JobTimed
  BY <1>1 DEF InOrder, Known, Settled, JobTimed
<1>5. Sourced /\ HourUnderWay /\ GapComing /\ HoursAscend
  BY <1>1, <1>2 DEF Sourced, HourUnderWay, GapComing, HoursAscend
<1>6. GapsFlagged
  BY <1>1, <1>2 DEF GapsFlagged
<1> QED
  BY <1>3, <1>4, <1>5, <1>6 DEF FeedInv

LEMMA FeedStutter == ASSUME FeedInv, UNCHANGED vars PROVE FeedInv'
<1>1. UNCHANGED <<clock, seq, wire, up, previous, acc, hist, started, candle, job>>
  BY DEF vars, trader, store
<1>2. JobTimed' /\ job' \in [now : Int, at : {"idle", "funding", "candles"}]
  BY <1>1 DEF FeedInv, FeedTypeOK, JobTimed
<1> QED
  BY <1>1, <1>2, JobFrame

LEMMA FeedStep == ASSUME FeedInv, [Next]_vars PROVE FeedInv'
<1>1. CASE UNCHANGED vars
  BY <1>1, FeedStutter
<1>2. ASSUME NEW t \in wire, Receive(t) \/ Lose(t) PROVE FeedInv'
  BY <1>2, ReceiveKeeps, LoseKeeps
<1>3. ASSUME NEW mark \in Marks, Emit(mark) PROVE FeedInv'
  BY <1>3, EmitKeeps
<1>4. CASE Pass \/ StartUp \/ Stop
  BY <1>4, PassKeeps, StartUpKeeps, StopKeeps
<1>5. CASE JobStarts \/ StoreFunding \/ StoreCandles \/ JobFails
  BY <1>5, JobStartsKeeps, StoreFundingKeeps, StoreCandlesKeeps, JobFailsKeeps
<1> QED
  BY <1>1, <1>2, <1>3, <1>4, <1>5 DEF Next

(* Whatever the websocket drops, delays, reorders and replays, and however  *)
(* backfill and restarts fall, the invariant of filter, builder and seeds   *)
(* holds (filters.py, live_bars.py, run_trader.py seed_history).            *)
THEOREM FeedInvariant == Spec => []FeedInv
<1>1. Init => FeedInv
  BY FeedInit
<1>2. FeedInv /\ [Next]_vars => FeedInv'
  BY FeedStep
<1> QED
  BY <1>1, <1>2, PTL DEF Spec

(* The history a strategy reads is in order, whenever the backfill was run,  *)
(* and has one bar per hour but where the live bars join the seeds: there an *)
(* hour is in it twice only if it had ended less than max_staleness before   *)
(* the start (LiveBarBuilder.seed and on_tick, seed_history, check_tick).    *)
THEOREM HoursInOrder == Spec => []HoursAscend
<1>1. FeedInv => HoursAscend
  BY DEF FeedInv
<1> QED
  BY <1>1, FeedInvariant, PTL

(* A live bar that does not follow the live bar before it is incomplete     *)
(* (LiveBarBuilder.on_tick).                                                *)
THEOREM GapsAlwaysFlagged == Spec => []GapsFlagged
<1>1. FeedInv => GapsFlagged
  BY DEF FeedInv
<1> QED
  BY <1>1, FeedInvariant, PTL

(* A live bar closes at a tick of its own hour: sequence numbers rise with  *)
(* exchange times, so no accepted tick is of an hour gone by (check_tick).  *)
THEOREM BarsOwnTheirTicks == Spec => []OwnTicksOnly
<1>1. FeedInv => OwnTicksOnly
  BY DEF FeedInv, Sourced, OwnTicksOnly
<1> QED
  BY <1>1, FeedInvariant, PTL

(* No seed is of a candle fetched while its hour was running (closed(),     *)
(* seed_history).                                                           *)
THEOREM SeedsAlwaysWhole == Spec => []SeedsWhole
<1>1. FeedInv => SeedsWhole
  BY DEF FeedInv, Sourced, SeedsWhole
<1> QED
  BY <1>1, FeedInvariant, PTL
=============================================================================
