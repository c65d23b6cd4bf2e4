----------------------------- MODULE TickFeed ------------------------------
(***************************************************************************)
(* One instrument's path from ticks to hourly bars: the filter             *)
(* (data_ingest/filters.py) in MarketFeed.run (market_feed.py),            *)
(* LiveBarBuilder (live_bars.py) as run_trader starts, seeds and stops it, *)
(* and the hourly backfill whose candles the seeds are made of.            *)
(*                                                                         *)
(* Time is counted in slots, HourLen to the hour.  A tick is its exchange  *)
(* time, its sequence number and its mark, of which only "differs by more  *)
(* than max_jump" matters; one with an insane price or funding rate is     *)
(* rejected without effect, like one that is lost.  The websocket is       *)
(* external: it drops, delays and reorders ticks, and may replay to a new  *)
(* subscriber what it sent before.                                         *)
(***************************************************************************)
EXTENDS Integers, Sequences, FiniteSets

CONSTANTS HourLen,      \* slots in an hour
          MaxStale,     \* max_staleness
          BaselineAge,  \* max_baseline_age
          Wanted,       \* bars asked of seed_history
          MaxClock,     \* bound: the last slot
          MaxSeq,       \* bound: ticks emitted
          MaxWire,      \* bound: ticks on their way at once
          MaxCrash      \* bound: how many times the trader ends

ASSUME FeedAssumption ==
  /\ {HourLen, MaxStale, BaselineAge, Wanted, MaxClock, MaxSeq, MaxWire, MaxCrash} \subseteq Nat
  /\ HourLen > 0
  /\ MaxStale <= HourLen   \* seconds

VARIABLES clock,
          seq,      \* the sequence number of the venue's last tick
          wire,     \* ticks on their way
          up,       \* the trader runs
          previous, \* MarketFeed._previous
          acc,      \* LiveBarBuilder._acc
          hist,     \* LiveBarBuilder._hist
          started,  \* when the running trader was started and seeded
          candle,   \* the stored 1h candle of an hour: "none", "part" or "whole"
          funding,  \* hours whose settlement is stored
          job,      \* the backfill run under way
          crashes

trader == <<up, previous, acc, hist, started, crashes>>
store  == <<candle, funding, job>>
vars   == <<clock, seq, wire, trader, store>>

HourOf(t) == t \div HourLen      \* floor_hour
Hours     == 0..HourOf(MaxClock)
Marks     == {0, 1}
Ticks     == [ts : 0..MaxClock, seq : 1..MaxSeq, mark : Marks]
NoTick    == [ts |-> -1, seq |-> 0, mark |-> 0]
NoAcc     == [hour |-> -1, last |-> -1, complete |-> FALSE]
NoJob     == [now |-> -1, at |-> "idle"]

-----------------------------------------------------------------------------
(* check_tick.                                                              *)

\* Bug: the age of a tick is not looked at.
BugNeverStale(t) == FALSE

Stale(t) == clock - t.ts > MaxStale

\* Bug: the sequence is not compared.
BugAnyOrder(t) == FALSE

OutOfOrder(t) == previous # NoTick /\ t.seq <= previous.seq

PriceJump(t) ==
  previous # NoTick /\ t.ts - previous.ts <= BaselineAge /\ t.mark # previous.mark

Rejected(t) == Stale(t) \/ OutOfOrder(t) \/ PriceJump(t)

-----------------------------------------------------------------------------
(* LiveBarBuilder.on_tick and MarketFeed.run.                               *)

\* Bug: any later hour is complete.
BugGapComplete(t) == TRUE

\* The hour that starts with t is complete: it follows the one that closes.
Follows(t) == HourOf(t.ts) = acc.hour + 1

Closed == [hour |-> acc.hour, last |-> acc.last, complete |-> acc.complete, live |-> TRUE]

Opened(t, complete) == [hour |-> HourOf(t.ts), last |-> t.ts, complete |-> complete]

Empty == acc = NoAcc

OnTick(t) ==
  \/ /\ Empty
     /\ acc' = Opened(t, TRUE)
     /\ UNCHANGED hist
  \/ /\ ~Empty /\ HourOf(t.ts) > acc.hour
     /\ hist' = Append(hist, Closed)
     /\ acc' = Opened(t, Follows(t))
  \/ /\ ~Empty /\ HourOf(t.ts) <= acc.hour
     /\ acc' = [acc EXCEPT !.last = t.ts]
     /\ UNCHANGED hist

\* A rejected tick never becomes the baseline.
Receive(t) ==
  /\ up /\ t \in wire
  /\ wire' = wire \ {t}
  /\ IF Rejected(t)
       THEN UNCHANGED <<previous, acc, hist>>
       ELSE previous' = t /\ OnTick(t)
  /\ UNCHANGED <<clock, seq, up, started, crashes, store>>

-----------------------------------------------------------------------------
(* The venue's stream and the clock.                                        *)
Emit(mark) ==
  /\ seq < MaxSeq /\ Cardinality(wire) < MaxWire
  /\ seq' = seq + 1
  /\ wire' = wire \cup {[ts |-> clock, seq |-> seq + 1, mark |-> mark]}
  /\ UNCHANGED <<clock, trader, store>>

Lose(t) ==
  /\ t \in wire /\ wire' = wire \ {t}
  /\ UNCHANGED <<clock, seq, trader, store>>

Pass ==
  /\ clock < MaxClock /\ clock' = clock + 1
  /\ UNCHANGED <<seq, wire, trader, store>>

-----------------------------------------------------------------------------
(* scripts/backfill.py: one clock reading, the funding rates, then the      *)
(* candles; either request may fail for good.  The timer fires five minutes *)
(* past the hour, or at boot if it missed that, and operators run it by     *)
(* hand, before the first start (bootstrap.sh) or to catch up.              *)
JobStarts ==
  /\ job = NoJob
  /\ job' = [now |-> clock, at |-> "funding"]
  /\ UNCHANGED <<clock, seq, wire, trader, candle, funding>>

Ended(h, t) == (h + 1) * HourLen <= t

StoreFunding ==
  /\ job.at = "funding"
  /\ funding' = funding \cup {h \in Hours : Ended(h, clock)}
  /\ job' = [job EXCEPT !.at = "candles"]
  /\ UNCHANGED <<clock, seq, wire, trader, candle>>

\* Bug: the candle of the hour under way is kept too.
BugKeepsOpen(h) == TRUE

\* closed(): only what had ended when the run began.
Keeps(h) == Ended(h, job.now)

\* The venue returns the open hour's candle as far as it has got, and
\* INSERT OR IGNORE keeps whichever came first.
StoreCandles ==
  /\ job.at = "candles"
  /\ candle' = [h \in Hours |->
       IF candle[h] = "none" /\ h * HourLen <= clock /\ Keeps(h)
         THEN IF Ended(h, clock) THEN "whole" ELSE "part"
         ELSE candle[h]]
  /\ job' = NoJob
  /\ UNCHANGED <<clock, seq, wire, trader, funding>>

JobFails ==
  /\ job # NoJob /\ job' = NoJob
  /\ UNCHANGED <<clock, seq, wire, trader, candle, funding>>

-----------------------------------------------------------------------------
(* run_once: seed_history, then the feed; an ending trader drops what it    *)
(* accumulated.                                                             *)

\* build_bars: a bar is complete with its candle and its settlement.
CompleteBar(h) == candle[h] # "none" /\ h \in funding

\* Complete bars before the current hour, looked for twice as far back as
\* wanted.
Window == {h \in Hours : /\ HourOf(clock) - 2 * Wanted <= h /\ h < HourOf(clock)
                         /\ CompleteBar(h)}

Seeds == {h \in Window : Cardinality({g \in Window : g > h}) < Wanted}

SeedBar(h) == [hour |-> h, last |-> -1, complete |-> TRUE, live |-> FALSE]

\* The elements of S from the least to the greatest, as build_bars yields them.
Ascending(S) == {s \in [1..Cardinality(S) -> S] : \A i, j \in DOMAIN s : i < j => s[i] < s[j]}

StartUp ==
  /\ ~up /\ up' = TRUE
  /\ \E order \in Ascending(Seeds) : hist' = [i \in DOMAIN order |-> SeedBar(order[i])]
  /\ started' = clock
  /\ UNCHANGED <<clock, seq, wire, previous, acc, crashes, store>>

Stop ==
  /\ up /\ crashes < MaxCrash
  /\ up' = FALSE /\ crashes' = crashes + 1
  /\ previous' = NoTick /\ acc' = NoAcc /\ hist' = <<>> /\ started' = -1
  /\ UNCHANGED <<clock, seq, wire, store>>

Next ==
  \/ \E t \in wire : Receive(t) \/ Lose(t)
  \/ \E mark \in Marks : Emit(mark)
  \/ Pass
  \/ JobStarts \/ StoreFunding \/ StoreCandles \/ JobFails
  \/ StartUp \/ Stop

Init ==
  /\ clock = 0 /\ seq = 0 /\ wire = {}
  /\ up = FALSE /\ previous = NoTick /\ acc = NoAcc /\ hist = <<>>
  /\ started = -1
  /\ candle = [h \in Hours |-> "none"] /\ funding = {} /\ job = NoJob
  /\ crashes = 0

Spec == Init /\ [][Next]_vars

-----------------------------------------------------------------------------
(* The history a strategy reads (LiveBarBuilder.history) is in order and    *)
(* has one bar per hour, whenever the backfill ran and whatever the         *)
(* websocket replays across a restart, but for one hour: the last seed and  *)
(* the first live bar may be of the same, if that hour ended less than      *)
(* max_staleness before the trader was started.  Nothing compares the two.  *)
JustOver(h) == started - (h + 1) * HourLen < MaxStale

Before(a, b) ==
  \/ a.hour < b.hour
  \/ a.hour = b.hour /\ ~a.live /\ b.live /\ JustOver(a.hour)

HoursAscend ==
  /\ \A i, j \in DOMAIN hist : i < j => Before(hist[i], hist[j])
  /\ acc # NoAcc => \A i \in DOMAIN hist : Before(hist[i], Closed)

(* A live bar that does not follow the live bar before it is incomplete, so *)
(* that the router exits on it (live_bars.py on_tick, Part A 6.4).          *)
GapsFlagged ==
  \A i \in 2..Len(hist) :
    /\ hist[i - 1].live
    /\ hist[i].hour > hist[i - 1].hour + 1
    => ~hist[i].complete

(* A live bar's close was made within its own hour: no late or reordered    *)
(* tick is folded into the hour after it.                                   *)
OwnTicksOnly ==
  \A i \in DOMAIN hist : hist[i].live => HourOf(hist[i].last) = hist[i].hour

(* The warm-up is paid with whole candles only: what a running hour looked  *)
(* like when it was fetched never becomes a bar of the history.             *)
SeedsWhole ==
  \A i \in DOMAIN hist : hist[i].live \/ candle[hist[i].hour] = "whole"
=============================================================================
