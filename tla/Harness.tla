------------------------------ MODULE Harness ------------------------------
(***************************************************************************)
(* The hourly backtest (backtest/harness.py) and the order router in the   *)
(* paper runner's order of events, fed the same bars and one instance each *)
(* of the same strategy.  One step is one bar.  Prices are abstracted to   *)
(* what a bar does to an open position: `stop` (its range crosses the      *)
(* stop) and `guard` (a protective exit is due at its close).  A bar is    *)
(*   "whole"    complete,                                                  *)
(*   "partial"  priced but not complete,                                   *)
(*   "hole"     no data at all.                                            *)
(* Fills are immediate and the next open equals the close, as in           *)
(* tests/test_parity.py; quantities are the full notional, the only size   *)
(* the six strategies ask for.                                             *)
(***************************************************************************)
EXTENDS Integers, Sequences

CONSTANTS
    Kinds,     \* the kinds of bar the data holds
    HoldBars,  \* holding time of the strategies that count bars
    MaxWarmup  \* bound on the bars a strategy needs before it is asked

ASSUME HarnessAssumption ==
    /\ Kinds \subseteq {"whole", "partial", "hole"}
    /\ HoldBars \in Nat \ {0}
    /\ MaxWarmup \in Nat

VARIABLES
    family,  \* which strategy: "band", "hold" or "index"
    warmup,  \* its warm-up: the bars it needs before it is asked
    holed,   \* a bar without data has been or is about to be processed
    last,    \* the kind of the last bar processed
    kind,    \* the kind of the bar to be processed next
    seen,    \* bars in the harness's history, counted up to warmup + 1
    built,   \* bars in the router's history, which has no holes; up to warmup
    h,       \* the harness's book and strategy
    r,       \* the router's book and strategy
    apart    \* the two have differed: their entry prices need not agree

vars == <<family, warmup, holed, last, kind, seen, built, h, r, apart>>

(* h1 h2 h6 trade a band, h4 h5 hold for a number of bars, h3 holds too and
   lets go when the index price is missing. *)
Families == {"band", "hold", "index"}
Signals == {"long", "short", "flat", "none"}
Sides == {-1, 0, 1}

(* `side` and `held` are the strategy's _position and _held; `trades` is what
   was traded on the last bar. *)
Start == [pos |-> 0, side |-> 0, held |-> 0, trades |-> <<>>]

---------------------------------------------------------------------------
(* The strategies.  A signal is what their arithmetic makes of the history. *)

SideOf(signal, otherwise) ==
    CASE signal = "long"  -> 1
      [] signal = "short" -> -1
      [] signal = "flat"  -> 0
      [] signal = "none"  -> otherwise

BandTarget(b, signal) == [b EXCEPT !.side = SideOf(signal, @)]

HoldTarget(b, signal) ==
    IF b.side # 0
    THEN IF b.held + 1 >= HoldBars
         THEN [b EXCEPT !.side = 0, !.held = 0]
         ELSE [b EXCEPT !.held = @ + 1]
    ELSE [b EXCEPT !.side = SideOf(signal, @), !.held = 0]

IndexTarget(b, signal) ==
    IF signal = "flat" THEN [b EXCEPT !.side = 0, !.held = 0] ELSE HoldTarget(b, signal)

Target(b, signal) ==
    CASE family = "band"  -> BandTarget(b, signal)
      [] family = "hold"  -> HoldTarget(b, signal)
      [] family = "index" -> IndexTarget(b, signal)

(* BUG: on_flatten clears the bars held and forgets the side. *)
BugKeepsSide(b) == [b EXCEPT !.held = 0]

OnFlatten(b) == [b EXCEPT !.side = 0, !.held = 0]

---------------------------------------------------------------------------
(* run_backtest.  A trade that ends flat tells the strategy. *)
TradeTo(b, target, when) ==
    IF target = b.pos THEN b
    ELSE LET done == [b EXCEPT !.pos = target, !.trades = Append(@, <<when, target - b.pos>>)]
         IN  IF target = 0 THEN OnFlatten(done) ELSE done

Flip(b, target) == b.pos # 0 /\ target # 0 /\ target # b.pos

HarnessStop(b, stop) ==
    IF b.pos # 0 /\ kind # "hole" /\ stop THEN TradeTo(b, 0, "intrabar") ELSE b

(* BUG: the gap test looks at this bar only. *)
BugNoLookAhead(next) == kind # "whole"

Gap(next) == kind # "whole" \/ next = "hole"

HarnessFlatten(b) == IF kind # "hole" THEN TradeTo(b, 0, "close") ELSE b

(* BUG: the backtest leaves the protective exits to the router. *)
BugNoGuard(b, guard) == b

HarnessGuard(b, guard) == IF b.pos # 0 /\ guard THEN TradeTo(b, 0, "close") ELSE b

HarnessDecide(b, signal) ==
    LET asked == Target(b, signal)
    IN  TradeTo(asked, IF Flip(asked, asked.side) THEN 0 ELSE asked.side, "close")

HarnessBar(b, next, stop, guard, signal) ==
    LET stopped == HarnessStop(b, stop)
    IN  CASE seen <= warmup -> b
          [] seen > warmup /\ Gap(next) -> HarnessFlatten(stopped)
          [] OTHER -> HarnessDecide(HarnessGuard(stopped, guard), signal)

---------------------------------------------------------------------------
(* The router: the stop's fill, the fast loop, the bar.  Its trades come
   back as fills before the next of these runs. *)
RouterFill(b, target, when) == TradeTo(b, target, when)

RouterStop(b, stop) == IF b.pos # 0 /\ stop THEN RouterFill(b, 0, "intrabar") ELSE b

OnFast(b, guard) == IF b.pos # 0 /\ guard THEN RouterFill(b, 0, "close") ELSE b

(* A bar whose hour has no tick is never built, and the first bar built
   after one is not complete. *)
LiveComplete == kind = "whole" /\ last # "hole"

RouterDecide(b, signal) ==
    LET asked == Target(b, signal)
    IN  IF asked.pos = 0 THEN RouterFill(asked, asked.side, "close")
        ELSE IF asked.side = 0 \/ Flip(asked, asked.side)
        THEN RouterFill(asked, 0, "close")
        ELSE asked

OnBar(b, signal) ==
    CASE ~LiveComplete -> RouterFill(b, 0, "close")
      [] LiveComplete /\ built < warmup -> b
      [] OTHER -> RouterDecide(b, signal)

RouterBar(b, stop, guard, signal) ==
    IF kind = "hole" THEN b ELSE OnBar(OnFast(RouterStop(b, stop), guard), signal)

---------------------------------------------------------------------------
Fresh(b) == [b EXCEPT !.trades = <<>>]

(* Prices are shared until the books differ; then the entry prices may, and
   what a bar does to one position says nothing of the other. *)
Reach == {x \in [{"harness", "router"} -> BOOLEAN] : ~apart => x["harness"] = x["router"]}

Added(count, limit) == IF count < limit THEN count + 1 ELSE count

Bar(next, signal) ==
    \E stop \in Reach, guard \in Reach :
        /\ h' = HarnessBar(Fresh(h), next, stop["harness"], guard["harness"], signal)
        /\ r' = RouterBar(Fresh(r), stop["router"], guard["router"], signal)
        /\ apart' = (apart \/ h' # r')
        /\ seen' = Added(seen, warmup + 1)
        /\ built' = IF next = "hole" THEN built ELSE Added(built, warmup)
        /\ holed' = (holed \/ next = "hole")
        /\ last' = kind
        /\ kind' = next
        /\ UNCHANGED <<family, warmup>>

Init ==
    /\ family \in Families
    /\ warmup \in 0 .. MaxWarmup
    /\ last = "whole"
    /\ kind \in Kinds
    /\ holed = (kind = "hole")
    /\ seen = 1
    /\ built = IF kind = "hole" THEN 0 ELSE Added(0, warmup)
    /\ h = Start
    /\ r = Start
    /\ apart = FALSE

Next == \E next \in Kinds, signal \in Signals : Bar(next, signal)

Spec == Init /\ [][Next]_vars

---------------------------------------------------------------------------
(* As long as no hour is missing, over every sequence of bars and not only the
   twelve of tests/test_parity.py, the backtest and the router make the same
   trades in the same order and leave the strategy in the same state.  The
   warm-up is left out: range(warmup, ...) asks the strategy with warmup + 1
   bars, the router as soon as it has warmup of them. *)
SameTrades == warmup = 0 /\ ~holed => h = r

(* harness.py:223: a position is only carried into a bar that has a price,
   so nothing ever divides a missing close by an entry. *)
PricedWhenHeld == h.pos # 0 => kind # "hole"

(* After a bar the strategy's idea of its side is the book's: a stop, a guard,
   a gap or a flip that flattened the book was told to it (on_flatten).  A
   strategy that still believed in a closed position would trade it again. *)
BeliefMatches == h.side = h.pos /\ r.side = r.pos
=============================================================================
