--------------------------- MODULE HarnessProofs ---------------------------
(***************************************************************************)
(* What Harness.tla's runs check for one holding time and one warm-up,     *)
(* proved for all of them and for every sequence of bars.                  *)
(***************************************************************************)
EXTENDS Harness, TLAPS

Moments == {"intrabar", "close"}

Log == Seq(Moments \X Int)

Book == [pos : Int, side : Int, held : Int, trades : Log]

---------------------------------------------------------------------------
(* A change of one field of a book (the steps of trade_to and of the
   strategies) leaves a book and the other fields. *)
LEMMA SetFields ==
    ASSUME NEW b \in Book
    PROVE  /\ \A x \in Int : /\ [b EXCEPT !.pos = x] \in Book
                             /\ [b EXCEPT !.pos = x].pos = x
                             /\ [b EXCEPT !.pos = x].side = b.side
           /\ \A x \in Int : /\ [b EXCEPT !.side = x] \in Book
                             /\ [b EXCEPT !.side = x].side = x
                             /\ [b EXCEPT !.side = x].pos = b.pos
           /\ \A x \in Int : /\ [b EXCEPT !.held = x] \in Book
                             /\ [b EXCEPT !.held = x].side = b.side
                             /\ [b EXCEPT !.held = x].pos = b.pos
           /\ \A x \in Log : /\ [b EXCEPT !.trades = x] \in Book
                             /\ [b EXCEPT !.trades = x].side = b.side
                             /\ [b EXCEPT !.trades = x].pos = b.pos
<1>1. \A x \in Int : [b EXCEPT !.pos = x] \in Book /\ [b EXCEPT !.pos = x].pos = x
                      /\ [b EXCEPT !.pos = x].side = b.side
  BY DEF Book
<1>2. \A x \in Int : [b EXCEPT !.side = x] \in Book /\ [b EXCEPT !.side = x].side = x
                      /\ [b EXCEPT !.side = x].pos = b.pos
  BY DEF Book
<1>3. \A x \in Int : [b EXCEPT !.held = x] \in Book /\ [b EXCEPT !.held = x].side = b.side
                      /\ [b EXCEPT !.held = x].pos = b.pos
  BY DEF Book
<1>4. \A x \in Log : [b EXCEPT !.trades = x] \in Book /\ [b EXCEPT !.trades = x].side = b.side
                      /\ [b EXCEPT !.trades = x].pos = b.pos
  BY DEF Book
<1> QED BY <1>1, <1>2, <1>3, <1>4, Zenon

(* Setting the strategy's side and its count together. *)
LEMMA SetMemory ==
    ASSUME NEW b \in Book, NEW x \in Int, NEW y \in Int
    PROVE  /\ [b EXCEPT !.side = x, !.held = y] \in Book
           /\ [b EXCEPT !.side = x, !.held = y].side = x
           /\ [b EXCEPT !.side = x, !.held = y].pos = b.pos
<1> DEFINE c == [b EXCEPT !.side = x]
<1>1. c \in Book /\ c.side = x /\ c.pos = b.pos
  BY SetFields
<1>2. [b EXCEPT !.side = x, !.held = y] = [c EXCEPT !.held = y]
  OBVIOUS
<1> HIDE DEF c
<1>3. /\ [c EXCEPT !.held = y] \in Book
      /\ [c EXCEPT !.held = y].side = x
      /\ [c EXCEPT !.held = y].pos = b.pos
  BY <1>1, SetFields
<1> QED BY <1>2, <1>3

(* on_flatten clears the strategy's side and leaves the book. *)
LEMMA OnFlattenFacts ==
    ASSUME NEW b \in Book
    PROVE  OnFlatten(b) \in Book /\ OnFlatten(b).pos = b.pos /\ OnFlatten(b).side = 0
<1>1. 0 \in Int
  OBVIOUS
<1>2. /\ [b EXCEPT !.side = 0, !.held = 0] \in Book
      /\ [b EXCEPT !.side = 0, !.held = 0].side = 0
      /\ [b EXCEPT !.side = 0, !.held = 0].pos = b.pos
  BY <1>1, SetMemory, Zenon
<1>3. OnFlatten(b) = [b EXCEPT !.side = 0, !.held = 0]
  BY DEF OnFlatten
<1> QED BY <1>2, <1>3, Zenon

(* trade_to leaves the book at the target, and tells the strategy exactly when
   it has closed something. *)
LEMMA TradeToFacts ==
    ASSUME NEW b \in Book, NEW target \in Int, NEW when \in Moments
    PROVE  /\ TradeTo(b, target, when) \in Book
           /\ TradeTo(b, target, when).pos = target
           /\ target = b.pos => TradeTo(b, target, when) = b
           /\ target # b.pos /\ target = 0 => TradeTo(b, target, when).side = 0
           /\ target # b.pos /\ target # 0 => TradeTo(b, target, when).side = b.side
<1> DEFINE log == Append(b.trades, <<when, target - b.pos>>)
           moved == [b EXCEPT !.pos = target]
           done == [b EXCEPT !.pos = target,
                             !.trades = Append(@, <<when, target - b.pos>>)]
<1>1. b.pos \in Int /\ b.trades \in Log
  BY DEF Book
<1>2. log \in Log
  BY <1>1 DEF Log
<1>3. moved \in Book /\ moved.pos = target /\ moved.side = b.side
  BY SetFields
<1>4. done = [moved EXCEPT !.trades = log]
  OBVIOUS
<1>5. done \in Book /\ done.pos = target /\ done.side = b.side
  <2> HIDE DEF moved, log
  <2>1. /\ [moved EXCEPT !.trades = log] \in Book
        /\ [moved EXCEPT !.trades = log].pos = target
        /\ [moved EXCEPT !.trades = log].side = b.side
    BY <1>2, <1>3, SetFields
  <2> HIDE DEF done
  <2> QED BY <1>4, <2>1
<1>6. CASE target = b.pos
  BY <1>6 DEF TradeTo
<1>7. CASE target # b.pos /\ target = 0
  <2>1. TradeTo(b, target, when) = OnFlatten(done)
    BY <1>7 DEF TradeTo
  <2> HIDE DEF done
  <2> QED BY <1>5, <1>7, <2>1, OnFlattenFacts
<1>8. CASE target # b.pos /\ target # 0
  <2>1. TradeTo(b, target, when) = done
    BY <1>8 DEF TradeTo
  <2> HIDE DEF done
  <2> QED BY <1>5, <1>8, <2>1
<1> QED BY <1>6, <1>7, <1>8

(* A strategy changes its own memory and never the book's position. *)
LEMMA TargetFacts ==
    ASSUME NEW b \in Book, NEW signal \in Signals, family \in Families, HoldBars \in Nat
    PROVE  Target(b, signal) \in Book /\ Target(b, signal).pos = b.pos
<1>1. SideOf(signal, b.side) \in Int
  BY DEF SideOf, Signals, Book
<1>2. BandTarget(b, signal) \in Book /\ BandTarget(b, signal).pos = b.pos
  BY <1>1, SetFields DEF BandTarget
<1>3. HoldTarget(b, signal) \in Book /\ HoldTarget(b, signal).pos = b.pos
  <2>1. b.held \in Int
    BY DEF Book
  <2>2. CASE b.side # 0 /\ b.held + 1 >= HoldBars
    <3>1. HoldTarget(b, signal) = [b EXCEPT !.side = 0, !.held = 0]
      BY <2>2 DEF HoldTarget
    <3>2. 0 \in Int
      OBVIOUS
    <3>3. /\ [b EXCEPT !.side = 0, !.held = 0] \in Book
          /\ [b EXCEPT !.side = 0, !.held = 0].pos = b.pos
      BY <3>2, SetMemory, Zenon
    <3> QED BY <3>1, <3>3, Zenon
  <2>3. CASE b.side # 0 /\ ~(b.held + 1 >= HoldBars)
    <3>1. HoldTarget(b, signal) = [b EXCEPT !.held = b.held + 1]
      BY <2>3 DEF HoldTarget
    <3> QED BY <2>1, <3>1, SetFields
  <2>4. CASE b.side = 0
    <3>1. HoldTarget(b, signal) = [b EXCEPT !.side = SideOf(signal, b.side), !.held = 0]
      BY <2>4 DEF HoldTarget
    <3>2. 0 \in Int
      OBVIOUS
    <3>3. /\ [b EXCEPT !.side = SideOf(signal, b.side), !.held = 0] \in Book
          /\ [b EXCEPT !.side = SideOf(signal, b.side), !.held = 0].pos = b.pos
      BY <1>1, <3>2, SetMemory, Zenon
    <3> QED BY <3>1, <3>3, Zenon
  <2> QED BY <2>2, <2>3, <2>4
<1>4. IndexTarget(b, signal) \in Book /\ IndexTarget(b, signal).pos = b.pos
  <2>1. 0 \in Int
    OBVIOUS
  <2>2. CASE signal = "flat"
    BY <2>1, <2>2, SetMemory, Zenon DEF IndexTarget
  <2>3. CASE signal # "flat"
    BY <1>3, <2>3, Zenon DEF IndexTarget
  <2> QED BY <2>2, <2>3
<1>5. CASE family = "band"
  BY <1>2, <1>5 DEF Target
<1>6. CASE family = "hold"
  BY <1>3, <1>6 DEF Target
<1>7. CASE family = "index"
  BY <1>4, <1>7 DEF Target
<1> QED BY <1>5, <1>6, <1>7 DEF Families

(* The decision steps of the two: the flip the harness turns into an exit is
   the flip the router exits on. *)
LEMMA DecisionsAgree ==
    ASSUME NEW b, NEW signal
    PROVE  HarnessDecide(b, signal) = RouterDecide(b, signal)
<1> DEFINE asked == Target(b, signal)
<1>1. CASE asked.pos = 0
  BY <1>1 DEF HarnessDecide, RouterDecide, RouterFill, Flip
<1>2. CASE asked.pos # 0 /\ (asked.side = 0 \/ Flip(asked, asked.side))
  BY <1>2 DEF HarnessDecide, RouterDecide, RouterFill, Flip
<1>3. CASE asked.pos # 0 /\ asked.side # 0 /\ ~Flip(asked, asked.side)
  <2>1. asked.side = asked.pos
    BY <1>3 DEF Flip
  <2> QED BY <1>3, <2>1 DEF HarnessDecide, RouterDecide, TradeTo
<1> QED BY <1>1, <1>2, <1>3

---------------------------------------------------------------------------
(* Steps that take the book to flat, or leave it. *)
LEMMA ClosingFacts ==
    ASSUME NEW b \in Book, NEW when \in Moments, NEW c, c \in {b, TradeTo(b, 0, when)}
    PROVE  /\ c \in Book
           /\ b.side = b.pos => c.side = c.pos
           /\ b.pos = 0 => c.pos = 0
<1>1. 0 \in Int
  OBVIOUS
<1>2. CASE c = b
  BY <1>2
<1>3. CASE c = TradeTo(b, 0, when)
  <2>1. c \in Book /\ c.pos = 0
    BY <1>1, <1>3, TradeToFacts
  <2>2. CASE b.pos = 0
    BY <1>1, <1>3, <2>1, <2>2, TradeToFacts
  <2>3. CASE b.pos # 0
    BY <1>1, <1>3, <2>1, <2>3, TradeToFacts
  <2> QED BY <2>1, <2>2, <2>3
<1> QED BY <1>2, <1>3

(* The decision leaves the strategy on the side the book is on. *)
LEMMA DecideFacts ==
    ASSUME NEW b \in Book, NEW signal \in Signals, family \in Families, HoldBars \in Nat
    PROVE  HarnessDecide(b, signal) \in Book
           /\ HarnessDecide(b, signal).side = HarnessDecide(b, signal).pos
<1> DEFINE asked == Target(b, signal)
           goal == IF Flip(asked, asked.side) THEN 0 ELSE asked.side
           done == TradeTo(asked, goal, "close")
<1>1. asked \in Book
  BY TargetFacts
<1>2. HarnessDecide(b, signal) = done
  BY DEF HarnessDecide
<1> HIDE DEF asked
<1>3. asked.side \in Int /\ asked.pos \in Int
  BY <1>1 DEF Book
<1>4. goal \in Int /\ "close" \in Moments
  BY <1>3 DEF Moments
<1>5. CASE goal = asked.pos
  <2>1. done = asked /\ ~Flip(asked, asked.side)
    BY <1>1, <1>4, <1>5, TradeToFacts DEF Flip
  <2> QED BY <1>1, <1>2, <1>5, <2>1
<1>6. CASE goal # asked.pos
  <2>1. done \in Book /\ done.pos = goal
    BY <1>1, <1>4, TradeToFacts
  <2>2. goal = 0 => done.side = 0
    BY <1>1, <1>4, <1>6, TradeToFacts
  <2>3. goal # 0 => done.side = asked.side /\ goal = asked.side
    BY <1>1, <1>4, <1>6, TradeToFacts
  <2> HIDE DEF done, goal
  <2> QED BY <1>2, <2>1, <2>2, <2>3
<1> QED BY <1>5, <1>6

(* The two pipelines as a choice of the lemmas above. *)
LEMMA HarnessBarFacts ==
    ASSUME NEW b \in Book, NEW next, NEW stop \in BOOLEAN, NEW guard \in BOOLEAN,
           NEW signal \in Signals, family \in Families, HoldBars \in Nat,
           warmup \in Nat, seen \in Nat, b.side = b.pos
    PROVE  LET c == HarnessBar(b, next, stop, guard, signal)
           IN  /\ c \in Book
               /\ c.side = c.pos
               /\ seen <= warmup => c = b
               /\ (kind # "hole" \/ b.pos = 0) /\ seen > warmup /\ next = "hole" => c.pos = 0
<1> DEFINE c == HarnessBar(b, next, stop, guard, signal)
           stopped == HarnessStop(b, stop)
           guarded == HarnessGuard(stopped, guard)
<1> SUFFICES /\ c \in Book
             /\ c.side = c.pos
             /\ seen <= warmup => c = b
             /\ (kind # "hole" \/ b.pos = 0) /\ seen > warmup /\ next = "hole" => c.pos = 0
  OBVIOUS
<1> HIDE DEF c
<1>1. 0 \in Int /\ "close" \in Moments /\ "intrabar" \in Moments
  BY DEF Moments
<1>2. stopped \in {b, TradeTo(b, 0, "intrabar")}
  BY DEF HarnessStop
<1>3. stopped \in Book /\ stopped.side = stopped.pos /\ (b.pos = 0 => stopped.pos = 0)
  BY <1>1, <1>2, ClosingFacts
<1> HIDE DEF stopped
<1>4. guarded \in {stopped, TradeTo(stopped, 0, "close")}
  BY DEF HarnessGuard
<1>5. guarded \in Book
  BY <1>1, <1>3, <1>4, ClosingFacts
<1> HIDE DEF guarded
<1>6. CASE seen <= warmup
  <2>1. c = b
    BY <1>6 DEF c, HarnessBar
  <2> QED BY <1>6, <2>1
<1>7. CASE seen > warmup /\ Gap(next)
  <2>1. c = HarnessFlatten(stopped)
    BY <1>7 DEF c, HarnessBar, stopped
  <2>2. HarnessFlatten(stopped) \in {stopped, TradeTo(stopped, 0, "close")}
    BY DEF HarnessFlatten
  <2>3. c \in Book /\ c.side = c.pos /\ (stopped.pos = 0 => c.pos = 0)
    BY <1>1, <1>3, <2>1, <2>2, ClosingFacts
  <2>4. kind # "hole" => c.pos = 0
    BY <1>1, <1>3, <2>1, TradeToFacts DEF HarnessFlatten
  <2> QED BY <1>3, <1>7, <2>3, <2>4
<1>8. CASE seen > warmup /\ ~Gap(next)
  <2>1. c = HarnessDecide(guarded, signal)
    BY <1>8 DEF c, HarnessBar, stopped, guarded
  <2>2. c \in Book /\ c.side = c.pos
    BY <1>5, <2>1, DecideFacts
  <2>3. next # "hole"
    BY <1>8 DEF Gap
  <2> QED BY <1>8, <2>2, <2>3
<1> QED BY <1>6, <1>7, <1>8

(* The same for the router. *)
LEMMA RouterBarFacts ==
    ASSUME NEW b \in Book, NEW stop \in BOOLEAN, NEW guard \in BOOLEAN,
           NEW signal \in Signals, family \in Families, HoldBars \in Nat, b.side = b.pos
    PROVE  LET c == RouterBar(b, stop, guard, signal)
           IN  c \in Book /\ c.side = c.pos
<1> DEFINE c == RouterBar(b, stop, guard, signal)
           stopped == RouterStop(b, stop)
           guarded == OnFast(stopped, guard)
<1> SUFFICES c \in Book /\ c.side = c.pos
  OBVIOUS
<1> HIDE DEF c
<1>1. "close" \in Moments /\ "intrabar" \in Moments
  BY DEF Moments
<1>2. stopped \in {b, TradeTo(b, 0, "intrabar")}
  BY DEF RouterStop, RouterFill
<1>3. stopped \in Book /\ stopped.side = stopped.pos
  BY <1>1, <1>2, ClosingFacts
<1> HIDE DEF stopped
<1>4. guarded \in {stopped, TradeTo(stopped, 0, "close")}
  BY DEF OnFast, RouterFill
<1>5. guarded \in Book /\ guarded.side = guarded.pos
  BY <1>1, <1>3, <1>4, ClosingFacts
<1> HIDE DEF guarded
<1>6. CASE kind = "hole"
  BY <1>6 DEF c, RouterBar
<1>7. CASE kind # "hole"
  <2>1. c = OnBar(guarded, signal)
    BY <1>7 DEF c, RouterBar, guarded, stopped
  <2>2. OnBar(guarded, signal) \in {guarded, TradeTo(guarded, 0, "close"), HarnessDecide(guarded, signal)}
    BY DecisionsAgree DEF OnBar, RouterFill
  <2>3. CASE c = HarnessDecide(guarded, signal)
    BY <1>5, <2>3, DecideFacts
  <2>4. CASE c \in {guarded, TradeTo(guarded, 0, "close")}
    BY <1>1, <1>5, <2>4, ClosingFacts
  <2> QED BY <2>1, <2>2, <2>3, <2>4
<1> QED BY <1>6, <1>7

---------------------------------------------------------------------------
(* The inductive invariant.  Until the warm-up is over the harness has traded
   nothing; without that conjunct a position could be carried into a hole by a
   bar the harness does not look at. *)
FamilyKnown == family \in Families
Books == h \in Book /\ r \in Book
SeenCounted == seen \in Nat /\ warmup \in Nat
FlatInWarmup == seen <= warmup => h.pos = 0

HarnessInv ==
    /\ FamilyKnown
    /\ Books
    /\ SeenCounted
    /\ FlatInWarmup
    /\ PricedWhenHeld
    /\ BeliefMatches

(* The record of the last bar's trades is started afresh (run_backtest). *)
LEMMA FreshFacts ==
    ASSUME NEW b \in Book
    PROVE  Fresh(b) \in Book /\ Fresh(b).pos = b.pos /\ Fresh(b).side = b.side
<1>1. <<>> \in Log
  BY DEF Log
<1> QED BY <1>1, SetFields, Zenon DEF Fresh

(* The books start flat, before any bar (run_backtest, _Book). *)
LEMMA StartFacts == Start \in Book /\ Start.pos = 0 /\ Start.side = 0
<1>1. <<>> \in Log
  BY DEF Log
<1>2. 0 \in Int
  OBVIOUS
<1>3. Start \in Book
  BY <1>1, <1>2, Zenon DEF Start, Book
<1> QED BY <1>3 DEF Start

(* Every initial state of the two books satisfies the invariant. *)
LEMMA InitInv == Init => HarnessInv
<1> SUFFICES ASSUME Init PROVE HarnessInv
  OBVIOUS
<1>1. h = Start /\ r = Start /\ seen = 1 /\ family \in Families /\ warmup \in 0 .. MaxWarmup
  BY DEF Init
<1>2. /\ h \in Book /\ h.pos = 0 /\ h.side = 0
      /\ r \in Book /\ r.pos = 0 /\ r.side = 0
  BY <1>1, StartFacts, Zenon
<1> QED BY <1>1, <1>2
    DEF HarnessInv, FamilyKnown, Books, SeenCounted, FlatInWarmup, PricedWhenHeld, BeliefMatches

(* One bar, of any kind, keeps the invariant (run_backtest's loop body and the
   router's). *)
LEMMA BarInv ==
    ASSUME HarnessInv, [Next]_vars
    PROVE  HarnessInv'
<1>0. HoldBars \in Nat
  BY HarnessAssumption
<1>1. CASE UNCHANGED vars
  BY <1>1 DEF vars, HarnessInv, FamilyKnown, Books, SeenCounted, FlatInWarmup, PricedWhenHeld,
              BeliefMatches
<1>2. CASE Next
  <2>1. PICK next \in Kinds, signal \in Signals : Bar(next, signal)
    BY <1>2 DEF Next
  <2>2. PICK stop \in Reach, guard \in Reach :
          /\ h' = HarnessBar(Fresh(h), next, stop["harness"], guard["harness"], signal)
          /\ r' = RouterBar(Fresh(r), stop["router"], guard["router"], signal)
          /\ seen' = Added(seen, warmup + 1)
          /\ kind' = next
          /\ family' = family
          /\ warmup' = warmup
    BY <2>1 DEF Bar
  <2>3. stop["harness"] \in BOOLEAN /\ guard["harness"] \in BOOLEAN
        /\ stop["router"] \in BOOLEAN /\ guard["router"] \in BOOLEAN
    BY DEF Reach
  <2>4. /\ Fresh(h) \in Book /\ Fresh(h).pos = h.pos /\ Fresh(h).side = h.side
        /\ Fresh(r) \in Book /\ Fresh(r).pos = r.pos /\ Fresh(r).side = r.side
    BY FreshFacts DEF HarnessInv, Books
  <2>5. Fresh(h).side = Fresh(h).pos /\ Fresh(r).side = Fresh(r).pos
    BY <2>4 DEF HarnessInv, BeliefMatches
  <2>6. family \in Families /\ seen \in Nat /\ warmup \in Nat
    BY DEF HarnessInv, FamilyKnown, SeenCounted
  <2>7. /\ h' \in Book
        /\ h'.side = h'.pos
        /\ seen <= warmup => h' = Fresh(h)
        /\ (kind # "hole" \/ Fresh(h).pos = 0) /\ seen > warmup /\ next = "hole" => h'.pos = 0
    BY <1>0, <2>2, <2>3, <2>4, <2>5, <2>6, HarnessBarFacts
  <2>8. r' \in Book /\ r'.side = r'.pos
    BY <1>0, <2>2, <2>3, <2>4, <2>5, <2>6, RouterBarFacts
  <2>9. seen' \in Nat /\ (seen' <= warmup => seen <= warmup)
    BY <2>2, <2>6 DEF Added
  <2>10. FlatInWarmup'
    BY <2>2, <2>4, <2>7, <2>9 DEF HarnessInv, FlatInWarmup
  <2>11. PricedWhenHeld'
    <3>1. seen <= warmup => h'.pos = 0
      BY <2>4, <2>7 DEF HarnessInv, FlatInWarmup
    <3>2. seen > warmup /\ next = "hole" => h'.pos = 0
      BY <2>4, <2>7 DEF HarnessInv, PricedWhenHeld
    <3> QED BY <2>2, <2>6, <3>1, <3>2 DEF PricedWhenHeld
  <2> QED BY <2>2, <2>6, <2>7, <2>8, <2>9, <2>10, <2>11
      DEF HarnessInv, FamilyKnown, Books, SeenCounted, BeliefMatches
<1> QED BY <1>1, <1>2

(* harness.py:223 holds of every backtest, whatever the data lacks: a position
   is only carried into a bar that has a price. *)
THEOREM HeldIsPriced == Spec => []PricedWhenHeld
<1>1. HarnessInv => PricedWhenHeld
  BY DEF HarnessInv
<1> QED BY <1>1, InitInv, BarInv, PTL DEF Spec

(* Neither strategy's memory ever drifts from its book, whatever flattened it
   (on_flatten in run_backtest and in the router's fill handler). *)
THEOREM BeliefHolds == Spec => []BeliefMatches
<1>1. HarnessInv => BeliefMatches
  BY DEF HarnessInv
<1> QED BY <1>1, InitInv, BarInv, PTL DEF Spec

---------------------------------------------------------------------------
(* Parity.  As long as no hour was missing, and with no warm-up to wait for,
   the two books start equal and every bar keeps them equal; equal books meet
   equal prices, so nothing lets them part. *)
Alike ==
    /\ h = r
    /\ h \in Book
    /\ h.side = h.pos
    /\ ~apart
    /\ family \in Families
    /\ kind \in Kinds \ {"hole"}
    /\ last # "hole"
    /\ seen \in Nat \ {0}
    /\ built \in Nat

AlikeWhileWhole == warmup = 0 /\ ~holed => Alike

(* A bar that is not complete: the router's guard may have closed the position
   before on_bar exits, and the trade is the same one. *)
LEMMA FlattenTwice ==
    ASSUME NEW b \in Book, NEW guard \in BOOLEAN
    PROVE  TradeTo(OnFast(b, guard), 0, "close") = TradeTo(b, 0, "close")
<1>1. 0 \in Int /\ "close" \in Moments
  BY DEF Moments
<1>2. CASE OnFast(b, guard) = b
  BY <1>2
<1>3. CASE OnFast(b, guard) = TradeTo(b, 0, "close")
  <2> DEFINE c == TradeTo(b, 0, "close")
  <2>1. c \in Book /\ c.pos = 0
    BY <1>1, TradeToFacts
  <2> HIDE DEF c
  <2>2. TradeTo(c, 0, "close") = c
    BY <2>1 DEF TradeTo
  <2> QED BY <1>3, <2>2 DEF c
<1> QED BY <1>2, <1>3 DEF OnFast, RouterFill

(* The loop body of run_backtest and the router's three calls agree on a bar
   that is priced, past the warm-up, with a priced bar on either side. *)
LEMMA BarsAgree ==
    ASSUME NEW b \in Book, NEW next, NEW stop \in BOOLEAN, NEW guard \in BOOLEAN,
           NEW signal \in Signals, seen \in Nat, warmup \in Nat, seen > warmup, ~(built < warmup),
           kind \in {"whole", "partial"}, last # "hole", next # "hole"
    PROVE  HarnessBar(b, next, stop, guard, signal) = RouterBar(b, stop, guard, signal)
<1> DEFINE stopped == HarnessStop(b, stop)
<1>1. stopped = RouterStop(b, stop)
  BY DEF HarnessStop, RouterStop, RouterFill
<1>2. stopped \in Book
  <2>1. stopped \in {b, TradeTo(b, 0, "intrabar")} /\ "intrabar" \in Moments
    BY DEF HarnessStop, Moments
  <2> QED BY <2>1, ClosingFacts
<1>3. RouterBar(b, stop, guard, signal) = OnBar(OnFast(stopped, guard), signal)
  BY <1>1 DEF RouterBar
<1>4. CASE kind = "partial"
  <2>1. HarnessBar(b, next, stop, guard, signal) = TradeTo(stopped, 0, "close")
    BY <1>4 DEF HarnessBar, Gap, HarnessFlatten
  <2>2. OnBar(OnFast(stopped, guard), signal) = TradeTo(OnFast(stopped, guard), 0, "close")
    BY <1>4 DEF OnBar, LiveComplete, RouterFill
  <2> HIDE DEF stopped
  <2> QED BY <1>2, <1>3, <2>1, <2>2, FlattenTwice
<1>5. CASE kind = "whole"
  <2>1. HarnessBar(b, next, stop, guard, signal) = HarnessDecide(HarnessGuard(stopped, guard), signal)
    <3>1. ~(seen <= warmup) /\ ~Gap(next)
      BY <1>5 DEF Gap
    <3> QED BY <3>1 DEF HarnessBar
  <2>2. OnBar(OnFast(stopped, guard), signal) = RouterDecide(OnFast(stopped, guard), signal)
    BY <1>5 DEF OnBar, LiveComplete
  <2> HIDE DEF stopped
  <2>3. HarnessGuard(stopped, guard) = OnFast(stopped, guard)
    BY DEF HarnessGuard, OnFast, RouterFill
  <2> QED BY <1>3, <2>1, <2>2, <2>3, DecisionsAgree
<1> QED BY <1>4, <1>5

(* tests/test_parity.py checks twelve bars.  For every sequence of bars without
   a missing hour, every holding time and every strategy of the three families,
   the backtest and the router trade identically. *)
THEOREM Parity == Spec => []SameTrades
<1>0. HoldBars \in Nat /\ Kinds \subseteq {"whole", "partial", "hole"}
  BY HarnessAssumption
<1>1. Init => AlikeWhileWhole
  <2> SUFFICES ASSUME Init, warmup = 0, ~holed PROVE Alike
    BY DEF AlikeWhileWhole
  <2>1. h = Start /\ r = Start /\ seen = 1 /\ family \in Families /\ kind \in Kinds /\ last = "whole"
        /\ built = (IF kind = "hole" THEN 0 ELSE Added(0, warmup))
    BY DEF Init
  <2>2. ~apart /\ kind # "hole"
    BY Zenon DEF Init
  <2>3. h = r /\ h \in Book /\ h.side = h.pos
    BY <2>1, StartFacts, Zenon
  <2>4. built \in Nat
    BY <2>1 DEF Added
  <2>5. kind \in Kinds \ {"hole"} /\ last # "hole" /\ seen \in Nat \ {0}
    BY <2>1, <2>2
  <2> QED BY <2>1, <2>2, <2>3, <2>4, <2>5, Zenon DEF Alike
<1>2. ASSUME AlikeWhileWhole, Next PROVE AlikeWhileWhole'
  <2>1. PICK next \in Kinds, signal \in Signals : Bar(next, signal)
    BY <1>2 DEF Next
  <2>2. PICK stop \in Reach, guard \in Reach :
          /\ h' = HarnessBar(Fresh(h), next, stop["harness"], guard["harness"], signal)
          /\ r' = RouterBar(Fresh(r), stop["router"], guard["router"], signal)
          /\ apart' = (apart \/ h' # r')
          /\ seen' = Added(seen, warmup + 1)
          /\ built' = IF next = "hole" THEN built ELSE Added(built, warmup)
          /\ holed' = (holed \/ next = "hole")
          /\ last' = kind
          /\ kind' = next
          /\ family' = family
          /\ warmup' = warmup
    BY <2>1 DEF Bar
  <2>3. SUFFICES ASSUME warmup' = 0, ~holed' PROVE Alike'
    BY DEF AlikeWhileWhole
  <2>4. warmup = 0 /\ ~holed /\ next # "hole"
    BY <2>2, <2>3, Zenon
  <2>5. Alike
    BY <1>2, <2>4, Zenon DEF AlikeWhileWhole
  <2>6. /\ stop["harness"] \in BOOLEAN /\ guard["harness"] \in BOOLEAN
        /\ stop["router"] = stop["harness"] /\ guard["router"] = guard["harness"]
    BY <2>5 DEF Reach, Alike
  <2>7. Fresh(h) \in Book /\ Fresh(h).side = Fresh(h).pos /\ Fresh(r) = Fresh(h)
    BY <2>5, FreshFacts DEF Alike
  <2>8. seen > warmup /\ ~(built < warmup) /\ seen \in Nat /\ built \in Nat /\ warmup \in Nat
    BY <2>4, <2>5 DEF Alike
  <2>9. kind \in {"whole", "partial"} /\ last # "hole"
    BY <1>0, <2>5 DEF Alike
  <2>10. h' = r'
    <3>1. HarnessBar(Fresh(h), next, stop["harness"], guard["harness"], signal)
            = RouterBar(Fresh(h), stop["harness"], guard["harness"], signal)
      BY <2>4, <2>6, <2>7, <2>8, <2>9, BarsAgree
    <3> QED BY <2>2, <2>6, <2>7, <3>1, Zenon
  <2>11. h' \in Book /\ h'.side = h'.pos
    <3>1. family \in Families
      BY <2>5 DEF Alike
    <3>2. r' = RouterBar(Fresh(h), stop["harness"], guard["harness"], signal)
      BY <2>2, <2>6, <2>7, Zenon
    <3> QED BY <1>0, <2>6, <2>7, <2>10, <3>1, <3>2, RouterBarFacts
  <2>12. ~apart'
    BY <2>2, <2>5, <2>10, Zenon DEF Alike
  <2>13. seen' \in Nat \ {0} /\ built' \in Nat
    BY <2>2, <2>4, <2>5, <2>8 DEF Added, Alike
  <2>14. family' \in Families /\ kind' \in Kinds \ {"hole"} /\ last' # "hole"
    BY <2>2, <2>4, <2>5, <2>9 DEF Alike
  <2> QED BY <2>10, <2>11, <2>12, <2>13, <2>14, Zenon DEF Alike
<1>3. ASSUME AlikeWhileWhole, UNCHANGED vars PROVE AlikeWhileWhole'
  BY <1>3 DEF AlikeWhileWhole, Alike, vars
<1>4. AlikeWhileWhole => SameTrades
  BY DEF AlikeWhileWhole, Alike, SameTrades
<1> QED BY <1>1, <1>2, <1>3, <1>4, PTL DEF Spec
=============================================================================
