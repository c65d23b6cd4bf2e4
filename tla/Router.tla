------------------------------- MODULE Router -------------------------------
(***************************************************************************)
(* One instrument's InstrumentRouter and the Portfolio entry points that   *)
(* drive it (polyperps/execution/order_router.py), the reconciliation diff *)
(* (reconciliation.py) and the startup recovery (state_recovery.py).       *)
(*                                                                         *)
(* Every Portfolio entry point runs under one asyncio.Lock, so the router  *)
(* is ONE sequential process: pc says where it is, "idle" being lock-free. *)
(* An action is the code between two points where something outside can    *)
(* get in: an await on the executor, or a kill of the process between two  *)
(* SQLite commits.  The executor itself is not here: SimTrader and         *)
(* LiveTrader answer the calls (snapshot, submit, place_stop, cancel_stop, *)
(* cancel) and decide when the process dies.                               *)
(*                                                                         *)
(* Data: sizes are signed integers; a client order id is its sequence      *)
(* number; a stop is the side of the position it protects; prices, fees    *)
(* and funding are left out (entry is None exactly when size is 0).  What  *)
(* they decide (target, guards, kill switch) is an input of the action.    *)
(***************************************************************************)
EXTENDS Integers

CONSTANTS MaxSeq,   \* bound: client order ids 1..MaxSeq are ever issued
          MaxQty    \* bound: the configured order size; the guards only shrink it

ASSUME RouterAssumption == MaxSeq \in Nat \ {0} /\ MaxQty \in Nat \ {0}

VARIABLES rt,       \* the InstrumentRouter object (lost when the process dies)
          row,      \* its positions_local row (SQLite)
          orders,   \* its orders rows by client order id (SQLite)
          pc,       \* where the process is
          loc       \* locals of the running handler

routerVars == <<rt, row, orders, pc, loc>>

-----------------------------------------------------------------------------
Cids  == 1..MaxSeq
NoCid == 0          \* Python's None
Venue == -1         \* the id of a stop or liquidation fill, which has no orders row

Frozen  == {"HALTED", "LIQUIDATED"}
Pending == {"ENTRY_PENDING", "EXIT_PENDING"}
States  == {"FLAT", "OPEN"} \cup Frozen \cup Pending

GaveUp   == {"lost", "error", "timeout_adopted"}
Terminal == GaveUp \cup {"filled", "cancelled", "rejected"}
InFlight == {"submitting", "accepted"}
Statuses == Terminal \cup InFlight \cup {"partial", "adopted", "abandoned"}

Sides == {"buy", "sell"}
Stops == {"none", "long", "short"}

Signed(side, q) == IF side = "buy" THEN q ELSE -q
Magnitude(n)    == IF n < 0 THEN -n ELSE n
Guarding(n)     == IF n > 0 THEN "long" ELSE "short"   \* the stop that protects n # 0
Settled(n)      == IF n # 0 THEN "OPEN" ELSE "FLAT"
ClosingSide(n)  == IF n > 0 THEN "sell" ELSE "buy"

NoOrder == [side |-> "buy", qty |-> 0, reduce |-> FALSE, status |-> "none", filled |-> 0]
NoRow   == [state |-> "none", size |-> 0, stop |-> "none"]

\* A router as its constructor leaves it.
FreshRouter == [state |-> "FLAT", size |-> 0, stop |-> "none", pend |-> NoCid,
                seq |-> 0]

\* AccountSnapshot, for this instrument.
EmptySnapshot == [pos |-> 0, stop |-> "none", open |-> {}, liq |-> FALSE]

\* cid, att, before, prior: locals of _send; closing: the caller is shutdown();
\* why: who called _adopt; snap: the snapshot being acted on.
NoLocals == [cid |-> NoCid, att |-> 0, before |-> 0, prior |-> "none",
             closing |-> FALSE, why |-> "none", snap |-> EmptySnapshot]

HasRow(c) == c \in Cids /\ orders[c].status # "none"

\* _persist: the positions_local row of a router.
Image(r) == [state |-> r.state, size |-> r.size, stop |-> r.stop]
Commit(r) == rt' = r /\ row' = Image(r)

\* _update_order, for a status.
WithStatus(c, st) == [orders EXCEPT ![c].status = st]
WithStatusUnlessTerminal(c, st) ==
  [orders EXCEPT ![c].status = IF @ \in Terminal THEN @ ELSE st]

\* Bug: a fill, a cancel or an adoption overwrites HALTED.
BugThaws(st) == st

\* "if self.state not in _FROZEN": what a fill, a cancel or an adoption may set.
Unfrozen(st) == IF rt.state \in Frozen THEN rt.state ELSE st

Idle == pc' = "idle" /\ loc' = NoLocals

-----------------------------------------------------------------------------
(* Portfolio.on_bar, on_fast and reconcile_now take the lock and ask for a  *)
(* snapshot.                                                                *)
StartBar       == pc = "idle" /\ pc' = "bar_snap"  /\ UNCHANGED <<rt, row, orders, loc>>
StartFast      == pc = "idle" /\ pc' = "fast_snap" /\ UNCHANGED <<rt, row, orders, loc>>
StartReconcile == pc = "idle" /\ pc' = "rec_snap"  /\ UNCHANGED <<rt, row, orders, loc>>

\* Where each handler goes on once executor.snapshot() returns.
AfterSnapshot(p) ==
  CASE p = "boot_snap"   -> "recover"
    [] p = "bar_snap"    -> "bar"
    [] p = "fast_snap"   -> "check_pending"
    [] p = "rec_snap"    -> "missing_stop"
    [] p = "landed_snap" -> "landed"
    [] OTHER             -> "adopt"

SnapshotPcs == {"boot_snap", "bar_snap", "fast_snap", "rec_snap", "landed_snap",
                "late_snap", "err_snap"}

SnapshotReturns(s) ==
  /\ pc \in SnapshotPcs
  /\ loc' = [loc EXCEPT !.snap = s]
  /\ pc' = AfterSnapshot(pc)
  /\ UNCHANGED <<rt, row, orders>>

-----------------------------------------------------------------------------
(* _send                                                                    *)

\* The decision and order rows are committed before anything else happens.
WriteOrder(side, qty, reduce, closing) ==
  /\ rt.seq < MaxSeq
  /\ rt' = [rt EXCEPT !.seq = @ + 1]
  /\ orders' = [orders EXCEPT ![rt.seq + 1] =
                  [side |-> side, qty |-> qty, reduce |-> reduce,
                   status |-> "submitting", filled |-> 0]]
  /\ loc' = [NoLocals EXCEPT !.cid = rt.seq + 1, !.closing = closing]
  /\ pc' = "mark_pending"
  /\ UNCHANGED row

\* _exit: a reduce-only order for the whole of n.
WriteExit(n, closing) == WriteOrder(ClosingSide(n), Magnitude(n), TRUE, closing)

MarkPending ==
  /\ pc = "mark_pending"
  /\ Commit([rt EXCEPT !.pend = loc.cid,
                       !.state = IF orders[loc.cid].reduce THEN "EXIT_PENDING" ELSE "ENTRY_PENDING"])
  /\ loc' = [loc EXCEPT !.prior = rt.state, !.before = rt.size, !.att = 1]
  /\ pc' = "submit"
  /\ UNCHANGED orders

\* executor.submit() is called; the answer is awaited for ack_timeout_s.
SubmitCalled == pc = "submit" /\ pc' = "ack" /\ UNCHANGED <<rt, row, orders, loc>>

\* _send returns: to shutdown(), which then halts, or to a handler that is done.
SendReturns == loc' = NoLocals /\ pc' = IF loc.closing THEN "halt_closed" ELSE "idle"

HaltedRouter == IF rt.state \in Frozen THEN rt ELSE [rt EXCEPT !.state = "HALTED", !.pend = NoCid]

\* Bug: HALTED stays in memory.
BugHaltNotSaved == rt' = HaltedRouter /\ UNCHANGED row

\* halt(): a router that is frozen already is left alone.
Halt == rt' = HaltedRouter /\ row' = IF rt.state \in Frozen THEN row ELSE Image(HaltedRouter)

OrderAccepted ==
  /\ orders' = WithStatusUnlessTerminal(loc.cid, "accepted")
  /\ SendReturns
  /\ UNCHANGED <<rt, row>>

AckAccepted == pc = "ack" /\ OrderAccepted

AckRejected ==
  /\ pc = "ack"
  /\ orders' = WithStatus(loc.cid, "rejected")
  /\ Commit([rt EXCEPT !.pend = NoCid, !.state = loc.prior])
  /\ SendReturns

\* An exception from submit (a closed gate included) or from the snapshot taken
\* after a timeout: HALTED first, then adopt the exchange's size.
SubmitRaised ==
  /\ pc \in {"submit", "ack", "landed_snap"}
  /\ orders' = WithStatus(loc.cid, "error")
  /\ Halt
  /\ loc' = [loc EXCEPT !.why = "error"]
  /\ pc' = "err_snap"

AckTimeout == pc = "ack" /\ pc' = "landed_snap" /\ UNCHANGED <<rt, row, orders, loc>>

\* _landed: the order rests, or the position moved its way since before the send.
Landed ==
  \/ loc.cid \in loc.snap.open
  \/ IF orders[loc.cid].side = "buy" THEN loc.snap.pos > loc.before ELSE loc.snap.pos < loc.before

LandedAfterAll == pc = "landed" /\ Landed /\ OrderAccepted

Retry ==
  /\ pc = "landed" /\ ~Landed /\ loc.att = 1
  /\ loc' = [loc EXCEPT !.att = 2, !.snap = EmptySnapshot]
  /\ pc' = "submit"
  /\ UNCHANGED <<rt, row, orders>>

GiveUp ==
  /\ pc = "landed" /\ ~Landed /\ loc.att = 2
  /\ orders' = WithStatus(loc.cid, "lost")
  /\ Halt
  /\ SendReturns

\* The end of shutdown() after its flattening order.
HaltClosed ==
  /\ pc = "halt_closed"
  /\ Commit([rt EXCEPT !.state = "HALTED"])
  /\ Idle
  /\ UNCHANGED orders

-----------------------------------------------------------------------------
(* on_bar.  bar: what the last bar is; target: the strategy's clamped side; *)
(* qty: what the guards leave of the order, -1 when one of them rejects.    *)
Bars    == {"ok", "gap", "warmup", "no_close"}
Targets == {-1, 0, 1}
Flips(target) == (rt.size > 0 /\ target < 0) \/ (rt.size < 0 /\ target > 0)

\* "pause" only keeps new entries out; "shutdown" never gets here.
WantsEntry(kill, bar, target) ==
  rt.state = "FLAT" /\ bar = "ok" /\ target # 0 /\ kill = "run"

WantsExit(bar, target) ==
  rt.state = "OPEN" /\ (bar = "gap" \/ (bar = "ok" /\ (target = 0 \/ Flips(target))))

BarEnter(kill, bar, target, qty) ==
  /\ pc = "bar" /\ WantsEntry(kill, bar, target) /\ qty >= 0
  /\ WriteOrder(IF target > 0 THEN "buy" ELSE "sell", qty, FALSE, FALSE)

BarExit(kill, bar, target) ==
  /\ pc = "bar" /\ kill # "shutdown" /\ WantsExit(bar, target)
  /\ WriteExit(rt.size, FALSE)

\* skip:*, kill:pause, flat:no_target, rejected and hold: a decision row only.
BarNoOrder(kill, bar, target, qty) ==
  /\ pc = "bar" /\ kill # "shutdown"
  /\ ~(WantsEntry(kill, bar, target) /\ qty >= 0) /\ ~WantsExit(bar, target)
  /\ Idle
  /\ UNCHANGED <<rt, row, orders>>

\* Portfolio._shutdown and shutdown(): held is the exchange's size.
BarShutdown ==
  LET held == loc.snap.pos
      done == rt.state = "LIQUIDATED" \/ (rt.state = "HALTED" /\ held = 0)
      flattens == held # 0 /\ rt.state \in {"OPEN", "HALTED", "FLAT"}
  IN /\ pc = "bar"
     /\ \/ done /\ Idle /\ UNCHANGED <<rt, row, orders>>
        \/ ~done /\ flattens /\ WriteExit(held, TRUE)
        \/ ~done /\ ~flattens /\ Commit([rt EXCEPT !.state = "HALTED"]) /\ Idle /\ UNCHANGED orders

-----------------------------------------------------------------------------
(* on_fast: check_pending, then the open-position checks on the same        *)
(* snapshot.                                                                *)

\* Bug: the timeout only looks at entries.
BugTimesOutEntries(expired) ==
  /\ pc = "check_pending" /\ rt.state = "ENTRY_PENDING" /\ expired
  /\ orders' = IF rt.pend # NoCid THEN WithStatus(rt.pend, "timeout_adopted") ELSE orders
  /\ loc' = [loc EXCEPT !.why = "timeout"]
  /\ pc' = "adopt"
  /\ UNCHANGED <<rt, row>>

\* expired: more than PENDING_TIMEOUT_S since the order was sent or adopted.
PendingTimesOut(expired) ==
  /\ pc = "check_pending" /\ rt.state \in Pending /\ expired
  /\ orders' = IF rt.pend # NoCid THEN WithStatus(rt.pend, "timeout_adopted") ELSE orders
  /\ loc' = [loc EXCEPT !.why = "timeout"]
  /\ pc' = "adopt"
  /\ UNCHANGED <<rt, row>>

NothingPending(expired) ==
  /\ pc = "check_pending" /\ ~(rt.state \in Pending /\ expired)
  /\ pc' = "on_fast"
  /\ UNCHANGED <<rt, row, orders, loc>>

\* on_fast runs for the instruments that have had a tick.  Without one an OPEN
\* router is left as it is, which is no step, and any other does nothing here.
BeingLiquidated == rt.state = "OPEN" /\ loc.snap.liq /\ rt.size # 0

FastLiquidated ==
  /\ pc = "on_fast" /\ BeingLiquidated
  /\ Commit([rt EXCEPT !.state = "LIQUIDATED"])
  /\ Idle
  /\ UNCHANGED orders

\* due: check_open says flatten, or funding_exit_due.
FastExit(due) ==
  /\ pc = "on_fast" /\ rt.state = "OPEN" /\ ~BeingLiquidated /\ loc.snap.pos # 0 /\ due
  /\ WriteExit(rt.size, FALSE)

FastNothing(due) ==
  /\ pc = "on_fast" /\ ~BeingLiquidated
  /\ rt.state # "OPEN" \/ loc.snap.pos = 0 \/ ~due
  /\ Idle
  /\ UNCHANGED <<rt, row, orders>>

-----------------------------------------------------------------------------
(* _adopt and _adopt_and_settle                                             *)

\* The router with the exchange's size; the stop it found, if any.
AdoptedRouter ==
  [rt EXCEPT !.pend = NoCid, !.size = loc.snap.pos,
             !.stop = IF loc.snap.pos = 0 THEN "none" ELSE loc.snap.stop]

Adopt ==
  /\ pc = "adopt"
  /\ IF loc.snap.pos # 0 /\ loc.snap.stop = "none"
       THEN rt' = AdoptedRouter /\ pc' = "adopt_place" /\ UNCHANGED row
       ELSE Commit(AdoptedRouter) /\ pc' = "adopted"
  /\ UNCHANGED <<orders, loc>>

\* The rest of on_fast follows a pending timeout; a late fill is then done.
AfterSettle == IF loc.why = "timeout" THEN pc' = "on_fast" /\ UNCHANGED loc ELSE Idle

AdoptedAfterError ==
  /\ pc = "adopted" /\ loc.why = "error"
  /\ SendReturns
  /\ UNCHANGED <<rt, row, orders>>

Settle ==
  /\ pc = "adopted" /\ loc.why # "error"
  /\ Commit([rt EXCEPT !.state = Unfrozen(Settled(rt.size))])
  /\ IF rt.size = 0 THEN pc' = "settle_cancel" /\ UNCHANGED loc ELSE AfterSettle
  /\ UNCHANGED orders

-----------------------------------------------------------------------------
(* executor.place_stop, executor.cancel_stop, executor.cancel return.       *)

PlacePcs  == {"replace_stop", "adopt_place", "missing_place", "recover_place"}
CancelPcs == {"flat_cancel", "settle_cancel", "orphan_cancel"}

\* replace_stop and _adopt protect the router's size, reconcile the venue's.
WantedStop == Guarding(IF pc = "missing_place" THEN loc.snap.pos ELSE rt.size)

\* Bug: the new stop is not persisted.
BugStopNotSaved ==
  /\ pc \in PlacePcs
  /\ rt' = [rt EXCEPT !.stop = WantedStop]
  /\ CASE pc = "replace_stop"  -> Idle
       [] pc = "adopt_place"   -> pc' = "adopted" /\ UNCHANGED loc
       [] pc = "missing_place" -> pc' = "size" /\ UNCHANGED loc
       [] OTHER                -> pc' = "recover_orders" /\ UNCHANGED loc
  /\ UNCHANGED <<row, orders>>

StopPlaced ==
  /\ pc \in PlacePcs
  /\ Commit([rt EXCEPT !.stop = WantedStop])
  /\ CASE pc = "replace_stop"  -> Idle
       [] pc = "adopt_place"   -> pc' = "adopted" /\ UNCHANGED loc
       [] pc = "missing_place" -> pc' = "size" /\ UNCHANGED loc
       [] OTHER                -> pc' = "recover_orders" /\ UNCHANGED loc
  /\ UNCHANGED orders

\* Bug: a frozen router that went flat is not persisted again.
BugFlatNotSaved ==
  /\ pc \in CancelPcs
  /\ CASE pc = "flat_cancel"   -> /\ IF rt.state \in Frozen THEN UNCHANGED <<rt, row>>
                                     ELSE Commit([rt EXCEPT !.state = "FLAT"])
                                  /\ Idle
       [] pc = "settle_cancel" -> AfterSettle /\ UNCHANGED <<rt, row>>
       [] OTHER                -> pc' = "unknown_orders" /\ UNCHANGED <<rt, row, loc>>
  /\ UNCHANGED orders

StopCancelled ==
  /\ pc \in CancelPcs
  /\ CASE pc = "flat_cancel"   -> Commit([rt EXCEPT !.state = Unfrozen("FLAT")]) /\ Idle
       [] pc = "settle_cancel" -> AfterSettle /\ UNCHANGED <<rt, row>>
       [] OTHER                -> pc' = "unknown_orders" /\ UNCHANGED <<rt, row, loc>>
  /\ UNCHANGED orders

-----------------------------------------------------------------------------
(* handle_event.  The running handler holds the lock from here to Idle.     *)

OnOrderUpdate(c, st) ==
  /\ pc = "idle"
  /\ IF c = rt.pend /\ st = "cancelled"
       THEN /\ orders' = WithStatus(c, st)
            /\ Commit([rt EXCEPT !.pend = NoCid, !.state = Unfrozen(Settled(rt.size))])
       ELSE /\ orders' = IF HasRow(c) THEN WithStatusUnlessTerminal(c, st) ELSE orders
            /\ UNCHANGED <<rt, row>>
  /\ UNCHANGED <<pc, loc>>

\* An order the router gave up on fills after all: re-read the exchange.
IsLateFill(c) == HasRow(c) /\ orders[c].status \in GaveUp /\ c # rt.pend

LateFill(c, q) ==
  /\ pc = "idle" /\ IsLateFill(c)
  /\ orders' = [orders EXCEPT ![c].filled = @ + q]
  /\ loc' = [loc EXCEPT !.why = "late"]
  /\ pc' = "late_snap"
  /\ UNCHANGED <<rt, row>>

\* _record_fill: the quantity accumulates; a terminal status stays.
RecordFill(c, q) ==
  [orders EXCEPT ![c].filled = @ + q,
                 ![c].status = IF @ \in Terminal THEN @
                               ELSE IF orders[c].filled + q >= orders[c].qty THEN "filled" ELSE "partial"]

\* Bug: a fill on a frozen router gets no stop.
BugFrozenUnguarded(c, n) ==
  CASE n = 0                                              -> "flat"
    [] n # 0 /\ rt.state = "ENTRY_PENDING" /\ c = rt.pend -> "entered"
    [] n # 0 /\ rt.state = "FLAT"                         -> "unexpected"
    [] OTHER                                              -> "later"

\* The branch handle_event takes once _apply_fill has set the size to n.
FillCase(c, n) ==
  CASE n = 0                                              -> "flat"
    [] n # 0 /\ rt.state = "ENTRY_PENDING" /\ c = rt.pend -> "entered"
    [] n # 0 /\ rt.state \in Frozen                       -> "frozen"
    [] n # 0 /\ rt.state = "FLAT"                         -> "unexpected"
    [] OTHER                                              -> "later"

ApplyFill(c, side, q) ==
  LET n    == rt.size + Signed(side, q)
      r    == [rt EXCEPT !.size = n]
      case == FillCase(c, n)
  IN /\ pc = "idle" /\ ~IsLateFill(c)
     /\ orders' = IF HasRow(c) THEN RecordFill(c, q) ELSE orders
     /\ UNCHANGED loc
     /\ \/ case = "entered" /\ Commit([r EXCEPT !.state = "OPEN", !.pend = NoCid]) /\ pc' = "replace_stop"
        \/ case = "frozen" /\ Commit(r) /\ pc' = "replace_stop"
        \/ case = "unexpected" /\ Commit([r EXCEPT !.state = "OPEN"]) /\ pc' = "replace_stop"
        \/ case = "later" /\ Commit(r) /\ UNCHANGED pc
        \/ case = "flat" /\ rt' = [r EXCEPT !.pend = NoCid, !.stop = "none"] /\ row' = Image(r)
                         /\ pc' = "flat_cancel"

OnFill(c, side, q) == LateFill(c, q) \/ ApplyFill(c, side, q)

-----------------------------------------------------------------------------
(* _reconcile: diff() and one response per mismatch, in diff()'s order.     *)

\* Bug: only a router that thinks it is open is checked for a stop.
BugStopCheckedIfOpen ==
  /\ pc = "missing_stop"
  /\ pc' = IF row.state = "OPEN" /\ loc.snap.pos # 0 /\ loc.snap.stop = "none"
             THEN "missing_place" ELSE "size"
  /\ UNCHANGED <<rt, row, orders, loc>>

CheckMissingStop ==
  /\ pc = "missing_stop"
  /\ pc' = IF loc.snap.pos # 0 /\ loc.snap.stop = "none" THEN "missing_place" ELSE "size"
  /\ UNCHANGED <<rt, row, orders, loc>>

\* Bug: a position nobody knows about locally is no mismatch.
BugSkipsFlatRows == row.state \notin Pending /\ row.size # 0 /\ row.size # loc.snap.pos

SizeMismatch == row.state \notin Pending /\ row.size # loc.snap.pos

CheckSize ==
  /\ pc = "size"
  /\ IF SizeMismatch THEN Halt ELSE UNCHANGED <<rt, row>>
  /\ pc' = IF loc.snap.pos = 0 /\ loc.snap.stop # "none" THEN "orphan_cancel" ELSE "unknown_orders"
  /\ UNCHANGED <<orders, loc>>

\* On the venue's book, but not one of our orders that may still rest.
UnknownOrders == {c \in loc.snap.open : ~HasRow(c) \/ orders[c].status \in Terminal}

OrderCancelled(c) ==
  /\ pc = "unknown_orders" /\ c \in UnknownOrders
  /\ loc' = [loc EXCEPT !.snap.open = @ \ {c}]
  /\ UNCHANGED <<rt, row, orders, pc>>

ReconcileEnds ==
  /\ pc = "unknown_orders" /\ UnknownOrders = {}
  /\ Idle
  /\ UNCHANGED <<rt, row, orders>>

-----------------------------------------------------------------------------
(* The process: recover(), --clear-halt, death and restart.                 *)

\* Bug: a restarted process counts from zero.
BugSeqRestarts(n) == n = 0

\* load_local: seq is the highest number among the persisted order ids.
LastSeq(n) == n \in {0} \cup {c \in Cids : HasRow(c)} /\ \A c \in Cids : HasRow(c) => c <= n

RecoveredRouter(n) ==
  [state |-> IF row.state \in Frozen THEN row.state ELSE Settled(loc.snap.pos),
   size  |-> loc.snap.pos,
   stop  |-> IF loc.snap.pos = 0 THEN "none" ELSE loc.snap.stop,
   pend  |-> NoCid,
   seq   |-> IF row.state = "none" THEN 0 ELSE n]

\* Exchange = truth.  prior keeps the row's state for the order loop.
Recover ==
  /\ pc = "recover"
  /\ \E n \in 0..MaxSeq :
       /\ LastSeq(n)
       /\ IF loc.snap.pos # 0 /\ loc.snap.stop = "none"
            THEN rt' = RecoveredRouter(n) /\ pc' = "recover_place" /\ UNCHANGED row
            ELSE Commit(RecoveredRouter(n)) /\ pc' = "recover_orders"
  /\ loc' = [loc EXCEPT !.prior = row.state]
  /\ UNCHANGED orders

RecoverOrders ==
  LET inflight == {c \in Cids : orders[c].status \in InFlight}
      resting  == inflight \cap loc.snap.open
  IN /\ pc = "recover_orders"
     /\ orders' = [c \in Cids |->
          IF c \in resting THEN [orders[c] EXCEPT !.status = "adopted"]
          ELSE IF c \in inflight THEN [orders[c] EXCEPT !.status = "abandoned"]
          ELSE orders[c]]
     /\ \/ /\ resting = {} \/ loc.prior \notin Pending
           /\ UNCHANGED <<rt, row>>
        \/ /\ loc.prior \in Pending
           /\ \E c \in resting :   \* adopt_pending, the last one sent winning
                /\ \A d \in resting : d <= c
                /\ Commit([rt EXCEPT !.pend = c, !.state = loc.prior])
     /\ pc' = "recovered"
     /\ loc' = NoLocals

Start == pc = "recovered" /\ Idle /\ UNCHANGED <<rt, row, orders>>

\* The operator started the process with --clear-halt.
ClearHalt ==
  /\ pc = "recovered"
  /\ Commit([rt EXCEPT !.state = Settled(rt.size)])
  /\ Idle
  /\ UNCHANGED orders

\* A kill, an exception out of a loop (run_until_first_exits) or a RecoveryHalt.
Die ==
  /\ pc # "down"
  /\ pc' = "down" /\ rt' = FreshRouter /\ loc' = NoLocals
  /\ UNCHANGED <<row, orders>>

Restart == pc = "down" /\ pc' = "boot_snap" /\ UNCHANGED <<rt, row, orders, loc>>

RouterInit ==
  /\ rt = FreshRouter /\ row = NoRow
  /\ orders = [c \in Cids |-> NoOrder]
  /\ pc = "down" /\ loc = NoLocals

-----------------------------------------------------------------------------
Pcs == SnapshotPcs \cup PlacePcs \cup CancelPcs \cup
       {"down", "idle", "bar", "mark_pending", "submit", "ack", "landed", "halt_closed",
        "check_pending", "on_fast", "adopt", "adopted", "missing_stop", "size",
        "unknown_orders", "recover", "recover_orders", "recovered"}

Routers   == [state: States, size: Int, stop: Stops, pend: Cids \cup {NoCid},
              seq: Nat]
Rows      == [state: States \cup {"none"}, size: Int, stop: Stops]
OrderRows == [side: Sides, qty: Nat, reduce: BOOLEAN, status: Statuses \cup {"none"}, filled: Nat]
Snapshots == [pos: Int, stop: Stops, open: SUBSET Cids, liq: BOOLEAN]
Locals    == [cid: Cids \cup {NoCid}, att: {0, 1, 2}, before: Int, prior: States \cup {"none"},
              closing: BOOLEAN, why: {"none", "error", "timeout", "late"}, snap: Snapshots]

RouterTypeOK ==
  /\ rt \in Routers /\ row \in Rows /\ orders \in [Cids -> OrderRows]
  /\ pc \in Pcs /\ loc \in Locals

-----------------------------------------------------------------------------
(* The inductive invariant, in named parts.                                 *)

\* The process has not read the database yet.
Starting == pc \in {"down", "boot_snap", "recover"}

\* The database is ahead of the router or the router ahead of the database.
Unsaved == Starting \/ pc \in {"recover_place", "adopt_place", "flat_cancel"}

\* The size has been replaced and the state is about to follow.
Unsettled == Starting \/ pc \in {"adopt_place", "adopted", "flat_cancel"}

Sending == pc \in {"mark_pending", "submit", "ack", "landed_snap", "landed"}

SeqCoversOrders == ~Starting => \A c \in Cids : HasRow(c) => c <= rt.seq

RowKnown ==
  /\ row.state = "none" => \A c \in Cids : ~HasRow(c)
  /\ row.state = "none" => Starting \/ pc = "recover_place"

SendingHasRow ==
  /\ Sending => HasRow(loc.cid) /\ loc.why = "none"
  /\ pc = "mark_pending" => rt.state \notin Pending
  /\ Sending /\ pc # "mark_pending" =>
       /\ loc.prior \in States \ Pending
       /\ loc.prior = "FLAT" => rt.size = 0
       /\ loc.prior = "OPEN" => rt.size # 0

RowSaved == ~Unsaved => row = Image(rt)

PendingNamed ==
  /\ rt.pend # NoCid => HasRow(rt.pend)
  /\ ~Unsettled /\ rt.state \in Pending => rt.pend # NoCid

SizeKnown ==
  /\ ~Unsettled /\ rt.state = "FLAT" => rt.size = 0
  /\ ~Unsettled /\ rt.state = "OPEN" => rt.size # 0
  /\ pc = "flat_cancel" => rt.size = 0

\* Only an error leaves _adopt without settling, and it has halted already.
ErrorHalted == loc.why = "error" => ~Starting /\ rt.state \in Frozen

SameOrder(a, b) == a.side = b.side /\ a.qty = b.qty /\ a.reduce = b.reduce

\* An action keeps every orders row that exists, for the same order.
RowsKept == \A c \in Cids : HasRow(c) => HasRow(c)' /\ SameOrder(orders[c]', orders[c])

RouterInv ==
  /\ SeqCoversOrders /\ RowKnown /\ SendingHasRow /\ RowSaved
  /\ PendingNamed /\ SizeKnown /\ ErrorHalted
=============================================================================
