----------------------------- MODULE LiveTrader -----------------------------
(***************************************************************************)
(* The live trader: Router on LiveExecutor (live_executor.py) and on the   *)
(* perps venue behind it.                                                  *)
(*                                                                         *)
(* The venue and the network are external: they are modelled from what     *)
(* LiveExecutor, the router and recovery ask of them.  A submitted order   *)
(* is a message that arrives once, late or never; the venue knows a client *)
(* order id once (a second copy is a duplicate_order); an order rests,     *)
(* fills in parts and ends; stops and liquidations close the position on   *)
(* their own; account events come in any order and get lost when the       *)
(* websocket does or the process is down.  A snapshot is two REST reads,   *)
(* with the venue moving in between.                                       *)
(***************************************************************************)
EXTENDS Router

CONSTANTS MaxCrash,  \* bound: how many times the process dies
          MaxCloses, \* bound: how many times the venue closes the position
          Kills      \* what kill_switch.evaluate can answer

ASSUME LiveAssumption == /\ MaxCrash \in Nat /\ MaxCloses \in Nat
                         /\ Kills \subseteq {"run", "pause", "shutdown"}

VARIABLES net,      \* order requests on their way to the venue
          vord,     \* the venue's orders by client order id
          vpos,     \* the venue's position
          vstop,    \* the venue's position stop
          vliq,     \* the account is in liquidation
          events,   \* account events not yet delivered
          half,     \* a snapshot's fetch_portfolio, before its fetch_open_orders
          crashes, closes

venueVars == <<net, vord, vpos, vstop, vliq, events, closes>>
liveVars  == <<net, vord, vpos, vstop, vliq, events, half, crashes, closes>>
vars      == <<routerVars, liveVars>>

-----------------------------------------------------------------------------
NoHalf   == [ready |-> FALSE, pos |-> 0, liq |-> FALSE]
NotSeen  == [status |-> "none", side |-> "buy", qty |-> 0, reduce |-> FALSE, filled |-> 0]

\* The request _send builds.  A retry sends it again under the same id, so two
\* copies in flight are as good as one that arrives at either time.
Request == [cid |-> loc.cid, side |-> orders[loc.cid].side,
            qty |-> orders[loc.cid].qty, reduce |-> orders[loc.cid].reduce]

FillEvent(c, n, side, q) == [kind |-> "fill", cid |-> c, n |-> n, side |-> side, qty |-> q]
UpdateEvent(c, st)       == [kind |-> st, cid |-> c, n |-> 0, side |-> "buy", qty |-> 0]

\* Each event reaches the session or is lost; nobody listens while the process
\* is down.
Emit(evs) == \E got \in SUBSET evs :
               /\ pc = "down" => got = {}
               /\ events' = events \cup got

-----------------------------------------------------------------------------
(* LiveReader.snapshot: fetch_portfolio, then fetch_open_orders.            *)
FetchPortfolio == half' = [ready |-> TRUE, pos |-> vpos, liq |-> vliq]

\* A loop takes the lock; its snapshot is the first thing it awaits.
BarCloses     == StartBar       /\ FetchPortfolio /\ UNCHANGED <<venueVars, crashes>>
FastTick      == StartFast      /\ FetchPortfolio /\ UNCHANGED <<venueVars, crashes>>
ReconcileTick == StartReconcile /\ FetchPortfolio /\ UNCHANGED <<venueVars, crashes>>

\* A snapshot in the middle of a handler, or at startup.
StartSnapshot ==
  /\ pc \in SnapshotPcs /\ ~half.ready
  /\ FetchPortfolio
  /\ UNCHANGED <<routerVars, venueVars, crashes>>

FetchOpenOrders ==
  /\ half.ready
  /\ SnapshotReturns([pos |-> half.pos, liq |-> half.liq, stop |-> vstop,
                      open |-> {c \in Cids : vord[c].status = "open"}])
  /\ half' = NoHalf
  /\ UNCHANGED <<venueVars, crashes>>

(* LiveExecutor.submit: the gate is re-read, then the request goes out.     *)
Submit ==
  /\ SubmitCalled
  /\ net' = net \cup {Request}
  /\ UNCHANGED <<vord, vpos, vstop, vliq, events, half, crashes, closes>>

\* GateClosed, a transport error, or the snapshot after a timeout failing.
SubmitFails == SubmitRaised /\ half' = NoHalf /\ UNCHANGED <<venueVars, crashes>>

\* The venue's answer to this attempt.  An order that ended without filling is
\* answered "rejected" unless the answer was written before it ended; to a second
\* attempt the answer may be duplicate_order, which submit takes for accepted.
Answered == pc = "ack" /\ Request \notin net

ReplyAccepted ==
  /\ Answered
  /\ vord[loc.cid].status \in {"open", "filled", "cancelled"} \/ loc.att = 2
  /\ AckAccepted
  /\ UNCHANGED liveVars

ReplyRejected ==
  /\ Answered /\ vord[loc.cid].status \in {"refused", "cancelled"}
  /\ AckRejected
  /\ UNCHANGED liveVars

ReplyTimesOut == AckTimeout /\ UNCHANGED liveVars

(* The other calls.  A process killed inside one may leave its effect.      *)
Dies ==
  /\ crashes < MaxCrash
  /\ Die
  /\ crashes' = crashes + 1
  /\ events' = {} /\ half' = NoHalf

Crash == Dies /\ UNCHANGED <<net, vord, vpos, vstop, vliq, closes>>

PlaceStop ==
  /\ pc \in PlacePcs
  /\ vstop' = WantedStop
  /\ (StopPlaced /\ UNCHANGED <<events, half, crashes>>) \/ Dies
  /\ UNCHANGED <<net, vord, vpos, vliq, closes>>

CancelStop ==
  /\ pc \in CancelPcs
  /\ vstop' = "none"
  /\ (StopCancelled /\ UNCHANGED <<events, half, crashes>>) \/ Dies
  /\ UNCHANGED <<net, vord, vpos, vliq, closes>>

CancelOrder(c) ==
  /\ OrderCancelled(c)
  /\ IF vord[c].status = "open"
       THEN vord' = [vord EXCEPT ![c].status = "cancelled"] /\ Emit({UpdateEvent(c, "cancelled")})
       ELSE UNCHANGED <<vord, events>>
  /\ UNCHANGED <<net, vpos, vstop, vliq, half, crashes, closes>>

(* The event pump.                                                          *)
Deliver(ev) ==
  /\ ev \in events
  /\ IF ev.kind = "fill" THEN OnFill(ev.cid, ev.side, ev.qty) ELSE OnOrderUpdate(ev.cid, ev.kind)
  /\ events' = events \ {ev}
  /\ UNCHANGED <<net, vord, vpos, vstop, vliq, half, crashes, closes>>

-----------------------------------------------------------------------------
(* The venue.                                                               *)
CanReduce(o) == o.reduce => (vpos > 0 /\ o.side = "sell") \/ (vpos < 0 /\ o.side = "buy")

\* A request arrives: the first copy of an id counts, a duplicate changes nothing.
Arrive(m) ==
  /\ m \in net
  /\ net' = net \ {m}
  /\ vord' = IF vord[m.cid].status # "none" THEN vord
             ELSE [vord EXCEPT ![m.cid] =
               [status |-> IF m.qty > 0 /\ CanReduce(m) THEN "open" ELSE "refused",
                side |-> m.side, qty |-> m.qty, reduce |-> m.reduce, filled |-> 0]]
  /\ UNCHANGED <<routerVars, vpos, vstop, vliq, events, half, crashes, closes>>

\* An open order fills by q; a reduce-only one never past the position.
Match(c, q) ==
  LET o == vord[c]
      filled == o.filled + q
  IN /\ o.status = "open" /\ filled <= o.qty
     /\ CanReduce(o) /\ (o.reduce => q <= Magnitude(vpos))
     /\ vpos' = vpos + Signed(o.side, q)
     /\ vord' = [vord EXCEPT ![c].filled = filled,
                             ![c].status = IF filled = o.qty THEN "filled" ELSE @]
     /\ Emit({FillEvent(c, filled, o.side, q)} \cup
             (IF filled = o.qty THEN {UpdateEvent(c, "filled")} ELSE {}))
     /\ UNCHANGED <<routerVars, net, vstop, vliq, half, crashes, closes>>

\* The rest of an immediate-or-cancel order is cancelled.
Expire(c) ==
  /\ vord[c].status = "open"
  /\ vord' = [vord EXCEPT ![c].status = "cancelled"]
  /\ Emit({UpdateEvent(c, "cancelled")})
  /\ UNCHANGED <<routerVars, net, vpos, vstop, vliq, half, crashes, closes>>

ClosedByVenue ==
  /\ vpos # 0 /\ closes < MaxCloses
  /\ vpos' = 0 /\ closes' = closes + 1
  /\ Emit({FillEvent(Venue, closes + 1, ClosingSide(vpos), Magnitude(vpos))})

StopFires ==
  /\ vstop # "none" /\ ClosedByVenue
  /\ vstop' = "none"
  /\ UNCHANGED <<routerVars, net, vord, vliq, half, crashes>>

LiquidationStarts ==
  /\ vpos # 0 /\ ~vliq /\ closes < MaxCloses
  /\ vliq' = TRUE
  /\ UNCHANGED <<routerVars, net, vord, vpos, vstop, events, half, crashes, closes>>

LiquidationEnds ==
  /\ vliq /\ vliq' = FALSE
  /\ ClosedByVenue \/ (vpos = 0 /\ UNCHANGED <<vpos, closes, events>>)
  /\ UNCHANGED <<routerVars, net, vord, vstop, half, crashes>>

\* A router step that calls nobody commutes with every venue step, so the venue
\* only needs to move while the router waits.
Waiting == pc \in SnapshotPcs \cup PlacePcs \cup CancelPcs \cup {"ack", "unknown_orders", "idle", "down"}

VenueStep ==
  /\ Waiting
  /\ \/ \E m \in net : Arrive(m)
     \/ \E c \in Cids : Expire(c) \/ \E q \in 1..MaxQty : Match(c, q)
     \/ StopFires \/ LiquidationStarts \/ LiquidationEnds

-----------------------------------------------------------------------------
(* The loops of run_trader, and the rest of the running handler.            *)
Bar ==
  /\ \/ \E kill \in Kills \ {"shutdown"}, bar \in Bars, target \in Targets :
          \/ \E qty \in -1..MaxQty : BarEnter(kill, bar, target, qty) \/ BarNoOrder(kill, bar, target, qty)
          \/ BarExit(kill, bar, target)
     \/ "shutdown" \in Kills /\ BarShutdown
  /\ UNCHANGED liveVars

CheckPending ==
  /\ \E expired \in BOOLEAN : PendingTimesOut(expired) \/ NothingPending(expired)
  /\ UNCHANGED liveVars

Fast ==
  /\ FastLiquidated \/ \E due \in BOOLEAN : FastExit(due) \/ FastNothing(due)
  /\ UNCHANGED liveVars

Reconcile ==
  \/ (CheckMissingStop \/ CheckSize \/ ReconcileEnds) /\ UNCHANGED liveVars
  \/ \E c \in Cids : CancelOrder(c)

Send == (MarkPending \/ LandedAfterAll \/ Retry \/ GiveUp \/ HaltClosed) /\ UNCHANGED liveVars

AdoptSize == (Adopt \/ AdoptedAfterError \/ Settle) /\ UNCHANGED liveVars

Startup == (Restart \/ Recover \/ RecoverOrders \/ Start) /\ UNCHANGED liveVars

OperatorClears == ClearHalt /\ UNCHANGED liveVars

\* The running handler, or the starting process, goes on.
Proceed ==
  \/ StartSnapshot \/ FetchOpenOrders
  \/ Submit \/ SubmitFails \/ ReplyAccepted \/ ReplyRejected \/ ReplyTimesOut
  \/ PlaceStop \/ CancelStop
  \/ Bar \/ CheckPending \/ Fast \/ Reconcile \/ Send \/ AdoptSize \/ Startup

Next ==
  \/ BarCloses \/ FastTick \/ ReconcileTick
  \/ \E ev \in events : Deliver(ev)
  \/ Proceed \/ OperatorClears \/ Crash \/ VenueStep

Init ==
  /\ RouterInit
  /\ net = {} /\ vord = [c \in Cids |-> NotSeen]
  /\ vpos = 0 /\ vstop = "none" /\ vliq = FALSE
  /\ events = {} /\ half = NoHalf /\ crashes = 0 /\ closes = 0

Spec == Init /\ [][Next]_vars

\* The handler that has the lock runs on; fast_loop and reconcile_loop wake up
\* every few seconds and the lock is first come, first served; wall-clock time
\* passes, so a pending order that is looked at again and again gets too old.
PendingExpires == PendingTimesOut(TRUE) /\ UNCHANGED liveVars

Fairness ==
  /\ WF_vars(Proceed)
  /\ SF_vars(FastTick) /\ SF_vars(ReconcileTick) /\ SF_vars(PendingExpires)

FairSpec == Spec /\ Fairness

-----------------------------------------------------------------------------
Requests    == [cid: Cids, side: Sides, qty: Nat, reduce: BOOLEAN]
VenueOrders == [status: {"none", "open", "filled", "cancelled", "refused"},
                side: Sides, qty: Nat, reduce: BOOLEAN, filled: Nat]
Fills       == [kind: {"fill"}, cid: Cids \cup {Venue}, n: Nat, side: Sides, qty: Nat]
Updates     == [kind: {"filled", "cancelled"}, cid: Cids, n: Nat, side: Sides, qty: Nat]

\* Every variable keeps its type, whatever the venue and the network do.
TypeOK ==
  /\ RouterTypeOK
  /\ net \in SUBSET Requests /\ vord \in [Cids -> VenueOrders]
  /\ vpos \in Int /\ vstop \in Stops /\ vliq \in BOOLEAN
  /\ events \in SUBSET (Fills \cup Updates)
  /\ half \in [ready: BOOLEAN, pos: Int, liq: BOOLEAN]
  /\ crashes \in 0..MaxCrash /\ closes \in 0..MaxCloses

\* An order on its way or known to the venue has its orders row, with the same
\* side, size and reduce-only flag: the row is committed before submit(), and a
\* client order id is never used for a second order, restarts included.
RowsBeforeSends ==
  /\ \A m \in net : HasRow(m.cid) /\ SameOrder(m, orders[m.cid])
  /\ \A c \in Cids : vord[c].status # "none" => HasRow(c) /\ SameOrder(vord[c], orders[c])

\* The order a row, a request or the venue's record of it is about.
OrderOf(o) == [side |-> o.side, qty |-> o.qty, reduce |-> o.reduce]
OrderKinds == [side: Sides, qty: Nat, reduce: BOOLEAN]

Asked == {<<c, OrderOf(orders[c])>> : c \in {d \in Cids : HasRow(d)}}
Taken == {<<c, OrderOf(vord[c])>> : c \in {d \in Cids : vord[d].status # "none"}}

Ledger == INSTANCE OrderLedger WITH
            Ids <- Cids, Orders <- OrderKinds, asked <- Asked, taken <- Taken

\* The trader, its database, the network and the venue together are an order
\* ledger: one order per id through every retry, timeout, death and restart, in
\* the database before it is at the venue, and taken at most once (_send).
LedgerKept == Ledger!LedgerSpec

\* An orders row is never deleted and never becomes the row of a different order,
\* so an event that names it is always counted against the order it belongs to:
\* the numbering survives restarts (load_local, _send).
RowsNeverRewritten == [][RowsKept]_vars

\* Whenever the lock is free, the positions_local row is the router: a process
\* killed there loses nothing it had decided.
RowInSync == pc = "idle" => row = Image(rt)

\* Whenever the lock is free, a FLAT router holds nothing and an OPEN one holds
\* something, however fills, cancels and adoptions interleave.
StateMatchesSize == pc = "idle" => (rt.state = "FLAT" => rt.size = 0) /\ (rt.state = "OPEN" => rt.size # 0)

\* Whenever the lock is free, a pending router knows which order it waits for,
\* and that order has a row for check_pending to time out.
PendingHasOrder == pc = "idle" /\ rt.state \in Pending => HasRow(rt.pend)

\* Whenever the lock is free, the router, its row and its order agree: all that
\* the next handler, or the next process, starts from (order_router.py).
ConsistentWhenFree == RowInSync /\ StateMatchesSize /\ PendingHasOrder

\* The inductive invariant of the proofs: the types, the router's parts (Router)
\* and the rows behind the venue's orders.
IInv == TypeOK /\ RouterInv /\ RowsBeforeSends

\* A pending order never blocks the router for good, even if the order, its
\* answer and its events are all lost: PENDING_TIMEOUT_S settles it.
PendingEnds == rt.state \in Pending ~> rt.state \notin Pending

\* In the end the router either holds the size the venue holds or is frozen for
\* the operator, whatever events were lost: reconcile_now sees to it.
Converges == <>[](rt.state \in Frozen \/ rt.size = vpos)

\* A venue position without a stop does not stay that way: the entry's own
\* replace_stop, recovery or reconcile_now places one, or the position closes.
GuardReturns == vpos # 0 /\ vstop = "none" ~> vpos = 0 \/ vstop # "none"
=============================================================================
