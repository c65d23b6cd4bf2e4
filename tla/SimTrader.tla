----------------------------- MODULE SimTrader ------------------------------
(***************************************************************************)
(* The paper trader: Router on SimExecutor (sim_executor.py) under the     *)
(* loops of scripts/run_trader.py.                                         *)
(*                                                                         *)
(* SimExecutor answers synchronously: no call suspends, so nothing runs    *)
(* between a call and its answer.  Its account is saved to SQLite by every *)
(* call that changes it; its event queue is only in memory, and a process  *)
(* that dies loses it.  The test-only failure injection is left out.       *)
(***************************************************************************)
EXTENDS Router, Sequences

CONSTANTS MaxCrash,  \* bound: how many times the process dies
          MaxFires,  \* bound: how many stops fire
          Kills      \* what kill_switch.evaluate can answer

ASSUME SimAssumption == /\ MaxCrash \in Nat /\ MaxFires \in Nat
                        /\ Kills \subseteq {"run", "pause", "shutdown"}

VARIABLES pos,      \* _pos: the paper position (saved)
          vstop,    \* _stops: the paper stop (saved)
          queue,    \* _queue: events not yet pumped (in memory)
          side,     \* the strategy's own _position (in memory)
          crashes, fires

simVars == <<pos, vstop, queue, side, crashes, fires>>
vars == <<routerVars, simVars>>

-----------------------------------------------------------------------------
\* snapshot(): nothing ever rests on the sim's book.
SimSnapshot == [pos |-> pos, stop |-> vstop, open |-> {}, liq |-> FALSE]

Snapshot == SnapshotReturns(SimSnapshot) /\ UNCHANGED simVars

\* submit(): a reduce-only order that would not reduce is refused; any other
\* fills at once and queues its update and its fill.
SimRefuses(o) == o.reduce /\ (pos = 0 \/ (pos > 0) = (o.side = "buy"))

Submit ==
  LET o == orders[loc.cid]
      q == IF o.reduce /\ Magnitude(pos) < o.qty THEN Magnitude(pos) ELSE o.qty
  IN /\ SubmitCalled
     /\ IF SimRefuses(o)
          THEN UNCHANGED <<pos, queue>>
          ELSE /\ pos' = pos + Signed(o.side, q)
               /\ queue' = queue \o <<[kind |-> "update", cid |-> loc.cid, side |-> o.side, qty |-> q],
                                      [kind |-> "fill",   cid |-> loc.cid, side |-> o.side, qty |-> q]>>
     /\ UNCHANGED <<vstop, side, crashes, fires>>

\* The answer submit() returned: accepted exactly when it queued events.
SubmitFilled == \E i \in 1..Len(queue) : queue[i].cid = loc.cid

SubmitAnswered ==
  /\ \/ SubmitFilled /\ AckAccepted
     \/ ~SubmitFilled /\ AckRejected
  /\ UNCHANGED simVars

\* The pump takes the next event (run_event_pump, dispatch).
Pump ==
  /\ queue # <<>>
  /\ LET ev == Head(queue)
     IN IF ev.kind = "update" THEN OnOrderUpdate(ev.cid, "filled") ELSE OnFill(ev.cid, ev.side, ev.qty)
  /\ queue' = Tail(queue)
  /\ UNCHANGED <<pos, vstop, side, crashes, fires>>

-----------------------------------------------------------------------------
\* The process is killed, or a loop raises.
Crash ==
  /\ crashes < MaxCrash
  /\ Die
  /\ crashes' = crashes + 1
  /\ queue' = <<>> /\ side' = 0
  /\ UNCHANGED <<pos, vstop, fires>>

\* The process is killed inside a call whose effect on the account was saved.
DieAfterSave ==
  /\ crashes < MaxCrash
  /\ Die
  /\ crashes' = crashes + 1
  /\ queue' = <<>> /\ side' = 0

PlaceStop ==
  /\ pc \in PlacePcs
  /\ vstop' = WantedStop
  /\ \/ StopPlaced /\ UNCHANGED <<queue, side, crashes>>
     \/ DieAfterSave
  /\ UNCHANGED <<pos, fires>>

\* on_flatten: the strategy is told that the position is gone.
SideAfterCancel == IF pc \in {"flat_cancel", "settle_cancel"} THEN 0 ELSE side

CancelStop ==
  /\ pc \in CancelPcs
  /\ vstop' = "none"
  /\ \/ StopCancelled /\ side' = SideAfterCancel /\ UNCHANGED <<queue, crashes>>
     \/ DieAfterSave
  /\ UNCHANGED <<pos, fires>>

\* Bug: the stop's fill goes through the event queue like any other.
BugStopFillQueued ==
  /\ pc = "idle" /\ fires < MaxFires
  /\ vstop # "none" /\ pos # 0
  /\ pos' = 0 /\ vstop' = "none" /\ fires' = fires + 1
  /\ queue' = Append(queue, [kind |-> "fill", cid |-> Venue, side |-> ClosingSide(pos),
                             qty |-> Magnitude(pos)])
  /\ UNCHANGED <<routerVars, side, crashes>>

\* fast_loop: poll_fills (check_triggers) fires the stop and its fill is
\* dispatched in the same task, before anything can look at the account.
StopFires ==
  /\ pc = "idle" /\ fires < MaxFires
  /\ vstop # "none" /\ pos # 0
  /\ pos' = 0 /\ vstop' = "none" /\ fires' = fires + 1
  /\ \/ OnFill(Venue, ClosingSide(pos), Magnitude(pos)) /\ UNCHANGED <<queue, side, crashes>>
     \/ DieAfterSave

\* strategy.target(): asked for on a whole bar after the warm-up by a router that
\* is neither frozen nor waiting, and remembered whatever becomes of the entry.
SideAfterBar(bar, target) == IF bar = "ok" /\ rt.state \in {"FLAT", "OPEN"} THEN target ELSE side

\* bar_loop, fast_loop and reconcile_loop.
Bar ==
  /\ \/ StartBar /\ UNCHANGED side
     \/ \E kill \in Kills \ {"shutdown"}, bar \in Bars, target \in Targets :
          /\ \/ \E qty \in -1..MaxQty : BarEnter(kill, bar, target, qty) \/ BarNoOrder(kill, bar, target, qty)
             \/ BarExit(kill, bar, target)
          /\ side' = SideAfterBar(bar, target)
     \/ "shutdown" \in Kills /\ BarShutdown /\ UNCHANGED side
  /\ UNCHANGED <<pos, vstop, queue, crashes, fires>>

Fast ==
  /\ \/ StartFast \/ NothingPending(FALSE)
     \/ \E due \in BOOLEAN : FastExit(due) \/ FastNothing(due)
  /\ UNCHANGED simVars

Reconcile ==
  /\ StartReconcile \/ CheckMissingStop \/ CheckSize \/ ReconcileEnds
  /\ UNCHANGED simVars

Send == (MarkPending \/ HaltClosed) /\ UNCHANGED simVars

Sign(n) == IF n > 0 THEN 1 ELSE IF n < 0 THEN -1 ELSE 0

\* Bug: the strategy is left to find out.
BugNotTold == side

\* _recover_strategies: on_recover, unless the router is flat.
RecoveredSide == IF rt.size # 0 THEN Sign(rt.size) ELSE side

\* The pump drains the queue before an order can be given up on, so a late fill
\* and the adoption that answers it never happen here: LiveTrader has them.
Startup ==
  \/ (Restart \/ Recover \/ RecoverOrders) /\ UNCHANGED simVars
  \/ Start /\ side' = RecoveredSide /\ UNCHANGED <<pos, vstop, queue, crashes, fires>>

OperatorClears == ClearHalt /\ side' = RecoveredSide /\ UNCHANGED <<pos, vstop, queue, crashes, fires>>

\* Everything but the operator.
Step == \/ Snapshot \/ Submit \/ SubmitAnswered \/ Pump \/ Crash \/ PlaceStop \/ CancelStop
        \/ StopFires \/ Bar \/ Fast \/ Reconcile \/ Send \/ Startup

Next == Step \/ OperatorClears

Init ==
  /\ RouterInit
  /\ pos = 0 /\ vstop = "none" /\ queue = <<>> /\ side = 0 /\ crashes = 0 /\ fires = 0

Spec == Init /\ [][Next]_vars

-----------------------------------------------------------------------------
\* Nobody is acting and every event has been handled.
Quiet == pc = "idle" /\ queue = <<>>

\* reconcile_now never halts a router over a size mismatch that is only a fill
\* still on its way: whenever diff() reports one, the router is frozen already.
\* (A stop's fill is dispatched in the poll that fires it, a submitted order's
\* fill is covered by the PENDING state.)
NoPhantomHalt == pc = "size" /\ SizeMismatch => rt.state \in Frozen

\* With no handler running and no event queued, the router, its row and the
\* account hold the same position, and nothing is left pending.
BooksAgree == Quiet => rt.size = pos /\ row = Image(rt) /\ rt.state \notin Pending

\* With no handler running and no event queued, a position has a stop and the
\* router knows which, wherever the process died before.  Recovery takes over
\* any stop it finds, so it may be the stop of the side held before.
GuardedWhenQuiet == Quiet /\ pos # 0 => vstop # "none" /\ rt.stop = vstop
=============================================================================
